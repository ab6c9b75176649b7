-------------------------- MODULE SteampipeService --------------------------
(***************************************************************************)
(* POST /execute of the Steampipe service and run_query, its only client.  *)
(* A request waits for the semaphore, takes one of as many install-dir     *)
(* slots, writes its credentials there, runs one subprocess under a        *)
(* timeout, wipes the files and puts the slot back.                        *)
(*                                                                         *)
(* Grain.  The service is one asyncio process: what a handler does between *)
(* two awaits that can suspend is one step.  Time passes in ticks, and a   *)
(* handler that can continue does so before the next tick.                 *)
(***************************************************************************)
EXTENDS Integers, Sequences, FiniteSets

CONSTANTS
  Requests,      \* calls of run_query, each for an account of its own
  RoleRequests,  \* those whose account uses a cross-account role
  Slots,         \* install-dirs, as many as MAX_CONCURRENT_QUERIES
  NoRequest, NoSlot,
  QueryTimeout,  \* QUERY_TIMEOUT_SECONDS of the service, in ticks
  ClientTimeout, \* STEAMPIPE_CLIENT_TIMEOUT_SECONDS, in ticks
  MaxRestarts,   \* bound: restarts of the service
  MaxFaults      \* bound: failures to restore a wiped slot

ASSUME ServiceAssumption ==
  /\ RoleRequests \subseteq Requests
  /\ IsFiniteSet(Slots) /\ IsFiniteSet(Requests)
  /\ NoRequest \notin Requests
  /\ NoSlot \notin Slots
  /\ QueryTimeout \in Nat \ {0}
  /\ ClientTimeout \in Nat \ {0}
  /\ MaxRestarts \in Nat
  /\ MaxFaults \in Nat

VARIABLES
  phase,    \* where the handler of each request is
  free,     \* value of the semaphore
  waiters,  \* handlers waiting for the semaphore, in order
  ready,    \* _pool is set
  pool,     \* slots in the queue
  slot,     \* the slot each handler works in
  files,    \* whose configuration and AWS profile files lie in each slot
  procs,    \* live subprocesses, with the slot they run in
  ran,      \* ticks since the subprocess of a request started
  client,   \* what run_query returned or raised
  age,      \* ticks since a request was sent
  restarts, faults

slotVars == <<ready, pool, slot, files, procs>>
vars == <<phase, free, waiters, ready, pool, slot, files, procs, ran,
          client, age, restarts, faults>>

Phases  == {"idle", "queued", "granted", "starting", "running", "killed", "done"}
InSlot  == {"starting", "running", "killed"}
Waiting == {"queued", "granted"}
Outcomes == {"unsent", "waiting", "rows", "SteampipeError", "SteampipeQueryTimeout", "ValueError"}
Files   == [config : Requests \cup {NoRequest}, aws : Requests \cup {NoRequest}]
NoFiles == [config |-> NoRequest, aws |-> NoRequest]

Capacity == Cardinality(Slots)
In(p) == {q \in Requests : phase[q] = p}

-----------------------------------------------------------------------------
Init ==
  /\ phase = [q \in Requests |-> "idle"]
  /\ free = Capacity
  /\ waiters = <<>>
  /\ ready = FALSE
  /\ pool = {}
  /\ slot = [q \in Requests |-> NoSlot]
  /\ files = [s \in Slots |-> NoFiles]
  /\ procs = {}
  /\ ran = [q \in Requests |-> 0]
  /\ client = [q \in Requests |-> "unsent"]
  /\ age = [q \in Requests |-> 0]
  /\ restarts = 0
  /\ faults = 0

(* The client                                                              *)

\* What run_query makes of a response.  Its log line parses every body as
\* JSON; the 500 of an unhandled exception is plain text.
Outcome(status) ==
  CASE status = 200 -> "rows"
    [] status = 504 -> "SteampipeQueryTimeout"
    [] status = 500 -> "ValueError"
    [] OTHER        -> "SteampipeError"

Respond(q, status) ==
  client' = [client EXCEPT ![q] = IF @ = "waiting" THEN Outcome(status) ELSE @]

\* httpx.TimeoutException.  The service does not hear of it.
ClientTimesOut(q) ==
  /\ client[q] = "waiting" /\ age[q] = ClientTimeout
  /\ client' = [client EXCEPT ![q] = "SteampipeQueryTimeout"]
  /\ UNCHANGED <<phase, free, waiters, slotVars, ran, age, restarts, faults>>

\* httpx.RequestError: the connection breaks, the handler runs on.
ConnectionLost(q) ==
  /\ client[q] = "waiting"
  /\ client' = [client EXCEPT ![q] = "SteampipeError"]
  /\ UNCHANGED <<phase, free, waiters, slotVars, ran, age, restarts, faults>>

-----------------------------------------------------------------------------
(* The semaphore                                                           *)

\* validate_sql turns the statement down: 422.
Reject(q) ==
  /\ phase[q] = "idle"
  /\ phase' = [phase EXCEPT ![q] = "done"]
  /\ client' = [client EXCEPT ![q] = Outcome(422)]
  /\ UNCHANGED <<free, waiters, slotVars, ran, age, restarts, faults>>

\* Slip: the handler goes on at capacity, as if warning about it were enough.
ArriveUnguarded(q) ==
  /\ phase[q] = "idle"
  /\ client' = [client EXCEPT ![q] = "waiting"]
  /\ free' = free - 1
  /\ phase' = [phase EXCEPT ![q] = "granted"]
  /\ UNCHANGED <<waiters, slotVars, ran, age, restarts, faults>>

\* async with _semaphore: a permit at once, or a place at the end of the queue.
Arrive(q) ==
  /\ phase[q] = "idle"
  /\ client' = [client EXCEPT ![q] = "waiting"]
  /\ \/ /\ free > 0
        /\ free' = free - 1
        /\ phase' = [phase EXCEPT ![q] = "granted"]
        /\ UNCHANGED waiters
     \/ /\ free = 0
        /\ waiters' = Append(waiters, q)
        /\ phase' = [phase EXCEPT ![q] = "queued"]
        /\ UNCHANGED free
  /\ UNCHANGED <<slotVars, ran, age, restarts, faults>>

\* Slip: the first waiter is not woken.
ReleaseWakesNobody(q) ==
  /\ free' = free + 1
  /\ phase' = [phase EXCEPT ![q] = "done"]
  /\ UNCHANGED waiters

\* Leaving the async with block: the permit goes to the first waiter.
Release(q) ==
  IF waiters = <<>>
    THEN /\ free' = free + 1
         /\ phase' = [phase EXCEPT ![q] = "done"]
         /\ UNCHANGED waiters
    ELSE /\ phase' = [phase EXCEPT ![q] = "done", ![Head(waiters)] = "granted"]
         /\ waiters' = Tail(waiters)
         /\ UNCHANGED free

-----------------------------------------------------------------------------
(* execute_query                                                           *)

\* _write_connection_config, _write_database_options: an access-key account
\* writes no AWS profile files.
Written(f, q) == [config |-> q, aws |-> IF q \in RoleRequests THEN q ELSE f.aws]

\* Slip: _pool is not looked at before it is built.
PoolRebuilt == Slots

\* _get_pool: the first query prepares every slot, in one go.
Pool == IF ready THEN pool ELSE Slots

\* _prepare_slot fails: _pool stays unset and no slot was taken.
PrepareFails(q) ==
  /\ phase[q] = "granted" /\ ~ready
  /\ Release(q) /\ Respond(q, 500)
  /\ UNCHANGED <<slotVars, ran, age, restarts, faults>>

\* Slip: slots are looked up, not taken out.
EnterShared(q) ==
  /\ phase[q] = "granted"
  /\ \E s \in Pool :
       /\ slot' = [slot EXCEPT ![q] = s]
       /\ files' = [files EXCEPT ![s] = Written(@, q)]
  /\ pool' = Pool
  /\ ready' = TRUE
  /\ phase' = [phase EXCEPT ![q] = "starting"]
  /\ UNCHANGED <<free, waiters, procs, ran, client, age, restarts, faults>>

\* pool.get(), then the files, up to starting the subprocess.
Enter(q) ==
  /\ phase[q] = "granted"
  /\ \E s \in Pool :
       /\ pool' = Pool \ {s}
       /\ slot' = [slot EXCEPT ![q] = s]
       /\ files' = [files EXCEPT ![s] = Written(@, q)]
  /\ ready' = TRUE
  /\ phase' = [phase EXCEPT ![q] = "starting"]
  /\ UNCHANGED <<free, waiters, procs, ran, client, age, restarts, faults>>

Spawn(q) ==
  /\ phase[q] = "starting"
  /\ procs' = procs \cup {<<slot[q], q>>}
  /\ phase' = [phase EXCEPT ![q] = "running"]
  /\ UNCHANGED <<free, waiters, ready, pool, slot, files, ran, client, age, restarts, faults>>

\* Slip: only the configuration directory is wiped.
WipedConfigOnly(f) == [f EXCEPT !.config = NoRequest]
Wiped(f) == NoFiles

\* The finally block, and the response: wipe, put the slot back, leave the
\* semaphore.  A config directory that cannot be made anew raises before the
\* slot is put back: the slot is lost, and the response is a 500.
Finish(q, status) ==
  /\ files' = [files EXCEPT ![slot[q]] = Wiped(@)]
  /\ slot' = [slot EXCEPT ![q] = NoSlot]
  /\ procs' = procs \ {<<slot[q], q>>}
  /\ Release(q)
  /\ \/ /\ pool' = pool \cup {slot[q]} /\ Respond(q, status)
        /\ UNCHANGED faults
     \/ /\ faults < MaxFaults /\ faults' = faults + 1
        /\ UNCHANGED pool /\ Respond(q, 500)
  /\ UNCHANGED <<ready, ran, age, restarts>>

\* Writing a file or starting the subprocess raises OSError.
StartFails(q) == phase[q] = "starting" /\ Finish(q, 500)

\* The subprocess ends: rows, or a SteampipeError for its exit code or output.
Exit(q) == phase[q] = "running" /\ \E status \in {200, 502} : Finish(q, status)

\* Slip: the timeout is answered without ending the subprocess.
KillNothing(q) ==
  /\ phase[q] = "running" /\ ran[q] = QueryTimeout
  /\ files' = [files EXCEPT ![slot[q]] = Wiped(@)]
  /\ slot' = [slot EXCEPT ![q] = NoSlot]
  /\ pool' = pool \cup {slot[q]}
  /\ Release(q) /\ Respond(q, 504)
  /\ UNCHANGED <<ready, procs, ran, age, restarts, faults>>

\* Slip: the timeout is raised to the client with the slot never put back.
KillOutsideFinally(q) ==
  /\ phase[q] = "running" /\ ran[q] = QueryTimeout
  /\ slot' = [slot EXCEPT ![q] = NoSlot]
  /\ procs' = procs \ {<<slot[q], q>>}
  /\ Release(q) /\ Respond(q, 504)
  /\ UNCHANGED <<ready, pool, files, ran, age, restarts, faults>>

\* asyncio.TimeoutError: kill, then wait for the process to be gone.
Kill(q) ==
  /\ phase[q] = "running" /\ ran[q] = QueryTimeout
  /\ phase' = [phase EXCEPT ![q] = "killed"]
  /\ UNCHANGED <<free, waiters, slotVars, ran, client, age, restarts, faults>>

Reap(q) == phase[q] = "killed" /\ Finish(q, 504)

-----------------------------------------------------------------------------
(* The surroundings                                                        *)

\* The container restarts: memory, subprocesses and connections are gone,
\* the files in the slots are not.
Restart ==
  /\ restarts < MaxRestarts
  /\ restarts' = restarts + 1
  /\ phase' = [q \in Requests |-> IF phase[q] = "idle" THEN "idle" ELSE "done"]
  /\ client' = [q \in Requests |->
       IF client[q] = "waiting" THEN "SteampipeError" ELSE client[q]]
  /\ free' = Capacity
  /\ waiters' = <<>>
  /\ ready' = FALSE
  /\ pool' = {}
  /\ slot' = [q \in Requests |-> NoSlot]
  /\ procs' = {}
  /\ UNCHANGED <<files, ran, age, faults>>

\* Handlers that can continue, and timers that are due, go before the clock.
Tick ==
  /\ In("starting") = {} /\ In("killed") = {}
  /\ In("granted") # {} => ready /\ pool = {}
  /\ \A q \in Requests : /\ client[q] = "waiting" => age[q] < ClientTimeout
                         /\ phase[q] = "running" => ran[q] < QueryTimeout
  /\ \E q \in Requests : client[q] = "waiting" \/ phase[q] = "running"
  /\ age' = [q \in Requests |-> IF client[q] = "waiting" THEN age[q] + 1 ELSE age[q]]
  /\ ran' = [q \in Requests |-> IF phase[q] = "running" THEN ran[q] + 1 ELSE ran[q]]
  /\ UNCHANGED <<phase, free, waiters, slotVars, client, restarts, faults>>

Handler(q) ==
  PrepareFails(q) \/ Enter(q) \/ Spawn(q) \/ StartFails(q) \/ Kill(q) \/ Reap(q)

Next ==
  \/ \E q \in Requests :
       \/ Reject(q) \/ Arrive(q) \/ Handler(q) \/ Exit(q)
       \/ ClientTimesOut(q) \/ ConnectionLost(q)
  \/ Tick
  \/ Restart

Spec == Init /\ [][Next]_vars

\* The event loop runs what can run and timers fire.  A subprocess may hang.
FairSpec ==
  /\ Spec /\ WF_vars(Tick)
  /\ \A q \in Requests : WF_vars(Handler(q)) /\ WF_vars(ClientTimesOut(q))
-----------------------------------------------------------------------------
(* Properties                                                              *)

\* Every variable has its type.
TypeOK ==
  /\ phase \in [Requests -> Phases]
  /\ free \in Nat
  /\ waiters \in Seq(Requests)
  /\ ready \in BOOLEAN
  /\ pool \in SUBSET Slots
  /\ slot \in [Requests -> Slots \cup {NoSlot}]
  /\ files \in [Slots -> Files]
  /\ procs \in SUBSET (Slots \X Requests)
  /\ ran \in [Requests -> 0..QueryTimeout]
  /\ client \in [Requests -> Outcomes]
  /\ age \in [Requests -> 0..ClientTimeout]
  /\ restarts \in Nat /\ faults \in Nat

\* A slot serves one request at a time, and is not in the pool meanwhile.
OneQueryPerSlot ==
  \A q \in Requests : phase[q] \in InSlot =>
    /\ slot[q] \in Slots \ pool
    /\ \A r \in Requests \ {q} : phase[r] \in InSlot => slot[r] # slot[q]

\* A subprocess runs only for the request that holds its slot, over that
\* request's configuration and, for a role, its AWS profile files: also after
\* timeouts, failures, restarts and clients that gave up.
OwnFiles ==
  \A p \in procs :
    /\ phase[p[2]] \in {"running", "killed"} /\ slot[p[2]] = p[1]
    /\ files[p[1]].config = p[2]
    /\ p[2] \in RoleRequests => files[p[1]].aws = p[2]

\* A slot nobody uses holds no credentials, unless the service was restarted
\* while it was in use.
IdleSlotsClean ==
  restarts = 0 =>
    \A s \in Slots : (\A q \in Requests : slot[q] # s) => files[s] = NoFiles

\* The semaphore and the pool agree: who has a permit finds a slot, except
\* for those lost to a failed wipe.
SlotForEveryPermit ==
  ready => Cardinality(pool) + faults >= free + Cardinality(In("granted"))

\* The request a slot serves.
Owner(s) ==
  IF \E q \in Requests : slot[q] = s THEN CHOOSE q \in Requests : slot[q] = s ELSE NoRequest

\* The Steampipe service implements the slot allocator.
Alloc == INSTANCE SlotAllocator WITH owner <- [s \in Slots |-> Owner(s)]
AllocSpec == Alloc!Spec

\* A request that got to the service is dealt with, also when subprocesses
\* hang, clients give up, slots are lost (not all) and the service restarts.
QueuedAreServed == \A q \in Requests : phase[q] \in Waiting ~> phase[q] = "done"

\* collect_account_data: "Each query is isolated (own try/except) so one
\* failing table ... doesn't abort the whole scan".  It catches SteampipeError.
QueryErrorsIsolated == \A q \in Requests : client[q] # "ValueError"

\* "Excess requests get a 429 rather than piling up and starving each other":
\* no client gives up with its request still waiting for the semaphore.
NoStarvation ==
  [][\A q \in Requests : ~(phase[q] = "queued" /\ ClientTimesOut(q))]_vars
=============================================================================
