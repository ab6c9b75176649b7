----------------------- MODULE SteampipeServiceProofs -----------------------
(* Proofs about the Steampipe service, for every number of requests and    *)
(* slots, and for every bound.                                             *)
EXTENDS SteampipeService, SequenceTheorems, FiniteSetTheorems, TLAPS

(* The inductive invariant                                                 *)

\* A request has a slot exactly while its handler is past pool.get().
SlotWhileInSlot == \A q \in Requests : phase[q] \in InSlot <=> slot[q] # NoSlot

\* No slot is held twice, or held and pooled; before the pool is set up, and
\* after a restart, none is held.
Exclusive ==
  /\ \A q, r \in Requests : q # r /\ slot[q] # NoSlot => slot[q] # slot[r]
  /\ \A q \in Requests : slot[q] \notin pool
  /\ ready \/ \A q \in Requests : slot[q] = NoSlot

\* The handlers in the semaphore's queue wait there, each once.
WaitersQueued ==
  /\ \A i \in DOMAIN waiters : phase[waiters[i]] = "queued"
  /\ \A i, j \in DOMAIN waiters : waiters[i] = waiters[j] => i = j

\* A held slot has the files of its request.
HeldFiles ==
  \A q \in Requests : slot[q] # NoSlot =>
    /\ files[slot[q]].config = q
    /\ q \in RoleRequests => files[slot[q]].aws = q

\* A subprocess belongs to a request that waits for it, in its slot.
ProcsHeld == \A p \in procs : phase[p[2]] \in {"running", "killed"} /\ slot[p[2]] = p[1]

IInv == /\ TypeOK /\ SlotWhileInSlot /\ Exclusive /\ WaitersQueued
        /\ HeldFiles /\ ProcsHeld /\ IdleSlotsClean

-----------------------------------------------------------------------------
\* Leaving the semaphore: the permit is kept or passed on to one waiter.
LEMMA ReleaseEffect ==
  ASSUME TypeOK, WaitersQueued, NEW q \in Requests, phase[q] # "queued", Release(q)
  PROVE  /\ phase' \in [Requests -> Phases] /\ free' \in Nat /\ waiters' \in Seq(Requests)
         /\ WaitersQueued'
         /\ phase'[q] = "done"
         /\ \A r \in Requests \ {q} :
              phase'[r] = phase[r] \/ (phase[r] = "queued" /\ phase'[r] = "granted")
<1> USE DEF TypeOK
<1>0. /\ Len(waiters) \in Nat /\ DOMAIN waiters = 1..Len(waiters)
      /\ \A i \in 1..Len(waiters) : waiters[i] \in Requests
  BY LenProperties
<1>1. CASE waiters = <<>>
  <2>1. DOMAIN waiters = {}
    BY <1>1
  <2> QED BY <1>1, <2>1 DEF Release, WaitersQueued, Phases
<1>2. CASE waiters # <<>>
  <2> DEFINE h == Head(waiters)
  <2>1. /\ h \in Requests /\ h = waiters[1] /\ Tail(waiters) \in Seq(Requests)
        /\ Len(Tail(waiters)) = Len(waiters) - 1
        /\ \A i \in 1..Len(Tail(waiters)) : Tail(waiters)[i] = waiters[i + 1]
    BY <1>2, HeadTailProperties
  <2>2. Len(waiters) \in Nat \ {0}
    BY <1>2, EmptySeq
  <2>3. phase[h] = "queued"
    BY <1>0, <2>1, <2>2 DEF WaitersQueued
  <2>4. waiters' = Tail(waiters) /\ free' = free
        /\ phase' = [phase EXCEPT ![q] = "done", ![h] = "granted"]
    BY <1>2 DEF Release
  <2> HIDE DEF h
  <2>5. DOMAIN waiters' = 1..(Len(waiters) - 1)
    BY <2>1, <2>4, LenProperties
  <2>6. \A i \in DOMAIN waiters' : waiters'[i] = waiters[i + 1] /\ i + 1 \in 1..Len(waiters)
    BY <1>0, <2>1, <2>2, <2>4, <2>5
  <2>7. ASSUME NEW i \in DOMAIN waiters' PROVE phase'[waiters'[i]] = "queued"
    <3>1. waiters[i + 1] # h
      <4>1. i + 1 # 1 /\ 1 \in DOMAIN waiters /\ i + 1 \in DOMAIN waiters
        BY <1>0, <2>2, <2>5, <2>6, <2>7
      <4> QED BY <2>1, <4>1 DEF WaitersQueued
    <3>2. phase[waiters[i + 1]] = "queued" /\ waiters[i + 1] \in Requests
      BY <1>0, <2>6, <2>7 DEF WaitersQueued
    <3> QED BY <2>4, <2>6, <2>7, <3>1, <3>2
  <2>8. ASSUME NEW i \in DOMAIN waiters', NEW j \in DOMAIN waiters', waiters'[i] = waiters'[j]
        PROVE  i = j
    <3>1. i + 1 = j + 1
      BY <1>0, <2>6, <2>8 DEF WaitersQueued
    <3>2. i \in Int /\ j \in Int
      BY <2>5, <2>8, <1>0
    <3> QED BY <3>1, <3>2
  <2>9. WaitersQueued'
    BY <2>7, <2>8 DEF WaitersQueued
  <2> QED BY <2>1, <2>3, <2>4, <2>9 DEF Phases
<1> QED BY <1>1, <1>2

LEMMA RespondType ==
  ASSUME TypeOK, NEW q \in Requests, NEW status, Respond(q, status)
  PROVE  client' \in [Requests -> Outcomes]
<1>1. Outcome(status) \in Outcomes
  BY DEF Outcome, Outcomes
<1> QED BY <1>1 DEF TypeOK, Respond

\* The end of a handler that holds a slot.
LEMMA FinishStep ==
  ASSUME IInv, NEW q \in Requests, phase[q] \in InSlot, NEW status, Finish(q, status)
  PROVE  IInv'
<1> DEFINE s == slot[q]
<1>0. s \in Slots /\ phase[q] # "queued" /\ TypeOK /\ WaitersQueued
  BY DEF IInv, TypeOK, SlotWhileInSlot, InSlot
<1>1. /\ phase' \in [Requests -> Phases] /\ free' \in Nat /\ waiters' \in Seq(Requests)
      /\ WaitersQueued' /\ phase'[q] = "done"
      /\ \A r \in Requests \ {q} :
           phase'[r] = phase[r] \/ (phase[r] = "queued" /\ phase'[r] = "granted")
  BY <1>0, ReleaseEffect DEF Finish
<1>2. client' \in [Requests -> Outcomes]
  BY <1>0, RespondType DEF Finish
<1>3. /\ files' = [files EXCEPT ![s] = NoFiles]
      /\ slot' = [slot EXCEPT ![q] = NoSlot]
      /\ procs' = procs \ {<<s, q>>}
      /\ pool' \in {pool, pool \cup {s}}
      /\ faults' \in {faults, faults + 1}
      /\ UNCHANGED <<ready, ran, age, restarts>>
  BY DEF Finish, Wiped
<1>4. \A r \in Requests \ {q} : slot[r] # s
  BY <1>0, ServiceAssumption DEF IInv, Exclusive
<1> HIDE DEF s
<1>5. TypeOK'
  <2>1. files' \in [Slots -> Files]
    BY <1>0, <1>3 DEF TypeOK, Files, NoFiles
  <2>2. pool' \in SUBSET Slots /\ procs' \in SUBSET (Slots \X Requests) /\ faults' \in Nat
    BY <1>0, <1>3 DEF TypeOK
  <2> QED BY <1>0, <1>1, <1>2, <1>3, <2>1, <2>2 DEF TypeOK
<1>6. SlotWhileInSlot'
  BY <1>0, <1>1, <1>3 DEF IInv, SlotWhileInSlot, TypeOK, InSlot
<1>7. Exclusive'
  <2>1. \A r \in Requests : slot'[r] \notin pool'
    BY <1>0, <1>3, <1>4, ServiceAssumption DEF IInv, Exclusive, TypeOK
  <2> QED BY <1>0, <1>3, <2>1 DEF IInv, Exclusive, TypeOK
<1>8. HeldFiles'
  BY <1>0, <1>3, <1>4 DEF IInv, HeldFiles, TypeOK
<1>9. ProcsHeld'
  <2> SUFFICES ASSUME NEW p \in procs' PROVE phase'[p[2]] \in {"running", "killed"} /\ slot'[p[2]] = p[1]
    BY DEF ProcsHeld
  <2>1. p \in procs /\ p # <<s, q>> /\ p = <<p[1], p[2]>> /\ p[2] \in Requests
    BY <1>0, <1>3 DEF TypeOK
  <2>2. phase[p[2]] \in {"running", "killed"} /\ slot[p[2]] = p[1]
    BY <2>1 DEF IInv, ProcsHeld
  <2>3. p[2] # q
    BY <2>1, <2>2 DEF s
  <2> QED BY <1>0, <1>1, <1>3, <2>1, <2>2, <2>3 DEF TypeOK
<1>10. IdleSlotsClean'
  <2> SUFFICES ASSUME restarts = 0, NEW t \in Slots, \A r \in Requests : slot'[r] # t
               PROVE  files'[t] = NoFiles
    BY <1>3 DEF IdleSlotsClean
  <2>1. CASE t = s
    BY <1>0, <1>3, <2>1 DEF TypeOK
  <2>2. CASE t # s
    <3>1. \A r \in Requests : slot[r] # t
      BY <1>0, <1>3, <2>2 DEF TypeOK, s
    <3>2. files[t] = NoFiles
      BY <3>1 DEF IInv, IdleSlotsClean
    <3> QED BY <1>0, <1>3, <2>2, <3>2 DEF TypeOK
  <2> QED BY <2>1, <2>2
<1> QED BY <1>1, <1>5, <1>6, <1>7, <1>8, <1>9, <1>10 DEF IInv

\* A handler takes a slot.
LEMMA EnterStep ==
  ASSUME IInv, NEW q \in Requests, Enter(q)
  PROVE  IInv'
<1>1. PICK s \in Pool : /\ pool' = Pool \ {s}
                        /\ slot' = [slot EXCEPT ![q] = s]
                        /\ files' = [files EXCEPT ![s] = Written(@, q)]
  BY DEF Enter
<1>2. /\ phase[q] = "granted" /\ phase' = [phase EXCEPT ![q] = "starting"] /\ ready' = TRUE
      /\ UNCHANGED <<free, waiters, procs, ran, client, age, restarts, faults>>
  BY DEF Enter
<1>3. Pool \in SUBSET Slots /\ s \in Slots /\ TypeOK
  BY DEF Pool, IInv, TypeOK
<1>4. slot[q] = NoSlot /\ \A r \in Requests : slot[r] \notin Pool
  BY <1>2, ServiceAssumption DEF IInv, SlotWhileInSlot, InSlot, Exclusive, Pool
<1>5. Written(files[s], q) \in Files
  BY <1>3 DEF Written, Files, TypeOK
<1>6. TypeOK'
  BY <1>1, <1>2, <1>3, <1>5 DEF TypeOK, Phases
<1>7. SlotWhileInSlot'
  BY <1>1, <1>2, <1>3, ServiceAssumption DEF IInv, SlotWhileInSlot, InSlot, TypeOK
<1>8. Exclusive'
  BY <1>1, <1>2, <1>3, <1>4 DEF IInv, Exclusive, TypeOK
<1>9. WaitersQueued'
  BY <1>2, <1>3, LenProperties DEF IInv, WaitersQueued, TypeOK
<1>10. HeldFiles'
  BY <1>1, <1>3, <1>4 DEF IInv, HeldFiles, TypeOK, Written
<1>11. ProcsHeld'
  BY <1>1, <1>2, <1>3 DEF IInv, ProcsHeld, TypeOK
<1>12. IdleSlotsClean'
  <2> SUFFICES ASSUME restarts = 0, NEW t \in Slots, \A r \in Requests : slot'[r] # t
               PROVE  files'[t] = NoFiles
    BY <1>2 DEF IdleSlotsClean
  <2>1. t # s
    BY <1>1, <1>3 DEF TypeOK
  <2>2. \A r \in Requests : slot[r] # t
    <3>1. \A r \in Requests \ {q} : slot'[r] = slot[r]
      BY <1>1, <1>3 DEF TypeOK
    <3> QED BY <1>4, <3>1, ServiceAssumption
  <2>3. files[t] = NoFiles
    BY <2>2 DEF IInv, IdleSlotsClean
  <2> QED BY <1>1, <1>3, <2>1, <2>3 DEF TypeOK
<1> QED BY <1>6, <1>7, <1>8, <1>9, <1>10, <1>11, <1>12 DEF IInv

\* Steps that leave slots, files and subprocesses alone keep what concerns
\* them, as long as no handler leaves or enters its slot.
LEMMA SlotsKept ==
  ASSUME IInv, TypeOK', UNCHANGED <<ready, pool, slot, files, procs, restarts>>,
         \A q \in Requests : (phase'[q] \in InSlot <=> phase[q] \in InSlot),
         \A q \in Requests : phase[q] \in {"running", "killed"} => phase'[q] \in {"running", "killed"}
  PROVE  SlotWhileInSlot' /\ Exclusive' /\ HeldFiles' /\ ProcsHeld' /\ IdleSlotsClean'
<1>1. SlotWhileInSlot' /\ Exclusive' /\ HeldFiles'
  BY DEF IInv, SlotWhileInSlot, Exclusive, HeldFiles
<1>2. ProcsHeld'
  BY DEF IInv, ProcsHeld, TypeOK
<1>3. IdleSlotsClean'
  BY DEF IInv, IdleSlotsClean
<1> QED BY <1>1, <1>2, <1>3

LEMMA ArriveStep ==
  ASSUME IInv, NEW q \in Requests, Arrive(q)
  PROVE  IInv'
<1> USE DEF IInv, TypeOK
<1>1. /\ phase[q] = "idle" /\ phase' \in [Requests -> Phases]
      /\ phase'[q] \in Waiting /\ \A r \in Requests \ {q} : phase'[r] = phase[r]
  BY DEF Arrive, Phases, Waiting
<1>2. client' \in [Requests -> Outcomes]
  BY DEF Arrive, Outcomes
<1>3. /\ Len(waiters) \in Nat /\ DOMAIN waiters = 1..Len(waiters)
      /\ \A i \in 1..Len(waiters) : waiters[i] \in Requests
  BY LenProperties
<1>4. UNCHANGED <<ready, pool, slot, files, procs, ran, age, restarts, faults>>
  BY DEF Arrive, slotVars
<1>5. \A i \in DOMAIN waiters : waiters[i] # q /\ phase'[waiters[i]] = "queued"
  BY <1>1, <1>3 DEF WaitersQueued
<1>6. CASE waiters' = waiters /\ free > 0 /\ free' = free - 1
  <2>1. WaitersQueued' /\ free' \in Nat /\ waiters' \in Seq(Requests)
    BY <1>5, <1>6 DEF WaitersQueued
  <2>2. TypeOK'
    BY <1>1, <1>2, <1>4, <2>1
  <2> QED BY <1>1, <1>4, <2>1, <2>2, SlotsKept DEF Waiting, InSlot
<1>7. CASE waiters' = Append(waiters, q) /\ free' = free /\ phase'[q] = "queued"
  <2>1. /\ waiters' \in Seq(Requests) /\ Len(waiters') = Len(waiters) + 1
        /\ \A i \in 1..Len(waiters) : waiters'[i] = waiters[i]
        /\ waiters'[Len(waiters) + 1] = q
    BY <1>7, AppendProperties
  <2>2. DOMAIN waiters' = 1..(Len(waiters) + 1)
    BY <2>1, LenProperties
  <2>3. \A i \in DOMAIN waiters' : i \in DOMAIN waiters \/ i = Len(waiters) + 1
    BY <1>3, <2>2
  <2>4. WaitersQueued'
    BY <1>3, <1>5, <1>7, <2>1, <2>2, <2>3 DEF WaitersQueued
  <2>5. TypeOK'
    BY <1>1, <1>2, <1>4, <1>7, <2>1
  <2> QED BY <1>1, <1>4, <2>4, <2>5, SlotsKept DEF Waiting, InSlot
<1>8. \/ waiters' = waiters /\ free > 0 /\ free' = free - 1
      \/ waiters' = Append(waiters, q) /\ free' = free /\ phase'[q] = "queued"
  BY DEF Arrive
<1> QED BY <1>6, <1>7, <1>8

LEMMA StepIInv == IInv /\ [Next]_vars => IInv'
<1> SUFFICES ASSUME IInv, [Next]_vars PROVE IInv'
  OBVIOUS
<1>0. TypeOK /\ WaitersQueued
  BY DEF IInv
\* Nothing about handlers and slots changes.
<1>1. ASSUME UNCHANGED <<phase, free, waiters, slotVars, restarts, faults>>, TypeOK' PROVE IInv'
  <2>1. WaitersQueued'
    BY <1>0, <1>1 DEF WaitersQueued
  <2> QED BY <1>1, <2>1, SlotsKept DEF IInv, slotVars
<1>2. ASSUME NEW q \in Requests, Reject(q) PROVE IInv'
  <2>1. TypeOK'
    BY <1>0, <1>2 DEF Reject, TypeOK, slotVars, Phases, Outcome, Outcomes
  <2>2. WaitersQueued'
    BY <1>0, <1>2, LenProperties DEF Reject, WaitersQueued, TypeOK
  <2> QED BY <1>0, <1>2, <2>1, <2>2, SlotsKept DEF Reject, IInv, slotVars, TypeOK, InSlot
<1>3. ASSUME NEW q \in Requests, PrepareFails(q) PROVE IInv'
  <2>1. /\ phase' \in [Requests -> Phases] /\ free' \in Nat /\ waiters' \in Seq(Requests)
        /\ WaitersQueued' /\ phase'[q] = "done"
        /\ \A r \in Requests \ {q} :
             phase'[r] = phase[r] \/ (phase[r] = "queued" /\ phase'[r] = "granted")
    BY <1>0, <1>3, ReleaseEffect DEF PrepareFails
  <2>2. client' \in [Requests -> Outcomes]
    BY <1>0, <1>3, RespondType DEF PrepareFails
  <2>3. UNCHANGED <<ready, pool, slot, files, procs, ran, age, restarts, faults>> /\ phase[q] = "granted"
    BY <1>3 DEF PrepareFails, slotVars
  <2>4. TypeOK'
    BY <1>0, <2>1, <2>2, <2>3 DEF TypeOK
  <2> QED BY <2>1, <2>3, <2>4, SlotsKept DEF IInv, InSlot
<1>4. ASSUME NEW q \in Requests, Spawn(q) PROVE IInv'
  <2>1. slot[q] \in Slots /\ phase[q] = "starting" /\ phase' = [phase EXCEPT ![q] = "running"]
        /\ procs' = procs \cup {<<slot[q], q>>}
        /\ UNCHANGED <<free, waiters, ready, pool, slot, files, ran, client, age, restarts, faults>>
    BY <1>0, <1>4 DEF Spawn, IInv, SlotWhileInSlot, TypeOK, InSlot
  <2>2. TypeOK'
    BY <1>0, <2>1 DEF TypeOK, Phases
  <2>3. WaitersQueued'
    BY <1>0, <2>1, LenProperties DEF WaitersQueued, TypeOK
  <2>4. SlotWhileInSlot' /\ Exclusive' /\ HeldFiles'
    BY <1>0, <2>1 DEF IInv, SlotWhileInSlot, Exclusive, HeldFiles, TypeOK, InSlot
  <2>5. ProcsHeld'
    BY <1>0, <2>1 DEF IInv, ProcsHeld, TypeOK
  <2>6. IdleSlotsClean'
    BY <2>1 DEF IInv, IdleSlotsClean
  <2> QED BY <2>2, <2>3, <2>4, <2>5, <2>6 DEF IInv
<1>5. ASSUME NEW q \in Requests, Kill(q) PROVE IInv'
  <2>1. TypeOK'
    BY <1>0, <1>5 DEF Kill, TypeOK, slotVars, Phases
  <2>2. WaitersQueued'
    BY <1>0, <1>5, LenProperties DEF Kill, WaitersQueued, TypeOK
  <2> QED BY <1>0, <1>5, <2>1, <2>2, SlotsKept DEF Kill, IInv, slotVars, TypeOK, InSlot
<1>6. ASSUME NEW q \in Requests, StartFails(q) \/ Exit(q) \/ Reap(q) PROVE IInv'
  BY <1>6, FinishStep DEF StartFails, Exit, Reap, InSlot
<1>7. ASSUME NEW q \in Requests, ClientTimesOut(q) \/ ConnectionLost(q) PROVE IInv'
  <2>1. TypeOK'
    BY <1>0, <1>7 DEF ClientTimesOut, ConnectionLost, TypeOK, Outcomes, slotVars
  <2> QED BY <1>1, <1>7, <2>1 DEF ClientTimesOut, ConnectionLost
<1>8. CASE Tick
  <2>1. age' \in [Requests -> 0..ClientTimeout] /\ ran' \in [Requests -> 0..QueryTimeout]
    <3>1. /\ age \in [Requests -> 0..ClientTimeout] /\ ran \in [Requests -> 0..QueryTimeout]
          /\ ClientTimeout \in Nat /\ QueryTimeout \in Nat
      BY <1>0, ServiceAssumption DEF TypeOK
    <3>2. \A q \in Requests : /\ client[q] = "waiting" => age[q] < ClientTimeout
                              /\ phase[q] = "running" => ran[q] < QueryTimeout
      BY <1>8 DEF Tick
    <3>3. \A q \in Requests :
            (IF client[q] = "waiting" THEN age[q] + 1 ELSE age[q]) \in 0..ClientTimeout
      BY <3>1, <3>2
    <3>4. \A q \in Requests :
            (IF phase[q] = "running" THEN ran[q] + 1 ELSE ran[q]) \in 0..QueryTimeout
      BY <3>1, <3>2
    <3>5. /\ age' = [q \in Requests |-> IF client[q] = "waiting" THEN age[q] + 1 ELSE age[q]]
          /\ ran' = [q \in Requests |-> IF phase[q] = "running" THEN ran[q] + 1 ELSE ran[q]]
      BY <1>8 DEF Tick
    <3> QED BY <3>3, <3>4, <3>5
  <2>2. UNCHANGED <<phase, free, waiters, slotVars, client, restarts, faults>>
    BY <1>8 DEF Tick
  <2>3. TypeOK'
    BY <1>0, <2>1, <2>2 DEF TypeOK, slotVars
  <2> QED BY <1>1, <2>2, <2>3
<1>9. CASE Restart
  <2>1. Capacity \in Nat
    BY ServiceAssumption, FS_CardinalityType DEF Capacity
  <2>2. TypeOK'
    <3>1. /\ phase' \in [Requests -> Phases] /\ client' \in [Requests -> Outcomes]
          /\ slot' \in [Requests -> Slots \cup {NoSlot}]
      BY <1>0, <1>9 DEF Restart, TypeOK, Phases, Outcomes
    <3>2. /\ free' \in Nat /\ waiters' \in Seq(Requests) /\ restarts' \in Nat
      BY <1>0, <1>9, <2>1, EmptySeq DEF Restart, TypeOK
    <3> QED BY <1>0, <1>9, <3>1, <3>2 DEF Restart, TypeOK
  <2>3. DOMAIN waiters' = {}
    BY <1>9 DEF Restart
  <2>4. restarts' # 0
    BY <1>0, <1>9 DEF Restart, TypeOK
  <2>5. \A q \in Requests : slot'[q] = NoSlot /\ phase'[q] \in {"idle", "done"}
    BY <1>9 DEF Restart
  <2>6. pool' = {} /\ procs' = {}
    BY <1>9 DEF Restart
  <2> QED BY <2>2, <2>3, <2>4, <2>5, <2>6
          DEF IInv, SlotWhileInSlot, Exclusive, WaitersQueued, HeldFiles, ProcsHeld,
              IdleSlotsClean, InSlot
<1>10. CASE UNCHANGED vars
  <2>1. TypeOK'
    BY <1>0, <1>10 DEF vars, TypeOK
  <2> QED BY <1>1, <1>10, <2>1 DEF vars, slotVars
<1> QED
  BY <1>2, <1>3, <1>4, <1>5, <1>6, <1>7, <1>8, <1>9, <1>10, ArriveStep, EnterStep
     DEF Next, Handler

LEMMA InitIInv == Init => IInv
<1> SUFFICES ASSUME Init PROVE IInv
  OBVIOUS
<1>1. Capacity \in Nat
  BY ServiceAssumption, FS_CardinalityType DEF Capacity
<1>2. TypeOK
  <2>1. waiters \in Seq(Requests)
    BY EmptySeq DEF Init
  <2>2. 0 \in 0..QueryTimeout /\ 0 \in 0..ClientTimeout
    BY ServiceAssumption
  <2>3. NoFiles \in Files
    BY DEF NoFiles, Files
  <2> QED BY <1>1, <2>1, <2>2, <2>3 DEF Init, TypeOK, Phases, Outcomes
<1>3. DOMAIN waiters = {}
  BY DEF Init
<1> QED BY <1>2, <1>3
        DEF Init, IInv, SlotWhileInSlot, Exclusive, WaitersQueued, HeldFiles, ProcsHeld,
            IdleSlotsClean, InSlot

LEMMA Invariant == Spec => []IInv
  BY InitIInv, StepIInv, PTL DEF Spec

\* A slot of the Steampipe service serves one request at a time and is not in
\* the pool meanwhile, however handlers fail, time out or are cut off.
THEOREM SlotsExclusive == Spec => []OneQueryPerSlot
<1>1. IInv => OneQueryPerSlot
  BY DEF IInv, SlotWhileInSlot, Exclusive, OneQueryPerSlot, TypeOK
<1> QED BY <1>1, Invariant, PTL

\* A subprocess only ever runs in the slot of its own request, over the files
\* written for that request.
THEOREM FilesOwned == Spec => []OwnFiles
<1>1. ASSUME IInv PROVE OwnFiles
  <2> SUFFICES ASSUME NEW p \in procs
               PROVE  /\ phase[p[2]] \in {"running", "killed"} /\ slot[p[2]] = p[1]
                      /\ files[p[1]].config = p[2]
                      /\ p[2] \in RoleRequests => files[p[1]].aws = p[2]
    BY DEF OwnFiles
  <2>1. p[2] \in Requests /\ p[1] \in Slots
    BY <1>1 DEF IInv, TypeOK
  <2>2. phase[p[2]] \in {"running", "killed"} /\ slot[p[2]] = p[1]
    BY <1>1 DEF IInv, ProcsHeld
  <2>3. slot[p[2]] # NoSlot
    BY <2>1, <2>2, ServiceAssumption
  <2> QED BY <1>1, <2>1, <2>2, <2>3 DEF IInv, HeldFiles
<1> QED BY <1>1, Invariant, PTL

\* As long as the service was not restarted, no credentials lie in a slot
\* that serves nobody: every way out of execute_query wipes them.
THEOREM IdleClean == Spec => []IdleSlotsClean
<1>1. IInv => IdleSlotsClean
  BY DEF IInv
<1> QED BY <1>1, Invariant, PTL

-----------------------------------------------------------------------------
(* Refinement                                                              *)

\* A slot is owned by the request that holds it, and by nobody otherwise.
OwnerHolds ==
  \A s \in Slots : /\ \A q \in Requests : slot[q] = s => Owner(s) = q
                   /\ (\A q \in Requests : slot[q] # s) => Owner(s) = NoRequest

LEMMA OwnerOfSlot == IInv => OwnerHolds
<1> SUFFICES ASSUME IInv, NEW s \in Slots
             PROVE  /\ \A q \in Requests : slot[q] = s => Owner(s) = q
                    /\ (\A q \in Requests : slot[q] # s) => Owner(s) = NoRequest
  BY DEF OwnerHolds
<1>1. \A q, r \in Requests : slot[q] = s /\ slot[r] = s => q = r
  BY ServiceAssumption DEF IInv, Exclusive
<1>2. ASSUME NEW q \in Requests, slot[q] = s PROVE Owner(s) = q
  <2>1. (CHOOSE r \in Requests : slot[r] = s) = q
    BY <1>1, <1>2
  <2> QED BY <1>2, <2>1 DEF Owner
<1> QED BY <1>2 DEF Owner

LEMMA OwnerOfSlotNext == IInv' => OwnerHolds'
  BY OwnerOfSlot, PTL

\* Whoever holds no slot owns none.
LEMMA NotHolder ==
  ASSUME IInv, NEW q \in Requests, slot[q] = NoSlot
  PROVE  \A s \in Slots : Owner(s) # q
<1> SUFFICES ASSUME NEW s \in Slots PROVE Owner(s) # q
  OBVIOUS
<1>1. s # slot[q]
  BY ServiceAssumption
<1>2. CASE \E r \in Requests : slot[r] = s
  BY <1>1, <1>2, OwnerOfSlot DEF OwnerHolds
<1>3. CASE \A r \in Requests : slot[r] # s
  BY <1>3, OwnerOfSlot, ServiceAssumption DEF OwnerHolds
<1> QED BY <1>2, <1>3

LEMMA EnterAcquires ==
  ASSUME IInv, IInv', NEW q \in Requests, Enter(q)
  PROVE  \E s \in Slots : Alloc!Acquire(q, s)
<1>1. PICK s \in Pool : slot' = [slot EXCEPT ![q] = s]
  BY DEF Enter
<1>2. phase[q] = "granted" /\ s \in Slots /\ slot \in [Requests -> Slots \cup {NoSlot}]
  BY DEF Enter, Pool, IInv, TypeOK
<1>3. slot[q] = NoSlot /\ \A r \in Requests : slot[r] # s
  BY <1>1, <1>2, ServiceAssumption DEF IInv, SlotWhileInSlot, InSlot, Exclusive, Pool
<1>4. Owner(s) = NoRequest /\ \A t \in Slots : Owner(t) # q
  BY <1>2, <1>3, OwnerOfSlot, NotHolder DEF OwnerHolds
<1>5. Owner(s)' = q
  <2>1. slot'[q] = s
    BY <1>1, <1>2
  <2> QED BY <1>2, <2>1, OwnerOfSlotNext DEF OwnerHolds
<1>6. ASSUME NEW t \in Slots, t # s PROVE Owner(t)' = Owner(t)
  <2>1. \A r \in Requests : slot'[r] = t <=> slot[r] = t
    BY <1>1, <1>2, <1>3, <1>6, ServiceAssumption
  <2>2. CASE \E r \in Requests : slot[r] = t
    BY <2>1, <2>2, OwnerOfSlot, OwnerOfSlotNext DEF OwnerHolds
  <2>3. CASE \A r \in Requests : slot[r] # t
    BY <2>1, <2>3, OwnerOfSlot, OwnerOfSlotNext DEF OwnerHolds
  <2> QED BY <2>2, <2>3
<1>7. q \notin {[u \in Slots |-> Owner(u)][t] : t \in Slots} \ {NoRequest}
  BY <1>4
<1>8. [u \in Slots |-> Owner(u)]' = [[u \in Slots |-> Owner(u)] EXCEPT ![s] = q]
  BY <1>2, <1>5, <1>6
<1> QED BY <1>2, <1>4, <1>7, <1>8 DEF Alloc!Acquire, Alloc!Holders

\* A step after which every request holds the slot it held, or none, releases.
LEMMA SlotsReleased ==
  ASSUME IInv, IInv', \A q \in Requests : slot'[q] \in {slot[q], NoSlot}
  PROVE  \E S \in SUBSET Slots : Alloc!Release(S)
<1> DEFINE S == {s \in Slots : \A q \in Requests : slot'[q] # s}
<1>1. ASSUME NEW s \in Slots PROVE Owner(s)' = IF s \in S THEN NoRequest ELSE Owner(s)
  <2>1. CASE s \in S
    BY <2>1, OwnerOfSlotNext DEF OwnerHolds
  <2>2. CASE s \notin S
    <3>1. PICK q \in Requests : slot'[q] = s
      BY <2>2
    <3>2. slot[q] = s
      BY <3>1, ServiceAssumption
    <3>3. Owner(s) = q
      BY <3>2, OwnerOfSlot DEF OwnerHolds
    <3>4. Owner(s)' = q
      BY <3>1, OwnerOfSlotNext DEF OwnerHolds
    <3> QED BY <2>2, <3>3, <3>4
  <2> QED BY <2>1, <2>2
<1>2. Alloc!Release(S)
  BY <1>1 DEF Alloc!Release
<1> QED BY <1>2

\* The Steampipe service implements the slot allocator: pool.get() acquires,
\* the end of a handler and a restart release, everything else stutters.
THEOREM ImplementsAllocator == Spec => AllocSpec
<1>1. Init => Alloc!Init
  <2> SUFFICES ASSUME Init PROVE Alloc!Init
    OBVIOUS
  <2>1. \A s \in Slots : Owner(s) = NoRequest
    BY InitIInv, OwnerOfSlot, ServiceAssumption DEF Init, OwnerHolds
  <2> QED BY <2>1 DEF Alloc!Init
<1>2. IInv /\ IInv' /\ [Next]_vars => [Alloc!Next]_([s \in Slots |-> Owner(s)])
  <2> SUFFICES ASSUME IInv, IInv', [Next]_vars
               PROVE  Alloc!Next \/ UNCHANGED [s \in Slots |-> Owner(s)]
    OBVIOUS
  <2>1. ASSUME NEW q \in Requests, Enter(q) PROVE Alloc!Next
    BY <2>1, EnterAcquires DEF Alloc!Next
  <2>2. ASSUME \A q \in Requests : slot'[q] \in {slot[q], NoSlot} PROVE Alloc!Next
    BY <2>2, SlotsReleased DEF Alloc!Next
  <2>3. ASSUME NEW q \in Requests, StartFails(q) \/ Exit(q) \/ Reap(q) PROVE Alloc!Next
    <3>1. slot' = [slot EXCEPT ![q] = NoSlot] /\ slot \in [Requests -> Slots \cup {NoSlot}]
      BY <2>3 DEF StartFails, Exit, Reap, Finish, IInv, TypeOK
    <3> QED BY <2>2, <3>1
  <2>4. CASE Restart
    BY <2>2, <2>4 DEF Restart
  <2>5. ASSUME UNCHANGED slot PROVE Alloc!Next
    BY <2>2, <2>5
  <2>6. ASSUME NEW q \in Requests,
               \/ Reject(q) \/ Arrive(q) \/ PrepareFails(q) \/ Spawn(q) \/ Kill(q)
               \/ ClientTimesOut(q) \/ ConnectionLost(q)
        PROVE  UNCHANGED slot
    BY <2>6 DEF Reject, Arrive, PrepareFails, Spawn, Kill, ClientTimesOut, ConnectionLost, slotVars
  <2>7. Tick \/ UNCHANGED vars => UNCHANGED slot
    BY DEF Tick, vars, slotVars
  <2> QED BY <2>1, <2>3, <2>4, <2>5, <2>6, <2>7 DEF Next, Handler
<1> QED BY <1>1, <1>2, Invariant, PTL DEF Spec, AllocSpec, Alloc!Spec

\* Every reachable state of the service and its client has the types of
\* TypeOK: no timer passes its timeout, and the semaphore never goes negative.
THEOREM TypeCorrect == Spec => []TypeOK
<1>1. IInv => TypeOK
  BY DEF IInv
<1> QED BY <1>1, Invariant, PTL

-----------------------------------------------------------------------------
(* Permits and slots                                                       *)

\* Who has a permit of the semaphore, and who of them has a slot.
Permitted == {q \in Requests : phase[q] = "granted" \/ phase[q] \in InSlot}
Served    == {q \in Requests : phase[q] \in InSlot}

\* A permit is free or held; a slot is pooled, held or lost.
PermitsCounted == free + Cardinality(Permitted) = Capacity
SlotsCounted   == ready => Cardinality(pool) + Cardinality(Served) + faults >= Capacity

LEMMA CountsFinite ==
  ASSUME TypeOK
  PROVE  /\ IsFiniteSet(Permitted) /\ Cardinality(Permitted) \in Nat
         /\ IsFiniteSet(Served) /\ Cardinality(Served) \in Nat
         /\ IsFiniteSet(pool) /\ Cardinality(pool) \in Nat
         /\ Capacity \in Nat
<1>1. Permitted \in SUBSET Requests /\ Served \in SUBSET Requests /\ pool \in SUBSET Slots
  BY DEF Permitted, Served, TypeOK
<1> QED BY <1>1, FS_Subset, FS_CardinalityType, ServiceAssumption DEF Capacity

\* The counts do not change when nobody gets or leaves a permit or a slot.
LEMMA CountsKept ==
  ASSUME UNCHANGED <<free, ready, pool, faults>>, PermitsCounted, SlotsCounted,
         \A q \in Requests : /\ q \in Permitted' <=> q \in Permitted
                             /\ q \in Served' <=> q \in Served
  PROVE  PermitsCounted' /\ SlotsCounted'
<1>1. Permitted' = Permitted /\ Served' = Served
  BY DEF Permitted, Served
<1> QED BY <1>1 DEF PermitsCounted, SlotsCounted, Capacity

\* Leaving the semaphore returns one permit, or hands it to the first waiter.
LEMMA ReleaseCounts ==
  ASSUME TypeOK, WaitersQueued, PermitsCounted, NEW q \in Permitted, Release(q)
  PROVE  PermitsCounted' /\ Served' = Served \ {q}
<1> USE DEF TypeOK
<1>0. q \in Requests /\ IsFiniteSet(Permitted) /\ Cardinality(Permitted) \in Nat /\ free \in Nat
  BY CountsFinite DEF Permitted
<1> DEFINE rest == Permitted \ {q}
<1>1. IsFiniteSet(rest) /\ Cardinality(rest) = Cardinality(Permitted) - 1
  BY <1>0, FS_RemoveElement
<1>2. CASE waiters = <<>>
  <2>1. free' = free + 1 /\ phase' = [phase EXCEPT ![q] = "done"]
    BY <1>2 DEF Release
  <2>2. Permitted' = rest /\ Served' = Served \ {q}
    BY <1>0, <2>1 DEF Permitted, Served, InSlot
  <2> HIDE DEF rest
  <2> QED BY <1>0, <1>1, <2>1, <2>2 DEF PermitsCounted, Capacity
<1>3. CASE waiters # <<>>
  <2> DEFINE h == Head(waiters)
  <2>1. h \in Requests /\ h = waiters[1] /\ 1 \in DOMAIN waiters
    BY <1>3, HeadTailProperties, EmptySeq, LenProperties
  <2>2. phase[h] = "queued"
    BY <2>1 DEF WaitersQueued
  <2>3. free' = free /\ phase' = [phase EXCEPT ![q] = "done", ![h] = "granted"]
    BY <1>3 DEF Release
  <2> HIDE DEF h
  <2>4. h \notin Permitted /\ h \notin Served /\ h # q
    BY <2>2 DEF Permitted, Served, InSlot
  <2>5. Permitted' = rest \cup {h} /\ Served' = Served \ {q}
    BY <1>0, <2>1, <2>3, <2>4 DEF Permitted, Served, InSlot
  <2>6. h \notin rest
    BY <2>4
  <2> HIDE DEF rest
  <2>7. Cardinality(Permitted') = Cardinality(rest) + 1
    BY <1>1, <2>5, <2>6, FS_AddElement
  <2> QED BY <1>0, <1>1, <2>3, <2>5, <2>7 DEF PermitsCounted, Capacity
<1> QED BY <1>2, <1>3

LEMMA ArriveCounts ==
  ASSUME TypeOK, PermitsCounted, SlotsCounted, NEW q \in Requests, Arrive(q)
  PROVE  PermitsCounted' /\ SlotsCounted'
<1> USE DEF TypeOK
<1>0. /\ IsFiniteSet(Permitted) /\ Cardinality(Permitted) \in Nat /\ free \in Nat
      /\ phase[q] = "idle" /\ UNCHANGED <<ready, pool, faults>>
  BY CountsFinite DEF Arrive, slotVars
<1>1. CASE free' = free - 1 /\ phase' = [phase EXCEPT ![q] = "granted"]
  <2>1. Permitted' = Permitted \cup {q} /\ q \notin Permitted /\ Served' = Served
    BY <1>0, <1>1 DEF Permitted, Served, InSlot
  <2>2. Cardinality(Permitted') = Cardinality(Permitted) + 1
    BY <1>0, <2>1, FS_AddElement
  <2> QED BY <1>0, <1>1, <2>1, <2>2 DEF PermitsCounted, SlotsCounted, Capacity
<1>2. CASE free' = free /\ phase' = [phase EXCEPT ![q] = "queued"]
  <2>1. \A r \in Requests : /\ r \in Permitted' <=> r \in Permitted
                            /\ r \in Served' <=> r \in Served
    BY <1>0, <1>2 DEF Permitted, Served, InSlot
  <2> QED BY <1>0, <1>2, <2>1, CountsKept
<1> QED BY <1>1, <1>2 DEF Arrive

\* A handler takes a slot: it leaves the pool, or the pool is built without it.
LEMMA EnterCounts ==
  ASSUME IInv, PermitsCounted, SlotsCounted, NEW q \in Requests, Enter(q)
  PROVE  PermitsCounted' /\ SlotsCounted'
<1> USE DEF IInv, TypeOK
<1>1. PICK s \in Pool : pool' = Pool \ {s}
  BY DEF Enter
<1>2. phase[q] = "granted" /\ phase' = [phase EXCEPT ![q] = "starting"] /\ UNCHANGED <<free, faults>>
  BY DEF Enter
<1>3. Permitted' = Permitted /\ Served' = Served \cup {q} /\ q \notin Served
  BY <1>2 DEF Permitted, Served, InSlot
<1>4. /\ IsFiniteSet(Served) /\ Cardinality(Served) \in Nat
      /\ IsFiniteSet(pool) /\ Cardinality(pool) \in Nat /\ Capacity \in Nat /\ faults \in Nat
  BY CountsFinite
<1>5. Cardinality(Served') = Cardinality(Served) + 1
  BY <1>3, <1>4, FS_AddElement
<1>6. IsFiniteSet(Pool)
  BY <1>4, ServiceAssumption DEF Pool
<1>7. Cardinality(pool') = Cardinality(Pool) - 1 /\ Cardinality(Pool) \in Nat
  BY <1>1, <1>6, FS_RemoveElement, FS_CardinalityType
<1>8. Cardinality(Pool) + Cardinality(Served) + faults >= Capacity
  <2>1. CASE ready
    BY <2>1 DEF Pool, SlotsCounted
  <2>2. CASE ~ready
    <3>1. Cardinality(Pool) = Capacity
      BY <2>2 DEF Pool, Capacity
    <3> QED BY <1>4, <3>1
  <2> QED BY <2>1, <2>2
<1>9. Cardinality(pool') + Cardinality(Served') + faults' >= Capacity
  BY <1>2, <1>4, <1>5, <1>7, <1>8
<1> QED BY <1>2, <1>3, <1>9 DEF PermitsCounted, SlotsCounted, Capacity

\* The end of a handler: its slot is pooled again or counted as lost.
LEMMA FinishCounts ==
  ASSUME IInv, PermitsCounted, SlotsCounted,
         NEW q \in Requests, phase[q] \in InSlot, NEW status, Finish(q, status)
  PROVE  PermitsCounted' /\ SlotsCounted'
<1> USE DEF IInv, TypeOK
<1>1. q \in Permitted /\ q \in Served
  BY DEF Permitted, Served
<1>2. PermitsCounted' /\ Served' = Served \ {q}
  BY <1>1, ReleaseCounts DEF Finish
<1>3. /\ IsFiniteSet(Served) /\ Cardinality(Served) \in Nat
      /\ IsFiniteSet(pool) /\ Cardinality(pool) \in Nat /\ Capacity \in Nat /\ faults \in Nat
  BY CountsFinite
<1>4. Cardinality(Served') = Cardinality(Served) - 1
  BY <1>1, <1>2, <1>3, FS_RemoveElement
<1>5. ready' = ready
  BY DEF Finish
<1>6. \/ pool' = pool \cup {slot[q]} /\ faults' = faults
      \/ pool' = pool /\ faults' = faults + 1
  BY DEF Finish
<1>7. slot[q] \notin pool
  BY DEF Exclusive
<1>8. Cardinality(pool \cup {slot[q]}) = Cardinality(pool) + 1
  BY <1>3, <1>7, FS_AddElement
<1>9. /\ Cardinality(pool') + faults' = Cardinality(pool) + faults + 1
      /\ Cardinality(pool') \in Nat /\ faults' \in Nat
  <2>1. CASE pool' = pool \cup {slot[q]} /\ faults' = faults
    <3>1. Cardinality(pool') = Cardinality(pool) + 1
      BY <1>8, <2>1
    <3> QED BY <1>3, <2>1, <3>1
  <2>2. CASE pool' = pool /\ faults' = faults + 1
    <3>1. Cardinality(pool') = Cardinality(pool)
      BY <2>2
    <3> QED BY <1>3, <2>2, <3>1
  <2> QED BY <1>6, <2>1, <2>2
<1>10. ready' => Cardinality(pool') + Cardinality(Served') + faults' >= Capacity
  <2> SUFFICES ASSUME ready' PROVE Cardinality(pool') + Cardinality(Served') + faults' >= Capacity
    OBVIOUS
  <2>1. Cardinality(pool) + Cardinality(Served) + faults >= Capacity
    BY <1>5 DEF SlotsCounted
  <2> QED BY <1>3, <1>4, <1>9, <2>1
<1> QED BY <1>2, <1>10 DEF SlotsCounted, Capacity

LEMMA CountsStep ==
  IInv /\ PermitsCounted /\ SlotsCounted /\ [Next]_vars => PermitsCounted' /\ SlotsCounted'
<1> SUFFICES ASSUME IInv, PermitsCounted, SlotsCounted, [Next]_vars
             PROVE  PermitsCounted' /\ SlotsCounted'
  OBVIOUS
<1>0. TypeOK /\ WaitersQueued
  BY DEF IInv
<1>1. ASSUME NEW q \in Requests, PrepareFails(q) PROVE PermitsCounted' /\ SlotsCounted'
  <2>1. q \in Permitted /\ ready' = ready /\ ~ready
    BY <1>1 DEF PrepareFails, Permitted, slotVars
  <2> QED BY <1>0, <1>1, <2>1, ReleaseCounts DEF PrepareFails, SlotsCounted
<1>2. ASSUME NEW q \in Requests, Reject(q) \/ Spawn(q) \/ Kill(q)
      PROVE  PermitsCounted' /\ SlotsCounted'
  <2>1. UNCHANGED <<free, ready, pool, faults>>
    BY <1>2 DEF Reject, Spawn, Kill, slotVars
  <2>2. \A r \in Requests : /\ r \in Permitted' <=> r \in Permitted
                            /\ r \in Served' <=> r \in Served
    BY <1>0, <1>2 DEF Reject, Spawn, Kill, Permitted, Served, InSlot, TypeOK
  <2> QED BY <2>1, <2>2, CountsKept
<1>3. ASSUME UNCHANGED <<phase, free, slotVars, faults>> PROVE PermitsCounted' /\ SlotsCounted'
  <2>1. UNCHANGED <<free, ready, pool, faults>>
    BY <1>3 DEF slotVars
  <2>2. \A r \in Requests : /\ r \in Permitted' <=> r \in Permitted
                            /\ r \in Served' <=> r \in Served
    BY <1>3 DEF Permitted, Served
  <2> QED BY <2>1, <2>2, CountsKept
<1>4. ASSUME NEW q \in Requests, ClientTimesOut(q) \/ ConnectionLost(q)
      PROVE  UNCHANGED <<phase, free, slotVars, faults>>
  BY <1>4 DEF ClientTimesOut, ConnectionLost
<1>5. Tick \/ UNCHANGED vars => UNCHANGED <<phase, free, slotVars, faults>>
  BY DEF Tick, vars, slotVars
<1>6. CASE Restart
  <2>1. Permitted' = {}
    BY <1>6 DEF Restart, Permitted, InSlot
  <2>2. free' = Capacity /\ ready' = FALSE /\ Capacity \in Nat
    BY <1>0, <1>6, CountsFinite DEF Restart
  <2> QED BY <2>1, <2>2, FS_EmptySet DEF PermitsCounted, SlotsCounted, Capacity
<1>7. ASSUME NEW q \in Requests, StartFails(q) \/ Exit(q) \/ Reap(q)
      PROVE  PermitsCounted' /\ SlotsCounted'
  BY <1>7, FinishCounts DEF StartFails, Exit, Reap, InSlot
<1> QED BY <1>0, <1>1, <1>2, <1>3, <1>4, <1>5, <1>6, <1>7, ArriveCounts, EnterCounts
        DEF Next, Handler

\* Who has a permit finds a slot: _pool.get() never waits, so no handler can
\* hold a permit and wait for one who waits for the semaphore. The only
\* exception are slots whose directory could not be restored, one each.
THEOREM PermitMeansSlot == Spec => []SlotForEveryPermit
<1>1. Init => PermitsCounted /\ SlotsCounted
  <2> SUFFICES ASSUME Init PROVE PermitsCounted /\ SlotsCounted
    OBVIOUS
  <2>1. Permitted = {}
    BY DEF Init, Permitted, InSlot
  <2>2. Capacity \in Nat
    BY ServiceAssumption, FS_CardinalityType DEF Capacity
  <2> QED BY <2>1, <2>2, FS_EmptySet DEF Init, PermitsCounted, SlotsCounted
<1>2. ASSUME IInv, PermitsCounted, SlotsCounted PROVE SlotForEveryPermit
  <2> SUFFICES ASSUME ready PROVE Cardinality(pool) + faults >= free + Cardinality(In("granted"))
    BY DEF SlotForEveryPermit
  <2> DEFINE G == In("granted")
  <2>0. TypeOK
    BY <1>2 DEF IInv
  <2>1. /\ IsFiniteSet(Served) /\ Cardinality(Served) \in Nat /\ Cardinality(Permitted) \in Nat
        /\ Cardinality(pool) \in Nat /\ Capacity \in Nat /\ faults \in Nat /\ free \in Nat
    BY <2>0, CountsFinite DEF TypeOK
  <2>2. IsFiniteSet(G) /\ Cardinality(G) \in Nat
    BY FS_Subset, FS_CardinalityType, ServiceAssumption DEF In
  <2>3. Permitted = Served \cup G /\ Served \cap G = {}
    BY DEF Permitted, Served, In, InSlot
  <2>4. Cardinality(Permitted) = Cardinality(Served) + Cardinality(G)
    <3> HIDE DEF G
    <3>1. Cardinality(Permitted) = Cardinality(Served) + Cardinality(G) - Cardinality({})
      BY <2>1, <2>2, <2>3, FS_Union
    <3> QED BY <2>1, <2>2, <3>1, FS_EmptySet
  <2>5. /\ free + Cardinality(Permitted) = Capacity
        /\ Cardinality(pool) + Cardinality(Served) + faults >= Capacity
    BY <1>2 DEF PermitsCounted, SlotsCounted
  <2> HIDE DEF G
  <2>6. Cardinality(pool) + faults >= free + Cardinality(G)
    BY <2>1, <2>2, <2>4, <2>5
  <2> QED BY <2>6 DEF G
<1> QED BY <1>1, <1>2, CountsStep, Invariant, PTL DEF Spec
=============================================================================
