---------------------------- MODULE ScanPipeline ----------------------------
(***************************************************************************)
(* The account scan of one AWS account: Celery workers run                 *)
(* scans.run_account_scan, write daily inventory rows, then let the        *)
(* analysis service open and close findings, while users act on the same   *)
(* findings through the API and the AWS account keeps changing.            *)
(*                                                                         *)
(* Grain.  A database transaction is two steps: its SELECTs, and its       *)
(* COMMIT, which applies exactly the columns the ORM found changed.        *)
(* Postgres runs at READ COMMITTED, so the commits of other transactions   *)
(* may fall between the two.  An HTTP handler on a finding is one step.    *)
(*                                                                         *)
(* Data.  A resource is the finding kind it can give rise to, its AWS      *)
(* state ("flagged" when a detector would report it) and its type, the     *)
(* unit in which a Steampipe query succeeds or fails.                      *)
(***************************************************************************)
EXTENDS Integers, Sequences, FiniteSets

CONSTANTS
  Resources,   \* resources that may exist in the AWS account
  Types,       \* resource types, one inventory query each
  TypeOf,      \* the type of a resource
  KindOf,      \* the kind of finding a resource can be reported as
  Workers,     \* Celery worker processes
  NoRow,       \* no snapshot row for a resource and a date
  MaxDay,      \* bound: last calendar day
  MaxRuns,     \* bound: scans that may ever be requested
  MaxCrashes   \* bound: worker processes killed

\* "rightsizing" stands for UNDERUTILIZED and NIGHT_SHUTDOWN_CANDIDATE.
Kinds == {"orphaned", "rightsizing", "security"}

ASSUME PipelineAssumption ==
  /\ TypeOf \in [Resources -> Types]
  /\ KindOf \in [Resources -> Kinds]
  /\ MaxDay \in Nat \ {0}
  /\ MaxRuns \in Nat
  /\ MaxCrashes \in Nat
  /\ NoRow \notin [flagged : BOOLEAN, removed : BOOLEAN]

VARIABLES
  day,       \* date.today()
  cloud,     \* the AWS account itself
  account,   \* the aws_accounts row exists
  queue,     \* scan messages waiting in the broker
  runs,      \* scan_runs, in order of insertion
  snaps,     \* resource_snapshots, by resource and date
  findings,  \* the findings of each resource, in order of insertion
  pc,        \* where each worker is in the task
  run,       \* the scan run a worker is executing, 0 if none
  seen,      \* what the Steampipe queries returned to a worker
  plan,      \* row changes a worker's open transaction will commit
  marks,     \* finding changes a worker's open transaction will commit
  crashes    \* worker processes killed so far

envVars    == <<day, cloud>>
dbVars     == <<account, runs, snaps, findings>>
workerVars == <<pc, run, seen, plan, marks>>
vars == <<day, cloud, account, queue, runs, snaps, findings,
          pc, run, seen, plan, marks, crashes>>

Days       == 1..MaxDay
CloudState == {"absent", "clean", "flagged"}
SeenState  == CloudState \cup {"failed"}
Row        == [flagged : BOOLEAN, removed : BOOLEAN]
RunStatus  == {"RUNNING", "SUCCESS", "FAILED", "DELETED"}
Status     == {"OPEN", "RESOLVED", "IGNORED"}
Run        == [status : RunStatus, today : Days, scanned : SUBSET Resources]
Op         == [op : {"none", "insert", "update", "stamp"},
               at : Days \cup {0}, was : Row \cup {NoRow}]
Stages     == {"idle", "collecting", "reading", "storing", "stored",
               "analysing", "closing", "syncing"}
OptTypes   == {"orphaned", "rightsizing"}

Nothing == [op |-> "none", at |-> 0, was |-> NoRow]
NoPlan  == [r \in Resources |-> Nothing]
NoSight == [r \in Resources |-> "failed"]
NoMarks == [create |-> {}, close |-> [r \in Resources |-> {}]]

-----------------------------------------------------------------------------
(* Queries over the committed tables                                       *)

Today(w) == runs[run[w]].today
Stamp(r) == {d \in Days : snaps[r][d] # NoRow}
Newest(S) == CHOOSE d \in S : \A e \in S : e <= d

\* Dates on which a resource has a row that is not stamped removed.
Alive(r) == {d \in Stamp(r) : ~snaps[r][d].removed}

\* _latest_snapshots: of the rows not stamped removed, the newest.
InInventory(r) == Alive(r) # {}
Latest(r) == snaps[r][Newest(Alive(r))]

OpenIds(r) == {i \in DOMAIN findings[r] : findings[r][i] = "OPEN"}

\* What each detector reports.  CPU averages are not modelled: of the
\* rightsizing candidates in the inventory any subset may be idle.
Qualifying(idle) ==
  {r \in Resources : /\ InInventory(r) /\ Latest(r).flagged
                     /\ KindOf[r] = "rightsizing" => r \in idle}

-----------------------------------------------------------------------------
Init ==
  /\ day = 1
  /\ cloud \in [Resources -> CloudState]
  /\ account = TRUE
  /\ queue = 0
  /\ runs = <<>>
  /\ snaps = [r \in Resources |-> [d \in Days |-> NoRow]]
  /\ findings = [r \in Resources |-> <<>>]
  /\ pc = [w \in Workers |-> "idle"]
  /\ run = [w \in Workers |-> 0]
  /\ seen = [w \in Workers |-> NoSight]
  /\ plan = [w \in Workers |-> NoPlan]
  /\ marks = [w \in Workers |-> NoMarks]
  /\ crashes = 0

(* The surroundings                                                        *)

AdvanceDay ==
  /\ day < MaxDay
  /\ day' = day + 1
  /\ UNCHANGED <<cloud, account, queue, runs, snaps, findings, workerVars, crashes>>

CloudChange(r, c) ==
  /\ cloud[r] # c
  /\ cloud' = [cloud EXCEPT ![r] = c]
  /\ UNCHANGED <<day, account, queue, runs, snaps, findings, workerVars, crashes>>

-----------------------------------------------------------------------------
(* API handlers                                                            *)

\* POST /aws-accounts/{id}/scan and POST /sync/trigger.
TriggerScan ==
  /\ account
  /\ Len(runs) + queue < MaxRuns
  /\ queue' = queue + 1
  /\ UNCHANGED <<envVars, account, runs, snaps, findings, workerVars, crashes>>

\* Slip: scan_runs without ON DELETE CASCADE.
DeleteAccountKeepsRuns ==
  /\ account
  /\ account' = FALSE
  /\ snaps' = [r \in Resources |-> [d \in Days |-> NoRow]]
  /\ findings' = [r \in Resources |-> <<>>]
  /\ UNCHANGED <<envVars, queue, runs, workerVars, crashes>>

\* DELETE /aws-accounts/{id}: the foreign keys cascade to every table here.
DeleteAccount ==
  /\ account
  /\ account' = FALSE
  /\ runs' = [i \in DOMAIN runs |-> [runs[i] EXCEPT !.status = "DELETED"]]
  /\ snaps' = [r \in Resources |-> [d \in Days |-> NoRow]]
  /\ findings' = [r \in Resources |-> <<>>]
  /\ UNCHANGED <<envVars, queue, workerVars, crashes>>

SetStatus(r, i, status) ==
  /\ i \in DOMAIN findings[r]
  /\ findings' = [findings EXCEPT ![r] = [@ EXCEPT ![i] = status]]
  /\ UNCHANGED <<envVars, account, queue, runs, snaps, workerVars, crashes>>

ApplyOptimization(r, i)   == KindOf[r] \in OptTypes /\ SetStatus(r, i, "RESOLVED")
DismissOptimization(r, i) == KindOf[r] \in OptTypes /\ SetStatus(r, i, "IGNORED")
RestoreOptimization(r, i) == KindOf[r] \in OptTypes /\ SetStatus(r, i, "OPEN")
DeleteOrphaned(r, i)      == KindOf[r] = "orphaned" /\ SetStatus(r, i, "IGNORED")
RemediateOrphaned(r, i)   == KindOf[r] = "orphaned" /\ SetStatus(r, i, "RESOLVED")
ResolveFinding(r, i)      == SetStatus(r, i, "RESOLVED")

UserAction(r, i) ==
  \/ ApplyOptimization(r, i)
  \/ DismissOptimization(r, i)
  \/ RestoreOptimization(r, i)
  \/ DeleteOrphaned(r, i)
  \/ RemediateOrphaned(r, i)
  \/ ResolveFinding(r, i)

-----------------------------------------------------------------------------
(* run_account_scan_task                                                   *)

\* The task function returns or raises: its session closes, its locals go.
Leave(w) ==
  /\ pc' = [pc EXCEPT ![w] = "idle"]
  /\ run' = [run EXCEPT ![w] = 0]
  /\ seen' = [seen EXCEPT ![w] = NoSight]
  /\ plan' = [plan EXCEPT ![w] = NoPlan]
  /\ marks' = [marks EXCEPT ![w] = NoMarks]

\* Slip: rollback() after the status is set.
FailUnrecorded(w) ==
  /\ account
  /\ Leave(w)
  /\ UNCHANGED <<envVars, dbVars, queue, crashes>>

\* except Exception: rollback, FAILED, commit, raise.
Fail(w) ==
  /\ account
  /\ runs' = [runs EXCEPT ![run[w]] = [@ EXCEPT !.status = "FAILED"]]
  /\ Leave(w)
  /\ UNCHANGED <<envVars, account, queue, snaps, findings, crashes>>

\* Slip: the early return for a missing account leaves the message unacked.
BeginIfAccount(w) ==
  /\ pc[w] = "idle" /\ queue > 0 /\ account
  /\ queue' = queue - 1
  /\ runs' = Append(runs, [status |-> "RUNNING", today |-> day, scanned |-> {}])
  /\ run' = [run EXCEPT ![w] = Len(runs) + 1]
  /\ pc' = [pc EXCEPT ![w] = "collecting"]
  /\ UNCHANGED <<envVars, account, snaps, findings, seen, plan, marks, crashes>>

\* db.get(AwsAccount); insert the RUNNING row and commit it.
Begin(w) ==
  /\ pc[w] = "idle" /\ queue > 0
  /\ queue' = queue - 1
  /\ IF account
       THEN /\ runs' = Append(runs, [status |-> "RUNNING", today |-> day, scanned |-> {}])
            /\ run' = [run EXCEPT ![w] = Len(runs) + 1]
            /\ pc' = [pc EXCEPT ![w] = "collecting"]
       ELSE UNCHANGED <<runs, run, pc>>
  /\ UNCHANGED <<envVars, account, snaps, findings, seen, plan, marks, crashes>>

\* collect_account_data: the types in F raise SteampipeError and are left
\* out of the inventory.
Collect(w, F) ==
  /\ pc[w] = "collecting"
  /\ pc' = [pc EXCEPT ![w] = "reading"]
  /\ seen' = [seen EXCEPT ![w] =
       [r \in Resources |-> IF TypeOf[r] \in F THEN "failed" ELSE cloud[r]]]
  /\ UNCHANGED <<envVars, dbVars, queue, run, plan, marks, crashes>>

\* _upsert_resource_snapshots for a resource the query returned.
UpsertOp(r, today) ==
  [op |-> IF snaps[r][today] = NoRow THEN "insert" ELSE "update",
   at |-> today, was |-> snaps[r][today]]

\* _sync_removed_state for a resource the query no longer returned.
RemoveOp(r, today) ==
  LET prior == {d \in Stamp(r) : d < today}
      last  == Newest(Stamp(r))
  IN IF prior # {} /\ ~snaps[r][last].removed
       THEN [op |-> "stamp", at |-> last, was |-> snaps[r][last]]
       ELSE Nothing

\* Slip: a failed query is taken for an empty result.
OpForEmptyOnError(w, r) ==
  IF seen[w][r] \in {"failed", "absent"} THEN RemoveOp(r, Today(w)) ELSE UpsertOp(r, Today(w))

OpFor(w, r) ==
  CASE seen[w][r] = "failed" -> Nothing
    [] seen[w][r] = "absent" -> RemoveOp(r, Today(w))
    [] OTHER                 -> UpsertOp(r, Today(w))

StoreRead(w) ==
  /\ pc[w] = "reading" /\ account
  /\ pc' = [pc EXCEPT ![w] = "storing"]
  /\ plan' = [plan EXCEPT ![w] = [r \in Resources |-> OpFor(w, r)]]
  /\ UNCHANGED <<envVars, dbVars, queue, run, seen, marks, crashes>>

\* uq_resource_snapshot_per_day: another scan inserted the row meanwhile.
Collides(w) ==
  \E r \in Resources : plan[w][r].op = "insert" /\ snaps[r][plan[w][r].at] # NoRow

\* Slip: the update does not clear removed_at.
WrittenKeepsStamp(row, p, s) ==
  CASE p.op = "insert" -> [flagged |-> s = "flagged", removed |-> FALSE]
    [] p.op = "update" -> [row EXCEPT !.flagged = (s = "flagged")]
    [] p.op = "stamp"  -> [row EXCEPT !.removed = TRUE]

\* An UPDATE names only the columns whose value differs from the one loaded.
Written(row, p, s) ==
  CASE p.op = "insert" -> [flagged |-> s = "flagged", removed |-> FALSE]
    [] p.op = "update" ->
         [flagged |-> IF p.was.flagged = (s = "flagged") THEN row.flagged ELSE s = "flagged",
          removed |-> IF p.was.removed THEN FALSE ELSE row.removed]
    [] p.op = "stamp"  -> [row EXCEPT !.removed = TRUE]

StoreCommit(w) ==
  /\ pc[w] = "storing" /\ account
  /\ ~Collides(w)
  /\ snaps' = [r \in Resources |-> [d \in Days |->
       IF plan[w][r].op # "none" /\ plan[w][r].at = d
         THEN Written(snaps[r][d], plan[w][r], seen[w][r])
         ELSE snaps[r][d]]]
  /\ pc' = [pc EXCEPT ![w] = "stored"]
  /\ plan' = [plan EXCEPT ![w] = NoPlan]
  /\ UNCHANGED <<envVars, account, queue, runs, findings, run, seen, marks, crashes>>

\* Slips: a scan with errors gets no final status, or one the enum lacks.
FinalStatusIfComplete(w) ==
  IF \E r \in Resources : seen[w][r] = "failed" THEN "RUNNING" ELSE "SUCCESS"
FinalStatusPartial(w) ==
  IF \E r \in Resources : seen[w][r] = "failed" THEN "PARTIAL" ELSE "SUCCESS"
FinalStatus(w) == "SUCCESS"

\* status = SUCCESS, resources_scanned, error_message: a commit of its own.
MarkSuccess(w) ==
  /\ pc[w] = "stored" /\ account
  /\ runs' = [runs EXCEPT ![run[w]] =
       [@ EXCEPT !.status = FinalStatus(w),
                 !.scanned = {r \in Resources : seen[w][r] \in {"clean", "flagged"}}]]
  /\ pc' = [pc EXCEPT ![w] = "analysing"]
  /\ seen' = [seen EXCEPT ![w] = NoSight]
  /\ UNCHANGED <<envVars, account, queue, snaps, findings, run, plan, marks, crashes>>

\* Slip: a finding is added for every resource reported.
ToCreateNoLookup(idle) == Qualifying(idle)
ToCreate(idle) == {r \in Qualifying(idle) : OpenIds(r) = {}}

\* run_all_analyses, the SELECTs.  _upsert_finding looks an OPEN finding up
\* with scalar_one_or_none; _resolve_findings_not_in collects the OPEN ones
\* of the orphan detectors that are no longer reported.
AnalyseRead(w, idle) ==
  /\ pc[w] = "analysing" /\ account
  /\ \A r \in Qualifying(idle) : Cardinality(OpenIds(r)) <= 1
  /\ marks' = [marks EXCEPT ![w] =
       [create |-> ToCreate(idle),
        close  |-> [r \in Resources |->
                     IF KindOf[r] = "orphaned" /\ r \notin Qualifying(idle)
                       THEN OpenIds(r) ELSE {}]]]
  /\ pc' = [pc EXCEPT ![w] = "closing"]
  /\ UNCHANGED <<envVars, dbVars, queue, run, seen, plan, crashes>>

Closed(w, r) ==
  [i \in DOMAIN findings[r] |-> IF i \in marks[w].close[r] THEN "RESOLVED" ELSE findings[r][i]]

\* Slip: a problem seen again opens the finding the user had closed.
AnalysedReopens(w, r) ==
  IF r \notin marks[w].create THEN Closed(w, r)
  ELSE IF findings[r] = <<>> THEN <<"OPEN">>
  ELSE [findings[r] EXCEPT ![Len(findings[r])] = "OPEN"]

Analysed(w, r) ==
  IF r \in marks[w].create THEN Append(Closed(w, r), "OPEN") ELSE Closed(w, r)

\* run_all_analyses, the one commit at its end.
AnalyseCommit(w) ==
  /\ pc[w] = "closing" /\ account
  /\ findings' = [r \in Resources |-> Analysed(w, r)]
  /\ pc' = [pc EXCEPT ![w] = "syncing"]
  /\ marks' = [marks EXCEPT ![w] = NoMarks]
  /\ UNCHANGED <<envVars, account, queue, runs, snaps, run, seen, plan, crashes>>

\* Slip: the sync without a try block of its own.
SyncKnowledgeBaseFails(w) ==
  /\ pc[w] = "syncing"
  /\ \/ Leave(w) /\ UNCHANGED <<envVars, dbVars, queue, crashes>>
     \/ Fail(w)

\* _sync_ai_knowledge_base: whatever it does, an exception is swallowed.
SyncKnowledgeBase(w) ==
  /\ pc[w] = "syncing"
  /\ Leave(w)
  /\ UNCHANGED <<envVars, dbVars, queue, crashes>>

-----------------------------------------------------------------------------
(* The ways out                                                            *)

StoreConflict(w) == pc[w] = "storing" /\ Collides(w) /\ Fail(w)

\* MultipleResultsFound from scalar_one_or_none.
AnalyseAmbiguous(w, idle) ==
  /\ pc[w] = "analysing"
  /\ \E r \in Qualifying(idle) : Cardinality(OpenIds(r)) > 1
  /\ Fail(w)

\* Any other exception, the soft time limit among them.
TaskError(w) ==
  pc[w] \in {"collecting", "reading", "storing", "stored", "analysing", "closing"} /\ Fail(w)

\* The account was deleted under the task: refreshing it or writing a row
\* raises, and so does the handler's own update of the deleted scan run.
AccountGone(w) ==
  /\ pc[w] # "idle" /\ ~account
  /\ Leave(w)
  /\ UNCHANGED <<envVars, dbVars, queue, crashes>>

\* The process dies (hard time limit, OOM, restart).  With acks_late the
\* message is redelivered, or acknowledged as failed by the parent process.
Crash(w) ==
  /\ pc[w] # "idle" /\ crashes < MaxCrashes
  /\ crashes' = crashes + 1
  /\ queue' \in {queue} \cup (IF Len(runs) + queue < MaxRuns THEN {queue + 1} ELSE {})
  /\ Leave(w)
  /\ UNCHANGED <<envVars, dbVars>>

-----------------------------------------------------------------------------
TaskStep(w) ==
  \/ Begin(w)
  \/ \E F \in SUBSET Types : Collect(w, F)
  \/ StoreRead(w)
  \/ StoreCommit(w)
  \/ MarkSuccess(w)
  \/ \E idle \in SUBSET {r \in Resources : KindOf[r] = "rightsizing"} :
       AnalyseRead(w, idle) \/ AnalyseAmbiguous(w, idle)
  \/ AnalyseCommit(w)
  \/ SyncKnowledgeBase(w)
  \/ StoreConflict(w)
  \/ TaskError(w)
  \/ AccountGone(w)

UserStep == \E r \in Resources : \E i \in DOMAIN findings[r] : UserAction(r, i)

Next ==
  \/ AdvanceDay
  \/ \E r \in Resources, c \in CloudState : CloudChange(r, c)
  \/ TriggerScan
  \/ DeleteAccount
  \/ UserStep
  \/ \E w \in Workers : TaskStep(w) \/ Crash(w)

Spec == Init /\ [][Next]_vars

\* A live worker process runs its task on and takes the next message.
FairSpec == Spec /\ \A w \in Workers : WF_vars(TaskStep(w))
-----------------------------------------------------------------------------
(* Properties                                                              *)

\* Every variable has its type, and the requests stay within MaxRuns.
TypeOK ==
  /\ day \in Days
  /\ cloud \in [Resources -> CloudState]
  /\ account \in BOOLEAN
  /\ queue \in Nat
  /\ runs \in Seq(Run)
  /\ snaps \in [Resources -> [Days -> Row \cup {NoRow}]]
  /\ findings \in [Resources -> Seq(Status)]
  /\ pc \in [Workers -> Stages]
  /\ run \in [Workers -> Nat]
  /\ seen \in [Workers -> [Resources -> SeenState]]
  /\ plan \in [Workers -> [Resources -> Op]]
  /\ marks \in [Workers -> [create : SUBSET Resources,
                            close : [Resources -> SUBSET Nat]]]
  /\ crashes \in Nat

\* The resources a scan run counts as scanned have an inventory row for the
\* date of the run: SUCCESS is committed after the rows are, no later scan
\* takes a row away, and deleting the account takes both.
ScannedRowsStored ==
  \A i \in DOMAIN runs : runs[i].status # "DELETED" =>
    \A r \in runs[i].scanned : snaps[r][runs[i].today] # NoRow

\* A scan run that is RUNNING with no worker on it was left by a killed
\* process: every other way out of the task writes a final status.
Abandoned == {i \in DOMAIN runs : runs[i].status = "RUNNING" /\ \A w \in Workers : run[w] # i}
AbandonedByCrash == Cardinality(Abandoned) <= crashes

\* The step in which worker w commits its inventory.
Stores(w) == pc[w] = "storing" /\ pc'[w] = "stored"

\* A type whose query failed keeps its rows: a scan with partial data does
\* not make resources it could not list look removed.
PartialFailureKeepsRows ==
  [][\A w \in Workers, r \in Resources :
       Stores(w) /\ seen[w][r] = "failed" => snaps'[r] = snaps[r]]_vars

\* Where the account's scans do not overlap, an inventory commit leaves the
\* inventory as the scan saw it: what was listed is current with its attributes, also when an earlier
\* scan had stamped it removed; of what was not, the newest row is stamped.
StoreReflectsScan ==
  [][\A w \in Workers, r \in Resources : Stores(w) =>
       /\ seen[w][r] \in {"clean", "flagged"} =>
            InInventory(r)' /\ Latest(r)'.flagged = (seen[w][r] = "flagged")
       /\ seen[w][r] = "absent" /\ (\E d \in Stamp(r) : d < Today(w)) =>
            snaps'[r][Newest(Stamp(r))].removed]_vars

\* Once a worker is syncing the AI knowledge base its scan run is settled:
\* nothing that worker does changes the status any more.
SyncNeverFailsRun ==
  [][\A w \in Workers :
       pc[w] = "syncing" /\ account /\ account' => runs'[run[w]] = runs[run[w]]]_vars

\* A finding a user resolved or dismissed is only opened again by a user: a
\* scan that sees the problem again opens a new finding.
OnlyUsersReopen ==
  [][\A r \in Resources : \A i \in DOMAIN findings[r] \cap DOMAIN findings'[r] :
       findings[r][i] # "OPEN" /\ findings'[r][i] = "OPEN" => pc' = pc]_vars

\* Where the account's scans do not overlap, a finding kind without restore
\* has at most one OPEN finding per resource, so the lookup of later scans is unambiguous.
SingleOpenWithoutRestore ==
  \A r \in Resources : KindOf[r] \notin OptTypes => Cardinality(OpenIds(r)) <= 1

\* What the lookup of _upsert_finding takes for granted (scalar_one_or_none):
\* a resource never has two OPEN findings of one kind.
OpenLookupUnique == \A r \in Resources : Cardinality(OpenIds(r)) <= 1

\* What _latest_snapshots says of itself: "A resource that no longer appears
\* in the latest scan (deleted/released in AWS) must disappear from here."
\* Stated for resources _sync_removed_state takes up: known before today.
RemovedLeavesInventory ==
  [][\A w \in Workers, r \in Resources :
       Stores(w) /\ seen[w][r] = "absent" /\ (\E d \in Stamp(r) : d < Today(w))
         => ~InInventory(r)']_vars

\* Without kills, a scan run does not stay RUNNING.
Running(i) == i \in DOMAIN runs /\ runs[i].status = "RUNNING"
RunsFinish == \A i \in 1..MaxRuns : Running(i) ~> ~Running(i)

\* Every scan request is taken off the broker, also when its account is gone.
QueueDrains == queue > 0 ~> queue = 0
=============================================================================
