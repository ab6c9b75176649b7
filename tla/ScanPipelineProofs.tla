------------------------- MODULE ScanPipelineProofs -------------------------
(* Proofs about the account scan, for every set of resources and workers   *)
(* and for every bound.                                                    *)
EXTENDS ScanPipeline, SequenceTheorems, FiniteSetTheorems, WellFoundedInduction, TLAPS

\* A non-empty set of calendar days has a newest one.
LEMMA NewestExists ==
  ASSUME NEW S \in SUBSET Days, S # {}
  PROVE  Newest(S) \in S /\ \A e \in S : e <= Newest(S)
<1> DEFINE T == {MaxDay - d : d \in S}
<1>0. MaxDay \in Nat /\ \A d \in S : d \in Int /\ 1 <= d /\ d <= MaxDay
  BY PipelineAssumption DEF Days
<1>1. T \in SUBSET Nat
  <2>1. \A d \in S : MaxDay - d \in Nat
    BY <1>0
  <2> QED BY <2>1
<1>2. T # {}
  <2>1. PICK d \in S : TRUE
    OBVIOUS
  <2>2. MaxDay - d \in T
    BY <2>1
  <2> QED BY <2>2
<1>3. PICK m \in T : \A y \in T : <<y, m>> \notin OpToRel(<, Nat)
  <2> HIDE DEF T
  <2> QED BY <1>1, <1>2, WFMin, NatLessThanWellFounded
<1>4. \A y \in T : m <= y
  <2> SUFFICES ASSUME NEW y \in T PROVE m <= y
    OBVIOUS
  <2>1. ~(y < m)
    BY <1>1, <1>3 DEF OpToRel
  <2>2. y \in Nat /\ m \in Nat
    BY <1>1, <1>3
  <2> QED BY <2>1, <2>2
<1>5. PICK d \in S : m = MaxDay - d
  BY <1>3
<1>6. \A e \in S : e <= d
  <2> SUFFICES ASSUME NEW e \in S PROVE e <= d
    OBVIOUS
  <2>1. m <= MaxDay - e
    BY <1>4
  <2> QED BY <2>1, <1>5, <1>0
<1>7. \E x \in S : \A e \in S : e <= x
  BY <1>6
<1> HIDE DEF T
<1> QED BY <1>7 DEF Newest

-----------------------------------------------------------------------------
(* Type correctness                                                        *)

\* A worker inside the task has a scan run.
RunOwned == \A w \in Workers : pc[w] # "idle" => run[w] \in DOMAIN runs

TypeInv == TypeOK /\ RunOwned

\* The open inventory transaction of a worker still fits the tables: the rows
\* it will update or stamp exist, and it writes a row of the run's date for
\* every resource the scan listed.
PlanSound ==
  \A w \in Workers, r \in Resources : pc[w] = "storing" /\ account =>
    /\ plan[w][r].op \in {"update", "stamp"} =>
         plan[w][r].at \in Days /\ snaps[r][plan[w][r].at] # NoRow
    /\ plan[w][r].op = "update" => plan[w][r].was # NoRow
    /\ seen[w][r] \in {"clean", "flagged"} =>
         plan[w][r].op \in {"insert", "update"} /\ plan[w][r].at = Today(w)

\* Between the inventory commit and the SUCCESS commit the rows stay.
StoredSound ==
  \A w \in Workers, r \in Resources : pc[w] = "stored" /\ account =>
    (seen[w][r] \in {"clean", "flagged"} => snaps[r][Today(w)] # NoRow)

\* The runs of an account that exists have not been deleted with it.
RunsOfAccount == account => \A i \in DOMAIN runs : runs[i].status # "DELETED"

IInv == TypeInv /\ RunsOfAccount /\ PlanSound /\ StoredSound /\ ScannedRowsStored

\* What the inventory commit writes is a row.
LEMMA CommitTyped ==
  ASSUME TypeInv, PlanSound, NEW w \in Workers, NEW r \in Resources, NEW d \in Days,
         pc[w] = "storing", account, plan[w][r].op # "none", plan[w][r].at = d
  PROVE  Written(snaps[r][d], plan[w][r], seen[w][r]) \in Row
<1> DEFINE p == plan[w][r]
<1>1. p \in Op /\ snaps[r][d] \in Row \cup {NoRow}
  BY DEF TypeInv, TypeOK
<1>2. CASE p.op = "insert"
  BY <1>2 DEF Written, Row
<1>3. CASE p.op = "update"
  BY <1>1, <1>3 DEF Written, Row, PlanSound, Op
<1>4. CASE p.op = "stamp"
  BY <1>1, <1>4 DEF Written, Row, PlanSound, Op
<1> QED BY <1>1, <1>2, <1>3, <1>4 DEF Op

LEMMA LeaveType ==
  ASSUME TypeInv, NEW w \in Workers, Leave(w), runs' \in Seq(Run), DOMAIN runs' = DOMAIN runs
  PROVE  /\ pc' \in [Workers -> Stages] /\ run' \in [Workers -> Nat]
         /\ seen' \in [Workers -> [Resources -> SeenState]]
         /\ plan' \in [Workers -> [Resources -> Op]]
         /\ marks' \in [Workers -> [create : SUBSET Resources, close : [Resources -> SUBSET Nat]]]
         /\ RunOwned'
<1>1. NoSight \in [Resources -> SeenState]
  BY DEF NoSight, SeenState
<1>2. NoPlan \in [Resources -> Op]
  BY DEF NoPlan, Nothing, Op
<1>3. NoMarks \in [create : SUBSET Resources, close : [Resources -> SUBSET Nat]]
  BY DEF NoMarks
<1>4. RunOwned'
  BY DEF TypeInv, TypeOK, RunOwned, Leave, Stages
<1> QED BY <1>1, <1>2, <1>3, <1>4 DEF TypeInv, TypeOK, Leave, Stages

\* The scan run of a worker is a record of the table.
LEMMA RunRecord ==
  ASSUME TypeInv, NEW w \in Workers, pc[w] # "idle"
  PROVE  /\ run[w] \in 1..Len(runs) /\ runs[run[w]] \in Run /\ Today(w) \in Days
         /\ DOMAIN runs = 1..Len(runs)
<1>1. DOMAIN runs = 1..Len(runs) /\ runs \in [1..Len(runs) -> Run]
  BY LenProperties DEF TypeInv, TypeOK
<1>2. run[w] \in 1..Len(runs)
  BY <1>1 DEF TypeInv, RunOwned
<1>3. runs[run[w]] \in Run
  BY <1>1, <1>2
<1> QED BY <1>1, <1>2, <1>3 DEF Today, Run

\* Updating one scan run keeps the others and the number of them.
LEMMA RunUpdate ==
  ASSUME TypeInv, NEW i \in 1..Len(runs), NEW x \in Run, runs' = [runs EXCEPT ![i] = x]
  PROVE  /\ runs' \in Seq(Run) /\ DOMAIN runs' = DOMAIN runs
         /\ \A j \in DOMAIN runs : runs'[j] = IF j = i THEN x ELSE runs[j]
<1>1. runs \in Seq(Run)
  BY DEF TypeInv, TypeOK
<1>2. DOMAIN runs = 1..Len(runs)
  BY <1>1, LenProperties
<1>3. runs' \in Seq(Run)
  BY <1>1, ExceptSeq
<1> QED BY <1>2, <1>3

LEMMA FailRuns ==
  ASSUME TypeInv, NEW w \in Workers, pc[w] # "idle", Fail(w)
  PROVE  /\ runs' \in Seq(Run) /\ DOMAIN runs' = DOMAIN runs
         /\ \A j \in DOMAIN runs :
              /\ runs'[j].today = runs[j].today
              /\ runs'[j].scanned = runs[j].scanned
              /\ runs[j].status # "DELETED" => runs'[j].status # "DELETED"
<1>1. run[w] \in 1..Len(runs) /\ runs[run[w]] \in Run
  BY RunRecord
<1> DEFINE x == [runs[run[w]] EXCEPT !.status = "FAILED"]
<1>2. /\ x \in Run /\ x.today = runs[run[w]].today
      /\ x.scanned = runs[run[w]].scanned /\ x.status # "DELETED"
  BY <1>1 DEF Run, RunStatus
<1>3. runs' = [runs EXCEPT ![run[w]] = x]
  BY DEF Fail
<1> HIDE DEF x
<1> QED BY <1>1, <1>2, <1>3, RunUpdate

LEMMA SuccessRuns ==
  ASSUME TypeInv, NEW w \in Workers, MarkSuccess(w)
  PROVE  /\ runs' \in Seq(Run) /\ DOMAIN runs' = DOMAIN runs
         /\ \A j \in DOMAIN runs :
              /\ runs'[j].today = runs[j].today
              /\ j # run[w] => runs'[j] = runs[j]
              /\ runs[j].status # "DELETED" => runs'[j].status # "DELETED"
              /\ j = run[w] => runs'[j].scanned = {r \in Resources : seen[w][r] \in {"clean", "flagged"}}
<1>1. run[w] \in 1..Len(runs) /\ runs[run[w]] \in Run
  BY RunRecord DEF MarkSuccess
<1> DEFINE listed == {r \in Resources : seen[w][r] \in {"clean", "flagged"}}
           x == [runs[run[w]] EXCEPT !.status = FinalStatus(w), !.scanned = listed]
<1>2. /\ x \in Run /\ x.today = runs[run[w]].today
      /\ x.scanned = listed /\ x.status # "DELETED"
  BY <1>1 DEF Run, RunStatus, FinalStatus
<1>3. runs' = [runs EXCEPT ![run[w]] = x]
  BY DEF MarkSuccess
<1> HIDE DEF x
<1> QED BY <1>1, <1>2, <1>3, RunUpdate

LEMMA BeginRuns ==
  ASSUME TypeInv, NEW w \in Workers, Begin(w), account
  PROVE  /\ runs' \in Seq(Run) /\ DOMAIN runs \subseteq DOMAIN runs'
         /\ DOMAIN runs' = DOMAIN runs \cup {Len(runs) + 1}
         /\ \A j \in DOMAIN runs : runs'[j] = runs[j]
         /\ runs'[Len(runs) + 1].scanned = {} /\ runs'[Len(runs) + 1].status # "DELETED"
         /\ Len(runs) \in Nat
<1> DEFINE new == [status |-> "RUNNING", today |-> day, scanned |-> {}]
<1>1. new \in Run /\ new.scanned = {} /\ new.status # "DELETED"
  BY DEF Run, RunStatus, TypeInv, TypeOK
<1>2. runs \in Seq(Run) /\ runs' = Append(runs, new)
  BY DEF Begin, TypeInv, TypeOK
<1> HIDE DEF new
<1>3. DOMAIN runs = 1..Len(runs) /\ Len(runs) \in Nat
  BY <1>2, LenProperties
<1>4. runs' \in Seq(Run) /\ Len(runs') = Len(runs) + 1
  BY <1>1, <1>2, AppendProperties
<1>5. DOMAIN runs' = 1..(Len(runs) + 1)
  BY <1>4, LenProperties
<1>6. (\A j \in 1..Len(runs) : runs'[j] = runs[j]) /\ runs'[Len(runs) + 1] = new
  BY <1>1, <1>2, AppendProperties
<1> QED BY <1>1, <1>3, <1>4, <1>5, <1>6

LEMMA FailType == ASSUME TypeInv, NEW w \in Workers, pc[w] # "idle", Fail(w) PROVE TypeInv'
<1>1. runs' \in Seq(Run) /\ DOMAIN runs' = DOMAIN runs
  BY FailRuns
<1> QED BY <1>1, LeaveType DEF Fail, TypeInv, TypeOK, envVars

LEMMA StepType == IInv /\ [Next]_vars => TypeInv'
<1> SUFFICES ASSUME TypeInv, PlanSound, [Next]_vars PROVE TypeInv'
  BY DEF IInv
<1> USE DEF TypeInv, TypeOK
<1>1. CASE AdvanceDay
  BY <1>1, PipelineAssumption DEF AdvanceDay, workerVars, Days, RunOwned
<1>2. ASSUME NEW r \in Resources, NEW c \in CloudState, CloudChange(r, c) PROVE TypeInv'
  BY <1>2 DEF CloudChange, workerVars, RunOwned
<1>3. CASE TriggerScan
  BY <1>3 DEF TriggerScan, workerVars, envVars, RunOwned
<1>4. CASE DeleteAccount
  <2>1. runs' \in Seq(Run) /\ DOMAIN runs' = DOMAIN runs
    <3>1. PICK n \in Nat : runs \in [1..n -> Run]
      BY SeqDef
    <3>2. runs' = [i \in 1..n |-> [runs[i] EXCEPT !.status = "DELETED"]]
      BY <1>4, <3>1 DEF DeleteAccount
    <3>3. runs' \in [1..n -> Run]
      BY <3>1, <3>2 DEF Run, RunStatus
    <3>4. runs' \in Seq(Run)
      BY <3>3, SeqDef
    <3> QED BY <3>1, <3>2, <3>4
  <2>2. findings' \in [Resources -> Seq(Status)]
    BY <1>4 DEF DeleteAccount
  <2> QED BY <1>4, <2>1, <2>2 DEF DeleteAccount, workerVars, envVars, RunOwned
<1>5. ASSUME NEW r \in Resources, NEW i \in DOMAIN findings[r], UserAction(r, i) PROVE TypeInv'
  <2>1. PICK s \in Status : SetStatus(r, i, s)
    BY <1>5 DEF UserAction, ApplyOptimization, DismissOptimization, RestoreOptimization,
                DeleteOrphaned, RemediateOrphaned, ResolveFinding, Status
  <2>2. findings' \in [Resources -> Seq(Status)]
    BY <2>1 DEF SetStatus
  <2> QED BY <2>1, <2>2 DEF SetStatus, workerVars, envVars, RunOwned
<1>6. ASSUME NEW w \in Workers, Begin(w) PROVE TypeInv'
  <2>1. CASE account
    <3>2. runs' \in Seq(Run) /\ DOMAIN runs' = DOMAIN runs \cup {Len(runs) + 1} /\ Len(runs) \in Nat
      BY <1>6, <2>1, BeginRuns
    <3>3. RunOwned'
      <4> SUFFICES ASSUME NEW v \in Workers, pc'[v] # "idle" PROVE run'[v] \in DOMAIN runs'
        BY DEF RunOwned
      <4>1. CASE v = w
        BY <1>6, <2>1, <3>2, <4>1 DEF Begin
      <4>2. CASE v # w
        BY <1>6, <2>1, <3>2, <4>2 DEF Begin, RunOwned
      <4> QED BY <4>1, <4>2
    <3>4. run' \in [Workers -> Nat]
      <4>1. run' = [run EXCEPT ![w] = Len(runs) + 1]
        BY <1>6, <2>1 DEF Begin
      <4> DEFINE n == Len(runs) + 1
      <4>2. n \in Nat
        BY <3>2
      <4> HIDE DEF n
      <4> QED BY <4>1, <4>2 DEF n
    <3>5. queue' \in Nat /\ pc' \in [Workers -> Stages]
      <4>1. queue > 0 /\ queue' = queue - 1 /\ pc' = [pc EXCEPT ![w] = "collecting"]
        BY <1>6, <2>1 DEF Begin
      <4>2. queue \in Nat /\ pc \in [Workers -> Stages] /\ "collecting" \in Stages
        BY DEF Stages
      <4> QED BY <4>1, <4>2
    <3>6. UNCHANGED <<envVars, account, snaps, findings, seen, plan, marks, crashes>>
      BY <1>6 DEF Begin
    <3> QED BY <3>2, <3>3, <3>4, <3>5, <3>6 DEF envVars
  <2>2. CASE ~account
    BY <1>6, <2>2 DEF Begin, envVars, RunOwned
  <2> QED BY <2>1, <2>2
<1>7. ASSUME NEW w \in Workers, NEW F \in SUBSET Types, Collect(w, F) PROVE TypeInv'
  BY <1>7 DEF Collect, envVars, dbVars, RunOwned, Stages, SeenState, CloudState
<1>8. ASSUME NEW w \in Workers, StoreRead(w) PROVE TypeInv'
  <2>1. \A r \in Resources : OpFor(w, r) \in Op
    <3> SUFFICES ASSUME NEW r \in Resources PROVE OpFor(w, r) \in Op
      OBVIOUS
    <3>1. Nothing \in Op
      BY DEF Nothing, Op
    <3>2. Today(w) \in Days
      BY <1>8, RunRecord DEF StoreRead
    <3>3. UpsertOp(r, Today(w)) \in Op
      BY <3>2 DEF UpsertOp, Op
    <3>4. RemoveOp(r, Today(w)) \in Op
      <4>1. Stamp(r) \in SUBSET Days
        BY DEF Stamp
      <4>2. CASE Stamp(r) = {}
        BY <4>2, <3>1 DEF RemoveOp
      <4>3. CASE Stamp(r) # {}
        <5>1. Newest(Stamp(r)) \in Days
          BY <4>1, <4>3, NewestExists
        <5> QED BY <5>1, <3>1 DEF RemoveOp, Op
      <4> QED BY <4>2, <4>3
    <3> QED BY <3>1, <3>3, <3>4 DEF OpFor
  <2>2. plan' \in [Workers -> [Resources -> Op]]
    BY <1>8, <2>1 DEF StoreRead
  <2> QED BY <1>8, <2>2 DEF StoreRead, envVars, dbVars, RunOwned, Stages
<1>9. ASSUME NEW w \in Workers, StoreCommit(w) PROVE TypeInv'
  <2>1. \A r \in Resources, d \in Days :
          plan[w][r].op # "none" /\ plan[w][r].at = d =>
            Written(snaps[r][d], plan[w][r], seen[w][r]) \in Row
    BY <1>9, CommitTyped DEF StoreCommit
  <2>2. snaps' \in [Resources -> [Days -> Row \cup {NoRow}]]
    BY <1>9, <2>1 DEF StoreCommit
  <2>3. NoPlan \in [Resources -> Op]
    BY DEF NoPlan, Nothing, Op
  <2> QED BY <1>9, <2>2, <2>3 DEF StoreCommit, envVars, RunOwned, Stages
<1>10. ASSUME NEW w \in Workers, MarkSuccess(w) PROVE TypeInv'
  <2>1. runs' \in Seq(Run) /\ DOMAIN runs' = DOMAIN runs
    BY <1>10, SuccessRuns
  <2>2. NoSight \in [Resources -> SeenState]
    BY DEF NoSight, SeenState
  <2> QED BY <1>10, <2>1, <2>2 DEF MarkSuccess, envVars, RunOwned, Stages
<1>11. ASSUME NEW w \in Workers, NEW idle \in SUBSET Resources, AnalyseRead(w, idle) PROVE TypeInv'
  <2>1. ToCreate(idle) \in SUBSET Resources
    BY DEF ToCreate, Qualifying
  <2>2. \A r \in Resources : OpenIds(r) \in SUBSET Nat
    BY DEF OpenIds
  <2>3. marks' \in [Workers -> [create : SUBSET Resources, close : [Resources -> SUBSET Nat]]]
    BY <1>11, <2>1, <2>2 DEF AnalyseRead
  <2> QED BY <1>11, <2>3 DEF AnalyseRead, envVars, dbVars, RunOwned, Stages
<1>12. ASSUME NEW w \in Workers, AnalyseCommit(w) PROVE TypeInv'
  <2>1. \A r \in Resources : Analysed(w, r) \in Seq(Status)
    <3> SUFFICES ASSUME NEW r \in Resources PROVE Analysed(w, r) \in Seq(Status)
      OBVIOUS
    <3>1. Closed(w, r) \in Seq(Status)
      <4>1. PICK n \in Nat : findings[r] \in [1..n -> Status]
        BY SeqDef
      <4>2. Closed(w, r) \in [1..n -> Status]
        BY <4>1 DEF Closed, Status
      <4> QED BY <4>2
    <3> QED BY <3>1 DEF Analysed, Status
  <2>2. findings' \in [Resources -> Seq(Status)]
    BY <1>12, <2>1 DEF AnalyseCommit
  <2>3. NoMarks \in [create : SUBSET Resources, close : [Resources -> SUBSET Nat]]
    BY DEF NoMarks
  <2> QED BY <1>12, <2>2, <2>3 DEF AnalyseCommit, envVars, RunOwned, Stages
<1>13. ASSUME NEW w \in Workers, SyncKnowledgeBase(w) PROVE TypeInv'
  BY <1>13, LeaveType DEF SyncKnowledgeBase, envVars, dbVars
<1>14. ASSUME NEW w \in Workers, pc[w] # "idle", Fail(w) PROVE TypeInv'
  BY <1>14, FailType
<1>15. ASSUME NEW w \in Workers, AccountGone(w) PROVE TypeInv'
  BY <1>15, LeaveType DEF AccountGone, envVars, dbVars
<1>16. ASSUME NEW w \in Workers, Crash(w) PROVE TypeInv'
  BY <1>16, LeaveType DEF Crash, envVars, dbVars
<1>17. CASE UNCHANGED vars
  BY <1>17 DEF vars, RunOwned
<1>18. ASSUME NEW w \in Workers, TaskStep(w) PROVE TypeInv'
  BY <1>18, <1>6, <1>7, <1>8, <1>9, <1>10, <1>11, <1>12, <1>13, <1>14, <1>15
     DEF TaskStep, StoreConflict, AnalyseAmbiguous, TaskError
<1> QED
  BY <1>1, <1>2, <1>3, <1>4, <1>5, <1>16, <1>17, <1>18 DEF Next, UserStep


-----------------------------------------------------------------------------
(* The inventory invariant                                                 *)

\* While the account exists no row and no date of a run is lost, and a
\* deleted account does not come back.
LEMMA TablesKept ==
  ASSUME IInv, [Next]_vars
  PROVE  /\ account' => account
         /\ account' => \A r \in Resources, d \in Days : snaps[r][d] # NoRow => snaps'[r][d] # NoRow
         /\ DOMAIN runs \subseteq DOMAIN runs'
         /\ account' => \A j \in DOMAIN runs : runs'[j].today = runs[j].today
<1>1. CASE DeleteAccount
  BY <1>1 DEF DeleteAccount
<1>2. ASSUME NEW w \in Workers, Begin(w)
      PROVE  /\ account' = account /\ snaps' = snaps /\ DOMAIN runs \subseteq DOMAIN runs'
             /\ \A j \in DOMAIN runs : runs'[j] = runs[j]
  <2>1. CASE account
    BY <1>2, <2>1, BeginRuns DEF Begin, IInv
  <2>2. CASE ~account
    BY <1>2, <2>2 DEF Begin
  <2> QED BY <2>1, <2>2
<1>3. ASSUME NEW w \in Workers, StoreCommit(w)
      PROVE  /\ account' = account /\ runs' = runs
             /\ \A r \in Resources, d \in Days : snaps[r][d] # NoRow => snaps'[r][d] # NoRow
  <2> SUFFICES ASSUME NEW r \in Resources, NEW d \in Days, snaps[r][d] # NoRow
               PROVE  snaps'[r][d] # NoRow
    BY <1>3 DEF StoreCommit
  <2>1. CASE plan[w][r].op # "none" /\ plan[w][r].at = d
    <3>1. snaps'[r][d] = Written(snaps[r][d], plan[w][r], seen[w][r])
      BY <1>3, <2>1 DEF StoreCommit
    <3>2. snaps'[r][d] \in Row
      BY <1>3, <2>1, <3>1, CommitTyped DEF StoreCommit, IInv
    <3> QED BY <3>2, PipelineAssumption DEF Row
  <2>2. CASE ~(plan[w][r].op # "none" /\ plan[w][r].at = d)
    BY <1>3, <2>2 DEF StoreCommit
  <2> QED BY <2>1, <2>2
<1>4. ASSUME NEW w \in Workers, MarkSuccess(w)
      PROVE  /\ account' = account /\ snaps' = snaps /\ DOMAIN runs' = DOMAIN runs
             /\ \A j \in DOMAIN runs : runs'[j].today = runs[j].today
  BY <1>4, SuccessRuns DEF MarkSuccess, IInv
<1>5. ASSUME NEW w \in Workers, pc[w] # "idle", Fail(w)
      PROVE  /\ account' = account /\ snaps' = snaps /\ DOMAIN runs' = DOMAIN runs
             /\ \A j \in DOMAIN runs : runs'[j].today = runs[j].today
  BY <1>5, FailRuns DEF Fail, IInv
<1>6. ASSUME NEW w \in Workers, TaskStep(w)
      PROVE  /\ account' = account /\ DOMAIN runs \subseteq DOMAIN runs'
             /\ \A r \in Resources, d \in Days : snaps[r][d] # NoRow => snaps'[r][d] # NoRow
             /\ \A j \in DOMAIN runs : runs'[j].today = runs[j].today
  BY <1>6, <1>2, <1>3, <1>4, <1>5
     DEF TaskStep, Collect, StoreRead, AnalyseRead, AnalyseCommit, SyncKnowledgeBase,
         StoreConflict, AnalyseAmbiguous, TaskError, AccountGone, dbVars
<1>7. ASSUME NEW w \in Workers, Crash(w) PROVE UNCHANGED dbVars
  BY <1>7 DEF Crash
<1>8. CASE AdvanceDay \/ (\E r \in Resources, c \in CloudState : CloudChange(r, c)) \/ TriggerScan
           \/ UNCHANGED vars
  BY <1>8 DEF AdvanceDay, CloudChange, TriggerScan, vars
<1>9. CASE UserStep
  BY <1>9 DEF UserStep, UserAction, ApplyOptimization, DismissOptimization, RestoreOptimization,
              DeleteOrphaned, RemediateOrphaned, ResolveFinding, SetStatus
<1> QED BY <1>1, <1>6, <1>7, <1>8, <1>9 DEF Next, dbVars

\* Once the account is gone the tables are empty and stay so.
LEMMA GoneKept ==
  ASSUME IInv, [Next]_vars, ~account
  PROVE  runs' = runs /\ snaps' = snaps /\ ~account'
<1>1. ASSUME NEW w \in Workers, TaskStep(w)
      PROVE  runs' = runs /\ snaps' = snaps /\ account' = account
  BY <1>1 DEF TaskStep, Begin, Collect, StoreRead, StoreCommit, MarkSuccess, AnalyseRead,
              AnalyseCommit, SyncKnowledgeBase, StoreConflict, AnalyseAmbiguous, TaskError,
              AccountGone, Fail, dbVars
<1>2. ASSUME NEW w \in Workers, Crash(w) PROVE UNCHANGED dbVars
  BY <1>2 DEF Crash
<1>3. CASE AdvanceDay \/ (\E r \in Resources, c \in CloudState : CloudChange(r, c)) \/ UNCHANGED vars
  BY <1>3 DEF AdvanceDay, CloudChange, vars
<1>4. CASE UserStep
  BY <1>4 DEF UserStep, UserAction, ApplyOptimization, DismissOptimization, RestoreOptimization,
              DeleteOrphaned, RemediateOrphaned, ResolveFinding, SetStatus
<1> QED BY <1>1, <1>2, <1>3, <1>4 DEF Next, dbVars, TriggerScan, DeleteAccount

\* A worker does not move.
Stays(v) == pc'[v] = pc[v] /\ run'[v] = run[v] /\ seen'[v] = seen[v] /\ plan'[v] = plan[v]

\* A worker is only found with an open inventory transaction, or after its
\* commit, when it was there before or has just done that very step.
LEMMA WorkerFrame ==
  ASSUME TypeInv, [Next]_vars, NEW v \in Workers
  PROVE  /\ pc'[v] = "storing" => StoreRead(v) \/ Stays(v)
         /\ pc'[v] = "stored" => StoreCommit(v) \/ Stays(v)
<1> USE DEF TypeInv, TypeOK
<1>1. ASSUME NEW w \in Workers, Leave(w)
      PROVE  Stays(v) \/ pc'[v] = "idle"
  BY <1>1 DEF Leave, Stays
<1>2. ASSUME NEW w \in Workers, TaskStep(w)
      PROVE  Stays(v) \/ pc'[v] \notin {"storing", "stored"} \/ StoreRead(v) \/ StoreCommit(v)
  <2>1. CASE w = v
    BY <1>1, <1>2, <2>1 DEF TaskStep, Begin, Collect, StoreRead, StoreCommit, MarkSuccess,
       AnalyseRead, AnalyseCommit, SyncKnowledgeBase, StoreConflict, AnalyseAmbiguous, TaskError,
       AccountGone, Fail, Stays
  <2>2. CASE w # v
    BY <1>1, <1>2, <2>2 DEF TaskStep, Begin, Collect, StoreRead, StoreCommit, MarkSuccess,
       AnalyseRead, AnalyseCommit, SyncKnowledgeBase, StoreConflict, AnalyseAmbiguous, TaskError,
       AccountGone, Fail, Leave, Stays
  <2> QED BY <2>1, <2>2
<1>3. ASSUME NEW w \in Workers, Crash(w) PROVE Stays(v) \/ pc'[v] = "idle"
  BY <1>1, <1>3 DEF Crash
<1>4. CASE \/ AdvanceDay \/ (\E r \in Resources, c \in CloudState : CloudChange(r, c))
           \/ TriggerScan \/ DeleteAccount \/ UNCHANGED vars
  BY <1>4 DEF AdvanceDay, CloudChange, TriggerScan, DeleteAccount, workerVars, vars, Stays
<1>5. CASE UserStep
  BY <1>5 DEF UserStep, UserAction, ApplyOptimization, DismissOptimization, RestoreOptimization,
              DeleteOrphaned, RemediateOrphaned, ResolveFinding, SetStatus, workerVars, Stays
<1>6. \A w \in Workers : StoreRead(w) /\ pc'[v] = "stored" => Stays(v)
  BY DEF StoreRead, Stays
<1>7. \A w \in Workers : StoreCommit(w) /\ pc'[v] = "storing" => Stays(v)
  BY DEF StoreCommit, Stays
<1> QED BY <1>2, <1>3, <1>4, <1>5, <1>6, <1>7 DEF Next

LEMMA PlanSoundStep == IInv /\ [Next]_vars => PlanSound'
<1> SUFFICES ASSUME IInv, [Next]_vars, NEW v \in Workers, NEW q \in Resources,
                    pc'[v] = "storing", account'
             PROVE  /\ plan'[v][q].op \in {"update", "stamp"} =>
                         plan'[v][q].at \in Days /\ snaps'[q][plan'[v][q].at] # NoRow
                    /\ plan'[v][q].op = "update" => plan'[v][q].was # NoRow
                    /\ seen'[v][q] \in {"clean", "flagged"} =>
                         plan'[v][q].op \in {"insert", "update"} /\ plan'[v][q].at = Today(v)'
  BY DEF PlanSound
<1> USE DEF IInv, TypeInv, TypeOK
<1>1. CASE StoreRead(v)
  <2>1. plan'[v][q] = OpFor(v, q) /\ snaps' = snaps /\ seen' = seen /\ Today(v)' = Today(v)
    BY <1>1 DEF StoreRead, dbVars, Today
  <2>2. Today(v) \in Days
    BY <1>1, RunRecord DEF StoreRead
  <2>3. CASE seen[v][q] = "failed"
    BY <2>1, <2>3 DEF OpFor, Nothing
  <2>4. CASE seen[v][q] = "absent"
    <3> DEFINE o == RemoveOp(q, Today(v))
    <3>1. o.op \in {"none", "stamp"}
      BY DEF RemoveOp, Nothing
    <3>2. o.op = "stamp" => o.at \in Days /\ snaps[q][o.at] # NoRow
      <4>1. Stamp(q) \in SUBSET Days
        BY DEF Stamp
      <4>2. CASE Stamp(q) = {}
        BY <4>2 DEF RemoveOp, Nothing
      <4>3. CASE Stamp(q) # {}
        <5>1. Newest(Stamp(q)) \in Stamp(q)
          BY <4>1, <4>3, NewestExists
        <5> QED BY <5>1 DEF RemoveOp, Nothing, Stamp
      <4> QED BY <4>2, <4>3
    <3>3. plan'[v][q] = o
      BY <2>1, <2>4 DEF OpFor
    <3> HIDE DEF o
    <3> QED BY <2>1, <2>4, <3>1, <3>2, <3>3
  <2>5. CASE seen[v][q] \notin {"failed", "absent"}
    BY <2>1, <2>2, <2>5 DEF OpFor, UpsertOp
  <2> QED BY <2>3, <2>4, <2>5
<1>2. CASE Stays(v)
  <2>1. pc[v] = "storing" /\ account
    BY <1>2, TablesKept DEF Stays
  <2>2. Today(v)' = Today(v)
    <3>1. run[v] \in DOMAIN runs
      BY <2>1 DEF RunOwned
    <3> QED BY <1>2, <3>1, TablesKept DEF Stays, Today
  <2> QED BY <1>2, <2>1, <2>2, TablesKept DEF Stays, PlanSound
<1> QED BY <1>1, <1>2, WorkerFrame

LEMMA StoredSoundStep == IInv /\ [Next]_vars => StoredSound'
<1> SUFFICES ASSUME IInv, [Next]_vars, NEW v \in Workers, NEW q \in Resources,
                    pc'[v] = "stored", account', seen'[v][q] \in {"clean", "flagged"}
             PROVE  snaps'[q][Today(v)'] # NoRow
  BY DEF StoredSound
<1> USE DEF IInv, TypeInv, TypeOK
<1>0. account /\ pc[v] # "idle" => Today(v) \in Days
  BY RunRecord
<1>1. CASE StoreCommit(v)
  <2> DEFINE d == Today(v)
  <2>1. d \in Days /\ Today(v)' = d /\ seen' = seen /\ pc[v] = "storing" /\ account
    BY <1>0, <1>1, TablesKept DEF StoreCommit, Today
  <2>2. plan[v][q].op \in {"insert", "update"} /\ plan[v][q].at = d
    BY <2>1 DEF PlanSound
  <2>3. Written(snaps[q][d], plan[v][q], seen[v][q]) \in Row
    BY <2>1, <2>2, CommitTyped
  <2>4. snaps'[q][d] = Written(snaps[q][d], plan[v][q], seen[v][q])
    BY <1>1, <2>1, <2>2 DEF StoreCommit
  <2> QED BY <2>1, <2>3, <2>4, PipelineAssumption DEF Row
<1>2. CASE Stays(v)
  <2>1. pc[v] = "stored" /\ account
    BY <1>2, TablesKept DEF Stays
  <2>2. Today(v)' = Today(v)
    BY <1>2, <2>1, TablesKept DEF Stays, Today, RunOwned
  <2>3. snaps[q][Today(v)] # NoRow
    BY <1>2, <2>1 DEF Stays, StoredSound
  <2> QED BY <1>0, <2>1, <2>2, <2>3, TablesKept
<1> QED BY <1>1, <1>2, WorkerFrame

\* What a step does to the scan runs of an account that stays: each one keeps
\* its date and what it scanned, is new and has scanned nothing yet, or gets
\* its result from the worker that committed the rows.
LEMMA RunsFrame ==
  ASSUME IInv, [Next]_vars, account, account', NEW j \in DOMAIN runs'
  PROVE  /\ runs'[j].status # "DELETED"
         /\ \/ j \in DOMAIN runs /\ runs'[j].today = runs[j].today /\ runs'[j].scanned = runs[j].scanned
            \/ runs'[j].scanned = {}
            \/ \E w \in Workers : MarkSuccess(w) /\ j = run[w] /\ j \in DOMAIN runs
                 /\ runs'[j].scanned = {r \in Resources : seen[w][r] \in {"clean", "flagged"}}
<1> USE DEF IInv, RunsOfAccount
<1>1. CASE runs' = runs
  BY <1>1
<1>2. ASSUME NEW w \in Workers, Begin(w)
      PROVE  /\ runs'[j].status # "DELETED"
             /\ \/ j \in DOMAIN runs /\ runs'[j] = runs[j]
                \/ runs'[j].scanned = {}
  <2>1. j \in DOMAIN runs \/ j = Len(runs) + 1
    BY <1>2, BeginRuns
  <2> QED BY <1>2, <2>1, BeginRuns
<1>3. ASSUME NEW w \in Workers, pc[w] # "idle", Fail(w)
      PROVE  /\ runs'[j].status # "DELETED" /\ j \in DOMAIN runs
             /\ runs'[j].today = runs[j].today /\ runs'[j].scanned = runs[j].scanned
  BY <1>3, FailRuns
<1>4. ASSUME NEW w \in Workers, MarkSuccess(w)
      PROVE  /\ runs'[j].status # "DELETED" /\ j \in DOMAIN runs /\ runs'[j].today = runs[j].today
             /\ \/ runs'[j].scanned = runs[j].scanned
                \/ j = run[w] /\ runs'[j].scanned = {r \in Resources : seen[w][r] \in {"clean", "flagged"}}
  BY <1>4, SuccessRuns
<1>5. ASSUME NEW w \in Workers, TaskStep(w)
      PROVE  \/ runs' = runs \/ Begin(w) \/ (pc[w] # "idle" /\ Fail(w)) \/ MarkSuccess(w)
  BY <1>5 DEF TaskStep, Collect, StoreRead, StoreCommit, AnalyseRead, AnalyseCommit,
     SyncKnowledgeBase, StoreConflict, AnalyseAmbiguous, TaskError, AccountGone, dbVars
<1>6. CASE \E w \in Workers : TaskStep(w)
  BY <1>1, <1>2, <1>3, <1>4, <1>5, <1>6
<1>7. CASE \/ AdvanceDay \/ (\E r \in Resources, c \in CloudState : CloudChange(r, c))
           \/ TriggerScan \/ UserStep \/ (\E w \in Workers : Crash(w)) \/ UNCHANGED vars
  <2>1. runs' = runs
    BY <1>7 DEF AdvanceDay, CloudChange, TriggerScan, Crash, dbVars, vars, UserStep, UserAction,
       ApplyOptimization, DismissOptimization, RestoreOptimization, DeleteOrphaned,
       RemediateOrphaned, ResolveFinding, SetStatus
  <2> QED BY <1>1, <2>1
<1>8. ~DeleteAccount
  BY DEF DeleteAccount
<1> QED BY <1>6, <1>7, <1>8 DEF Next

\* An account only goes by its deletion.
LEMMA OnlyDelete == ASSUME IInv, [Next]_vars, account, ~account' PROVE DeleteAccount
<1>1. ASSUME NEW w \in Workers, TaskStep(w) PROVE account' = account
  BY <1>1 DEF TaskStep, Begin, Collect, StoreRead, StoreCommit, MarkSuccess, AnalyseRead,
     AnalyseCommit, SyncKnowledgeBase, StoreConflict, AnalyseAmbiguous, TaskError, AccountGone,
     Fail, dbVars
<1>2. ASSUME NEW w \in Workers, Crash(w) PROVE account' = account
  BY <1>2 DEF Crash, dbVars
<1>3. UserStep => account' = account
  BY DEF UserStep, UserAction, ApplyOptimization, DismissOptimization, RestoreOptimization,
     DeleteOrphaned, RemediateOrphaned, ResolveFinding, SetStatus
<1> QED BY <1>1, <1>2, <1>3 DEF Next, AdvanceDay, CloudChange, TriggerScan, vars

LEMMA ScannedStep == IInv /\ [Next]_vars => ScannedRowsStored' /\ RunsOfAccount'
<1> SUFFICES ASSUME IInv, [Next]_vars PROVE ScannedRowsStored' /\ RunsOfAccount'
  OBVIOUS
<1>1. CASE ~account
  BY <1>1, GoneKept DEF ScannedRowsStored, RunsOfAccount, IInv
<1>2. CASE account /\ ~account'
  <2>1. runs' = [i \in DOMAIN runs |-> [runs[i] EXCEPT !.status = "DELETED"]]
    BY <1>2, OnlyDelete DEF DeleteAccount
  <2>2. \A i \in DOMAIN runs : runs[i] \in Run
    BY LenProperties DEF IInv, TypeInv, TypeOK
  <2> QED BY <1>2, <2>1, <2>2 DEF ScannedRowsStored, RunsOfAccount, Run
<1>3. CASE account /\ account'
  <2>1. RunsOfAccount'
    BY <1>3, RunsFrame DEF RunsOfAccount
  <2>2. ASSUME NEW j \in DOMAIN runs', NEW q \in runs'[j].scanned
        PROVE  snaps'[q][runs'[j].today] # NoRow
    <3>1. CASE j \in DOMAIN runs /\ runs'[j].today = runs[j].today /\ runs'[j].scanned = runs[j].scanned
      <4>1. runs[j] \in Run
        BY <3>1, LenProperties DEF IInv, TypeInv, TypeOK
      <4>2. snaps[q][runs[j].today] # NoRow /\ q \in Resources /\ runs[j].today \in Days
        BY <1>3, <2>2, <3>1, <4>1 DEF IInv, ScannedRowsStored, RunsOfAccount, Run
      <4> QED BY <1>3, <3>1, <4>2, TablesKept
    <3>2. ASSUME NEW w \in Workers, MarkSuccess(w), j = run[w], j \in DOMAIN runs,
                 runs'[j].scanned = {r \in Resources : seen[w][r] \in {"clean", "flagged"}}
          PROVE  snaps'[q][runs'[j].today] # NoRow
      <4>1. snaps[q][Today(w)] # NoRow /\ q \in Resources
        BY <1>3, <2>2, <3>2 DEF IInv, StoredSound, MarkSuccess
      <4>2. snaps' = snaps /\ runs'[j].today = Today(w)
        BY <1>3, <3>2, TablesKept DEF MarkSuccess, Today
      <4> QED BY <4>1, <4>2
    <3> QED BY <1>3, <2>2, <3>1, <3>2, RunsFrame
  <2> QED BY <2>1, <2>2 DEF ScannedRowsStored
<1> QED BY <1>1, <1>2, <1>3

-----------------------------------------------------------------------------
LEMMA InitIInv == Init => IInv
<1> SUFFICES ASSUME Init PROVE IInv
  OBVIOUS
<1> USE DEF Init
<1>1. DOMAIN runs = {}
  OBVIOUS
<1>2. runs \in Seq(Run) /\ \A r \in Resources : findings[r] \in Seq(Status)
  OBVIOUS
<1>3. day \in Days
  BY PipelineAssumption DEF Days
<1>4. NoPlan \in [Resources -> Op] /\ NoSight \in [Resources -> SeenState]
  BY DEF NoPlan, Nothing, Op, NoSight, SeenState
<1>5. NoMarks \in [create : SUBSET Resources, close : [Resources -> SUBSET Nat]]
  BY DEF NoMarks
<1>6. TypeOK
  BY <1>2, <1>3, <1>4, <1>5 DEF TypeOK, Stages
<1> QED BY <1>1, <1>6
        DEF IInv, TypeInv, RunOwned, RunsOfAccount, PlanSound, StoredSound, ScannedRowsStored

LEMMA StepIInv == IInv /\ [Next]_vars => IInv'
  BY StepType, PlanSoundStep, StoredSoundStep, ScannedStep DEF IInv

\* Every reachable state of the account scan has the types of TypeOK, whatever
\* the resources, the workers and the interleaving of scans, kills, user
\* actions and the deletion of the account.
THEOREM TypeCorrect == Spec => []TypeOK
<1>1. IInv => TypeOK
  BY DEF IInv, TypeInv
<1> QED BY <1>1, InitIInv, StepIInv, PTL DEF Spec

\* What a scan run reports as scanned is in the inventory: the SUCCESS commit
\* comes after the rows, and neither a second scan of the account, a kill
\* between the two commits nor a failing analysis takes a row away again.
THEOREM InventoryComplete == Spec => []ScannedRowsStored
<1>1. IInv => ScannedRowsStored
  BY DEF IInv
<1> QED BY <1>1, InitIInv, StepIInv, PTL DEF Spec

-----------------------------------------------------------------------------
(* What a step of a scan may not do                                        *)

\* What the query failed for is not part of the open inventory transaction.
FailedUntouched ==
  \A w \in Workers, r \in Resources :
    pc[w] = "storing" /\ seen[w][r] = "failed" => plan[w][r].op = "none"

LEMMA FailedUntouchedStep == TypeInv /\ FailedUntouched /\ [Next]_vars => FailedUntouched'
<1> SUFFICES ASSUME TypeInv, FailedUntouched, [Next]_vars, NEW v \in Workers, NEW q \in Resources,
                    pc'[v] = "storing", seen'[v][q] = "failed"
             PROVE  plan'[v][q].op = "none"
  BY DEF FailedUntouched
<1>1. CASE StoreRead(v)
  <2>1. plan'[v][q] = OpFor(v, q) /\ seen' = seen
    BY <1>1 DEF StoreRead, TypeInv, TypeOK
  <2>2. OpFor(v, q) = Nothing
    BY <2>1 DEF OpFor
  <2> QED BY <2>1, <2>2 DEF Nothing
<1>2. CASE Stays(v)
  BY <1>2 DEF Stays, FailedUntouched
<1> QED BY <1>1, <1>2, WorkerFrame

\* A type whose query failed keeps its rows in the inventory commit of its
\* scan, however many scans run: _sync_removed_state is not asked about it.
THEOREM FailedQueryHarmless == Spec => PartialFailureKeepsRows
<1>1. Init => FailedUntouched
  BY DEF Init, FailedUntouched
<1>2. IInv /\ FailedUntouched /\ [Next]_vars =>
        [\A w \in Workers, r \in Resources :
           Stores(w) /\ seen[w][r] = "failed" => snaps'[r] = snaps[r]]_vars
  <2> SUFFICES ASSUME IInv, FailedUntouched, [Next]_vars, NEW w \in Workers, NEW r \in Resources,
                      Stores(w), seen[w][r] = "failed"
               PROVE  snaps'[r] = snaps[r]
    OBVIOUS
  <2>1. StoreCommit(w)
    BY WorkerFrame DEF Stores, Stays, IInv
  <2>2. plan[w][r].op = "none"
    BY DEF Stores, FailedUntouched
  <2>3. snaps'[r] = [d \in Days |-> snaps[r][d]]
    BY <2>1, <2>2 DEF StoreCommit
  <2> QED BY <2>3 DEF IInv, TypeInv, TypeOK
<1>3. IInv /\ FailedUntouched /\ [Next]_vars => FailedUntouched'
  BY FailedUntouchedStep DEF IInv
<1> QED BY <1>1, <1>2, <1>3, InitIInv, StepIInv, PTL DEF Spec, PartialFailureKeepsRows

\* What the analysis commits leaves a finding that is not open not open.
LEMMA AnalysisKeepsClosed ==
  ASSUME TypeInv, NEW w \in Workers, NEW r \in Resources, NEW i \in DOMAIN findings[r],
         findings[r][i] # "OPEN"
  PROVE  Analysed(w, r)[i] # "OPEN"
<1> DEFINE c == Closed(w, r)
<1>1. PICK n \in Nat : findings[r] \in [1..n -> Status]
  BY SeqDef DEF TypeInv, TypeOK
<1>2. c \in [1..n -> Status] /\ i \in 1..n
  BY <1>1 DEF Closed, Status
<1>3. c[i] # "OPEN"
  BY <1>1, <1>2 DEF Closed
<1>4. c \in Seq(Status) /\ Len(c) = n
  BY <1>2, LenProperties, SeqDef
<1>5. Analysed(w, r) = Append(c, "OPEN") \/ Analysed(w, r) = c
  BY DEF Analysed
<1> HIDE DEF c
<1>6. Append(c, "OPEN")[i] = c[i]
  BY <1>2, <1>4, AppendProperties DEF Status
<1> QED BY <1>3, <1>5, <1>6

\* No step of a scan opens a finding again that was closed: the upsert adds a
\* new finding, so only RestoreOptimization can.
THEOREM ClosedStaysClosed == Spec => OnlyUsersReopen
<1>1. IInv /\ [Next]_vars =>
        [\A r \in Resources : \A i \in DOMAIN findings[r] \cap DOMAIN findings'[r] :
           findings[r][i] # "OPEN" /\ findings'[r][i] = "OPEN" => pc' = pc]_vars
  <2> SUFFICES ASSUME IInv, [Next]_vars, NEW r \in Resources,
                      NEW i \in DOMAIN findings[r] \cap DOMAIN findings'[r],
                      findings[r][i] # "OPEN", findings'[r][i] = "OPEN"
               PROVE  pc' = pc
    OBVIOUS
  <2>1. ASSUME NEW w \in Workers, TaskStep(w) PROVE FALSE
    <3>1. CASE AnalyseCommit(w)
      BY <3>1, AnalysisKeepsClosed DEF AnalyseCommit, IInv
    <3>2. CASE ~AnalyseCommit(w)
      BY <2>1, <3>2 DEF TaskStep, Begin, Collect, StoreRead, StoreCommit, MarkSuccess, AnalyseRead,
         SyncKnowledgeBase, StoreConflict, AnalyseAmbiguous, TaskError, AccountGone, Fail, dbVars
    <3> QED BY <3>1, <3>2
  <2>2. ASSUME NEW w \in Workers, Crash(w) PROVE FALSE
    BY <2>2 DEF Crash, dbVars
  <2>3. UserStep => pc' = pc
    BY DEF UserStep, UserAction, ApplyOptimization, DismissOptimization, RestoreOptimization,
           DeleteOrphaned, RemediateOrphaned, ResolveFinding, SetStatus, workerVars
  <2> QED BY <2>1, <2>2, <2>3 DEF Next, AdvanceDay, CloudChange, TriggerScan, DeleteAccount,
             workerVars, vars
<1> QED BY <1>1, InitIInv, StepIInv, PTL DEF Spec, OnlyUsersReopen

-----------------------------------------------------------------------------
(* Who settles a scan run                                                  *)

\* A worker inside the task has a scan run of its own, an idle one has none.
OneRunEach ==
  /\ \A w \in Workers : pc[w] = "idle" => run[w] = 0
  /\ \A v, w \in Workers : pc[v] # "idle" /\ run[v] = run[w] => v = w

\* After the SUCCESS commit the run of a worker is not RUNNING any more.
Settled ==
  \A w \in Workers : pc[w] \in {"analysing", "closing", "syncing"} =>
    runs[run[w]].status # "RUNNING"

\* The runs of a deleted account went with it.
GoneDeleted == ~account => \A i \in DOMAIN runs : runs[i].status = "DELETED"

RunsInv == OneRunEach /\ Settled /\ GoneDeleted

\* What a step can do to a worker and its run: nothing, the end of its task,
\* or the beginning of a new run.
RunStays(v)  == run'[v] = run[v] /\ (pc'[v] = "idle" <=> pc[v] = "idle")
RunLeft(v)   == run'[v] = 0 /\ pc'[v] = "idle"
RunBegun(v)  == Begin(v) /\ account

LEMMA RunMoves ==
  ASSUME TypeInv, [Next]_vars, NEW v \in Workers
  PROVE  RunStays(v) \/ RunLeft(v) \/ RunBegun(v)
<1> USE DEF TypeInv, TypeOK
<1>1. ASSUME NEW w \in Workers, Leave(w)
      PROVE  RunStays(v) \/ RunLeft(v)
  BY <1>1 DEF Leave, RunStays, RunLeft
<1>2. ASSUME NEW w \in Workers, TaskStep(w)
      PROVE  RunStays(v) \/ RunLeft(v) \/ RunBegun(v)
  <2>1. CASE Begin(w)
    BY <2>1 DEF Begin, RunStays, RunBegun
  <2>2. CASE ~Begin(w)
    BY <1>1, <1>2, <2>2 DEF TaskStep, Collect, StoreRead, StoreCommit, MarkSuccess, AnalyseRead,
       AnalyseCommit, SyncKnowledgeBase, StoreConflict, AnalyseAmbiguous, TaskError, AccountGone,
       Fail, RunStays
  <2> QED BY <2>1, <2>2
<1>3. ASSUME NEW w \in Workers, Crash(w) PROVE RunStays(v) \/ RunLeft(v)
  BY <1>1, <1>3 DEF Crash
<1>4. CASE \/ AdvanceDay \/ (\E r \in Resources, c \in CloudState : CloudChange(r, c))
           \/ TriggerScan \/ DeleteAccount \/ UNCHANGED vars
  BY <1>4 DEF AdvanceDay, CloudChange, TriggerScan, DeleteAccount, workerVars, vars, RunStays
<1>5. CASE UserStep
  BY <1>5 DEF UserStep, UserAction, ApplyOptimization, DismissOptimization, RestoreOptimization,
              DeleteOrphaned, RemediateOrphaned, ResolveFinding, SetStatus, workerVars, RunStays
<1> QED BY <1>2, <1>3, <1>4, <1>5 DEF Next

LEMMA OneRunEachStep == TypeInv /\ OneRunEach /\ [Next]_vars => OneRunEach'
<1> SUFFICES ASSUME TypeInv, OneRunEach, [Next]_vars PROVE OneRunEach'
  OBVIOUS
<1>0. \A w \in Workers : pc[w] # "idle" => run[w] \in 1..Len(runs)
  BY RunRecord
<1>00. Len(runs) \in Nat /\ run \in [Workers -> Nat]
  BY LenProperties DEF TypeInv, TypeOK
<1>1. \A w \in Workers : RunBegun(w) =>
        run'[w] = Len(runs) + 1 /\ pc'[w] = "collecting"
        /\ \A v \in Workers : v # w => run'[v] = run[v] /\ pc'[v] = pc[v]
  BY DEF RunBegun, Begin, TypeInv, TypeOK
<1>2. \A w \in Workers : pc'[w] = "idle" => run'[w] = 0
  BY <1>1, RunMoves DEF RunStays, RunLeft, OneRunEach
<1>3. ASSUME NEW v \in Workers, NEW w \in Workers, pc'[v] # "idle", run'[v] = run'[w], v # w
      PROVE  FALSE
  <2>1. CASE RunBegun(v)
    BY <1>0, <1>00, <1>1, <1>3, <2>1 DEF OneRunEach
  <2>2. CASE RunBegun(w)
    BY <1>0, <1>00, <1>1, <1>3, <2>2 DEF OneRunEach
  <2>3. CASE RunStays(v) /\ RunStays(w)
    BY <1>3, <2>3 DEF RunStays, OneRunEach
  <2>4. CASE RunStays(v) /\ RunLeft(w)
    <3>1. run[v] \in 1..Len(runs)
      BY <1>0, <1>3, <2>4 DEF RunStays
    <3>2. run[v] = 0
      BY <1>3, <2>4 DEF RunStays, RunLeft
    <3> QED BY <1>00, <3>1, <3>2
  <2>5. ~RunLeft(v)
    BY <1>3 DEF RunLeft
  <2>6. (RunStays(v) \/ RunLeft(v) \/ RunBegun(v)) /\ (RunStays(w) \/ RunLeft(w) \/ RunBegun(w))
    BY RunMoves
  <2> QED BY <2>1, <2>2, <2>3, <2>4, <2>5, <2>6
<1> QED BY <1>2, <1>3 DEF OneRunEach

\* What a step can do to the table of runs: nothing, a new run, a status that
\* is not RUNNING for the run of a worker in the task, or the deletion of all.
LEMMA RunTable ==
  ASSUME TypeInv, [Next]_vars
  PROVE  \/ runs' = runs
         \/ \E w \in Workers : RunBegun(w)
         \/ \E w \in Workers : Fail(w) /\ pc[w] # "idle" /\ pc[w] # "syncing"
         \/ \E w \in Workers : MarkSuccess(w)
         \/ DeleteAccount
<1>1. ASSUME NEW w \in Workers, TaskStep(w)
      PROVE  \/ runs' = runs \/ RunBegun(w) \/ MarkSuccess(w)
             \/ Fail(w) /\ pc[w] # "idle" /\ pc[w] # "syncing"
  <2>1. CASE Begin(w)
    BY <2>1 DEF Begin, RunBegun
  <2>2. CASE ~Begin(w)
    BY <1>1, <2>2 DEF TaskStep, Collect, StoreRead, StoreCommit, AnalyseRead, AnalyseCommit,
       SyncKnowledgeBase, StoreConflict, AnalyseAmbiguous, TaskError, AccountGone, dbVars
  <2> QED BY <2>1, <2>2
<1>2. ASSUME NEW w \in Workers, Crash(w) PROVE runs' = runs
  BY <1>2 DEF Crash, dbVars
<1>3. UserStep => runs' = runs
  BY DEF UserStep, UserAction, ApplyOptimization, DismissOptimization, RestoreOptimization,
     DeleteOrphaned, RemediateOrphaned, ResolveFinding, SetStatus
<1> QED BY <1>1, <1>2, <1>3 DEF Next, AdvanceDay, CloudChange, TriggerScan, vars

\* A run keeps its row, and none becomes RUNNING again.
LEMMA NoneRestarted ==
  ASSUME TypeInv, [Next]_vars
  PROVE  \A j \in DOMAIN runs : /\ j \in DOMAIN runs'
                                /\ runs'[j].status = "RUNNING" => runs[j].status = "RUNNING"
<1>1. ASSUME NEW w \in Workers, Fail(w), pc[w] # "idle"
      PROVE  /\ DOMAIN runs' = DOMAIN runs
             /\ \A j \in DOMAIN runs : runs'[j] = runs[j] \/ runs'[j].status = "FAILED"
  <2>1. run[w] \in 1..Len(runs) /\ runs[run[w]] \in Run
    BY <1>1, RunRecord
  <2> DEFINE x == [runs[run[w]] EXCEPT !.status = "FAILED"]
  <2>2. x \in Run /\ x.status = "FAILED"
    BY <2>1 DEF Run, RunStatus
  <2>3. runs' = [runs EXCEPT ![run[w]] = x]
    BY <1>1 DEF Fail
  <2> HIDE DEF x
  <2> QED BY <2>1, <2>2, <2>3, RunUpdate
<1>2. ASSUME NEW w \in Workers, MarkSuccess(w)
      PROVE  /\ DOMAIN runs' = DOMAIN runs
             /\ \A j \in DOMAIN runs : runs'[j] = runs[j] \/ runs'[j].status = "SUCCESS"
  <2>1. run[w] \in 1..Len(runs) /\ runs[run[w]] \in Run
    BY <1>2, RunRecord DEF MarkSuccess
  <2> DEFINE listed == {r \in Resources : seen[w][r] \in {"clean", "flagged"}}
             x == [runs[run[w]] EXCEPT !.status = FinalStatus(w), !.scanned = listed]
  <2>2. x \in Run /\ x.status = "SUCCESS"
    BY <2>1 DEF Run, RunStatus, FinalStatus
  <2>3. runs' = [runs EXCEPT ![run[w]] = x]
    BY <1>2 DEF MarkSuccess
  <2> HIDE DEF x
  <2> QED BY <2>1, <2>2, <2>3, RunUpdate
<1>3. ASSUME NEW w \in Workers, RunBegun(w)
      PROVE  DOMAIN runs \subseteq DOMAIN runs' /\ \A j \in DOMAIN runs : runs'[j] = runs[j]
  BY <1>3, BeginRuns DEF RunBegun
<1>4. CASE DeleteAccount
  <2>1. DOMAIN runs' = DOMAIN runs
    BY <1>4 DEF DeleteAccount
  <2>2. \A j \in DOMAIN runs : runs'[j].status = "DELETED"
    <3> SUFFICES ASSUME NEW j \in DOMAIN runs PROVE runs'[j].status = "DELETED"
      OBVIOUS
    <3>1. runs[j] \in Run
      BY LenProperties DEF TypeInv, TypeOK
    <3>2. runs'[j] = [runs[j] EXCEPT !.status = "DELETED"]
      BY <1>4 DEF DeleteAccount
    <3> QED BY <3>1, <3>2 DEF Run
  <2> QED BY <2>1, <2>2
<1> QED BY <1>1, <1>2, <1>3, <1>4, RunTable

\* A worker that leaves its run without a kill leaves it with a final status.
LEMMA LeftSettled ==
  ASSUME TypeInv, RunsInv, [Next]_vars, NEW v \in Workers, pc[v] # "idle", RunLeft(v),
         \A w \in Workers : ~Crash(w)
  PROVE  runs'[run[v]].status # "RUNNING"
<1>0. run[v] \in 1..Len(runs) /\ runs[run[v]] \in Run /\ DOMAIN runs = 1..Len(runs)
  BY RunRecord
<1>1. CASE Fail(v)
  <2> DEFINE x == [runs[run[v]] EXCEPT !.status = "FAILED"]
  <2>1. x \in Run /\ x.status = "FAILED"
    BY <1>0 DEF Run, RunStatus
  <2>2. runs' = [runs EXCEPT ![run[v]] = x]
    BY <1>1 DEF Fail
  <2> HIDE DEF x
  <2> QED BY <1>0, <2>1, <2>2, RunUpdate
<1>2. CASE SyncKnowledgeBase(v)
  BY <1>2 DEF SyncKnowledgeBase, dbVars, RunsInv, Settled
<1>3. CASE AccountGone(v)
  BY <1>0, <1>3 DEF AccountGone, dbVars, RunsInv, GoneDeleted
<1>4. Fail(v) \/ SyncKnowledgeBase(v) \/ AccountGone(v)
  <2> USE DEF TypeInv, TypeOK
  <2>1. pc'[v] # pc[v]
    BY DEF RunLeft
  <2>2. ASSUME NEW w \in Workers, TaskStep(w)
        PROVE  Fail(v) \/ SyncKnowledgeBase(v) \/ AccountGone(v)
    <3>1. w = v
      BY <2>1, <2>2 DEF TaskStep, Begin, Collect, StoreRead, StoreCommit, MarkSuccess, AnalyseRead,
         AnalyseCommit, SyncKnowledgeBase, StoreConflict, AnalyseAmbiguous, TaskError, AccountGone,
         Fail, Leave
    <3> QED BY <2>2, <3>1 DEF TaskStep, Begin, Collect, StoreRead, StoreCommit, MarkSuccess,
         AnalyseRead, AnalyseCommit, StoreConflict, AnalyseAmbiguous, TaskError, RunLeft
  <2>3. ~UserStep
    BY <2>1 DEF UserStep, UserAction, ApplyOptimization, DismissOptimization, RestoreOptimization,
       DeleteOrphaned, RemediateOrphaned, ResolveFinding, SetStatus, workerVars
  <2> QED BY <2>1, <2>2, <2>3 DEF Next, AdvanceDay, CloudChange, TriggerScan, DeleteAccount,
       workerVars, vars
<1> QED BY <1>1, <1>2, <1>3, <1>4

\* A worker past the SUCCESS commit was there before or has just made it.
LEMMA PastSuccess ==
  ASSUME TypeInv, [Next]_vars, NEW v \in Workers, pc'[v] \in {"analysing", "closing", "syncing"}
  PROVE  \/ MarkSuccess(v)
         \/ pc[v] \in {"analysing", "closing", "syncing"} /\ run'[v] = run[v]
<1> USE DEF TypeInv, TypeOK
<1>1. ASSUME NEW w \in Workers, Leave(w) PROVE pc'[v] = pc[v] /\ run'[v] = run[v]
  BY <1>1 DEF Leave
<1>2. ASSUME NEW w \in Workers, TaskStep(w)
      PROVE  \/ MarkSuccess(v)
             \/ pc[v] \in {"analysing", "closing", "syncing"} /\ run'[v] = run[v]
  <2>1. CASE w = v
    BY <1>1, <1>2, <2>1 DEF TaskStep, Begin, Collect, StoreRead, StoreCommit, AnalyseRead,
       AnalyseCommit, SyncKnowledgeBase, StoreConflict, AnalyseAmbiguous, TaskError, AccountGone,
       Fail
  <2>2. CASE w # v
    BY <1>1, <1>2, <2>2 DEF TaskStep, Begin, Collect, StoreRead, StoreCommit, MarkSuccess,
       AnalyseRead, AnalyseCommit, SyncKnowledgeBase, StoreConflict, AnalyseAmbiguous, TaskError,
       AccountGone, Fail
  <2> QED BY <2>1, <2>2
<1>3. ASSUME NEW w \in Workers, Crash(w) PROVE pc'[v] = pc[v] /\ run'[v] = run[v]
  BY <1>1, <1>3 DEF Crash
<1>4. UserStep => UNCHANGED workerVars
  BY DEF UserStep, UserAction, ApplyOptimization, DismissOptimization, RestoreOptimization,
     DeleteOrphaned, RemediateOrphaned, ResolveFinding, SetStatus
<1> QED BY <1>2, <1>3, <1>4 DEF Next, AdvanceDay, CloudChange, TriggerScan, DeleteAccount,
     workerVars, vars

LEMMA SettledStep == TypeInv /\ Settled /\ [Next]_vars => Settled'
<1> SUFFICES ASSUME TypeInv, Settled, [Next]_vars, NEW v \in Workers,
                    pc'[v] \in {"analysing", "closing", "syncing"}
             PROVE  runs'[run'[v]].status # "RUNNING"
  BY DEF Settled
<1>1. CASE MarkSuccess(v)
  <2>1. run[v] \in 1..Len(runs) /\ runs[run[v]] \in Run /\ run'[v] = run[v]
    BY <1>1, RunRecord DEF MarkSuccess
  <2> DEFINE listed == {r \in Resources : seen[v][r] \in {"clean", "flagged"}}
             x == [runs[run[v]] EXCEPT !.status = FinalStatus(v), !.scanned = listed]
  <2>2. x \in Run /\ x.status = "SUCCESS"
    BY <2>1 DEF Run, RunStatus, FinalStatus
  <2>3. runs' = [runs EXCEPT ![run[v]] = x] /\ run[v] \in DOMAIN runs
    BY <1>1, RunRecord DEF MarkSuccess
  <2> HIDE DEF x
  <2> QED BY <2>1, <2>2, <2>3, RunUpdate
<1>2. CASE pc[v] \in {"analysing", "closing", "syncing"} /\ run'[v] = run[v]
  BY <1>2, NoneRestarted DEF Settled, TypeInv, RunOwned
<1> QED BY <1>1, <1>2, PastSuccess

LEMMA GoneDeletedStep == IInv /\ GoneDeleted /\ [Next]_vars => GoneDeleted'
<1> SUFFICES ASSUME IInv, GoneDeleted, [Next]_vars, ~account'
             PROVE  \A j \in DOMAIN runs' : runs'[j].status = "DELETED"
  BY DEF GoneDeleted
<1>1. CASE ~account
  BY <1>1, GoneKept DEF GoneDeleted
<1>2. CASE account
  <2>1. DeleteAccount
    BY <1>2, OnlyDelete
  <2> SUFFICES ASSUME NEW j \in DOMAIN runs' PROVE runs'[j].status = "DELETED"
    OBVIOUS
  <2>2. j \in DOMAIN runs /\ runs'[j] = [runs[j] EXCEPT !.status = "DELETED"]
    BY <2>1 DEF DeleteAccount
  <2>3. runs[j] \in Run
    BY <2>2, LenProperties DEF IInv, TypeInv, TypeOK
  <2> QED BY <2>2, <2>3 DEF Run
<1> QED BY <1>1, <1>2

LEMMA RunsInvStep == IInv /\ RunsInv /\ [Next]_vars => RunsInv'
  BY OneRunEachStep, SettledStep, GoneDeletedStep DEF RunsInv, IInv

LEMMA RunsInvInit == Init => RunsInv
<1> SUFFICES ASSUME Init PROVE RunsInv
  OBVIOUS
<1> QED BY DEF Init, RunsInv, OneRunEach, Settled, GoneDeleted

LEMMA RunsInvariant == Spec => [](IInv /\ RunsInv)
  BY InitIInv, StepIInv, RunsInvInit, RunsInvStep, PTL DEF Spec

\* Once a worker is syncing the knowledge base its run is settled for good:
\* nobody else executes that run, so a failing sync, another scan and a kill
\* leave its status alone.
THEOREM SyncHarmless == Spec => SyncNeverFailsRun
<1>1. IInv /\ RunsInv /\ [Next]_vars =>
        [\A w \in Workers :
           pc[w] = "syncing" /\ account /\ account' => runs'[run[w]] = runs[run[w]]]_vars
  <2> SUFFICES ASSUME TypeInv, RunsInv, [Next]_vars, NEW w \in Workers,
                      pc[w] = "syncing", account, account'
               PROVE  runs'[run[w]] = runs[run[w]]
    BY DEF IInv
  <2>1. run[w] \in 1..Len(runs) /\ DOMAIN runs = 1..Len(runs)
    BY RunRecord
  <2>2. ASSUME NEW v \in Workers, RunBegun(v) PROVE runs'[run[w]] = runs[run[w]]
    BY <2>1, <2>2, BeginRuns DEF RunBegun
  <2>3. ASSUME NEW v \in Workers, pc[v] # "idle", pc[v] # "syncing",
               Fail(v) \/ MarkSuccess(v)
        PROVE  runs'[run[w]] = runs[run[w]]
    <3>1. run[v] # run[w]
      BY <2>3 DEF RunsInv, OneRunEach
    <3> QED BY <2>1, <2>3, <3>1 DEF Fail, MarkSuccess
  <2>4. ~DeleteAccount
    BY DEF DeleteAccount
  <2>5. \A v \in Workers : MarkSuccess(v) => pc[v] = "stored"
    BY DEF MarkSuccess
  <2> QED BY <2>2, <2>3, <2>4, <2>5, RunTable
<1> QED BY <1>1, RunsInvariant, PTL DEF Spec, SyncNeverFailsRun

-----------------------------------------------------------------------------
(* Runs that nobody will finish                                            *)

\* A step that kills nobody abandons no run.
LEMMA AbandonedStep ==
  ASSUME TypeInv, RunsInv, [Next]_vars, \A w \in Workers : ~Crash(w)
  PROVE  Abandoned' \subseteq Abandoned
<1> SUFFICES ASSUME NEW i \in DOMAIN runs', runs'[i].status = "RUNNING",
                    \A w \in Workers : run'[w] # i
             PROVE  i \in Abandoned
  BY DEF Abandoned
<1>1. i \in DOMAIN runs
  <2>1. ASSUME NEW w \in Workers, RunBegun(w), i \notin DOMAIN runs PROVE FALSE
    <3>1. i = Len(runs) + 1
      BY <2>1, BeginRuns DEF RunBegun
    <3>2. run'[w] = Len(runs) + 1
      BY <2>1 DEF RunBegun, Begin, TypeInv, TypeOK
    <3> QED BY <3>1, <3>2
  <2>2. ASSUME NEW w \in Workers, Fail(w) /\ pc[w] # "idle" PROVE DOMAIN runs' = DOMAIN runs
    BY <2>2, FailRuns
  <2>3. ASSUME NEW w \in Workers, MarkSuccess(w) PROVE DOMAIN runs' = DOMAIN runs
    BY <2>3, SuccessRuns
  <2>4. DeleteAccount => DOMAIN runs' = DOMAIN runs
    BY DEF DeleteAccount
  <2> QED BY <2>1, <2>2, <2>3, <2>4, RunTable
<1>2. runs[i].status = "RUNNING"
  BY <1>1, NoneRestarted
<1>3. ASSUME NEW w \in Workers, run[w] = i PROVE FALSE
  <2>1. i \in 1..Len(runs) /\ Len(runs) \in Nat
    BY <1>1, LenProperties DEF TypeInv, TypeOK
  <2>2. i # 0
    BY <2>1
  <2>3. pc[w] # "idle"
    BY <1>3, <2>2 DEF RunsInv, OneRunEach
  <2>4. CASE RunStays(w)
    BY <1>3, <2>4 DEF RunStays
  <2>5. CASE RunBegun(w)
    BY <2>3, <2>5 DEF RunBegun, Begin
  <2>6. CASE RunLeft(w)
    BY <1>3, <2>3, <2>6, LeftSettled
  <2> QED BY <2>4, <2>5, <2>6, RunMoves
<1> QED BY <1>1, <1>2, <1>3 DEF Abandoned

\* A kill abandons one run at most, the one the worker was executing.
LEMMA AbandonedKill ==
  ASSUME TypeInv, NEW w \in Workers, Crash(w)
  PROVE  Abandoned' \subseteq Abandoned \cup {run[w]} /\ crashes' = crashes + 1
<1>1. runs' = runs /\ run' = [run EXCEPT ![w] = 0] /\ run \in [Workers -> Nat]
  BY DEF Crash, Leave, dbVars, TypeInv, TypeOK
<1>2. \A v \in Workers : v # w => run'[v] = run[v]
  BY <1>1
<1> QED BY <1>1, <1>2 DEF Abandoned, Crash

LEMMA AbandonedFinite == ASSUME TypeInv PROVE IsFiniteSet(Abandoned)
<1>1. DOMAIN runs = 1..Len(runs) /\ Len(runs) \in Nat
  BY LenProperties DEF TypeInv, TypeOK
<1>2. IsFiniteSet(DOMAIN runs)
  BY <1>1, FS_Interval
<1>3. Abandoned \in SUBSET DOMAIN runs
  BY DEF Abandoned
<1> QED BY <1>2, <1>3, FS_Subset

LEMMA AbandonedByCrashStep ==
  IInv /\ RunsInv /\ AbandonedByCrash /\ [Next]_vars => AbandonedByCrash'
<1> SUFFICES ASSUME TypeInv, RunsInv, AbandonedByCrash, [Next]_vars PROVE AbandonedByCrash'
  BY DEF IInv
<1>1. IsFiniteSet(Abandoned) /\ crashes \in Nat
  BY AbandonedFinite DEF TypeInv, TypeOK
<1>2. Cardinality(Abandoned) \in Nat /\ Cardinality(Abandoned) <= crashes
  BY <1>1, FS_CardinalityType DEF AbandonedByCrash
<1>3. ASSUME NEW w \in Workers, Crash(w) PROVE AbandonedByCrash'
  <2> DEFINE S == Abandoned \cup {run[w]}
  <2>0. /\ IsFiniteSet(S)
        /\ Cardinality(S) = IF run[w] \in Abandoned THEN Cardinality(Abandoned)
                                                  ELSE Cardinality(Abandoned) + 1
    BY <1>1, FS_AddElement
  <2>1. IsFiniteSet(S) /\ Cardinality(S) <= Cardinality(Abandoned) + 1 /\ Cardinality(S) \in Nat
    <3> HIDE DEF S
    <3> QED BY <1>2, <2>0
  <2>2. Abandoned' \in SUBSET S /\ crashes' = crashes + 1
    BY <1>3, AbandonedKill
  <2> HIDE DEF S
  <2>3. Cardinality(Abandoned') <= Cardinality(S) /\ Cardinality(Abandoned') \in Nat
    BY <2>1, <2>2, FS_Subset, FS_CardinalityType
  <2>4. Cardinality(Abandoned') <= crashes'
    BY <1>1, <1>2, <2>1, <2>2, <2>3
  <2> QED BY <2>4 DEF AbandonedByCrash
<1>4. ASSUME \A w \in Workers : ~Crash(w) PROVE AbandonedByCrash'
  <2>1. Abandoned' \in SUBSET Abandoned
    BY <1>4, AbandonedStep
  <2>2. Cardinality(Abandoned') <= Cardinality(Abandoned) /\ Cardinality(Abandoned') \in Nat
    BY <1>1, <2>1, FS_Subset, FS_CardinalityType
  <2>3. crashes' = crashes
    BY <1>4 DEF Next, AdvanceDay, CloudChange, TriggerScan, DeleteAccount, vars, TaskStep, Begin,
       Collect, StoreRead, StoreCommit, MarkSuccess, AnalyseRead, AnalyseCommit, SyncKnowledgeBase,
       StoreConflict, AnalyseAmbiguous, TaskError, AccountGone, Fail, UserStep, UserAction,
       ApplyOptimization, DismissOptimization, RestoreOptimization, DeleteOrphaned,
       RemediateOrphaned, ResolveFinding, SetStatus
  <2>4. Cardinality(Abandoned') <= crashes'
    BY <1>1, <1>2, <2>2, <2>3
  <2> QED BY <2>4 DEF AbandonedByCrash
<1> QED BY <1>3, <1>4

\* There are never more runs that stay RUNNING with nobody on them than
\* worker processes were killed: every exception, the deletion of the account
\* and every early return settles the run of the worker that leaves.
THEOREM OnlyKillsAbandon == Spec => []AbandonedByCrash
<1>1. Init => AbandonedByCrash
  <2> SUFFICES ASSUME Init PROVE AbandonedByCrash
    OBVIOUS
  <2>1. Abandoned = {}
    BY DEF Init, Abandoned
  <2> QED BY <2>1, FS_EmptySet DEF Init, AbandonedByCrash
<1> QED BY <1>1, RunsInvariant, AbandonedByCrashStep, PTL DEF Spec

-----------------------------------------------------------------------------
(* Scans that do not overlap                                               *)

\* No two scans of the account are under way, however many workers there are.
ScansApart == \A v, w \in Workers : pc[v] # "idle" /\ pc[w] # "idle" => v = w

\* The rows of the inventory change when a worker commits its transaction or
\* when they are deleted with the account.
LEMMA RowsMove ==
  ASSUME [Next]_vars, snaps' # snaps
  PROVE  DeleteAccount \/ \E w \in Workers : StoreCommit(w)
<1>1. ASSUME NEW w \in Workers, TaskStep(w), ~StoreCommit(w) PROVE snaps' = snaps
  BY <1>1 DEF TaskStep, Begin, Collect, StoreRead, MarkSuccess, AnalyseRead, AnalyseCommit,
     SyncKnowledgeBase, StoreConflict, AnalyseAmbiguous, TaskError, AccountGone, Fail, dbVars
<1>2. ASSUME NEW w \in Workers, Crash(w) PROVE snaps' = snaps
  BY <1>2 DEF Crash, dbVars
<1>3. UserStep => snaps' = snaps
  BY DEF UserStep, UserAction, ApplyOptimization, DismissOptimization, RestoreOptimization,
     DeleteOrphaned, RemediateOrphaned, ResolveFinding, SetStatus
<1> QED BY <1>1, <1>2, <1>3 DEF Next, AdvanceDay, CloudChange, TriggerScan, vars

\* The open inventory transaction of the worker is what it would compute from
\* the rows as they are now.
PlanCurrent ==
  \A w \in Workers, r \in Resources : pc[w] = "storing" /\ account => plan[w][r] = OpFor(w, r)

\* No row has a date after that of the scan in progress, nor after today.
RowsDated ==
  /\ \A r \in Resources : \A d \in Stamp(r) : d <= day
  /\ \A w \in Workers : pc[w] # "idle" /\ account =>
       Today(w) <= day /\ \A r \in Resources : \A d \in Stamp(r) : d <= Today(w)

LEMMA PlanCurrentStep == ScansApart /\ IInv /\ PlanCurrent /\ [Next]_vars => PlanCurrent'
<1> SUFFICES ASSUME ScansApart, IInv, PlanCurrent, [Next]_vars, NEW v \in Workers,
                    NEW q \in Resources, pc'[v] = "storing", account'
             PROVE  plan'[v][q] = OpFor(v, q)'
  BY DEF PlanCurrent
<1> USE DEF IInv, TypeInv, TypeOK
<1>1. CASE StoreRead(v)
  <2>1. plan'[v][q] = OpFor(v, q)
    BY <1>1 DEF StoreRead
  <2>2. seen' = seen /\ snaps' = snaps /\ runs' = runs /\ run' = run
    BY <1>1 DEF StoreRead, dbVars
  <2>3. OpFor(v, q)' = OpFor(v, q)
    BY <2>2 DEF OpFor, RemoveOp, UpsertOp, Today, Stamp, Newest
  <2> QED BY <2>1, <2>3
<1>2. CASE Stays(v)
  <2>1. pc[v] = "storing" /\ account /\ run[v] \in DOMAIN runs
    BY <1>2, TablesKept DEF Stays, RunOwned
  <2>2. plan'[v] = plan[v] /\ seen'[v] = seen[v] /\ Today(v)' = Today(v)
    BY <1>2, <2>1, TablesKept DEF Stays, Today
  <2>3. snaps' = snaps
    <3>1. \A w \in Workers : StoreCommit(w) => w = v /\ pc'[v] = "stored"
      BY <2>1 DEF ScansApart, StoreCommit
    <3>2. ~DeleteAccount
      BY DEF DeleteAccount
    <3> QED BY <3>1, <3>2, RowsMove
  <2>4. OpFor(v, q)' = OpFor(v, q)
    BY <2>2, <2>3 DEF OpFor, RemoveOp, UpsertOp, Stamp, Newest
  <2> QED BY <2>1, <2>2, <2>4 DEF PlanCurrent
<1> QED BY <1>1, <1>2, WorkerFrame

\* The inventory commit of a scan adds at most a row of the scan's own date.
LEMMA CommitDated ==
  ASSUME IInv, NEW w \in Workers, StoreCommit(w), NEW r \in Resources, NEW d \in Days,
         snaps'[r][d] # NoRow, snaps[r][d] = NoRow, OpFor(w, r) = plan[w][r]
  PROVE  d = Today(w)
<1> USE DEF IInv, TypeInv, TypeOK
<1>1. plan[w][r].op # "none" /\ plan[w][r].at = d /\ pc[w] = "storing" /\ account
  BY DEF StoreCommit
<1>2. plan[w][r].op = "insert"
  <2>1. plan[w][r] \in Op
    OBVIOUS
  <2>2. plan[w][r].op \in {"none", "insert", "update", "stamp"}
    BY <2>1 DEF Op
  <2>3. plan[w][r].op \notin {"update", "stamp"}
    BY <1>1 DEF PlanSound
  <2> QED BY <1>1, <2>2, <2>3
<1>3. OpFor(w, r) = UpsertOp(r, Today(w))
  BY <1>2 DEF OpFor, RemoveOp, Nothing
<1> QED BY <1>1, <1>3 DEF UpsertOp

LEMMA DaysPass == [Next]_vars /\ TypeInv => day <= day'
<1> SUFFICES ASSUME [Next]_vars, day \in Days PROVE day <= day'
  BY DEF TypeInv, TypeOK
<1>0. day \in Int /\ day <= day /\ day <= day + 1
  BY DEF Days
<1>1. ASSUME NEW w \in Workers, TaskStep(w) \/ Crash(w) PROVE day' = day
  BY <1>1 DEF TaskStep, Begin, Collect, StoreRead, StoreCommit, MarkSuccess, AnalyseRead,
     AnalyseCommit, SyncKnowledgeBase, StoreConflict, AnalyseAmbiguous, TaskError, AccountGone,
     Fail, Crash, envVars
<1>2. UserStep => day' = day
  BY DEF UserStep, UserAction, ApplyOptimization, DismissOptimization, RestoreOptimization,
     DeleteOrphaned, RemediateOrphaned, ResolveFinding, SetStatus, envVars
<1> QED BY <1>0, <1>1, <1>2 DEF Next, AdvanceDay, CloudChange, TriggerScan, DeleteAccount, envVars, vars

LEMMA RowsDatedStep ==
  ScansApart /\ IInv /\ PlanCurrent /\ RowsDated /\ [Next]_vars => RowsDated'
<1> SUFFICES ASSUME ScansApart, IInv, PlanCurrent, RowsDated, [Next]_vars PROVE RowsDated'
  OBVIOUS
<1> USE DEF IInv, TypeInv, TypeOK
<1>0. /\ day \in Int /\ day' \in Int /\ day <= day' /\ TypeInv'
      /\ \A d \in Days : d \in Int
  BY StepIInv, DaysPass DEF Days
<1>1. \A w \in Workers : pc[w] # "idle" => Today(w) \in Int
  BY <1>0, RunRecord
\* Rows that a step adds.
<1>2. ASSUME NEW r \in Resources, NEW d \in Stamp(r)', d \notin Stamp(r)
      PROVE  \E w \in Workers : StoreCommit(w) /\ d = Today(w)
  <2>1. d \in Days /\ snaps[r][d] = NoRow /\ snaps'[r][d] # NoRow
    BY <1>2 DEF Stamp
  <2>2. ~DeleteAccount
    BY <2>1 DEF DeleteAccount
  <2>3. PICK w \in Workers : StoreCommit(w)
    BY <2>1, <2>2, RowsMove
  <2>4. plan[w][r] = OpFor(w, r)
    BY <2>3 DEF StoreCommit, PlanCurrent
  <2>5. d = Today(w)
    BY <2>1, <2>3, <2>4, CommitDated
  <2> QED BY <2>3, <2>5
<1>3. ASSUME NEW r \in Resources, NEW d \in Stamp(r)' PROVE d <= day'
  <2>0. d \in Int
    BY <1>0 DEF Stamp
  <2>1. CASE d \in Stamp(r)
    <3>1. d <= day
      BY <2>1 DEF RowsDated
    <3> QED BY <1>0, <2>0, <3>1
  <2>2. CASE d \notin Stamp(r)
    <3>1. PICK w \in Workers : StoreCommit(w) /\ d = Today(w)
      BY <1>2, <2>2
    <3>2. d <= day
      BY <3>1 DEF StoreCommit, RowsDated
    <3> QED BY <1>0, <2>0, <3>2
  <2> QED BY <2>1, <2>2
<1>4. ASSUME NEW v \in Workers, pc'[v] # "idle", account'
      PROVE  Today(v)' <= day' /\ \A r \in Resources : \A d \in Stamp(r)' : d <= Today(v)'
  <2>1. CASE RunBegun(v)
    <3>1. Today(v)' = day /\ day' = day
      <4>1. runs' = Append(runs, [status |-> "RUNNING", today |-> day, scanned |-> {}])
            /\ run'[v] = Len(runs) + 1 /\ day' = day
        BY <2>1 DEF RunBegun, Begin, envVars
      <4> DEFINE new == [status |-> "RUNNING", today |-> day, scanned |-> {}]
      <4>2. new.today = day
        OBVIOUS
      <4> HIDE DEF new
      <4>3. runs'[Len(runs) + 1] = new
        BY <4>1, AppendProperties DEF new
      <4> QED BY <4>1, <4>2, <4>3 DEF Today
    <3> QED BY <1>0, <1>3, <3>1
  <2>2. CASE RunStays(v)
    <3>1. pc[v] # "idle" /\ account /\ Today(v)' = Today(v)
      BY <1>4, <2>2, TablesKept DEF RunStays, RunOwned, Today
    <3>2. Today(v) <= day /\ Today(v) \in Int /\ \A r \in Resources : \A d \in Stamp(r) : d <= Today(v)
      BY <1>1, <3>1 DEF RowsDated
    <3>3. \A r \in Resources : \A d \in Stamp(r)' : d \in Stamp(r) \/ d = Today(v)
      <4>1. \A w \in Workers : StoreCommit(w) => w = v
        BY <3>1 DEF ScansApart, StoreCommit
      <4> QED BY <1>2, <4>1
    <3>4. Today(v) <= day' /\ Today(v) <= Today(v)
      BY <1>0, <3>2
    <3> QED BY <3>1, <3>2, <3>3, <3>4
  <2>3. ~RunLeft(v)
    BY <1>4 DEF RunLeft
  <2> QED BY <2>1, <2>2, <2>3, RunMoves
<1> QED BY <1>3, <1>4 DEF RowsDated

SerialInv == IInv /\ PlanCurrent /\ RowsDated

LEMMA SerialInvInit == Init => SerialInv
<1> SUFFICES ASSUME Init PROVE PlanCurrent /\ RowsDated
  BY InitIInv DEF SerialInv
<1>1. \A r \in Resources : Stamp(r) = {}
  BY DEF Init, Stamp
<1> QED BY <1>1 DEF Init, PlanCurrent, RowsDated

LEMMA SerialInvStep == ScansApart /\ SerialInv /\ [Next]_vars => SerialInv'
  BY StepIInv, PlanCurrentStep, RowsDatedStep DEF SerialInv

\* What was listed is the newest row of its resource, with what the query saw.
LEMMA ListedCurrent ==
  ASSUME SerialInv, SerialInv', NEW w \in Workers, StoreCommit(w), account', NEW r \in Resources,
         seen[w][r] \in {"clean", "flagged"}
  PROVE  InInventory(r)' /\ Latest(r)'.flagged = (seen[w][r] = "flagged")
<1> USE DEF SerialInv, IInv, TypeInv, TypeOK
<1> DEFINE d == Today(w)
           row == [flagged |-> seen[w][r] = "flagged", removed |-> FALSE]
<1>1. pc[w] = "storing" /\ account /\ d \in Days /\ Today(w)' = d /\ pc'[w] # "idle"
  BY RunRecord DEF StoreCommit, Today
<1>2. plan[w][r] = UpsertOp(r, d)
  BY <1>1 DEF PlanCurrent, OpFor
<1>3. snaps[r][d] \in Row \cup {NoRow}
  BY <1>1
<1>4. snaps'[r][d] = Written(snaps[r][d], UpsertOp(r, d), seen[w][r])
  BY <1>1, <1>2 DEF StoreCommit, UpsertOp
<1>5. Written(snaps[r][d], UpsertOp(r, d), seen[w][r]) = row
  <2>1. CASE snaps[r][d] = NoRow
    BY <2>1 DEF Written, UpsertOp
  <2>2. CASE snaps[r][d] # NoRow
    <3> DEFINE x == snaps[r][d]
    <3>1. x \in Row /\ x.removed \in BOOLEAN /\ x.flagged \in BOOLEAN
      BY <1>3, <2>2 DEF Row
    <3>2. Written(x, UpsertOp(r, d), seen[w][r]) =
            [flagged |-> IF x.flagged = (seen[w][r] = "flagged") THEN x.flagged
                         ELSE seen[w][r] = "flagged",
             removed |-> IF x.removed THEN FALSE ELSE x.removed]
      BY <2>2 DEF Written, UpsertOp
    <3> HIDE DEF x
    <3>3. (IF x.removed THEN FALSE ELSE x.removed) = FALSE
      BY <3>1
    <3>4. (IF x.flagged = (seen[w][r] = "flagged") THEN x.flagged ELSE seen[w][r] = "flagged")
            = (seen[w][r] = "flagged")
      BY <3>1
    <3>5. Written(x, UpsertOp(r, d), seen[w][r]) = row
      BY <3>2, <3>3, <3>4
    <3> QED BY <3>5 DEF x
  <2> QED BY <2>1, <2>2
<1>6. row \in Row /\ row # NoRow /\ ~row.removed /\ row.flagged = (seen[w][r] = "flagged")
  <2>1. (seen[w][r] = "flagged") \in BOOLEAN
    OBVIOUS
  <2>2. row \in Row /\ ~row.removed
    BY <2>1 DEF Row
  <2>3. row.flagged = (seen[w][r] = "flagged")
    OBVIOUS
  <2>4. row # NoRow
    BY <2>2, PipelineAssumption DEF Row
  <2> QED BY <2>2, <2>3, <2>4
<1>7. d \in Alive(r)' /\ Alive(r)' \in SUBSET Days
  <2> HIDE DEF d, row
  <2>1. d \in Stamp(r)' /\ snaps'[r][d] = row
    BY <1>1, <1>4, <1>5, <1>6 DEF Stamp
  <2> QED BY <1>6, <2>1 DEF Alive, Stamp
<1>8. \A e \in Alive(r)' : e <= d
  BY <1>1 DEF RowsDated, Alive
<1>9. Newest(Alive(r)') = d
  <2> DEFINE S == Alive(r)'
  <2> HIDE DEF S, d
  <2>1. Newest(S) \in S /\ \A e \in S : e <= Newest(S)
    BY <1>7, NewestExists DEF S
  <2>2. Newest(S) <= d /\ d <= Newest(S) /\ d \in Int /\ Newest(S) \in Int
    BY <1>7, <1>8, <2>1 DEF S, Days
  <2>3. Newest(S) = d
    BY <2>2
  <2> QED BY <2>3 DEF S
<1>10. Latest(r)' = snaps'[r][Newest(Alive(r)')]
  BY DEF Latest
<1> QED BY <1>4, <1>5, <1>6, <1>7, <1>9, <1>10 DEF InInventory

\* Of what the query did not return, the newest row ends up stamped removed.
LEMMA AbsentStamped ==
  ASSUME SerialInv, NEW w \in Workers, StoreCommit(w), NEW r \in Resources,
         seen[w][r] = "absent", \E d \in Stamp(r) : d < Today(w)
  PROVE  snaps'[r][Newest(Stamp(r))].removed
<1> USE DEF SerialInv, IInv, TypeInv, TypeOK
<1> DEFINE last == Newest(Stamp(r))
<1>1. plan[w][r] = RemoveOp(r, Today(w))
  BY DEF StoreCommit, PlanCurrent, OpFor
<1>2. last \in Stamp(r)
  BY NewestExists DEF Stamp
<1>3. last \in Days /\ snaps[r][last] \in Row
  BY <1>2 DEF Stamp
<1>4. {d \in Stamp(r) : d < Today(w)} # {}
  OBVIOUS
<1>5. CASE snaps[r][last].removed
  <2>1. plan[w][r] = Nothing
    BY <1>1, <1>5 DEF RemoveOp
  <2>2. snaps'[r][last] = snaps[r][last]
    BY <1>3, <2>1 DEF StoreCommit, Nothing
  <2> QED BY <1>5, <2>2
<1>6. CASE ~snaps[r][last].removed
  <2>1. plan[w][r] = [op |-> "stamp", at |-> last, was |-> snaps[r][last]]
    BY <1>1, <1>4, <1>6 DEF RemoveOp
  <2>2. plan[w][r].op = "stamp" /\ plan[w][r].at = last
    BY <2>1
  <2> HIDE DEF last
  <2>3. snaps'[r][last] = [snaps[r][last] EXCEPT !.removed = TRUE]
    BY <1>3, <2>2 DEF StoreCommit, Written
  <2>4. snaps'[r][last].removed
    BY <1>3, <2>3 DEF Row
  <2> QED BY <2>4 DEF last
<1> QED BY <1>5, <1>6

\* Where scans of the account do not overlap the inventory commit of one leaves
\* the inventory as the scan saw it, although the commit only writes the columns the ORM
\* found changed: nobody else writes rows between its SELECTs and its COMMIT,
\* and no row is dated later than the scan.
THEOREM InventoryReflects == Spec /\ []ScansApart => StoreReflectsScan
<1>1. SerialInv /\ SerialInv' /\ [Next]_vars =>
        [\A w \in Workers, r \in Resources : Stores(w) =>
           /\ seen[w][r] \in {"clean", "flagged"} =>
                InInventory(r)' /\ Latest(r)'.flagged = (seen[w][r] = "flagged")
           /\ seen[w][r] = "absent" /\ (\E d \in Stamp(r) : d < Today(w)) =>
                snaps'[r][Newest(Stamp(r))].removed]_vars
  <2> SUFFICES ASSUME SerialInv, SerialInv', [Next]_vars, NEW w \in Workers, NEW r \in Resources,
                      Stores(w)
               PROVE  /\ seen[w][r] \in {"clean", "flagged"} =>
                           InInventory(r)' /\ Latest(r)'.flagged = (seen[w][r] = "flagged")
                      /\ seen[w][r] = "absent" /\ (\E d \in Stamp(r) : d < Today(w)) =>
                           snaps'[r][Newest(Stamp(r))].removed
    OBVIOUS
  <2>1. StoreCommit(w)
    BY WorkerFrame DEF Stores, Stays, SerialInv, IInv
  <2>2. account'
    BY <2>1 DEF StoreCommit
  <2> QED BY <2>1, <2>2, ListedCurrent, AbsentStamped
<1>2. ScansApart /\ SerialInv /\ [Next]_vars => SerialInv'
  BY SerialInvStep
<1> QED BY <1>1, <1>2, SerialInvInit, PTL DEF Spec, StoreReflectsScan

-----------------------------------------------------------------------------
(* One open finding                                                        *)

\* The findings of a kind without restore: at most one is OPEN, and none is
\* while the worker is about to add one.
SingleOpen ==
  \A r \in Resources : KindOf[r] \notin OptTypes =>
    /\ \A i, j \in OpenIds(r) : i = j
    /\ \A w \in Workers : pc[w] = "closing" /\ r \in marks[w].create => OpenIds(r) = {}

\* A worker about to commit its findings was so before, or has just read.
LEMMA ClosingFrame ==
  ASSUME TypeInv, [Next]_vars, NEW v \in Workers, pc'[v] = "closing"
  PROVE  \/ pc[v] = "closing" /\ marks'[v] = marks[v]
         \/ \E idle \in SUBSET Resources : AnalyseRead(v, idle)
<1> USE DEF TypeInv, TypeOK
<1>1. ASSUME NEW w \in Workers, Leave(w) PROVE pc[v] = "closing" /\ marks'[v] = marks[v]
  BY <1>1 DEF Leave
<1>2. ASSUME NEW w \in Workers, TaskStep(w)
      PROVE  \/ pc[v] = "closing" /\ marks'[v] = marks[v]
             \/ \E idle \in SUBSET Resources : AnalyseRead(v, idle)
  <2>1. ASSUME NEW idle \in SUBSET Resources, AnalyseRead(w, idle), v # w
        PROVE  pc[v] = "closing" /\ marks'[v] = marks[v]
    BY <2>1 DEF AnalyseRead
  <2> QED BY <1>1, <1>2, <2>1 DEF TaskStep, Begin, Collect, StoreRead, StoreCommit, MarkSuccess,
     AnalyseCommit, SyncKnowledgeBase, StoreConflict, AnalyseAmbiguous, TaskError, AccountGone,
     Fail
<1>3. ASSUME NEW w \in Workers, Crash(w) PROVE pc[v] = "closing" /\ marks'[v] = marks[v]
  BY <1>1, <1>3 DEF Crash
<1>4. UserStep => UNCHANGED workerVars
  BY DEF UserStep, UserAction, ApplyOptimization, DismissOptimization, RestoreOptimization,
     DeleteOrphaned, RemediateOrphaned, ResolveFinding, SetStatus
<1> QED BY <1>2, <1>3, <1>4 DEF Next, AdvanceDay, CloudChange, TriggerScan, DeleteAccount,
     workerVars, vars

\* A step opens no finding of a kind without restore, unless it is the commit
\* of an analysis that found none open.
LEMMA OpensFrame ==
  ASSUME TypeInv, [Next]_vars, NEW r \in Resources, KindOf[r] \notin OptTypes
  PROVE  OpenIds(r)' \subseteq OpenIds(r) \/ \E w \in Workers : AnalyseCommit(w) /\ r \in marks[w].create
<1> USE DEF TypeInv, TypeOK
<1>1. ASSUME NEW w \in Workers, TaskStep(w), ~AnalyseCommit(w) PROVE findings' = findings
  BY <1>1 DEF TaskStep, Begin, Collect, StoreRead, StoreCommit, MarkSuccess, AnalyseRead,
     SyncKnowledgeBase, StoreConflict, AnalyseAmbiguous, TaskError, AccountGone, Fail, dbVars
<1>2. ASSUME NEW w \in Workers, AnalyseCommit(w), r \notin marks[w].create
      PROVE  OpenIds(r)' \subseteq OpenIds(r)
  <2>1. findings'[r] = Closed(w, r)
    BY <1>2 DEF AnalyseCommit, Analysed
  <2> QED BY <2>1 DEF Closed, OpenIds
<1>3. ASSUME NEW w \in Workers, Crash(w) PROVE findings' = findings
  BY <1>3 DEF Crash, dbVars
<1>4. ASSUME NEW q \in Resources, NEW i \in DOMAIN findings[q], UserAction(q, i)
      PROVE  OpenIds(r)' \subseteq OpenIds(r)
  <2>1. CASE q = r
    <3>1. ResolveFinding(r, i)
      BY <1>4, <2>1 DEF UserAction, ApplyOptimization, DismissOptimization, RestoreOptimization,
         DeleteOrphaned, RemediateOrphaned, OptTypes
    <3>2. findings'[r] = [findings[r] EXCEPT ![i] = "RESOLVED"]
      BY <3>1 DEF ResolveFinding, SetStatus
    <3> QED BY <3>2 DEF OpenIds
  <2>2. CASE q # r
    <3>1. findings'[r] = findings[r]
      BY <1>4, <2>2 DEF UserAction, ApplyOptimization, DismissOptimization, RestoreOptimization,
         DeleteOrphaned, RemediateOrphaned, ResolveFinding, SetStatus
    <3> QED BY <3>1 DEF OpenIds
  <2> QED BY <2>1, <2>2
<1>5. CASE DeleteAccount
  <2>1. findings'[r] = <<>>
    BY <1>5 DEF DeleteAccount
  <2> QED BY <2>1 DEF OpenIds
<1>6. CASE findings' = findings
  BY <1>6 DEF OpenIds
<1> QED BY <1>1, <1>2, <1>3, <1>4, <1>5, <1>6
        DEF Next, UserStep, AdvanceDay, CloudChange, TriggerScan, vars

LEMMA SingleOpenStep == ScansApart /\ TypeInv /\ SingleOpen /\ [Next]_vars => SingleOpen'
<1> SUFFICES ASSUME ScansApart, TypeInv, SingleOpen, [Next]_vars, NEW r \in Resources,
                    KindOf[r] \notin OptTypes
             PROVE  /\ \A i, j \in OpenIds(r)' : i = j
                    /\ \A v \in Workers : pc'[v] = "closing" /\ r \in marks'[v].create
                         => OpenIds(r)' = {}
  BY DEF SingleOpen
<1>1. ASSUME NEW w \in Workers, AnalyseCommit(w), r \in marks[w].create
      PROVE  /\ \A i, j \in OpenIds(r)' : i = j
             /\ \A v \in Workers : pc'[v] # "closing"
  <2> DEFINE c == Closed(w, r)
  <2>1. OpenIds(r) = {}
    BY <1>1 DEF SingleOpen, AnalyseCommit
  <2>2. PICK n \in Nat : findings[r] \in [1..n -> Status]
    BY SeqDef DEF TypeInv, TypeOK
  <2>3. c \in [1..n -> Status] /\ \A i \in 1..n : c[i] # "OPEN"
    BY <2>1, <2>2 DEF Closed, OpenIds, Status
  <2>4. c \in Seq(Status) /\ Len(c) = n
    BY <2>3, LenProperties, SeqDef
  <2>5. findings'[r] = Append(c, "OPEN")
    BY <1>1 DEF AnalyseCommit, Analysed
  <2> HIDE DEF c
  <2>6. "OPEN" \in Status
    BY DEF Status
  <2>7. /\ Append(c, "OPEN") \in Seq(Status) /\ Len(Append(c, "OPEN")) = n + 1
        /\ \A i \in 1..n : Append(c, "OPEN")[i] = c[i]
    BY <2>4, <2>6, AppendProperties
  <2>8. DOMAIN Append(c, "OPEN") = 1..(n + 1)
    BY <2>7, LenProperties
  <2>9. \A i \in 1..(n + 1) : i = n + 1 \/ i \in 1..n
    BY <2>2
  <2>10. \A i \in OpenIds(r)' : i = n + 1
    BY <2>3, <2>5, <2>7, <2>8, <2>9 DEF OpenIds
  <2>11. \A v \in Workers : pc'[v] # "closing"
    <3>1. pc'[w] # "closing"
      BY <1>1 DEF AnalyseCommit, TypeInv, TypeOK
    <3>2. \A v \in Workers \ {w} : pc[v] = "idle" /\ pc'[v] = pc[v]
      BY <1>1 DEF ScansApart, AnalyseCommit, TypeInv, TypeOK
    <3> QED BY <3>1, <3>2
  <2> QED BY <2>10, <2>11
<1>2. CASE OpenIds(r)' \subseteq OpenIds(r)
  <2>1. ASSUME NEW v \in Workers, NEW idle \in SUBSET Resources, AnalyseRead(v, idle),
               r \in marks'[v].create
        PROVE  OpenIds(r) = {}
    <3>1. marks'[v].create = ToCreate(idle)
      BY <2>1 DEF AnalyseRead, TypeInv, TypeOK
    <3> QED BY <2>1, <3>1 DEF ToCreate
  <2>2. \A i, j \in OpenIds(r) : i = j
    BY DEF SingleOpen
  <2>3. ASSUME NEW v \in Workers, pc'[v] = "closing", r \in marks'[v].create
        PROVE  OpenIds(r) = {}
    BY <2>1, <2>3, ClosingFrame DEF SingleOpen
  <2> QED BY <1>2, <2>2, <2>3
<1> QED BY <1>1, <1>2, OpensFrame

\* Where scans do not overlap the findings of a kind that cannot be restored are
\* never OPEN twice for one resource: the lookup of _upsert_finding is not
\* ambiguous, so scalar_one_or_none does not end the analysis of a later scan.
THEOREM LookupUnambiguous == Spec /\ []ScansApart => []SingleOpenWithoutRestore
<1>1. Init => SingleOpen
  <2> SUFFICES ASSUME Init PROVE SingleOpen
    OBVIOUS
  <2>1. \A r \in Resources : OpenIds(r) = {}
    BY DEF Init, OpenIds
  <2> QED BY <2>1 DEF Init, SingleOpen
<1>2. ScansApart /\ IInv /\ SingleOpen /\ [Next]_vars => SingleOpen'
  BY SingleOpenStep DEF IInv
<1>3. SingleOpen => SingleOpenWithoutRestore
  <2> SUFFICES ASSUME SingleOpen, NEW r \in Resources, KindOf[r] \notin OptTypes
               PROVE  Cardinality(OpenIds(r)) <= 1
    BY DEF SingleOpenWithoutRestore
  <2>1. CASE OpenIds(r) = {}
    <3>1. Cardinality(OpenIds(r)) = 0
      BY <2>1, FS_EmptySet
    <3> QED BY <3>1
  <2>2. ASSUME NEW i \in OpenIds(r) PROVE Cardinality(OpenIds(r)) <= 1
    <3>1. OpenIds(r) = {i}
      BY <2>2 DEF SingleOpen
    <3>2. Cardinality(OpenIds(r)) = 1
      BY <3>1, FS_Singleton
    <3> QED BY <3>2
  <2> QED BY <2>1, <2>2
<1> QED BY <1>1, <1>2, <1>3, InitIInv, StepIInv, PTL DEF Spec
=============================================================================
