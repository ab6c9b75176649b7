-------------------------- MODULE OptimizationsPage --------------------------
(***************************************************************************)
(* The optimizations page: recommendations an admin dismisses, restores or *)
(* executes.  Executing one plays a runbook on timers, which outlive the   *)
(* plan's panel and the page itself, and only then asks the backend to     *)
(* apply it.  The timers before the last one only write the console's      *)
(* lines and the steps' badges, and are left out, and so are the filters   *)
(* by provider and category and the chart of a row's utilization, which    *)
(* only choose what of the list is drawn.                                  *)
(***************************************************************************)
EXTENDS PageRequests

CONSTANTS
  Opts,      \* recommendations
  OptSlots,  \* bound: requests under way at once
  Runbooks   \* bound: runbooks whose last timer is pending

OptStatus == {"open", "applied", "dismissed"}
\* "summary" and "optimizations" are the two awaits of fetchData; "then" says
\* what the caller that waits for it does next.
OptCall == [op : {"dismiss", "restore", "apply", "summary", "optimizations"},
            opt : Opts \cup {None}, then : {"nothing", "close", "finish"}, live : BOOLEAN]
Runbook == [opt : Opts, live : BOOLEAN]

ASSUME OptAssumption == OptSlots # {} /\ None \notin OptCall /\ None \notin Runbook /\ None \notin Opts

VARIABLES
  optStatus,    \* what the backend stores
  optimizations,\* what the page lists: the status last fetched, or None
  optLoading,   \* isLoading
  optAdmin,     \* user.role is admin
  activeTab,
  selectedOpt,  \* the plan whose panel is open
  isExecuting,
  runbooks,     \* runbooks whose timers are pending
  executed,     \* history: the plans the user started
  optAt,
  optCalls

optVars == <<optStatus, optimizations, optLoading, optAdmin, activeTab, selectedOpt,
             isExecuting, runbooks, executed, optAt, optCalls>>

FetchOptimizations(then) == [op |-> "summary", opt |-> None, then |-> then, live |-> TRUE]

-----------------------------------------------------------------------------
OptInit ==
  /\ optStatus \in [Opts -> OptStatus]
  /\ optimizations = [o \in Opts |-> None]
  /\ optLoading = TRUE
  /\ optAdmin \in BOOLEAN
  /\ activeTab = "open"
  /\ selectedOpt = None
  /\ isExecuting = FALSE
  /\ runbooks = [r \in Runbooks |-> None]
  /\ executed = {o \in Opts : optStatus[o] = "applied"}
  /\ optAt = "shown"
  /\ optCalls = Send([s \in OptSlots |-> None], FetchOptimizations("nothing"))

\* The rows below the tab, which the spinner replaces while anything loads.
\* The open panel covers the page.
OptRows(tab) ==
  IF optLoading \/ optAt # "shown" \/ selectedOpt # None \/ activeTab # tab
    THEN {} ELSE {o \in Opts : optimizations[o] = tab}

ShowTab ==
  /\ optAt = "shown" /\ selectedOpt = None
  /\ activeTab' \in OptStatus
  /\ UNCHANGED <<optStatus, optimizations, optLoading, optAdmin, selectedOpt,
                 isExecuting, runbooks, executed, optAt, optCalls>>

\* The refresh button, offered while a listing runs as well.
RefreshOptimizations ==
  /\ optAt = "shown" /\ selectedOpt = None /\ Free(optCalls) # {}
  /\ optCalls' = Send(optCalls, FetchOptimizations("nothing"))
  /\ optLoading' = TRUE
  /\ UNCHANGED <<optStatus, optimizations, optAdmin, activeTab, selectedOpt, isExecuting,
                 runbooks, executed, optAt>>

\* handleApplyStateChange up to its await.
ChangeStatus(o, op) ==
  /\ optAdmin /\ Free(optCalls) # {}
  /\ optCalls' = Send(optCalls, [op |-> op, opt |-> o, then |-> "close", live |-> TRUE])
  /\ UNCHANGED <<optStatus, optimizations, optLoading, optAdmin, activeTab, selectedOpt,
                 isExecuting, runbooks, executed, optAt>>

DismissOpt == \E o \in OptRows("open") : ChangeStatus(o, "dismiss")
RestoreOpt == \E o \in OptRows("applied") \cup OptRows("dismissed") : ChangeStatus(o, "restore")

ViewPlan ==
  /\ \E o \in OptRows("open") : selectedOpt' = o
  /\ UNCHANGED <<optStatus, optimizations, optLoading, optAdmin, activeTab, isExecuting,
                 runbooks, executed, optAt, optCalls>>

ClosePlan ==
  /\ optAt = "shown" /\ selectedOpt # None /\ ~isExecuting
  /\ selectedOpt' = None
  /\ UNCHANGED <<optStatus, optimizations, optLoading, optAdmin, activeTab, isExecuting,
                 runbooks, executed, optAt, optCalls>>

\* startAutonomousExecution: the timers close over the plan that is open.  The
\* panel still offers it when the runbook of this plan has ended.
Execute ==
  /\ optAt = "shown" /\ selectedOpt # None /\ optAdmin /\ ~isExecuting
  /\ Free(runbooks) # {}
  /\ isExecuting' = TRUE
  /\ runbooks' = Send(runbooks, [opt |-> selectedOpt, live |-> TRUE])
  /\ executed' = executed \cup {selectedOpt}
  /\ UNCHANGED <<optStatus, optimizations, optLoading, optAdmin, activeTab, selectedOpt,
                 optAt, optCalls>>

-----------------------------------------------------------------------------
\* Slip: the timer reads the plan that is open by then.
RunbookTargetShown(r) == IF selectedOpt # None THEN selectedOpt ELSE runbooks[r].opt

\* The plan a runbook applies when its last timer fires.
RunbookTarget(r) == runbooks[r].opt

RunbookEnds(r) ==
  /\ runbooks[r] # None /\ Free(optCalls) # {}
  /\ runbooks' = Answered(runbooks, r)
  /\ optCalls' = Send(optCalls, [op |-> "apply", opt |-> RunbookTarget(r), then |-> "finish",
                                 live |-> runbooks[r].live])
  /\ UNCHANGED <<optStatus, optimizations, optLoading, optAdmin, activeTab, selectedOpt,
                 isExecuting, executed, optAt>>

\* apply, dismiss and restore store their status, whatever it was.
StatusAfter(op) == CASE op = "apply" -> "applied" [] op = "dismiss" -> "dismissed"
                [] op = "restore" -> "open"

StatusStored(s) ==
  LET call == optCalls[s] IN
  /\ call # None /\ call.op \in {"apply", "dismiss", "restore"}
  /\ optStatus' = [optStatus EXCEPT ![call.opt] = StatusAfter(call.op)]
  /\ IF call.live
       THEN /\ optCalls' = [optCalls EXCEPT ![s] = FetchOptimizations(call.then)]
            /\ optLoading' = TRUE
       ELSE optCalls' = Answered(optCalls, s) /\ UNCHANGED optLoading
  /\ UNCHANGED <<optimizations, optAdmin, activeTab, selectedOpt, isExecuting, runbooks,
                 executed, optAt>>

\* The backend refuses: an alert, or a line "Retrying..." that nothing follows.
StatusRefused(s) ==
  LET call == optCalls[s] IN
  /\ call # None /\ call.op \in {"apply", "dismiss", "restore"}
  /\ optCalls' = Answered(optCalls, s)
  /\ isExecuting' = (isExecuting /\ ~(call.live /\ call.then = "finish"))
  /\ UNCHANGED <<optStatus, optimizations, optLoading, optAdmin, activeTab, selectedOpt,
                 runbooks, executed, optAt>>

\* The request fails, before or after it was served.  Nobody catches it in the
\* runbook, which leaves the panel executing.
StatusLost(s) ==
  LET call == optCalls[s] IN
  /\ call # None /\ call.op \in {"apply", "dismiss", "restore"}
  /\ optCalls' = Answered(optCalls, s)
  /\ optStatus' \in {optStatus, [optStatus EXCEPT ![call.opt] = StatusAfter(call.op)]}
  /\ UNCHANGED <<optimizations, optLoading, optAdmin, activeTab, selectedOpt, isExecuting,
                 runbooks, executed, optAt>>

\* Slip: whoever closes the panel also ends the execution.
AfterFetchClosing(then) ==
  /\ optLoading' = FALSE
  /\ selectedOpt' = IF then = "close" THEN None ELSE selectedOpt
  /\ isExecuting' = (isExecuting /\ then = "nothing")

\* What follows fetchData in its caller; fetchData itself never throws.
AfterFetch(then) ==
  /\ optLoading' = FALSE
  /\ selectedOpt' = IF then = "close" THEN None ELSE selectedOpt
  /\ isExecuting' = (isExecuting /\ then # "finish")

SummaryFetched(s) ==
  LET call == optCalls[s] IN
  /\ call # None /\ call.op = "summary"
  /\ optCalls' = [optCalls EXCEPT ![s] = [@ EXCEPT !.op = "optimizations"]]
  /\ UNCHANGED <<optStatus, optimizations, optLoading, optAdmin, activeTab, selectedOpt,
                 isExecuting, runbooks, executed, optAt>>

OptimizationsFetched(s) ==
  LET call == optCalls[s] IN
  /\ call # None /\ call.op = "optimizations"
  /\ optCalls' = Answered(optCalls, s)
  /\ optimizations' \in {optStatus, optimizations}  \* the list, or either answer not ok
  /\ AfterFetch(call.then)
  /\ UNCHANGED <<optStatus, optAdmin, activeTab, runbooks, executed, optAt>>

FetchFails(s) ==
  LET call == optCalls[s] IN
  /\ call # None /\ call.op \in {"summary", "optimizations"}
  /\ optCalls' = Answered(optCalls, s)
  /\ AfterFetch(call.then)
  /\ UNCHANGED <<optStatus, optimizations, optAdmin, activeTab, runbooks, executed, optAt>>

-----------------------------------------------------------------------------
\* The timers and the requests that change the backend outlive the page.
Detached(f) == [x \in DOMAIN f |-> IF f[x] = None THEN None ELSE [f[x] EXCEPT !.live = FALSE]]
Changing(calls) == [s \in OptSlots |->
  IF calls[s] # None /\ calls[s].opt # None THEN calls[s] ELSE None]

LeaveOptimizations ==
  /\ optAt = "shown"
  /\ optAt' = "left"
  /\ runbooks' = Detached(runbooks)
  /\ optCalls' = Detached(Changing(optCalls))
  /\ optimizations' = [o \in Opts |-> None]
  /\ optLoading' = TRUE /\ activeTab' = "open"
  /\ selectedOpt' = None /\ isExecuting' = FALSE
  /\ UNCHANGED <<optStatus, optAdmin, executed>>

EnterOptimizations ==
  /\ optAt = "left" /\ Free(optCalls) # {}
  /\ optAt' = "shown"
  /\ optCalls' = Send(optCalls, FetchOptimizations("nothing"))
  /\ UNCHANGED <<optStatus, optimizations, optLoading, optAdmin, activeTab, selectedOpt,
                 isExecuting, runbooks, executed>>

OptNext ==
  \/ ShowTab \/ RefreshOptimizations \/ DismissOpt \/ RestoreOpt \/ ViewPlan \/ ClosePlan \/ Execute
  \/ \E r \in Runbooks : RunbookEnds(r)
  \/ \E s \in OptSlots : \/ StatusStored(s) \/ StatusRefused(s) \/ StatusLost(s)
                         \/ SummaryFetched(s) \/ OptimizationsFetched(s) \/ FetchFails(s)
  \/ LeaveOptimizations \/ EnterOptimizations

OptSpec == OptInit /\ [][OptNext]_optVars

-----------------------------------------------------------------------------
\* Types of the page's and the backend's state.
OptTypeOK ==
  /\ optStatus \in [Opts -> OptStatus]
  /\ optimizations \in [Opts -> OptStatus \cup {None}]
  /\ optLoading \in BOOLEAN /\ optAdmin \in BOOLEAN /\ isExecuting \in BOOLEAN
  /\ activeTab \in OptStatus
  /\ selectedOpt \in Opts \cup {None}
  /\ runbooks \in [Runbooks -> Runbook \cup {None}]
  /\ executed \subseteq Opts
  /\ optAt \in {"shown", "left"}
  /\ optCalls \in [OptSlots -> OptCall \cup {None}]

\* Nothing is applied that nobody executed: timers that fire after the panel
\* was closed, another plan opened or the page left apply the plan that was
\* open when they were set.
NothingAppliedUnasked ==
  /\ \A o \in Opts : optStatus[o] = "applied" => o \in executed
  /\ \A s \in Waiting(optCalls) : optCalls[s].op = "apply" => optCalls[s].opt \in executed

\* A runbook of the page that is shown, before its last timer and after it.
Runs(b)      == b # None /\ b.live
Finishing(c) == c # None /\ c.live /\ c.then = "finish"

\* One runbook of a page at a time, and the panel's buttons stay disabled until
\* it is over, also when a late dismissal closed the panel meanwhile.
RunbookExclusive ==
  /\ \A r, q \in Runbooks : Runs(runbooks[r]) /\ Runs(runbooks[q]) => r = q
  /\ \A s, t \in OptSlots : Finishing(optCalls[s]) /\ Finishing(optCalls[t]) => s = t
  /\ \A r \in Runbooks, s \in OptSlots : ~(Runs(runbooks[r]) /\ Finishing(optCalls[s]))
  /\ \A r \in Runbooks : Runs(runbooks[r]) => isExecuting
  /\ \A s \in OptSlots : Finishing(optCalls[s]) => isExecuting
=============================================================================
