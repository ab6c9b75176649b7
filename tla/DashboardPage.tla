---------------------------- MODULE DashboardPage ----------------------------
(***************************************************************************)
(* The dashboard's summary and its refresh, and the indicator in the       *)
(* layout around every page that tells how a synchronisation goes.  A      *)
(* refresh checks the connection, triggers a scan and polls until it is    *)
(* done or a deadline has passed; it and the saving of a connection tell   *)
(* the layout by events when they start and end.  Both go on without       *)
(* their page.                                                             *)
(***************************************************************************)
EXTENDS Integers, FiniteSets, PageRequests

CONSTANTS
  DashSlots,  \* bound: requests, refreshes and saves under way at once
  MaxTimers   \* bound: pending timers of a kind

\* "health", "trigger" and "poll" are the stages of a refresh.
Stages   == {"health", "trigger", "poll"}
Starting == {"trigger", "poll", "save"}  \* begun, by an event, and not ended
DashCall == [op : {"summary", "check"} \cup Stages \cup Starting, live : BOOLEAN]
Summaries == {"accounts", "noaccounts"}

\* Two requests are sent as the page mounts.
ASSUME DashboardAssumption ==
  MaxTimers \in Nat /\ (\E s, t \in DashSlots : s # t) /\ None \notin DashCall

VARIABLES
  summary,         \* what the dashboard shows, or None
  isRefreshing,
  refreshSuccess,
  refreshTimers,   \* timers that will hide that it succeeded
  isSandbox,       \* of the user
  dashboardAt,
  indicator,       \* globalSyncState
  indicatorTimers, \* timers that will hide the indicator
  awsHealth,       \* isAwsHealthChecking, isAwsConnected
  dashCalls

dashVars == <<summary, isRefreshing, refreshSuccess, refreshTimers, isSandbox, dashboardAt,
              indicator, indicatorTimers, awsHealth, dashCalls>>
refreshVars == <<isRefreshing, refreshSuccess, refreshTimers>>

DashRequest(op) == [op |-> op, live |-> TRUE]
DashPending(s, ops) == dashCalls[s] # None /\ dashCalls[s].op \in ops
MovesOn(s, op) == [dashCalls EXCEPT ![s] = [@ EXCEPT !.op = op]]

-----------------------------------------------------------------------------
\* Layout and dashboard mount together: the summary and the state of the
\* connection are asked for.
DashInit ==
  /\ summary = None
  /\ isRefreshing = FALSE /\ refreshSuccess = FALSE /\ refreshTimers = 0
  /\ isSandbox \in BOOLEAN
  /\ dashboardAt = "shown"
  /\ indicator = "idle" /\ indicatorTimers = 0
  /\ awsHealth = "checking"
  /\ dashCalls = Send(Send([s \in DashSlots |-> None], DashRequest("check")), DashRequest("summary"))

\* The events of a synchronisation, and what the layout does about them.
SyncStart == indicator' = "syncing" /\ UNCHANGED indicatorTimers
SyncSuccess ==
  /\ indicatorTimers < MaxTimers
  /\ indicator' = "success" /\ indicatorTimers' = indicatorTimers + 1

\* Slip: nothing hides the failure again.
SyncErrorStays == indicator' = "error" /\ UNCHANGED indicatorTimers

SyncError ==
  /\ indicatorTimers < MaxTimers
  /\ indicator' = "error" /\ indicatorTimers' = indicatorTimers + 1

\* No timer is stopped by a later event.
IndicatorTimeout ==
  /\ indicatorTimers > 0
  /\ indicator' = "idle" /\ indicatorTimers' = indicatorTimers - 1
  /\ UNCHANGED <<summary, refreshVars, isSandbox, dashboardAt, awsHealth, dashCalls>>

\* The interval of the layout.
CheckHealth ==
  /\ dashboardAt # "failed" /\ Free(dashCalls) # {}
  /\ awsHealth' = "checking"
  /\ dashCalls' = Send(dashCalls, DashRequest("check"))
  /\ UNCHANGED <<summary, refreshVars, isSandbox, dashboardAt, indicator, indicatorTimers>>

HealthChecked(s) ==
  /\ DashPending(s, {"check"})
  /\ awsHealth' \in {"connected", "down"}
  /\ dashCalls' = Answered(dashCalls, s)
  /\ UNCHANGED <<summary, refreshVars, isSandbox, dashboardAt, indicator, indicatorTimers>>

-----------------------------------------------------------------------------
\* handleForceRefresh up to its first await.
ForceRefresh ==
  /\ dashboardAt = "shown" /\ summary # None
  /\ ~isRefreshing /\ ~isSandbox
  /\ Free(dashCalls) # {}
  /\ isRefreshing' = TRUE /\ refreshSuccess' = FALSE
  /\ dashCalls' = Send(dashCalls, DashRequest("health"))
  /\ UNCHANGED <<summary, refreshTimers, isSandbox, dashboardAt, indicator, indicatorTimers, awsHealth>>

\* The flag belongs to the page the refresh was started from.
NoLongerRefreshing(s) == isRefreshing' = (isRefreshing /\ ~dashCalls[s].live)

\* Not connected: an error without a start.
NotConnected(s) ==
  /\ DashPending(s, {"health"})
  /\ SyncError /\ NoLongerRefreshing(s)
  /\ dashCalls' = Answered(dashCalls, s)
  /\ UNCHANGED <<summary, refreshSuccess, refreshTimers, isSandbox, dashboardAt, awsHealth>>

RefreshStarts(s) ==
  /\ DashPending(s, {"health"})
  /\ SyncStart
  /\ dashCalls' = MovesOn(s, "trigger")
  /\ UNCHANGED <<summary, refreshVars, isSandbox, dashboardAt, awsHealth>>

\* The scan is queued: its status is polled from now on.
ScanTriggered(s) ==
  /\ DashPending(s, {"trigger"})
  /\ dashCalls' = MovesOn(s, "poll")
  /\ UNCHANGED <<summary, refreshVars, isSandbox, dashboardAt, indicator, indicatorTimers, awsHealth>>

\* Whatever the dashboard is that is shown by now listens to the event: it
\* asks for its summary again.
RefetchSummary(s) ==
  dashCalls' = IF dashboardAt = "shown" THEN [dashCalls EXCEPT ![s] = DashRequest("summary")]
                                        ELSE Answered(dashCalls, s)

\* There was nothing to scan, the scan is done, or the deadline has passed.
RefreshSucceeds(s) ==
  /\ DashPending(s, {"trigger", "poll"})
  /\ SyncSuccess /\ NoLongerRefreshing(s)
  /\ IF dashCalls[s].live
       THEN refreshTimers < MaxTimers /\ refreshSuccess' = TRUE /\ refreshTimers' = refreshTimers + 1
       ELSE UNCHANGED <<refreshSuccess, refreshTimers>>
  /\ RefetchSummary(s)
  /\ UNCHANGED <<summary, isSandbox, dashboardAt, awsHealth>>

RefreshFails(s) ==
  /\ DashPending(s, {"trigger", "poll"})
  /\ SyncError /\ NoLongerRefreshing(s)
  /\ dashCalls' = Answered(dashCalls, s)
  /\ UNCHANGED <<summary, refreshSuccess, refreshTimers, isSandbox, dashboardAt, awsHealth>>

RefreshedTimeout ==
  /\ refreshTimers > 0
  /\ refreshSuccess' = FALSE /\ refreshTimers' = refreshTimers - 1
  /\ UNCHANGED <<summary, isRefreshing, isSandbox, dashboardAt, indicator, indicatorTimers,
                 awsHealth, dashCalls>>

-----------------------------------------------------------------------------
\* handleConnect of the integrations page, from its save on.
SaveStarts ==
  /\ dashboardAt # "failed" /\ Free(dashCalls) # {}
  /\ SyncStart
  /\ dashCalls' = Send(dashCalls, DashRequest("save"))
  /\ UNCHANGED <<summary, refreshVars, isSandbox, dashboardAt, awsHealth>>

SaveEnds(s) ==
  /\ DashPending(s, {"save"})
  /\ \/ SyncSuccess /\ RefetchSummary(s)
     \/ SyncError /\ dashCalls' = Answered(dashCalls, s)
  /\ UNCHANGED <<summary, refreshVars, isSandbox, dashboardAt, awsHealth>>

-----------------------------------------------------------------------------
SummaryArrives(s) ==
  /\ DashPending(s, {"summary"})
  /\ summary' \in Summaries
  /\ dashCalls' = Answered(dashCalls, s)
  /\ UNCHANGED <<refreshVars, isSandbox, dashboardAt, indicator, indicatorTimers, awsHealth>>

\* Without a summary the skeleton stays.
SummaryLost(s) ==
  /\ DashPending(s, {"summary"})
  /\ dashCalls' = Answered(dashCalls, s)
  /\ UNCHANGED <<summary, refreshVars, isSandbox, dashboardAt, indicator, indicatorTimers, awsHealth>>

PageGone(at) ==
  /\ dashboardAt' = at
  /\ summary' = None
  /\ isRefreshing' = FALSE /\ refreshSuccess' = FALSE /\ refreshTimers' = 0

\* What runs without the dashboard that asked for it.
WithoutDashboard == [s \in DashSlots |->
  IF DashPending(s, Stages) THEN [dashCalls[s] EXCEPT !.live = FALSE]
  ELSE IF DashPending(s, {"summary"}) THEN None ELSE dashCalls[s]]

LeaveDashboard ==
  /\ dashboardAt = "shown" /\ PageGone("left")
  /\ dashCalls' = WithoutDashboard
  /\ UNCHANGED <<isSandbox, indicator, indicatorTimers, awsHealth>>

EnterDashboard ==
  /\ dashboardAt = "left" /\ Free(dashCalls) # {}
  /\ dashboardAt' = "shown"
  /\ dashCalls' = Send(dashCalls, DashRequest("summary"))
  /\ UNCHANGED <<summary, refreshVars, isSandbox, indicator, indicatorTimers, awsHealth>>

\* Signed out and in again: a new layout listens to the refreshes and saves
\* that still run, and the timers of the old one do nothing.
RemountLayout ==
  /\ dashboardAt # "failed"
  /\ PageGone("left")
  /\ isSandbox' \in BOOLEAN
  /\ indicator' = "idle" /\ indicatorTimers' = 0
  /\ awsHealth' = "checking"
  /\ LET running == [s \in DashSlots |-> IF DashPending(s, {"check"}) THEN None ELSE WithoutDashboard[s]]
     IN  Free(running) # {} /\ dashCalls' = Send(running, DashRequest("check"))

\* An error body has no amounts to show: rendering it fails, and the error page
\* replaces the layout too.
SummaryUnreadable(s) ==
  /\ DashPending(s, {"summary"})
  /\ PageGone("failed")
  /\ indicator' = "idle" /\ indicatorTimers' = 0
  /\ awsHealth' = "checking"
  /\ dashCalls' = [t \in DashSlots |-> None]
  /\ UNCHANGED isSandbox

ReloadDashboard ==
  /\ dashboardAt = "failed"
  /\ dashboardAt' = "shown"
  /\ dashCalls' = Send(Send(dashCalls, DashRequest("check")), DashRequest("summary"))
  /\ UNCHANGED <<summary, refreshVars, isSandbox, indicator, indicatorTimers, awsHealth>>

DashNext ==
  \/ CheckHealth \/ ForceRefresh \/ SaveStarts \/ IndicatorTimeout \/ RefreshedTimeout
  \/ \E s \in DashSlots :
       \/ HealthChecked(s) \/ NotConnected(s) \/ RefreshStarts(s) \/ ScanTriggered(s)
       \/ RefreshSucceeds(s) \/ RefreshFails(s) \/ SaveEnds(s)
       \/ SummaryArrives(s) \/ SummaryLost(s) \/ SummaryUnreadable(s)
  \/ LeaveDashboard \/ EnterDashboard \/ RemountLayout \/ ReloadDashboard

DashSpec == DashInit /\ [][DashNext]_dashVars

-----------------------------------------------------------------------------
\* Types of the dashboard's and the indicator's state.
DashTypeOK ==
  /\ summary \in Summaries \cup {None}
  /\ isRefreshing \in BOOLEAN /\ refreshSuccess \in BOOLEAN /\ isSandbox \in BOOLEAN
  /\ refreshTimers \in 0..MaxTimers /\ indicatorTimers \in 0..MaxTimers
  /\ dashboardAt \in {"shown", "left", "failed"}
  /\ indicator \in {"idle", "syncing", "success", "error"}
  /\ awsHealth \in {"checking", "connected", "down"}
  /\ dashCalls \in [DashSlots -> DashCall \cup {None}]

\* The indicator says a synchronisation runs only while one does, and never
\* keeps the outcome of one, although refreshes and saves of several pages and
\* sessions start and end in any order and their timers are never stopped.
IndicatorExplained ==
  /\ indicator = "syncing" => \E s \in DashSlots : DashPending(s, Starting)
  /\ indicator \in {"success", "error"} => indicatorTimers > 0

LiveRefreshes == {s \in DashSlots : DashPending(s, Stages) /\ dashCalls[s].live}

\* One refresh of a dashboard at a time, the button is disabled exactly as long
\* as it runs, and nothing keeps saying that it checks or succeeded.
RefreshReleases ==
  /\ Cardinality(LiveRefreshes) <= 1 /\ (isRefreshing <=> LiveRefreshes # {})
  /\ refreshSuccess => refreshTimers > 0
  /\ awsHealth = "checking" /\ dashboardAt # "failed" => \E s \in DashSlots : DashPending(s, {"check"})
=============================================================================
