----------------------------- MODULE OrphanedPage -----------------------------
(***************************************************************************)
(* The orphaned resources page: an admin deletes a resource, or anyone     *)
(* executes its playbook once "safe remediation" is switched on.  The      *)
(* console over the page plays the backend's log on a timer, which         *)
(* nothing stops, and may be closed when the last line is there, one tick  *)
(* before the timer ends.                                                  *)
(***************************************************************************)
EXTENDS Integers, PageRequests

CONSTANTS
  Orphans,      \* resources
  OrphanSlots,  \* bound: requests and log players under way at once
  LogLines      \* bound: lines of a playbook's log

OrphanCall == [op : {"list", "delete", "remediate"}, resource : Orphans \cup {None}]

ASSUME OrphanedAssumption ==
  LogLines \in Nat \ {0} /\ OrphanSlots # {} /\ None \notin Orphans \cup OrphanCall \cup 0..LogLines

VARIABLES
  orphans,       \* resources listed
  orphanLoading,
  orphanAdmin,
  safeMode,      \* isSafeRemediation
  storedSafe,    \* its copy in localStorage
  console,       \* activeResource, while showConsole
  progress,      \* terminalProgress: 0 at rest, 2 at 100%
  playing,       \* isExecuting
  players,       \* per log being played, the lines left; the timer ends a tick later
  orphanAt,
  orphanCalls

orphanVars == <<orphans, orphanLoading, orphanAdmin, safeMode, storedSafe, console,
                progress, playing, players, orphanAt, orphanCalls>>
consoleVars == <<console, progress, playing, players>>

ListOrphans == [op |-> "list", resource |-> None]

-----------------------------------------------------------------------------
OrphanInit ==
  /\ orphans = {}
  /\ orphanLoading = TRUE
  /\ orphanAdmin \in BOOLEAN
  /\ storedSafe \in BOOLEAN
  /\ safeMode = storedSafe
  /\ console = None /\ progress = 0 /\ playing = FALSE
  /\ players = [p \in OrphanSlots |-> None]
  /\ orphanAt = "shown"
  /\ orphanCalls = Send([s \in OrphanSlots |-> None], ListOrphans)

\* The rows, which the spinner replaces and the console covers.
OrphanRows == IF orphanLoading \/ console # None \/ orphanAt # "shown" THEN {} ELSE orphans

SwitchSafe ==
  /\ orphanAt = "shown" /\ console = None
  /\ safeMode' = ~safeMode
  /\ storedSafe' = safeMode'
  /\ UNCHANGED <<orphans, orphanLoading, orphanAdmin, consoleVars, orphanAt, orphanCalls>>

DeleteOrphan ==
  /\ orphanAdmin /\ Free(orphanCalls) # {}
  /\ \E o \in OrphanRows :
       orphanCalls' = Send(orphanCalls, [op |-> "delete", resource |-> o])
  /\ UNCHANGED <<orphans, orphanLoading, orphanAdmin, safeMode, storedSafe, consoleVars, orphanAt>>

\* handleRemediate up to its await.
Remediate ==
  /\ safeMode /\ Free(orphanCalls) # {}
  /\ \E o \in OrphanRows :
       /\ console' = o
       /\ orphanCalls' = Send(orphanCalls, [op |-> "remediate", resource |-> o])
  /\ progress' = 1
  /\ playing' = TRUE
  /\ UNCHANGED <<orphans, orphanLoading, orphanAdmin, safeMode, storedSafe, players, orphanAt>>

\* The cross, disabled while executing.
CloseConsole ==
  /\ console # None /\ ~playing
  /\ console' = None
  /\ UNCHANGED <<orphans, orphanLoading, orphanAdmin, safeMode, storedSafe, progress,
                 playing, players, orphanAt, orphanCalls>>

\* "Close & Refresh", offered at 100% whether or not the timer has ended.
CloseRefresh ==
  /\ console # None /\ progress = 2 /\ Free(orphanCalls) # {}
  /\ console' = None
  /\ orphanLoading' = TRUE
  /\ orphanCalls' = Send(orphanCalls, ListOrphans)
  /\ UNCHANGED <<orphans, orphanAdmin, safeMode, storedSafe, progress, playing, players, orphanAt>>

-----------------------------------------------------------------------------
RemediateServed(s) ==
  /\ orphanCalls[s] # None /\ orphanCalls[s].op = "remediate"
  /\ Free(players) # {}
  /\ orphanCalls' = Answered(orphanCalls, s)
  /\ players' = Send(players, LogLines)
  /\ UNCHANGED <<orphans, orphanLoading, orphanAdmin, safeMode, storedSafe, console,
                 progress, playing, orphanAt>>

\* Refused or lost: the bar jumps to the end like that of a success.
RemediateFails(s) ==
  /\ orphanCalls[s] # None /\ orphanCalls[s].op = "remediate"
  /\ orphanCalls' = Answered(orphanCalls, s)
  /\ progress' = 2
  /\ playing' = FALSE
  /\ UNCHANGED <<orphans, orphanLoading, orphanAdmin, safeMode, storedSafe, console,
                 players, orphanAt>>

\* A tick of a timer writes to the console that is shown by now.
Tick(p) ==
  /\ players[p] # None
  /\ IF players[p] > 0
       THEN /\ players' = [players EXCEPT ![p] = @ - 1]
            /\ progress' = IF players[p] = 1 THEN 2 ELSE 1
            /\ UNCHANGED playing
       ELSE /\ players' = Answered(players, p)
            /\ playing' = FALSE
            /\ UNCHANGED progress
  /\ UNCHANGED <<orphans, orphanLoading, orphanAdmin, safeMode, storedSafe, console,
                 orphanAt, orphanCalls>>

DeleteServed(s) ==
  /\ orphanCalls[s] # None /\ orphanCalls[s].op = "delete"
  /\ \/ orphanCalls' = [orphanCalls EXCEPT ![s] = ListOrphans] /\ orphanLoading' = TRUE
     \/ orphanCalls' = Answered(orphanCalls, s) /\ UNCHANGED orphanLoading  \* an alert
  /\ UNCHANGED <<orphans, orphanAdmin, safeMode, storedSafe, consoleVars, orphanAt>>

OrphansListed(s) ==
  /\ orphanCalls[s] # None /\ orphanCalls[s].op = "list"
  /\ orphanCalls' = Answered(orphanCalls, s)
  /\ orphans' \in SUBSET Orphans  \* whatever the backend says, or what was there
  /\ orphanLoading' = FALSE
  /\ UNCHANGED <<orphanAdmin, safeMode, storedSafe, consoleVars, orphanAt>>

\* The page goes and comes back; what answers meanwhile changes nothing here.
LeaveOrphans ==
  /\ orphanAt = "shown"
  /\ orphanAt' = "left"
  /\ orphans' = {} /\ orphanLoading' = TRUE
  /\ console' = None /\ progress' = 0 /\ playing' = FALSE
  /\ players' = [p \in OrphanSlots |-> None]
  /\ orphanCalls' = [s \in OrphanSlots |-> None]
  /\ UNCHANGED <<orphanAdmin, safeMode, storedSafe>>

EnterOrphans ==
  /\ orphanAt = "left"
  /\ orphanAt' = "shown"
  /\ safeMode' = storedSafe
  /\ orphanCalls' = Send(orphanCalls, ListOrphans)
  /\ UNCHANGED <<orphans, orphanLoading, orphanAdmin, storedSafe, consoleVars>>

OrphanNext ==
  \/ SwitchSafe \/ DeleteOrphan \/ Remediate \/ CloseConsole \/ CloseRefresh
  \/ \E s \in OrphanSlots : \/ RemediateServed(s) \/ RemediateFails(s)
                            \/ DeleteServed(s) \/ OrphansListed(s)
                            \/ Tick(s)
  \/ LeaveOrphans \/ EnterOrphans

OrphanSpec == OrphanInit /\ [][OrphanNext]_orphanVars

-----------------------------------------------------------------------------
\* Types of the page's state.
OrphanTypeOK ==
  /\ orphans \subseteq Orphans
  /\ orphanLoading \in BOOLEAN /\ orphanAdmin \in BOOLEAN /\ playing \in BOOLEAN
  /\ safeMode \in BOOLEAN /\ storedSafe \in BOOLEAN
  /\ console \in Orphans \cup {None}
  /\ progress \in 0..2
  /\ players \in [OrphanSlots -> (0..LogLines) \cup {None}]
  /\ orphanAt \in {"shown", "left"}
  /\ orphanCalls \in [OrphanSlots -> OrphanCall \cup {None}]

\* The console locks the page only while a request or a log player is still to
\* end, and the list is replaced by the spinner only while it is asked for,
\* although players of consoles closed earlier clear the same flag.
OrphanReleases ==
  /\ playing => \/ \E s \in Waiting(orphanCalls) : orphanCalls[s].op = "remediate"
                \/ Waiting(players) # {}
  /\ orphanLoading /\ orphanAt = "shown" =>
       \E s \in Waiting(orphanCalls) : orphanCalls[s].op = "list"
=============================================================================
