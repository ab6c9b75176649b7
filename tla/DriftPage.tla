------------------------------ MODULE DriftPage ------------------------------
(***************************************************************************)
(* The drift page: a list of drifts, a scan that waits a while and lists   *)
(* them again, and buttons that resolve one.  The address those send their *)
(* request to is broken by a line end and spaces, so that the backend      *)
(* knows no such path and every one of them ends in an alert.              *)
(***************************************************************************)
EXTENDS PageRequests

CONSTANTS
  Drifts,     \* drifts of the customer
  DriftSlots  \* bound: requests and scans under way at once

DriftCall == {"list", "scan", "resolve"}

ASSUME DriftAssumption == DriftSlots # {} /\ None \notin DriftCall

VARIABLES
  openDrifts,   \* the drifts the backend has open
  drifts,       \* those the page lists
  driftLoading,
  scanning,     \* isScanning
  driftAdmin,
  driftCalls    \* what the page waits for

driftVars == <<openDrifts, drifts, driftLoading, scanning, driftAdmin, driftCalls>>

DriftInit ==
  /\ openDrifts \in SUBSET Drifts
  /\ drifts = {}
  /\ driftLoading = TRUE
  /\ scanning = FALSE
  /\ driftAdmin \in BOOLEAN
  /\ driftCalls = Send([s \in DriftSlots |-> None], "list")

\* The agents of the customer report what they find.
DriftsReported ==
  /\ openDrifts' \in SUBSET Drifts
  /\ UNCHANGED <<drifts, driftLoading, scanning, driftAdmin, driftCalls>>

SimulateScan ==
  /\ ~scanning /\ Free(driftCalls) # {}
  /\ scanning' = TRUE
  /\ driftCalls' = Send(driftCalls, "scan")
  /\ UNCHANGED <<openDrifts, drifts, driftLoading, driftAdmin>>

\* Slip: the timer asks for the list and leaves the button as it is.
ScanDoneBusy == driftLoading' = TRUE /\ UNCHANGED scanning

ScanDone == driftLoading' = TRUE /\ scanning' = FALSE

\* The timer of simulateScan, after which the drifts are listed.
ScanEnds(s) ==
  /\ driftCalls[s] = "scan"
  /\ ScanDone
  /\ driftCalls' = [driftCalls EXCEPT ![s] = "list"]
  /\ UNCHANGED <<openDrifts, drifts, driftAdmin>>

\* handleResolve, to import, delete or ignore.
ResolveDrift ==
  /\ driftAdmin /\ ~driftLoading /\ drifts # {} /\ Free(driftCalls) # {}
  /\ driftCalls' = Send(driftCalls, "resolve")
  /\ UNCHANGED <<openDrifts, drifts, driftLoading, scanning, driftAdmin>>

\* Not found: nothing is resolved and nothing is listed again.
ResolveRefused(s) ==
  /\ driftCalls[s] = "resolve"
  /\ driftCalls' = Answered(driftCalls, s)
  /\ UNCHANGED <<openDrifts, drifts, driftLoading, scanning, driftAdmin>>

DriftsListed(s) ==
  /\ driftCalls[s] = "list"
  /\ drifts' = openDrifts
  /\ driftLoading' = FALSE
  /\ driftCalls' = Answered(driftCalls, s)
  /\ UNCHANGED <<openDrifts, scanning, driftAdmin>>

\* The page keeps what it lists, which is nothing at first.
ListingFails(s) ==
  /\ driftCalls[s] = "list"
  /\ driftLoading' = FALSE
  /\ driftCalls' = Answered(driftCalls, s)
  /\ UNCHANGED <<openDrifts, drifts, scanning, driftAdmin>>

\* The page is left and mounted again; a timer or an answer then does nothing.
RemountDrifts ==
  /\ drifts' = {}
  /\ driftLoading' = TRUE
  /\ scanning' = FALSE
  /\ driftCalls' = Send([s \in DriftSlots |-> None], "list")
  /\ UNCHANGED <<openDrifts, driftAdmin>>

DriftNext ==
  \/ DriftsReported \/ SimulateScan \/ ResolveDrift
  \/ \E s \in DriftSlots : \/ ScanEnds(s) \/ ResolveRefused(s)
                           \/ DriftsListed(s) \/ ListingFails(s)
  \/ RemountDrifts

DriftSpec == DriftInit /\ [][DriftNext]_driftVars

-----------------------------------------------------------------------------
\* Types of the page's and the backend's state.
DriftTypeOK ==
  /\ openDrifts \subseteq Drifts /\ drifts \subseteq Drifts
  /\ driftLoading \in BOOLEAN /\ scanning \in BOOLEAN /\ driftAdmin \in BOOLEAN
  /\ driftCalls \in [DriftSlots -> DriftCall \cup {None}]

\* The scan button and the list come back: each is held only while its timer or
\* its request is still to end, also when several overlap.
DriftReleases ==
  /\ scanning => \E s \in DriftSlots : driftCalls[s] = "scan"
  /\ driftLoading => \E s \in DriftSlots : driftCalls[s] = "list"
=============================================================================
