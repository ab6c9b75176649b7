---------------------------- MODULE AnomalyWidget ----------------------------
(***************************************************************************)
(* The cost anomalies of the dashboard: spikes listed with their counts,   *)
(* one of which is selected, acknowledged one at a time or several at      *)
(* once, and listed again whenever the dashboard is refreshed or the       *)
(* sensitivity changes.                                                    *)
(***************************************************************************)
EXTENDS Integers, FiniteSets, PageRequests

CONSTANTS
  Spikes,        \* anomalies the billing data may show
  Critical,      \* those of critical severity
  SpikeSlots     \* bound: requests under way at once

SpikeStatus   == {"active", "acknowledged"}
Sensitivities == {"low", "medium", "high"}
SpikeCall     == [op : {"list", "settings", "acknowledge"}, spike : Spikes \cup {None}]

ASSUME AnomalyAssumption ==
  /\ IsFiniteSet(Spikes) /\ Critical \subseteq Spikes
  /\ SpikeSlots # {} /\ None \notin SpikeCall \cup Spikes \cup SpikeStatus

VARIABLES
  spikes,         \* per anomaly, its status in the list, or None
  spikeStats,     \* the counts shown above the list
  selectedSpike,  \* selectedAnomaly
  sensitivity,
  spikesLoading,
  acknowledging,  \* acknowledgingIds
  asked,          \* history: spikes whose acknowledgement the backend may have stored
  spikeCalls

anomalyVars == <<spikes, spikeStats, selectedSpike, sensitivity, spikesLoading,
                 acknowledging, asked, spikeCalls>>

ActiveSpikes == {a \in Spikes : spikes[a] = "active"}
CountsOf(list) ==
  [active   |-> Cardinality({a \in Spikes : list[a] = "active"}),
   critical |-> Cardinality({a \in Critical : list[a] = "active"})]
SpikeRequest(op, a) == [op |-> op, spike |-> a]

-----------------------------------------------------------------------------
AnomalyFresh(calls) ==
  /\ spikes = [a \in Spikes |-> None]
  /\ spikeStats = [active |-> 0, critical |-> 0]
  /\ selectedSpike = None
  /\ sensitivity = "high"
  /\ spikesLoading = TRUE
  /\ acknowledging = {}
  /\ spikeCalls = calls

Mounted == Send([s \in SpikeSlots |-> None], SpikeRequest("list", None))

AnomalyInit == AnomalyFresh(Mounted) /\ asked = {}

\* The cards, which the spinner replaces.
SpikeCards == IF spikesLoading THEN {} ELSE ActiveSpikes

SelectSpike ==
  /\ \E a \in SpikeCards : selectedSpike' = a
  /\ UNCHANGED <<spikes, spikeStats, sensitivity, spikesLoading, acknowledging, asked, spikeCalls>>

\* handleAcknowledge up to its await, from the selected card.
Acknowledge ==
  /\ selectedSpike \in SpikeCards \ acknowledging
  /\ Free(spikeCalls) # {}
  /\ acknowledging' = acknowledging \cup {selectedSpike}
  /\ asked' = asked \cup {selectedSpike}
  /\ spikeCalls' = Send(spikeCalls, SpikeRequest("acknowledge", selectedSpike))
  /\ UNCHANGED <<spikes, spikeStats, selectedSpike, sensitivity, spikesLoading>>

\* handleSensitivityChange up to its await.
ChangeSensitivity ==
  /\ Free(spikeCalls) # {}
  /\ sensitivity' \in Sensitivities
  /\ spikeCalls' = Send(spikeCalls, SpikeRequest("settings", None))
  /\ UNCHANGED <<spikes, spikeStats, selectedSpike, spikesLoading, acknowledging, asked>>

\* The dashboard was refreshed.
SpikesRefreshed ==
  /\ Free(spikeCalls) # {}
  /\ spikesLoading' = TRUE
  /\ spikeCalls' = Send(spikeCalls, SpikeRequest("list", None))
  /\ UNCHANGED <<spikes, spikeStats, selectedSpike, sensitivity, acknowledging, asked>>

-----------------------------------------------------------------------------
SpikePending(s, op) == spikeCalls[s] # None /\ spikeCalls[s].op = op

\* The settings are answered, well or not: the list is fetched again.
SensitivityStored(s) ==
  /\ SpikePending(s, "settings")
  /\ \/ spikesLoading' = TRUE /\ spikeCalls' = [spikeCalls EXCEPT ![s].op = "list"]
     \/ UNCHANGED spikesLoading /\ spikeCalls' = Answered(spikeCalls, s)
  /\ UNCHANGED <<spikes, spikeStats, selectedSpike, sensitivity, acknowledging, asked>>

\* What the backend may list: the acknowledged ones were asked for, and a list
\* it made before it stored that still has them active.
SpikeLists ==
  {list \in [Spikes -> SpikeStatus \cup {None}] :
     \A a \in Spikes : list[a] = "acknowledged" => a \in asked}

\* fetchAnomalies: the list, its counts, and the first active one selected.
SpikesListed(s) ==
  /\ SpikePending(s, "list")
  /\ spikes' \in SpikeLists
  /\ spikeStats' = CountsOf(spikes')
  /\ LET active == {a \in Spikes : spikes'[a] = "active"} IN
       selectedSpike' \in IF active = {} THEN {None} ELSE active
  /\ spikesLoading' = FALSE
  /\ spikeCalls' = Answered(spikeCalls, s)
  /\ UNCHANGED <<sensitivity, acknowledging, asked>>

SpikesLost(s) ==
  /\ SpikePending(s, "list")
  /\ spikesLoading' = FALSE
  /\ spikeCalls' = Answered(spikeCalls, s)
  /\ UNCHANGED <<spikes, spikeStats, selectedSpike, sensitivity, acknowledging, asked>>

\* Slip: one active spike less, whatever the list has become.
CountsAfterLess(list) == [spikeStats EXCEPT !.active = @ - 1]

\* The counts are taken anew from the list as it is by then.
CountsAfter(list) == CountsOf(list)

\* The acknowledgement is stored.  It was asked for from the selected card, so
\* whatever is selected by now is selected no more.
Acknowledged(s) ==
  /\ SpikePending(s, "acknowledge")
  /\ LET id   == spikeCalls[s].spike
         list == [spikes EXCEPT ![id] = IF @ = None THEN None ELSE "acknowledged"]
     IN  /\ spikes' = list
         /\ spikeStats' = CountsAfter(list)
         /\ acknowledging' = acknowledging \ {id}
  /\ selectedSpike' = None
  /\ spikeCalls' = Answered(spikeCalls, s)
  /\ UNCHANGED <<sensitivity, spikesLoading, asked>>

AcknowledgeFails(s) ==
  /\ SpikePending(s, "acknowledge")
  /\ acknowledging' = acknowledging \ {spikeCalls[s].spike}
  /\ spikeCalls' = Answered(spikeCalls, s)
  /\ UNCHANGED <<spikes, spikeStats, selectedSpike, sensitivity, spikesLoading, asked>>

\* The dashboard is left and mounted again, whatever sensitivity is stored.
RemountAnomalies ==
  /\ spikes' = [a \in Spikes |-> None]
  /\ spikeStats' = [active |-> 0, critical |-> 0]
  /\ selectedSpike' = None /\ acknowledging' = {}
  /\ sensitivity' = "high"
  /\ spikesLoading' = TRUE
  /\ spikeCalls' = Mounted
  /\ UNCHANGED asked

AnomalyNext ==
  \/ SelectSpike \/ Acknowledge \/ ChangeSensitivity \/ SpikesRefreshed
  \/ \E s \in SpikeSlots : \/ SensitivityStored(s) \/ SpikesListed(s) \/ SpikesLost(s)
                           \/ Acknowledged(s) \/ AcknowledgeFails(s)
  \/ RemountAnomalies

AnomalySpec == AnomalyInit /\ [][AnomalyNext]_anomalyVars

-----------------------------------------------------------------------------
\* Types of the widget's state.
AnomalyTypeOK ==
  /\ spikes \in [Spikes -> SpikeStatus \cup {None}]
  /\ spikeStats \in [active : 0..Cardinality(Spikes), critical : 0..Cardinality(Critical)]
  /\ selectedSpike \in Spikes \cup {None}
  /\ sensitivity \in Sensitivities /\ spikesLoading \in BOOLEAN
  /\ acknowledging \subseteq Spikes /\ asked \subseteq Spikes
  /\ spikeCalls \in [SpikeSlots -> SpikeCall \cup {None}]

\* The counts above the list are those of the list, and the spike selected is
\* an active one of it, however acknowledgements and newer or older lists come
\* in between: an acknowledgement counts once, or not at all once a list that
\* has it already arrived first.
StatsMatchList ==
  /\ spikeStats = CountsOf(spikes)
  /\ selectedSpike # None => selectedSpike \in ActiveSpikes

\* The buttons disabled are those of the acknowledgements under way, and the
\* cards come back.
AnomalyReleases ==
  /\ acknowledging = {spikeCalls[s].spike : s \in {t \in SpikeSlots : SpikePending(t, "acknowledge")}}
  /\ spikesLoading => \E s \in SpikeSlots : SpikePending(s, "list")
=============================================================================
