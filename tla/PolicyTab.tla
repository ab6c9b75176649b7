------------------------------ MODULE PolicyTab ------------------------------
(***************************************************************************)
(* The policy tab of the settings page.  Every change sends the whole      *)
(* document the page holds, with the change made, and the backend stores   *)
(* the document whole.  A request is served at one moment and answered at  *)
(* a later one.  The lists of e-mail addresses and of tags are changed the *)
(* same way; tags stands for both.                                         *)
(***************************************************************************)
EXTENDS FiniteSets, PageRequests

CONSTANTS
  Tags,        \* tags, or addresses, a user enters
  Levels,      \* sensitivities
  Clouds,      \* identifiers typed for the cloud accounts
  DefaultLevel, NoCloud,  \* of the document before anything is loaded
  PolicySlots  \* bound: requests under way at once

Policy     == [tags : SUBSET Tags, level : Levels, cloud : Clouds]
PolicyCall == [op : {"load", "save"}, stage : {"sent", "served"}, doc : Policy]

ASSUME PolicyAssumption ==
  DefaultLevel \in Levels /\ NoCloud \in Clouds /\ None \notin PolicyCall

VARIABLES
  storedPolicy,    \* the document in the backend
  platformSettings,\* the document the page holds
  onPolicy,        \* the policy tab is shown
  policyAdmin,
  policyHistory,   \* "loading", the document alone; "calm", since then one request
                   \* at a time and each one's outcome known; or "disturbed"
  policyCalls

policyVars == <<storedPolicy, platformSettings, onPolicy, policyAdmin, policyHistory, policyCalls>>

DefaultPolicy == [tags |-> {}, level |-> DefaultLevel, cloud |-> NoCloud]
LoadPolicy    == [op |-> "load", stage |-> "sent", doc |-> DefaultPolicy]
PolicyQuiet   == Waiting(policyCalls) = {}

-----------------------------------------------------------------------------
PolicyInit ==
  /\ storedPolicy \in Policy
  /\ platformSettings = DefaultPolicy
  /\ onPolicy = FALSE
  /\ policyAdmin \in BOOLEAN
  /\ policyHistory = "disturbed"
  /\ policyCalls = [s \in PolicySlots |-> None]

\* The effect of the tab asks for the document each time it is shown.
ShowPolicy ==
  /\ ~onPolicy /\ Free(policyCalls) # {}
  /\ onPolicy' = TRUE
  /\ policyCalls' = Send(policyCalls, LoadPolicy)
  /\ policyHistory' = IF PolicyQuiet THEN "loading" ELSE "disturbed"
  /\ UNCHANGED <<storedPolicy, platformSettings, policyAdmin>>

HidePolicy ==
  /\ onPolicy
  /\ onPolicy' = FALSE
  /\ UNCHANGED <<storedPolicy, platformSettings, policyAdmin, policyHistory, policyCalls>>

\* Slip: the change is shown before it is accepted, and stays when it is not.
SavePolicyAhead(doc) ==
  /\ policyCalls' = Send(policyCalls, [op |-> "save", stage |-> "sent", doc |-> doc])
  /\ platformSettings' = doc

\* savePlatformSettings up to its await: the page keeps what it shows.
SavePolicy(doc) ==
  /\ policyCalls' = Send(policyCalls, [op |-> "save", stage |-> "sent", doc |-> doc])
  /\ UNCHANGED platformSettings

ChangePolicy(doc) ==
  /\ onPolicy /\ policyAdmin /\ Free(policyCalls) # {}
  /\ SavePolicy(doc)
  /\ policyHistory' = IF policyHistory = "calm" /\ PolicyQuiet THEN "calm" ELSE "disturbed"
  /\ UNCHANGED <<storedPolicy, onPolicy, policyAdmin>>

AddTag ==
  \E t \in Tags \ platformSettings.tags :
    ChangePolicy([platformSettings EXCEPT !.tags = @ \cup {t}])

RemoveTag ==
  \E t \in platformSettings.tags : ChangePolicy([platformSettings EXCEPT !.tags = @ \ {t}])

SetLevel == \E l \in Levels : ChangePolicy([platformSettings EXCEPT !.level = l])

SaveClouds == ChangePolicy(platformSettings)

\* handleCloudAccountChange: not saved, unless any other change is.
TypeCloud ==
  /\ onPolicy /\ policyAdmin
  /\ \E c \in Clouds : platformSettings' = [platformSettings EXCEPT !.cloud = c]
  /\ UNCHANGED <<storedPolicy, onPolicy, policyAdmin, policyHistory, policyCalls>>

-----------------------------------------------------------------------------
\* What is read: while no AWS account is typed in, the number of a connected one
\* is filled in, if there is any.
LoadedFrom(doc) ==
  {doc} \cup {[doc EXCEPT !.cloud = c] : c \in IF doc.cloud = NoCloud THEN Clouds ELSE {}}

\* The backend reads or replaces the document.
PolicyServed(s) ==
  LET call == policyCalls[s] IN
  /\ call # None /\ call.stage = "sent"
  /\ IF call.op = "save"
       THEN /\ storedPolicy' = call.doc
            /\ policyCalls' = [policyCalls EXCEPT ![s].stage = "served"]
       ELSE /\ \E doc \in LoadedFrom(storedPolicy) :
                 policyCalls' = [policyCalls EXCEPT ![s].stage = "served", ![s].doc = doc]
            /\ UNCHANGED storedPolicy
  /\ UNCHANGED <<platformSettings, onPolicy, policyAdmin, policyHistory>>

\* An answer, also of a tab that is not shown any more, is what the page holds.
PolicyAnswered(s) ==
  LET call == policyCalls[s] IN
  /\ call # None /\ call.stage = "served"
  /\ policyCalls' = Answered(policyCalls, s)
  /\ platformSettings' = call.doc
  /\ policyHistory' = IF call.op = "load" /\ policyHistory = "loading" THEN "calm" ELSE policyHistory
  /\ UNCHANGED <<storedPolicy, onPolicy, policyAdmin>>

\* The backend refuses, or the answer is lost.
PolicyFails(s) ==
  LET call == policyCalls[s] IN
  /\ call # None
  /\ policyCalls' = Answered(policyCalls, s)
  /\ policyHistory' = IF call.op = "save" /\ call.stage = "sent" THEN policyHistory ELSE "disturbed"
  /\ UNCHANGED <<storedPolicy, platformSettings, onPolicy, policyAdmin>>

\* The settings page is left or reloaded; a save that was sent may still be served.
RemountPolicy ==
  /\ policyCalls' = [s \in PolicySlots |-> None]
  /\ storedPolicy' \in {storedPolicy} \cup
       {policyCalls[s].doc : s \in {x \in Waiting(policyCalls) : policyCalls[x].op = "save"}}
  /\ platformSettings' = DefaultPolicy
  /\ onPolicy' = FALSE
  /\ policyHistory' = "disturbed"
  /\ UNCHANGED policyAdmin

PolicyNext ==
  \/ ShowPolicy \/ HidePolicy
  \/ AddTag \/ RemoveTag \/ SetLevel \/ SaveClouds \/ TypeCloud
  \/ \E s \in PolicySlots : PolicyServed(s) \/ PolicyAnswered(s) \/ PolicyFails(s)
  \/ RemountPolicy

PolicySpec == PolicyInit /\ [][PolicyNext]_policyVars

-----------------------------------------------------------------------------
\* Types of the document, its copy and the requests.
PolicyTypeOK ==
  /\ storedPolicy \in Policy /\ platformSettings \in Policy
  /\ onPolicy \in BOOLEAN /\ policyAdmin \in BOOLEAN /\ policyHistory \in {"loading", "calm", "disturbed"}
  /\ policyCalls \in [PolicySlots -> PolicyCall \cup {None}]

\* With one request at a time, each change made after the document was loaded,
\* and no answer lost, the policies shown are those that are enforced, whatever
\* is refused on the way: so no later change, which sends all that is shown,
\* undoes one that was acknowledged.
PolicyShownIsStored ==
  policyHistory = "calm" /\ PolicyQuiet =>
    /\ platformSettings.tags = storedPolicy.tags
    /\ platformSettings.level = storedPolicy.level
=============================================================================
