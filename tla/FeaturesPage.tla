----------------------------- MODULE FeaturesPage -----------------------------
(***************************************************************************)
(* The feature control page: switches that flip a feature in the backend   *)
(* and a dialog that stores its configuration.  A request is served at one *)
(* moment and answered at a later one, and one whose page was left         *)
(* meanwhile is served still.                                              *)
(***************************************************************************)
EXTENDS FiniteSets, PageRequests

CONSTANTS
  Features,     \* features of the platform
  Configs,      \* configurations
  FeatureSlots  \* bound: requests under way at once

FeatureState == [enabled : BOOLEAN, config : Configs]
Listing      == [Features -> FeatureState]
\* reply is None until the backend has served the request.
FeatureCall  ==
  [op : {"list"}, feature : {None}, config : {None}, live : {TRUE}, reply : Listing \cup {None}]
  \cup [op : {"toggle"}, feature : Features, config : {None}, live : BOOLEAN,
        reply : BOOLEAN \cup {None}]
  \cup [op : {"config"}, feature : Features, config : Configs, live : BOOLEAN,
        reply : Configs \cup {None}]

ASSUME FeaturesAssumption ==
  FeatureSlots # {} /\ None \notin FeatureCall \cup Features \cup Listing \cup Configs \cup BOOLEAN

VARIABLES
  featureFlags,   \* what the backend stores
  features,       \* what the page shows, or None before it is listed
  featureAdmin,
  featuresLoading,
  configuring,    \* selectedFeature, while isConfiguring
  configForm,
  crossed,        \* history: features two requests were under way about at once, or
                  \* whose request was lost, since the page was mounted
  featuresAt,
  featureCalls

featureVars == <<featureFlags, features, featureAdmin, featuresLoading, configuring,
                 configForm, crossed, featuresAt, featureCalls>>

FeatureRequest(op, f, c) ==
  [op |-> op, feature |-> f, config |-> c, live |-> TRUE, reply |-> None]
About(f) == {s \in Waiting(featureCalls) : featureCalls[s].feature = f}

-----------------------------------------------------------------------------
FeaturesInit ==
  /\ featureFlags \in Listing
  /\ features = None
  /\ featureAdmin \in BOOLEAN
  /\ featuresLoading = TRUE
  /\ configuring = None /\ configForm = None
  /\ crossed = {}
  /\ featuresAt = "shown"
  /\ featureCalls = Send([s \in FeatureSlots |-> None], FeatureRequest("list", None, None))

\* The cards, which the spinner replaces and the dialog covers.
FeatureCards ==
  IF featuresLoading \/ features = None \/ configuring # None \/ featuresAt # "shown"
    THEN {} ELSE Features

\* The request leaves the page; nothing is disabled until it is answered.
SendFeature(op, f, c) ==
  /\ featureAdmin /\ Free(featureCalls) # {}
  /\ featureCalls' = Send(featureCalls, FeatureRequest(op, f, c))
  /\ crossed' = crossed \cup IF About(f) # {} THEN {f} ELSE {}
  /\ UNCHANGED <<featureFlags, features, featureAdmin, featuresLoading, configuring,
                 configForm, featuresAt>>

\* handleToggle and handleSaveConfig up to their awaits.
ToggleFeature == \E f \in FeatureCards : SendFeature("toggle", f, None)
SaveConfig    == configuring # None /\ SendFeature("config", configuring, configForm)

OpenConfig ==
  /\ \E f \in FeatureCards :
       features[f].enabled /\ configuring' = f /\ configForm' = features[f].config
  /\ UNCHANGED <<featureFlags, features, featureAdmin, featuresLoading, crossed,
                 featuresAt, featureCalls>>

EnterConfig ==
  /\ configuring # None
  /\ configForm' \in Configs
  /\ UNCHANGED <<featureFlags, features, featureAdmin, featuresLoading, configuring, crossed,
                 featuresAt, featureCalls>>

\* What was entered is forgotten: the dialog opens with what is listed.
CancelConfig ==
  /\ configuring # None
  /\ configuring' = None /\ configForm' = None
  /\ UNCHANGED <<featureFlags, features, featureAdmin, featuresLoading, crossed,
                 featuresAt, featureCalls>>

-----------------------------------------------------------------------------
\* The backend: a toggle flips what is stored, whatever the page showed.
FeatureServed(s) ==
  LET call == featureCalls[s] IN
  /\ call # None /\ call.reply = None
  /\ featureFlags' = CASE
       call.op = "list"   -> featureFlags
    [] call.op = "toggle" -> [featureFlags EXCEPT ![call.feature].enabled = ~@]
    [] call.op = "config" -> [featureFlags EXCEPT ![call.feature].config = call.config]
  /\ featureCalls' = [featureCalls EXCEPT ![s].reply = CASE
       call.op = "list"   -> featureFlags
    [] call.op = "toggle" -> featureFlags'[call.feature].enabled
    [] call.op = "config" -> call.config]
  /\ UNCHANGED <<features, featureAdmin, featuresLoading, configuring, configForm, crossed, featuresAt>>

FeaturesListed(s) ==
  LET call == featureCalls[s] IN
  /\ call # None /\ call.op = "list" /\ call.reply # None
  /\ features' = call.reply
  /\ featuresLoading' = FALSE
  /\ featureCalls' = Answered(featureCalls, s)
  /\ UNCHANGED <<featureFlags, featureAdmin, configuring, configForm, crossed, featuresAt>>

Updated(state, call) ==
  IF call.op = "toggle" THEN [state EXCEPT !.enabled = call.reply]
                        ELSE [state EXCEPT !.config = call.reply]

\* Slip: the answer is written to every card.
MergedEverywhere(call) == [f \in Features |-> Updated(features[f], call)]

\* The answer goes to its own card, in the list as it is by now.
Merged(call) ==
  [f \in Features |-> IF f = call.feature THEN Updated(features[f], call) ELSE features[f]]

\* A save that succeeds closes the dialog that is open by now.
FeatureAnswered(s) ==
  LET call == featureCalls[s] IN
  /\ call # None /\ call.op # "list" /\ call.reply # None
  /\ featureCalls' = Answered(featureCalls, s)
  /\ IF call.live
       THEN /\ features' = Merged(call)
            /\ IF call.op = "config" THEN configuring' = None /\ configForm' = None
                                     ELSE UNCHANGED <<configuring, configForm>>
       ELSE UNCHANGED <<features, configuring, configForm>>
  /\ UNCHANGED <<featureFlags, featureAdmin, featuresLoading, crossed, featuresAt>>

\* The backend refuses, or the request or its answer is lost: a message.
FeatureFails(s) ==
  LET call == featureCalls[s] IN
  /\ call # None
  /\ featureCalls' = Answered(featureCalls, s)
  /\ featuresLoading' = (featuresLoading /\ call.op # "list")
  /\ crossed' = crossed \cup IF call.op # "list" /\ call.reply # None THEN {call.feature} ELSE {}
  /\ UNCHANGED <<featureFlags, features, featureAdmin, configuring, configForm, featuresAt>>

-----------------------------------------------------------------------------
LeaveFeatures ==
  /\ featuresAt = "shown"
  /\ featuresAt' = "left"
  /\ features' = None /\ featuresLoading' = TRUE
  /\ configuring' = None /\ configForm' = None
  /\ featureCalls' = [s \in FeatureSlots |->
       IF featureCalls[s] # None /\ featureCalls[s].op # "list"
         THEN [featureCalls[s] EXCEPT !.live = FALSE] ELSE None]
  /\ crossed' = {}
  /\ UNCHANGED <<featureFlags, featureAdmin>>

EnterFeatures ==
  /\ featuresAt = "left" /\ Free(featureCalls) # {}
  /\ featuresAt' = "shown"
  /\ featureCalls' = Send(featureCalls, FeatureRequest("list", None, None))
  /\ crossed' = {f \in Features : About(f) # {}}
  /\ UNCHANGED <<featureFlags, features, featureAdmin, featuresLoading, configuring, configForm>>

FeaturesNext ==
  \/ ToggleFeature \/ OpenConfig \/ EnterConfig \/ CancelConfig \/ SaveConfig
  \/ \E s \in FeatureSlots : \/ FeatureServed(s) \/ FeaturesListed(s)
                             \/ FeatureAnswered(s) \/ FeatureFails(s)
  \/ LeaveFeatures \/ EnterFeatures

FeaturesSpec == FeaturesInit /\ [][FeaturesNext]_featureVars

-----------------------------------------------------------------------------
\* Types of the page's and the backend's state.
FeaturesTypeOK ==
  /\ featureFlags \in Listing
  /\ features \in Listing \cup {None}
  /\ featureAdmin \in BOOLEAN /\ featuresLoading \in BOOLEAN
  /\ configuring \in Features \cup {None} /\ configForm \in Configs \cup {None}
  /\ crossed \subseteq Features
  /\ featuresAt \in {"shown", "left"}
  /\ featureCalls \in [FeatureSlots -> FeatureCall \cup {None}]

\* A feature is shown as it is stored once its request is answered, however the
\* requests about the other features are served and answered around it: only
\* two requests about one feature, or a lost answer, can tell the page wrong.
FeaturesMatchServer ==
  features # None =>
    \A f \in Features \ crossed : About(f) = {} => features[f] = featureFlags[f]

\* The cards come back once the list is answered or lost.
FeaturesRelease ==
  featuresLoading /\ featuresAt = "shown" =>
    \E s \in Waiting(featureCalls) : featureCalls[s].op = "list"
=============================================================================
