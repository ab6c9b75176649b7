-------------------------- MODULE FormPagesProofs ---------------------------
(***************************************************************************)
(* The pages that list, edit and ask: the feature control page, the resource *)
(* explorer, the tagging policy, the settings, the query studio and the    *)
(* copilot.  What late and crossing answers may not do to them, for every  *)
(* number of things listed and of requests under way.                      *)
(***************************************************************************)
EXTENDS FeaturesPage, ExplorerPage, PolicyTab, SettingsPage, QueryStudio, CopilotPage,
        PageRequestsProofs, FiniteSetTheorems

-----------------------------------------------------------------------------
(* Calls of the feature control page                                       *)

\* A request under way: of one of three kinds, each with its own answer.
LEMMA FeatureCallFields ==
  ASSUME NEW c \in FeatureCall
  PROVE  /\ c.op \in {"list", "toggle", "config"} /\ c.live \in BOOLEAN
         /\ c.op = "list" => c.feature = None /\ c.reply \in Listing \cup {None}
         /\ c.op # "list" => c.feature \in Features
         /\ c.op = "toggle" => c.reply \in BOOLEAN \cup {None}
         /\ c.op = "config" => c.config \in Configs /\ c.reply \in Configs \cup {None}
BY DEF FeatureCall

LEMMA FeatureCallReplied ==
  ASSUME NEW c \in FeatureCall, NEW v,
         \/ c.op = "list" /\ v \in Listing
         \/ c.op = "toggle" /\ v \in BOOLEAN
         \/ c.op = "config" /\ v \in Configs
  PROVE  /\ [c EXCEPT !.reply = v] \in FeatureCall
         /\ [c EXCEPT !.reply = v].reply = v
         /\ [c EXCEPT !.reply = v].op = c.op
         /\ [c EXCEPT !.reply = v].feature = c.feature
         /\ [c EXCEPT !.reply = v].live = c.live
BY DEF FeatureCall

LEMMA FeatureCallAbandoned ==
  ASSUME NEW c \in FeatureCall, c.op # "list"
  PROVE  /\ [c EXCEPT !.live = FALSE] \in FeatureCall
         /\ [c EXCEPT !.live = FALSE].op = c.op
         /\ [c EXCEPT !.live = FALSE].live = FALSE
BY DEF FeatureCall

LEMMA UpdatedType ==
  ASSUME NEW state \in FeatureState, NEW c \in FeatureCall, c.op # "list", c.reply # None
  PROVE  Updated(state, c) \in FeatureState
<1>1. CASE c.op = "toggle"
  <2>1. c.reply \in BOOLEAN
    BY <1>1, FeatureCallFields
  <2> QED BY <1>1, <2>1 DEF Updated, FeatureState
<1>2. CASE c.op = "config"
  <2>1. c.reply \in Configs
    BY <1>2, FeatureCallFields
  <2> QED BY <1>2, <2>1 DEF Updated, FeatureState
<1> QED BY <1>1, <1>2, FeatureCallFields

\* What the backend stores when it serves a toggle or a configuration.
LEMMA ToggledListing ==
  ASSUME NEW l \in Listing, NEW f \in Features
  PROVE  LET m == [l EXCEPT ![f].enabled = ~@]
         IN  /\ m \in Listing /\ m[f] = [l[f] EXCEPT !.enabled = m[f].enabled]
             /\ m[f].enabled \in BOOLEAN
             /\ \A g \in Features \ {f} : m[g] = l[g]
<1>1. l[f] \in FeatureState
  BY DEF Listing
<1> DEFINE x == [l[f] EXCEPT !.enabled = ~l[f].enabled]
<1>2. x \in FeatureState /\ x = [l[f] EXCEPT !.enabled = x.enabled] /\ x.enabled \in BOOLEAN
  BY <1>1 DEF FeatureState
<1> HIDE DEF x
<1>3. /\ [l EXCEPT ![f] = x] \in Listing /\ [l EXCEPT ![f] = x][f] = x
      /\ \A g \in Features \ {f} : [l EXCEPT ![f] = x][g] = l[g]
  BY <1>2 DEF Listing
<1> QED BY <1>2, <1>3 DEF x

LEMMA ConfiguredListing ==
  ASSUME NEW l \in Listing, NEW f \in Features, NEW g \in Configs
  PROVE  LET m == [l EXCEPT ![f].config = g]
         IN  /\ m \in Listing /\ m[f] = [l[f] EXCEPT !.config = g]
             /\ \A h \in Features \ {f} : m[h] = l[h]
<1>1. l[f] \in FeatureState
  BY DEF Listing
<1> DEFINE x == [l[f] EXCEPT !.config = g]
<1>2. x \in FeatureState
  BY <1>1 DEF FeatureState
<1> HIDE DEF x
<1>3. /\ [l EXCEPT ![f] = x] \in Listing /\ [l EXCEPT ![f] = x][f] = x
      /\ \A h \in Features \ {f} : [l EXCEPT ![f] = x][h] = l[h]
  BY <1>2 DEF Listing
<1> QED BY <1>3 DEF x

-----------------------------------------------------------------------------
(* The feature control page                                                *)

Listed(s)   == featureCalls[s] # None /\ featureCalls[s].op = "list"
Asks(s, f)  == featureCalls[s] # None /\ featureCalls[s].feature = f
Replied(s)  == featureCalls[s].reply # None

\* What the page holds while it is shown, and what is open over it.
CardsHeld ==
  /\ features # None => featuresAt = "shown"
  /\ configuring # None => features # None /\ configForm \in Configs
  /\ \A s \in FeatureSlots :
       featureCalls[s] # None /\ ~Listed(s) /\ featureCalls[s].live => features # None

\* The list is asked for before anything else, and nothing the page has not
\* noted as crossed is asked for around it.
ListAlone ==
  \A s \in FeatureSlots : Listed(s) =>
    /\ features = None /\ featuresAt = "shown"
    /\ \A t \in FeatureSlots : Listed(t) => t = s
    /\ \A f \in Features \ crossed :
         /\ \A t \in FeatureSlots : ~Asks(t, f)
         /\ Replied(s) => featureCalls[s].reply[f] = featureFlags[f]

\* A feature that is not noted has one request at most. It is shown as it is
\* stored until the request is served, and as it will be after its answer from
\* then on.
Agrees ==
  features # None => \A f \in Features \ crossed :
    /\ \A s, t \in FeatureSlots : Asks(s, f) /\ Asks(t, f) => s = t
    /\ \A s \in FeatureSlots : Asks(s, f) => featureCalls[s].live
    /\ (\A s \in FeatureSlots : Asks(s, f) => ~Replied(s)) => features[f] = featureFlags[f]
    /\ \A s \in FeatureSlots :
         Asks(s, f) /\ Replied(s) => featureFlags[f] = Updated(features[f], featureCalls[s])

FeaturesIInv == FeaturesTypeOK /\ CardsHeld /\ ListAlone /\ Agrees

LEMMA AboutAsks ==
  ASSUME FeaturesTypeOK, NEW f
  PROVE  About(f) = {s \in FeatureSlots : Asks(s, f)}
BY DEF FeaturesTypeOK, About, Waiting, Asks

LEMMA FeaturesInitIInv == FeaturesInit => FeaturesIInv
<1> SUFFICES ASSUME FeaturesInit PROVE FeaturesIInv
  OBVIOUS
<1> DEFINE empty == [s \in FeatureSlots |-> None]
           c == FeatureRequest("list", None, None)
<1>1. c \in FeatureCall /\ c.op = "list" /\ c.feature = None /\ c.live = TRUE /\ c.reply = None
  BY DEF FeatureRequest, FeatureCall
<1>2. Free(empty) # {} /\ DOMAIN empty = FeatureSlots
  BY FeaturesAssumption DEF Free
<1>3. PICK s \in FeatureSlots : Send(empty, c) = [empty EXCEPT ![s] = c]
  BY <1>2, SendFree
<1>4. featureCalls = [empty EXCEPT ![s] = c]
  BY <1>3 DEF FeaturesInit
<1> HIDE DEF c
<1>5. /\ featureCalls \in [FeatureSlots -> FeatureCall \cup {None}] /\ featureCalls[s] = c
      /\ \A t \in FeatureSlots \ {s} : featureCalls[t] = None
  BY <1>1, <1>4
<1>6. /\ features = None /\ featuresAt = "shown" /\ configuring = None /\ configForm = None
      /\ crossed = {} /\ featureFlags \in Listing /\ featureAdmin \in BOOLEAN /\ featuresLoading = TRUE
  BY DEF FeaturesInit
<1>7. FeaturesTypeOK
  BY <1>5, <1>6 DEF FeaturesTypeOK
<1>8. CardsHeld
  BY <1>1, <1>5, <1>6 DEF CardsHeld, Listed
<1>9. ListAlone
  BY <1>1, <1>5, <1>6, FeaturesAssumption DEF ListAlone, Listed, Asks, Replied
<1>10. Agrees
  BY <1>6 DEF Agrees
<1> QED BY <1>7, <1>8, <1>9, <1>10 DEF FeaturesIInv

\* While cards are shown the list has been answered.
LEMMA NoListUnderCards ==
  ASSUME FeaturesIInv, features # None, NEW s \in FeatureSlots
  PROVE  ~Listed(s)
BY DEF FeaturesIInv, ListAlone

LEMMA SendFeatureStep ==
  ASSUME FeaturesIInv, features # None, NEW op, NEW f \in Features, NEW g,
         (op = "toggle" /\ g = None) \/ (op = "config" /\ g \in Configs),
         SendFeature(op, f, g)
  PROVE  FeaturesIInv'
<1> DEFINE c == FeatureRequest(op, f, g)
<1>0. FeaturesTypeOK /\ CardsHeld /\ ListAlone /\ Agrees
  BY DEF FeaturesIInv
<1>1. c \in FeatureCall /\ c.op = op /\ c.feature = f /\ c.live = TRUE /\ c.reply = None
  BY DEF FeatureRequest, FeatureCall
<1>2. PICK s \in DOMAIN featureCalls :
        featureCalls[s] = None /\ featureCalls' = [featureCalls EXCEPT ![s] = c]
  BY SendFree DEF SendFeature
<1> HIDE DEF c
<1>3. s \in FeatureSlots /\ featureCalls \in [FeatureSlots -> FeatureCall \cup {None}]
  BY <1>0, <1>2 DEF FeaturesTypeOK
<1>4. /\ featureCalls' \in [FeatureSlots -> FeatureCall \cup {None}] /\ featureCalls'[s] = c
      /\ \A t \in FeatureSlots \ {s} : featureCalls'[t] = featureCalls[t]
  BY <1>1, <1>2, <1>3
<1>5. /\ UNCHANGED <<featureFlags, features, featureAdmin, featuresLoading, configuring,
                     configForm, featuresAt>>
      /\ crossed \subseteq crossed' /\ crossed' \subseteq crossed \cup {f}
      /\ (\E t \in FeatureSlots : Asks(t, f)) => f \in crossed'
  BY <1>0, AboutAsks DEF SendFeature
<1>6. c # None
  BY <1>1, FeaturesAssumption
<1>7. FeaturesTypeOK'
  BY <1>0, <1>4, <1>5 DEF FeaturesTypeOK
<1>8. CardsHeld'
  BY <1>0, <1>4, <1>5 DEF CardsHeld, Listed
<1>9. \A t \in FeatureSlots : ~Listed(t)'
  BY <1>1, <1>4, NoListUnderCards DEF Listed
<1>10. ListAlone'
  BY <1>9 DEF ListAlone
<1>11. ASSUME NEW h \in Features \ crossed', NEW t \in FeatureSlots
       PROVE  /\ Asks(t, h)' <=> Asks(t, h) \/ (t = s /\ h = f)
              /\ Asks(t, h) => t # s /\ featureCalls'[t] = featureCalls[t]
              /\ h = f => ~Asks(t, f)
  BY <1>1, <1>2, <1>4, <1>5, <1>6 DEF Asks
<1>12. Agrees'
  <2> SUFFICES ASSUME NEW h \in Features \ crossed'
               PROVE
    /\ \A t, u \in FeatureSlots : Asks(t, h)' /\ Asks(u, h)' => t = u
    /\ \A t \in FeatureSlots : Asks(t, h)' => featureCalls'[t].live
    /\ (\A t \in FeatureSlots : Asks(t, h)' => ~Replied(t)') => features[h] = featureFlags[h]
    /\ \A t \in FeatureSlots :
         Asks(t, h)' /\ Replied(t)' => featureFlags[h] = Updated(features[h], featureCalls'[t])
    BY <1>5 DEF Agrees
  <2>1. h \notin crossed
    BY <1>5
  <2>2. /\ \A t, u \in FeatureSlots : Asks(t, h) /\ Asks(u, h) => t = u
        /\ \A t \in FeatureSlots : Asks(t, h) => featureCalls[t].live
        /\ (\A t \in FeatureSlots : Asks(t, h) => ~Replied(t)) => features[h] = featureFlags[h]
        /\ \A t \in FeatureSlots :
             Asks(t, h) /\ Replied(t) => featureFlags[h] = Updated(features[h], featureCalls[t])
    BY <1>0, <2>1 DEF Agrees
  <2>3. CASE h = f
    <3>1. \A t \in FeatureSlots : Asks(t, h)' <=> t = s
      BY <1>11, <2>3
    <3>2. features[h] = featureFlags[h] /\ ~Replied(s)' /\ featureCalls'[s].live
      BY <1>1, <1>4, <1>11, <2>2, <2>3 DEF Replied
    <3> QED BY <3>1, <3>2
  <2>4. CASE h # f
    <3>1. \A t \in FeatureSlots : Asks(t, h)' <=> Asks(t, h)
      BY <1>11, <2>4
    <3>2. \A t \in FeatureSlots : Asks(t, h) => featureCalls'[t] = featureCalls[t]
      BY <1>11
    <3> QED BY <2>2, <3>1, <3>2 DEF Replied
  <2> QED BY <2>3, <2>4
<1> QED BY <1>7, <1>8, <1>10, <1>12 DEF FeaturesIInv

\* An answer frees its slot and no other.
LEMMA FeatureSlotFreed ==
  ASSUME FeaturesTypeOK, NEW s \in FeatureSlots, featureCalls' = Answered(featureCalls, s)
  PROVE  /\ featureCalls' \in [FeatureSlots -> FeatureCall \cup {None}]
         /\ featureCalls'[s] = None
         /\ \A t \in FeatureSlots \ {s} : featureCalls'[t] = featureCalls[t]
         /\ \A t \in FeatureSlots : Listed(t)' <=> (Listed(t) /\ t # s)
         /\ \A t \in FeatureSlots, h \in Features : Asks(t, h)' <=> (Asks(t, h) /\ t # s)
<1>1. /\ featureCalls \in [FeatureSlots -> FeatureCall \cup {None}]
      /\ featureCalls' = [featureCalls EXCEPT ![s] = None]
  BY DEF FeaturesTypeOK, Answered
<1>2. /\ featureCalls' \in [FeatureSlots -> FeatureCall \cup {None}]
      /\ featureCalls'[s] = None
      /\ \A t \in FeatureSlots \ {s} : featureCalls'[t] = featureCalls[t]
  BY <1>1
<1> QED BY <1>2 DEF Listed, Asks

\* The backend serves a call: only the feature it is about changes, and the
\* reply says how.
LEMMA ServedEffect ==
  ASSUME FeaturesTypeOK, NEW s \in FeatureSlots, FeatureServed(s)
  PROVE  LET c == featureCalls[s] IN
         /\ c \in FeatureCall /\ c.reply = None
         /\ featureFlags' \in Listing
         /\ featureCalls' \in [FeatureSlots -> FeatureCall \cup {None}]
         /\ \A t \in FeatureSlots \ {s} : featureCalls'[t] = featureCalls[t]
         /\ featureCalls'[s] # None
         /\ featureCalls'[s].op = c.op /\ featureCalls'[s].feature = c.feature
         /\ featureCalls'[s].live = c.live /\ featureCalls'[s].reply # None
         /\ \A h \in Features : h # c.feature => featureFlags'[h] = featureFlags[h]
         /\ c.op # "list" => featureFlags'[c.feature] = Updated(featureFlags[c.feature], featureCalls'[s])
         /\ c.op = "list" => featureFlags' = featureFlags /\ featureCalls'[s].reply = featureFlags
<1> DEFINE c == featureCalls[s]
<1>1. /\ c \in FeatureCall /\ c.reply = None /\ featureFlags \in Listing
      /\ featureCalls \in [FeatureSlots -> FeatureCall \cup {None}]
  BY DEF FeaturesTypeOK, FeatureServed
<1>2. ASSUME NEW v, featureCalls' = [featureCalls EXCEPT ![s].reply = v],
             \/ c.op = "list" /\ v \in Listing
             \/ c.op = "toggle" /\ v \in BOOLEAN
             \/ c.op = "config" /\ v \in Configs
      PROVE  /\ featureCalls' \in [FeatureSlots -> FeatureCall \cup {None}]
             /\ \A t \in FeatureSlots \ {s} : featureCalls'[t] = featureCalls[t]
             /\ featureCalls'[s].op = c.op /\ featureCalls'[s].feature = c.feature
             /\ featureCalls'[s].live = c.live /\ featureCalls'[s].reply = v /\ v # None
             /\ featureCalls'[s] # None
  <2> DEFINE d == [c EXCEPT !.reply = v]
  <2>1. d \in FeatureCall /\ d.op = c.op /\ d.feature = c.feature /\ d.live = c.live /\ d.reply = v
    BY <1>1, <1>2, FeatureCallReplied
  <2>2. featureCalls' = [featureCalls EXCEPT ![s] = d]
    BY <1>2
  <2> HIDE DEF c, d
  <2>3. v # None /\ d # None
    BY <1>2, <2>1, FeaturesAssumption
  <2> QED BY <1>1, <2>1, <2>2, <2>3
<1>3. CASE c.op = "list"
  <2>1. featureFlags' = featureFlags
    BY <1>3 DEF FeatureServed
  <2>2. featureCalls' = [featureCalls EXCEPT ![s].reply = featureFlags]
    BY <1>3 DEF FeatureServed
  <2> QED BY <1>1, <1>2, <1>3, <2>1, <2>2
<1>4. CASE c.op = "toggle"
  <2> DEFINE f == c.feature
             m == [featureFlags EXCEPT ![f].enabled = ~@]
  <2>1. f \in Features
    BY <1>1, <1>4, FeatureCallFields
  <2>2. featureFlags' = m
    BY <1>4 DEF FeatureServed
  <2>3. featureCalls' = [featureCalls EXCEPT ![s].reply = featureFlags'[f].enabled]
    BY <1>4 DEF FeatureServed
  <2>4. /\ m \in Listing /\ m[f] = [featureFlags[f] EXCEPT !.enabled = m[f].enabled]
        /\ m[f].enabled \in BOOLEAN /\ \A g \in Features \ {f} : m[g] = featureFlags[g]
    BY <1>1, <2>1, ToggledListing
  <2> HIDE DEF m
  <2>5. /\ featureCalls' \in [FeatureSlots -> FeatureCall \cup {None}]
        /\ \A t \in FeatureSlots \ {s} : featureCalls'[t] = featureCalls[t]
        /\ featureCalls'[s].op = c.op /\ featureCalls'[s].feature = f
        /\ featureCalls'[s].live = c.live /\ featureCalls'[s].reply = m[f].enabled
        /\ m[f].enabled # None
        /\ featureCalls'[s] # None
    BY <1>2, <1>4, <2>2, <2>3, <2>4
  <2>6. featureFlags'[f] = Updated(featureFlags[f], featureCalls'[s])
    BY <1>4, <2>2, <2>4, <2>5 DEF Updated
  <2> QED BY <1>1, <1>4, <2>2, <2>4, <2>5, <2>6
<1>5. CASE c.op = "config"
  <2> DEFINE f == c.feature
             g == c.config
             m == [featureFlags EXCEPT ![f].config = g]
  <2>1. f \in Features /\ g \in Configs
    BY <1>1, <1>5, FeatureCallFields
  <2>2. featureFlags' = m
    BY <1>5 DEF FeatureServed
  <2>3. featureCalls' = [featureCalls EXCEPT ![s].reply = g]
    BY <1>5 DEF FeatureServed
  <2>4. /\ m \in Listing /\ m[f] = [featureFlags[f] EXCEPT !.config = g]
        /\ \A h \in Features \ {f} : m[h] = featureFlags[h]
    BY <1>1, <2>1, ConfiguredListing
  <2> HIDE DEF m
  <2>5. /\ featureCalls' \in [FeatureSlots -> FeatureCall \cup {None}]
        /\ \A t \in FeatureSlots \ {s} : featureCalls'[t] = featureCalls[t]
        /\ featureCalls'[s].op = c.op /\ featureCalls'[s].feature = f
        /\ featureCalls'[s].live = c.live /\ featureCalls'[s].reply = g /\ g # None
        /\ featureCalls'[s] # None
    BY <1>2, <1>5, <2>1, <2>3
  <2>6. featureFlags'[f] = Updated(featureFlags[f], featureCalls'[s])
    BY <1>5, <2>2, <2>4, <2>5 DEF Updated
  <2> QED BY <1>1, <1>5, <2>2, <2>4, <2>5, <2>6
<1> QED BY <1>1, <1>3, <1>4, <1>5, FeatureCallFields

LEMMA FeatureServedStep ==
  ASSUME FeaturesIInv, NEW s \in FeatureSlots, FeatureServed(s)
  PROVE  FeaturesIInv'
<1> DEFINE c == featureCalls[s]
           e == featureCalls'[s]
<1>0. FeaturesTypeOK /\ CardsHeld /\ ListAlone /\ Agrees
  BY DEF FeaturesIInv
<1>1. UNCHANGED <<features, featureAdmin, featuresLoading, configuring, configForm, crossed, featuresAt>>
  BY DEF FeatureServed
<1>2. /\ c \in FeatureCall /\ c.reply = None /\ c # None
      /\ featureFlags' \in Listing
      /\ featureCalls' \in [FeatureSlots -> FeatureCall \cup {None}]
      /\ \A t \in FeatureSlots \ {s} : featureCalls'[t] = featureCalls[t]
      /\ e # None /\ e.op = c.op /\ e.feature = c.feature /\ e.live = c.live /\ e.reply # None
      /\ \A h \in Features : h # c.feature => featureFlags'[h] = featureFlags[h]
      /\ c.op # "list" => featureFlags'[c.feature] = Updated(featureFlags[c.feature], e)
      /\ c.op = "list" => featureFlags' = featureFlags /\ e.reply = featureFlags
  BY <1>0, ServedEffect DEF FeatureServed
<1> HIDE DEF c, e
<1>4. \A t \in FeatureSlots : /\ Listed(t)' <=> Listed(t)
                              /\ \A h \in Features : Asks(t, h)' <=> Asks(t, h)
  BY <1>2 DEF Listed, Asks, c, e
<1>5. FeaturesTypeOK'
  BY <1>0, <1>1, <1>2 DEF FeaturesTypeOK
<1>6. CardsHeld'
  <2>1. \A t \in FeatureSlots : featureCalls'[t] # None => featureCalls'[t].live = featureCalls[t].live
    BY <1>2, <1>4 DEF c, e
  <2>2. \A t \in FeatureSlots : featureCalls'[t] # None => featureCalls[t] # None
    BY <1>2 DEF c, e
  <2> QED BY <1>0, <1>1, <1>4, <2>1, <2>2 DEF CardsHeld
<1>7. ListAlone'
  <2> SUFFICES ASSUME NEW t \in FeatureSlots, Listed(t)'
               PROVE  /\ features' = None /\ featuresAt' = "shown"
                      /\ \A u \in FeatureSlots : Listed(u)' => u = t
                      /\ \A f \in Features \ crossed' :
                           /\ \A u \in FeatureSlots : ~Asks(u, f)'
                           /\ Replied(t)' => featureCalls'[t].reply[f] = featureFlags'[f]
    BY DEF ListAlone
  <2>1. /\ features = None /\ featuresAt = "shown"
        /\ \A u \in FeatureSlots : Listed(u) => u = t
        /\ \A f \in Features \ crossed :
             /\ \A u \in FeatureSlots : ~Asks(u, f)
             /\ Replied(t) => featureCalls[t].reply[f] = featureFlags[f]
    BY <1>0, <1>4 DEF ListAlone
  <2>2. ASSUME NEW f \in Features \ crossed, Replied(t)'
        PROVE  featureCalls'[t].reply[f] = featureFlags'[f]
    <3>1. CASE t = s
      BY <1>2, <1>4, <3>1 DEF Listed, c, e
    <3>2. CASE t # s
      <4>1. f # c.feature
        BY <1>2, <2>1 DEF Asks, c
      <4> QED BY <1>2, <2>1, <2>2, <3>2, <4>1 DEF Replied
    <3> QED BY <3>1, <3>2
  <2> QED BY <1>1, <1>4, <2>1, <2>2
<1>8. Agrees'
  <2> SUFFICES ASSUME features # None, NEW h \in Features \ crossed
               PROVE
    /\ \A t, u \in FeatureSlots : Asks(t, h)' /\ Asks(u, h)' => t = u
    /\ \A t \in FeatureSlots : Asks(t, h)' => featureCalls'[t].live
    /\ (\A t \in FeatureSlots : Asks(t, h)' => ~Replied(t)') => features[h] = featureFlags'[h]
    /\ \A t \in FeatureSlots :
         Asks(t, h)' /\ Replied(t)' => featureFlags'[h] = Updated(features[h], featureCalls'[t])
    BY <1>1 DEF Agrees
  <2>1. /\ \A t, u \in FeatureSlots : Asks(t, h) /\ Asks(u, h) => t = u
        /\ \A t \in FeatureSlots : Asks(t, h) => featureCalls[t].live
        /\ (\A t \in FeatureSlots : Asks(t, h) => ~Replied(t)) => features[h] = featureFlags[h]
        /\ \A t \in FeatureSlots :
             Asks(t, h) /\ Replied(t) => featureFlags[h] = Updated(features[h], featureCalls[t])
    BY <1>0 DEF Agrees
  <2>2. CASE h = c.feature
    <3>1. \A t \in FeatureSlots : Asks(t, h) <=> t = s
      BY <1>2, <2>1, <2>2 DEF Asks, c
    <3>2. c.op # "list"
      BY <1>2, <2>2, FeatureCallFields, FeaturesAssumption
    <3>3. features[h] = featureFlags[h]
      BY <1>2, <2>1, <3>1 DEF Replied, c
    <3>4. featureFlags'[h] = Updated(features[h], featureCalls'[s]) /\ Replied(s)'
      BY <1>2, <2>2, <3>2, <3>3 DEF Replied, e
    <3>5. featureCalls'[s].live
      BY <1>2, <2>1, <3>1 DEF c, e
    <3> QED BY <1>4, <3>1, <3>4, <3>5
  <2>3. CASE h # c.feature
    <3>1. featureFlags'[h] = featureFlags[h]
      BY <1>2, <2>3
    <3>2. \A t \in FeatureSlots : Asks(t, h) => featureCalls'[t] = featureCalls[t]
      BY <1>2, <2>3 DEF Asks, c
    <3> QED BY <1>4, <2>1, <3>1, <3>2 DEF Replied
  <2> QED BY <2>2, <2>3
<1> QED BY <1>5, <1>6, <1>7, <1>8 DEF FeaturesIInv

\* The list: nothing was asked for before it but what the page has noted.
LEMMA FeaturesListedStep ==
  ASSUME FeaturesIInv, NEW s \in FeatureSlots, FeaturesListed(s)
  PROVE  FeaturesIInv'
<1> DEFINE c == featureCalls[s]
<1>0. FeaturesTypeOK /\ CardsHeld /\ ListAlone /\ Agrees
  BY DEF FeaturesIInv
<1>1. /\ c # None /\ c.op = "list" /\ c.reply # None /\ features' = c.reply
      /\ featuresLoading' = FALSE /\ featureCalls' = Answered(featureCalls, s)
      /\ UNCHANGED <<featureFlags, featureAdmin, configuring, configForm, crossed, featuresAt>>
  BY DEF FeaturesListed
<1>2. c \in FeatureCall /\ c.reply \in Listing
  BY <1>0, <1>1, FeatureCallFields DEF FeaturesTypeOK
<1>3. /\ featureCalls' \in [FeatureSlots -> FeatureCall \cup {None}]
      /\ \A t \in FeatureSlots \ {s} : featureCalls'[t] = featureCalls[t]
      /\ \A t \in FeatureSlots : Listed(t)' <=> (Listed(t) /\ t # s)
      /\ \A t \in FeatureSlots, h \in Features : Asks(t, h)' <=> (Asks(t, h) /\ t # s)
  BY <1>0, <1>1, FeatureSlotFreed
<1>4. Listed(s) /\ Replied(s)
  BY <1>1 DEF Listed, Replied
<1>5. /\ featuresAt = "shown" /\ features = None
      /\ \A t \in FeatureSlots : ~Listed(t)'
      /\ \A f \in Features \ crossed : /\ \A t \in FeatureSlots : ~Asks(t, f)
                                       /\ c.reply[f] = featureFlags[f]
  BY <1>0, <1>3, <1>4 DEF ListAlone
<1>6. features' # None /\ features' \in Listing
  BY <1>1, <1>2, FeaturesAssumption
<1>7. FeaturesTypeOK'
  BY <1>0, <1>1, <1>3, <1>6 DEF FeaturesTypeOK
<1>8. CardsHeld'
  BY <1>0, <1>1, <1>5, <1>6 DEF CardsHeld
<1>9. ListAlone'
  BY <1>5 DEF ListAlone
<1>10. Agrees'
  <2>1. \A f \in Features \ crossed : /\ \A t \in FeatureSlots : ~Asks(t, f)'
                                      /\ features'[f] = featureFlags'[f]
    BY <1>1, <1>3, <1>5
  <2> QED BY <1>1, <2>1 DEF Agrees
<1> QED BY <1>7, <1>8, <1>9, <1>10 DEF FeaturesIInv

LEMMA MergedListing ==
  ASSUME NEW c \in FeatureCall, c.op # "list", c.reply # None, features \in Listing
  PROVE  /\ Merged(c) \in Listing
         /\ Merged(c)[c.feature] = Updated(features[c.feature], c)
         /\ \A h \in Features : h # c.feature => Merged(c)[h] = features[h]
<1>1. c.feature \in Features
  BY FeatureCallFields
<1>2. \A h \in Features : features[h] \in FeatureState /\ Updated(features[h], c) \in FeatureState
  BY UpdatedType DEF Listing
<1> QED BY <1>1, <1>2 DEF Merged, Listing

\* An answer to the page that asked shows its feature as it is stored; one to
\* a page that was left is about a feature that page has noted.
LEMMA FeatureAnsweredStep ==
  ASSUME FeaturesIInv, NEW s \in FeatureSlots, FeatureAnswered(s)
  PROVE  FeaturesIInv'
<1> DEFINE c == featureCalls[s]
<1>0. FeaturesTypeOK /\ CardsHeld /\ ListAlone /\ Agrees
  BY DEF FeaturesIInv
<1>1. /\ c # None /\ c.op # "list" /\ c.reply # None
      /\ featureCalls' = Answered(featureCalls, s)
      /\ c.live => features' = Merged(c)
      /\ c.live /\ c.op = "config" => configuring' = None /\ configForm' = None
      /\ c.live /\ c.op # "config" => UNCHANGED <<configuring, configForm>>
      /\ ~c.live => UNCHANGED <<features, configuring, configForm>>
      /\ UNCHANGED <<featureFlags, featureAdmin, featuresLoading, crossed, featuresAt>>
  BY DEF FeatureAnswered
<1>2. c \in FeatureCall /\ c.feature \in Features /\ c.live \in BOOLEAN
  BY <1>0, <1>1, FeatureCallFields DEF FeaturesTypeOK
<1>3. /\ featureCalls' \in [FeatureSlots -> FeatureCall \cup {None}]
      /\ \A t \in FeatureSlots \ {s} : featureCalls'[t] = featureCalls[t]
      /\ featureCalls'[s] = None
      /\ \A t \in FeatureSlots : Listed(t)' <=> (Listed(t) /\ t # s)
      /\ \A t \in FeatureSlots, h \in Features : Asks(t, h)' <=> (Asks(t, h) /\ t # s)
  BY <1>0, <1>1, FeatureSlotFreed
<1>4. Asks(s, c.feature) /\ Replied(s)
  BY <1>1 DEF Asks, Replied
<1>5. c.live => features # None /\ features \in Listing
  BY <1>0, <1>1 DEF CardsHeld, Listed, FeaturesTypeOK
<1>6. c.live => /\ features' \in Listing /\ features' # None
                /\ features'[c.feature] = Updated(features[c.feature], c)
                /\ \A h \in Features : h # c.feature => features'[h] = features[h]
  <2> HAVE c.live
  <2>1. /\ Merged(c) \in Listing
        /\ Merged(c)[c.feature] = Updated(features[c.feature], c)
        /\ \A h \in Features : h # c.feature => Merged(c)[h] = features[h]
    BY <1>1, <1>2, <1>5, MergedListing
  <2>2. Merged(c) # None
    BY <2>1, FeaturesAssumption
  <2> QED BY <1>1, <2>1, <2>2
<1> HIDE DEF c
<1>7. features' = None <=> features = None
  BY <1>1, <1>2, <1>5, <1>6
<1>8. FeaturesTypeOK'
  <2>1. features' \in Listing \cup {None}
    BY <1>0, <1>1, <1>2, <1>6 DEF FeaturesTypeOK
  <2>2. configuring' \in Features \cup {None} /\ configForm' \in Configs \cup {None}
    BY <1>0, <1>1, <1>2 DEF FeaturesTypeOK
  <2> QED BY <1>0, <1>1, <1>3, <2>1, <2>2 DEF FeaturesTypeOK
<1>9. CardsHeld'
  <2>1. configuring' # None => configuring # None /\ configForm' = configForm
    BY <1>1, <1>2
  <2>2. \A t \in FeatureSlots : featureCalls'[t] # None => featureCalls'[t] = featureCalls[t] /\ t # s
    BY <1>3
  <2> QED BY <1>0, <1>1, <1>3, <1>7, <2>1, <2>2 DEF CardsHeld
<1>10. ListAlone'
  <2>1. \A t \in FeatureSlots : Listed(t)' => featureCalls'[t] = featureCalls[t]
    BY <1>3
  <2> QED BY <1>0, <1>1, <1>3, <1>7, <2>1 DEF ListAlone, Replied
<1>11. Agrees'
  <2> SUFFICES ASSUME features' # None, NEW h \in Features \ crossed
               PROVE
    /\ \A t, u \in FeatureSlots : Asks(t, h)' /\ Asks(u, h)' => t = u
    /\ \A t \in FeatureSlots : Asks(t, h)' => featureCalls'[t].live
    /\ (\A t \in FeatureSlots : Asks(t, h)' => ~Replied(t)') => features'[h] = featureFlags'[h]
    /\ \A t \in FeatureSlots :
         Asks(t, h)' /\ Replied(t)' => featureFlags'[h] = Updated(features'[h], featureCalls'[t])
    BY <1>1 DEF Agrees
  <2>1. /\ \A t, u \in FeatureSlots : Asks(t, h) /\ Asks(u, h) => t = u
        /\ \A t \in FeatureSlots : Asks(t, h) => featureCalls[t].live
        /\ (\A t \in FeatureSlots : Asks(t, h) => ~Replied(t)) => features[h] = featureFlags[h]
        /\ \A t \in FeatureSlots :
             Asks(t, h) /\ Replied(t) => featureFlags[h] = Updated(features[h], featureCalls[t])
    BY <1>0, <1>7 DEF Agrees
  <2>2. CASE h = c.feature
    <3>1. c.live
      BY <1>4, <2>1, <2>2 DEF c
    <3>2. features'[h] = featureFlags'[h]
      BY <1>1, <1>4, <1>6, <2>1, <2>2, <3>1 DEF c
    <3>3. \A t \in FeatureSlots : ~Asks(t, h)'
      BY <1>3, <1>4, <2>1, <2>2
    <3> QED BY <3>2, <3>3
  <2>3. CASE h # c.feature
    <3>1. features'[h] = features[h] /\ featureFlags'[h] = featureFlags[h]
      BY <1>1, <1>2, <1>6, <2>3
    <3>2. \A t \in FeatureSlots : /\ Asks(t, h)' <=> Asks(t, h)
                                  /\ Asks(t, h) => featureCalls'[t] = featureCalls[t]
      BY <1>3, <2>3 DEF Asks, c
    <3> QED BY <2>1, <3>1, <3>2 DEF Replied
  <2> QED BY <2>2, <2>3
<1> QED BY <1>8, <1>9, <1>10, <1>11 DEF FeaturesIInv

\* A request that fails before it is served changed nothing; the page notes
\* the feature of one whose answer is lost.
LEMMA FeatureFailsStep ==
  ASSUME FeaturesIInv, NEW s \in FeatureSlots, FeatureFails(s)
  PROVE  FeaturesIInv'
<1> DEFINE c == featureCalls[s]
<1>0. FeaturesTypeOK /\ CardsHeld /\ ListAlone /\ Agrees
  BY DEF FeaturesIInv
<1>1. /\ c # None /\ featureCalls' = Answered(featureCalls, s)
      /\ featuresLoading' \in BOOLEAN
      /\ crossed' = crossed \cup IF c.op # "list" /\ c.reply # None THEN {c.feature} ELSE {}
      /\ UNCHANGED <<featureFlags, features, featureAdmin, configuring, configForm, featuresAt>>
  BY DEF FeatureFails
<1>2. c \in FeatureCall /\ (c.op # "list" => c.feature \in Features)
  BY <1>0, <1>1, FeatureCallFields DEF FeaturesTypeOK
<1>3. /\ featureCalls' \in [FeatureSlots -> FeatureCall \cup {None}]
      /\ \A t \in FeatureSlots \ {s} : featureCalls'[t] = featureCalls[t]
      /\ featureCalls'[s] = None
      /\ \A t \in FeatureSlots : Listed(t)' <=> (Listed(t) /\ t # s)
      /\ \A t \in FeatureSlots, h \in Features : Asks(t, h)' <=> (Asks(t, h) /\ t # s)
  BY <1>0, <1>1, FeatureSlotFreed
<1>4. crossed \subseteq crossed' /\ crossed' \subseteq Features
  BY <1>0, <1>1, <1>2 DEF FeaturesTypeOK
<1>5. FeaturesTypeOK'
  BY <1>0, <1>1, <1>3, <1>4 DEF FeaturesTypeOK
<1>6. CardsHeld'
  <2>1. \A t \in FeatureSlots : featureCalls'[t] # None => featureCalls'[t] = featureCalls[t] /\ t # s
    BY <1>3
  <2> QED BY <1>0, <1>1, <1>3, <2>1 DEF CardsHeld
<1>7. ListAlone'
  <2>1. \A t \in FeatureSlots : Listed(t)' => featureCalls'[t] = featureCalls[t]
    BY <1>3
  <2> QED BY <1>0, <1>1, <1>3, <1>4, <2>1 DEF ListAlone, Replied
<1>8. Agrees'
  <2> SUFFICES ASSUME features # None, NEW h \in Features \ crossed'
               PROVE
    /\ \A t, u \in FeatureSlots : Asks(t, h)' /\ Asks(u, h)' => t = u
    /\ \A t \in FeatureSlots : Asks(t, h)' => featureCalls'[t].live
    /\ (\A t \in FeatureSlots : Asks(t, h)' => ~Replied(t)') => features[h] = featureFlags[h]
    /\ \A t \in FeatureSlots :
         Asks(t, h)' /\ Replied(t)' => featureFlags[h] = Updated(features[h], featureCalls'[t])
    BY <1>1 DEF Agrees
  <2>1. h \in Features \ crossed
    BY <1>4
  <2>2. /\ \A t, u \in FeatureSlots : Asks(t, h) /\ Asks(u, h) => t = u
        /\ \A t \in FeatureSlots : Asks(t, h) => featureCalls[t].live
        /\ (\A t \in FeatureSlots : Asks(t, h) => ~Replied(t)) => features[h] = featureFlags[h]
        /\ \A t \in FeatureSlots :
             Asks(t, h) /\ Replied(t) => featureFlags[h] = Updated(features[h], featureCalls[t])
    BY <1>0, <2>1 DEF Agrees
  <2>3. \A t \in FeatureSlots : Asks(t, h)' => Asks(t, h) /\ featureCalls'[t] = featureCalls[t]
    BY <1>3
  <2>4. Asks(s, h) => ~Replied(s)
    BY <1>1, <2>1, <1>0, NoListUnderCards DEF Asks, Replied, FeaturesIInv, Listed
  <2>5. (\A t \in FeatureSlots : Asks(t, h)' => ~Replied(t)') =>
          \A t \in FeatureSlots : Asks(t, h) => ~Replied(t)
    BY <1>3, <2>3, <2>4 DEF Replied
  <2> QED BY <2>2, <2>3, <2>5 DEF Replied
<1> QED BY <1>5, <1>6, <1>7, <1>8 DEF FeaturesIInv

\* The dialog touches neither the cards nor a request.
LEMMA ConfigDialogStep ==
  ASSUME FeaturesIInv, OpenConfig \/ EnterConfig \/ CancelConfig
  PROVE  FeaturesIInv'
<1>0. FeaturesTypeOK /\ CardsHeld /\ ListAlone /\ Agrees
  BY DEF FeaturesIInv
<1>1. UNCHANGED <<featureFlags, features, featureAdmin, featuresLoading, crossed, featuresAt, featureCalls>>
  BY DEF OpenConfig, EnterConfig, CancelConfig
<1>2. /\ configuring' \in Features \cup {None} /\ configForm' \in Configs \cup {None}
      /\ configuring' # None => features # None /\ configForm' \in Configs
  <2>1. CASE OpenConfig
    <3>1. PICK f \in FeatureCards : configuring' = f /\ configForm' = features[f].config
      BY <2>1 DEF OpenConfig
    <3>2. f \in Features /\ features # None
      BY <3>1 DEF FeatureCards
    <3>3. features[f] \in FeatureState
      BY <1>0, <3>2 DEF FeaturesTypeOK, Listing
    <3> QED BY <3>1, <3>2, <3>3 DEF FeatureState
  <2>2. CASE EnterConfig
    BY <1>0, <2>2 DEF EnterConfig, CardsHeld, FeaturesTypeOK
  <2>3. CASE CancelConfig
    BY <2>3 DEF CancelConfig
  <2> QED BY <2>1, <2>2, <2>3
<1>3. FeaturesTypeOK'
  BY <1>0, <1>1, <1>2 DEF FeaturesTypeOK
<1>4. CardsHeld'
  BY <1>0, <1>1, <1>2 DEF CardsHeld, Listed
<1>5. ListAlone'
  BY <1>0, <1>1 DEF ListAlone, Listed, Asks, Replied
<1>6. Agrees'
  BY <1>0, <1>1 DEF Agrees, Asks, Replied
<1> QED BY <1>3, <1>4, <1>5, <1>6 DEF FeaturesIInv

\* Leaving the page drops the list and lets the rest be answered to nobody.
LEMMA LeaveFeaturesStep == ASSUME FeaturesIInv, LeaveFeatures PROVE FeaturesIInv'
<1>0. FeaturesTypeOK
  BY DEF FeaturesIInv
<1>1. /\ featuresAt' = "left" /\ features' = None /\ featuresLoading' = TRUE
      /\ configuring' = None /\ configForm' = None /\ crossed' = {}
      /\ UNCHANGED <<featureFlags, featureAdmin>>
      /\ featureCalls' = [s \in FeatureSlots |->
           IF featureCalls[s] # None /\ featureCalls[s].op # "list"
             THEN [featureCalls[s] EXCEPT !.live = FALSE] ELSE None]
  BY DEF LeaveFeatures
<1>2. ASSUME NEW s \in FeatureSlots
      PROVE  featureCalls'[s] = None \/ ( /\ featureCalls'[s] \in FeatureCall
                                          /\ featureCalls'[s].op # "list"
                                          /\ featureCalls'[s].live = FALSE )
  <2>1. CASE featureCalls[s] # None /\ featureCalls[s].op # "list"
    <3>1. featureCalls[s] \in FeatureCall
      BY <1>0, <2>1 DEF FeaturesTypeOK
    <3>2. featureCalls'[s] = [featureCalls[s] EXCEPT !.live = FALSE]
      BY <1>1, <2>1
    <3> QED BY <2>1, <3>1, <3>2, FeatureCallAbandoned
  <2>2. CASE ~(featureCalls[s] # None /\ featureCalls[s].op # "list")
    BY <1>1, <2>2
  <2> QED BY <2>1, <2>2
<1>3. featureCalls' \in [FeatureSlots -> FeatureCall \cup {None}]
  <2>1. DOMAIN featureCalls' = FeatureSlots /\ featureCalls' = [s \in FeatureSlots |-> featureCalls'[s]]
    BY <1>1
  <2> QED BY <1>2, <2>1
<1>4. FeaturesTypeOK'
  BY <1>0, <1>1, <1>3 DEF FeaturesTypeOK
<1>5. CardsHeld'
  BY <1>1, <1>2 DEF CardsHeld
<1>6. ListAlone'
  BY <1>2 DEF ListAlone, Listed
<1>7. Agrees'
  BY <1>1 DEF Agrees
<1> QED BY <1>4, <1>5, <1>6, <1>7 DEF FeaturesIInv

\* The page is mounted: it notes the features that are asked for still.
LEMMA EnterFeaturesStep == ASSUME FeaturesIInv, EnterFeatures PROVE FeaturesIInv'
<1> DEFINE c == FeatureRequest("list", None, None)
<1>0. FeaturesTypeOK /\ CardsHeld /\ ListAlone
  BY DEF FeaturesIInv
<1>1. c \in FeatureCall /\ c.op = "list" /\ c.feature = None /\ c.reply = None
  BY DEF FeatureRequest, FeatureCall
<1>2. PICK s \in DOMAIN featureCalls :
        featureCalls[s] = None /\ featureCalls' = [featureCalls EXCEPT ![s] = c]
  BY SendFree DEF EnterFeatures
<1> HIDE DEF c
<1>3. s \in FeatureSlots /\ featureCalls \in [FeatureSlots -> FeatureCall \cup {None}]
  BY <1>0, <1>2 DEF FeaturesTypeOK
<1>4. /\ featureCalls' \in [FeatureSlots -> FeatureCall \cup {None}] /\ featureCalls'[s] = c
      /\ \A t \in FeatureSlots \ {s} : featureCalls'[t] = featureCalls[t]
  BY <1>1, <1>2, <1>3
<1>5. /\ featuresAt = "left" /\ featuresAt' = "shown"
      /\ crossed' = {f \in Features : About(f) # {}}
      /\ UNCHANGED <<featureFlags, features, featureAdmin, featuresLoading, configuring, configForm>>
  BY DEF EnterFeatures
<1>6. features = None /\ \A t \in FeatureSlots : ~Listed(t)
  BY <1>0, <1>5 DEF CardsHeld, ListAlone
<1>7. FeaturesTypeOK'
  BY <1>0, <1>4, <1>5 DEF FeaturesTypeOK
<1>8. CardsHeld'
  BY <1>0, <1>1, <1>4, <1>5, <1>6 DEF CardsHeld, Listed
<1>9. ListAlone'
  <2>1. \A t \in FeatureSlots : Listed(t)' => t = s
    BY <1>4, <1>6 DEF Listed
  <2>2. \A f \in Features \ crossed' : \A t \in FeatureSlots : ~Asks(t, f)
    BY <1>0, <1>5, AboutAsks
  <2>3. \A f \in Features \ crossed' : \A t \in FeatureSlots : ~Asks(t, f)'
    BY <1>1, <1>4, <2>2, FeaturesAssumption DEF Asks
  <2>4. ~Replied(s)'
    BY <1>1, <1>4 DEF Replied
  <2> QED BY <1>5, <1>6, <2>1, <2>3, <2>4 DEF ListAlone
<1>10. Agrees'
  BY <1>5, <1>6 DEF Agrees
<1> QED BY <1>7, <1>8, <1>9, <1>10 DEF FeaturesIInv

LEMMA FeaturesStep == FeaturesIInv /\ [FeaturesNext]_featureVars => FeaturesIInv'
<1> SUFFICES ASSUME FeaturesIInv, [FeaturesNext]_featureVars PROVE FeaturesIInv'
  OBVIOUS
<1>1. CASE ToggleFeature
  <2>1. PICK f \in FeatureCards : SendFeature("toggle", f, None)
    BY <1>1 DEF ToggleFeature
  <2>2. f \in Features /\ features # None
    BY <2>1 DEF FeatureCards
  <2> QED BY <2>1, <2>2, SendFeatureStep
<1>2. CASE SaveConfig
  <2>1. configuring # None /\ SendFeature("config", configuring, configForm)
    BY <1>2 DEF SaveConfig
  <2>2. configuring \in Features /\ configForm \in Configs /\ features # None
    BY <2>1 DEF FeaturesIInv, FeaturesTypeOK, CardsHeld
  <2> QED BY <2>1, <2>2, SendFeatureStep
<1>3. CASE OpenConfig \/ EnterConfig \/ CancelConfig
  BY <1>3, ConfigDialogStep
<1>4. CASE LeaveFeatures
  BY <1>4, LeaveFeaturesStep
<1>5. CASE EnterFeatures
  BY <1>5, EnterFeaturesStep
<1>6. ASSUME NEW s \in FeatureSlots,
             \/ FeatureServed(s) \/ FeaturesListed(s) \/ FeatureAnswered(s) \/ FeatureFails(s)
      PROVE  FeaturesIInv'
  BY <1>6, FeatureServedStep, FeaturesListedStep, FeatureAnsweredStep, FeatureFailsStep
<1>7. CASE UNCHANGED featureVars
  BY <1>7 DEF featureVars, FeaturesIInv, FeaturesTypeOK, CardsHeld, ListAlone, Agrees,
              Listed, Asks, Replied
<1> QED BY <1>1, <1>2, <1>3, <1>4, <1>5, <1>6, <1>7 DEF FeaturesNext

LEMMA FeaturesInvariance == FeaturesSpec => []FeaturesIInv
BY FeaturesInitIInv, FeaturesStep, PTL DEF FeaturesSpec

\* Types of the feature control page, the backend's store and the requests between them.
THEOREM FeaturesTypes == FeaturesSpec => []FeaturesTypeOK
<1>1. FeaturesIInv => FeaturesTypeOK
  BY DEF FeaturesIInv
<1> QED BY <1>1, FeaturesInvariance, PTL

\* A card shows what the backend stores once its request is answered, unless
\* two requests about it crossed or an answer was lost (handleToggle,
\* handleSaveConfig, loadFeatures).
THEOREM FeaturesMatch == FeaturesSpec => []FeaturesMatchServer
<1>1. FeaturesIInv => FeaturesMatchServer
  <2> SUFFICES ASSUME FeaturesIInv, features # None, NEW f \in Features \ crossed, About(f) = {}
               PROVE  features[f] = featureFlags[f]
    BY DEF FeaturesMatchServer
  <2>1. \A s \in FeatureSlots : ~Asks(s, f)
    BY AboutAsks DEF FeaturesIInv
  <2> QED BY <2>1 DEF FeaturesIInv, Agrees
<1> QED BY <1>1, FeaturesInvariance, PTL

LEMMA ListSent ==
  ASSUME NEW calls, NEW op, NEW f, NEW g, FeatureRequest(op, f, g) \in FeatureCall, Free(calls) # {}
  PROVE  LET after == Send(calls, FeatureRequest(op, f, g)) IN
         /\ (\E s \in Waiting(calls) : calls[s].op = "list") => \E s \in Waiting(after) : after[s].op = "list"
         /\ op = "list" => \E s \in Waiting(after) : after[s].op = "list"
<1>. DEFINE c == FeatureRequest(op, f, g)
<1>1. c # None /\ c.op = op
  BY FeaturesAssumption DEF FeatureRequest
<1>. HIDE DEF c
<1>. QED BY <1>1, SendWaiting DEF c

LEMMA FeaturesReleaseStep == FeaturesIInv /\ FeaturesRelease /\ [FeaturesNext]_featureVars => FeaturesRelease'
<1>. SUFFICES ASSUME FeaturesIInv, FeaturesRelease, [FeaturesNext]_featureVars PROVE FeaturesRelease'
  OBVIOUS
<1>. DEFINE ListWaits == \E s \in Waiting(featureCalls) : featureCalls[s].op = "list"
<1>0. /\ FeaturesTypeOK /\ (featuresLoading /\ featuresAt = "shown" => ListWaits)
      /\ featureCalls \in [FeatureSlots -> FeatureCall \cup {None}]
  BY DEF FeaturesIInv, FeaturesRelease, FeaturesTypeOK
<1>1. ASSUME featuresLoading' /\ featuresAt' = "shown" => ListWaits'
      PROVE  FeaturesRelease'
  BY <1>1 DEF FeaturesRelease
<1>2. ASSUME NEW op, NEW f, NEW g, FeatureRequest(op, f, g) \in FeatureCall, SendFeature(op, f, g)
      PROVE  FeaturesRelease'
  <2>1. /\ featureCalls' = Send(featureCalls, FeatureRequest(op, f, g)) /\ Free(featureCalls) # {}
        /\ featuresLoading' = featuresLoading /\ featuresAt' = featuresAt
    BY <1>2 DEF SendFeature
  <2>2. ListWaits => ListWaits'
    BY <1>2, <2>1, ListSent
  <2>. HIDE DEF ListWaits
  <2>. QED BY <1>0, <1>1, <2>1, <2>2
<1>3. CASE ToggleFeature
  <2>1. PICK f \in FeatureCards : SendFeature("toggle", f, None)
    BY <1>3 DEF ToggleFeature
  <2>2. FeatureRequest("toggle", f, None) \in FeatureCall
    BY <2>1 DEF FeatureCards, FeatureRequest, FeatureCall
  <2>. QED BY <1>2, <2>1, <2>2
<1>4. CASE SaveConfig
  <2>1. configuring \in Features /\ configForm \in Configs
    BY <1>4 DEF SaveConfig, FeaturesIInv, CardsHeld, FeaturesTypeOK
  <2>2. FeatureRequest("config", configuring, configForm) \in FeatureCall
    BY <2>1 DEF FeatureRequest, FeatureCall
  <2>. QED BY <1>2, <1>4, <2>2 DEF SaveConfig
<1>5. CASE OpenConfig \/ EnterConfig \/ CancelConfig \/ UNCHANGED featureVars
  BY <1>0, <1>1, <1>5 DEF OpenConfig, EnterConfig, CancelConfig, featureVars, Waiting
<1>6. ASSUME NEW s \in FeatureSlots, FeatureServed(s) PROVE FeaturesRelease'
  <2>1. featuresLoading' = featuresLoading /\ featuresAt' = featuresAt
    BY <1>6 DEF FeatureServed
  <2>2. /\ featureCalls' \in [FeatureSlots -> FeatureCall \cup {None}]
        /\ featureCalls'[s] # None /\ featureCalls'[s].op = featureCalls[s].op
        /\ \A t \in FeatureSlots \ {s} : featureCalls'[t] = featureCalls[t]
    BY <1>0, <1>6, ServedEffect, FeaturesAssumption
  <2>3. ListWaits => ListWaits'
    BY <1>0, <2>2 DEF Waiting
  <2>. HIDE DEF ListWaits
  <2>. QED BY <1>0, <1>1, <2>1, <2>3
<1>7. ASSUME NEW s \in FeatureSlots, FeaturesListed(s) PROVE FeaturesRelease'
  BY <1>7 DEF FeaturesListed, FeaturesRelease
<1>8. ASSUME NEW s \in FeatureSlots, FeatureAnswered(s) \/ FeatureFails(s) PROVE FeaturesRelease'
  <2>1. /\ featureCalls' = Answered(featureCalls, s) /\ featuresAt' = featuresAt
    BY <1>8 DEF FeatureAnswered, FeatureFails
  <2>2. featuresLoading' => featuresLoading /\ featureCalls[s].op # "list"
    BY <1>8 DEF FeatureAnswered, FeatureFails
  <2>3. ListWaits /\ featureCalls[s].op # "list" => ListWaits'
    BY <1>0, <2>1 DEF Answered, Waiting
  <2>. HIDE DEF ListWaits
  <2>. QED BY <1>0, <1>1, <2>1, <2>2, <2>3
<1>9. CASE LeaveFeatures
  BY <1>9 DEF LeaveFeatures, FeaturesRelease
<1>10. CASE EnterFeatures
  <2>1. FeatureRequest("list", None, None) \in FeatureCall
    BY DEF FeatureRequest, FeatureCall
  <2>2. featureCalls' = Send(featureCalls, FeatureRequest("list", None, None)) /\ Free(featureCalls) # {}
    BY <1>10 DEF EnterFeatures
  <2>. QED BY <1>1, <2>1, <2>2, ListSent
<1>. QED BY <1>3, <1>4, <1>5, <1>6, <1>7, <1>8, <1>9, <1>10 DEF FeaturesNext

LEMMA FeaturesReleaseInit == FeaturesInit => FeaturesRelease
<1>. DEFINE empty == [s \in FeatureSlots |-> None]
<1>1. FeatureRequest("list", None, None) \in FeatureCall
  BY DEF FeatureRequest, FeatureCall
<1>2. Free(empty) # {}
  BY FeaturesAssumption DEF Free
<1>. QED BY <1>1, <1>2, ListSent DEF FeaturesInit, FeaturesRelease

\* The cards of the features come back, through pages left and entered again.
THEOREM FeaturesReleased == FeaturesSpec => []FeaturesRelease
BY FeaturesReleaseInit, FeaturesReleaseStep, FeaturesInitIInv, FeaturesStep, PTL DEF FeaturesSpec

-----------------------------------------------------------------------------
(* The resource explorer                                                   *)

\* While requests keep their turns at most one is under way, with the filters
\* that are set, and the rows are those filters' once it is answered.
TurnsKept ==
  inTurn =>
    /\ \A s, t \in ExplorerSlots : explorerCalls[s] # None /\ explorerCalls[t] # None => s = t
    /\ \A s \in ExplorerSlots : explorerCalls[s] # None => explorerCalls[s] = filters
    /\ (\A s \in ExplorerSlots : explorerCalls[s] = None) => resources = filters

ExplorerIInv == ExplorerTypeOK /\ TurnsKept

\* The page asks for the rows of the filters it is mounted with.
LEMMA ExplorerMounted ==
  ASSUME NEW f \in Filters
  PROVE  \E s \in ExplorerSlots :
           LET calls == Send([t \in ExplorerSlots |-> None], f)
           IN  /\ calls \in [ExplorerSlots -> Filters \cup {None}] /\ calls[s] = f
               /\ \A t \in ExplorerSlots \ {s} : calls[t] = None
<1> DEFINE empty == [t \in ExplorerSlots |-> None]
<1>1. Free(empty) # {} /\ DOMAIN empty = ExplorerSlots
  BY ExplorerAssumption DEF Free
<1>2. PICK s \in ExplorerSlots : Send(empty, f) = [empty EXCEPT ![s] = f]
  BY <1>1, SendFree
<1> QED BY <1>2

\* Every choice is one of the filters, and asks for its rows.
LEMMA FilterChosen ==
  ASSUME ExplorerTypeOK, NEW f \in FilterChoices
  PROVE  f \in Filters
<1>1. filters \in Filters
  BY DEF ExplorerTypeOK
<1>2. /\ \A v \in SearchTerms : [filters EXCEPT !.search = v] \in Filters
      /\ \A v \in Dates : [filters EXCEPT !.date = v] \in Filters
      /\ \A v \in ResourceTypes : [filters EXCEPT !.type = v] \in Filters
      /\ \A v \in Providers : [filters EXCEPT !.provider = v] \in Filters
      /\ [filters EXCEPT !.removed = ~filters.removed] \in Filters
  BY <1>1 DEF Filters
<1> HIDE DEF Filters
<1> QED BY <1>2 DEF FilterChoices

LEMMA ExplorerStep == ExplorerIInv /\ [ExplorerNext]_explorerVars => ExplorerIInv'
<1> SUFFICES ASSUME ExplorerIInv, [ExplorerNext]_explorerVars PROVE ExplorerIInv'
  OBVIOUS
<1> USE ExplorerAssumption
<1>0. ExplorerTypeOK /\ TurnsKept
  BY DEF ExplorerIInv
<1>1. ASSUME ChooseFilter PROVE ExplorerIInv'
  <2>1. PICK f \in FilterChoices \ {filters} :
          /\ filters' = f
          /\ Free(explorerCalls) # {}
          /\ explorerCalls' = Send(explorerCalls, f)
          /\ explorerLoading' = TRUE
          /\ inTurn' = (Waiting(explorerCalls) = {})
    BY <1>1 DEF ChooseFilter, Depends
  <2>2. offered' = offered /\ resources' = resources
    BY <1>1 DEF ChooseFilter
  <2>3. f \in Filters /\ f # None
    BY <1>0, <2>1, FilterChosen
  <2>4. PICK s \in DOMAIN explorerCalls :
          explorerCalls[s] = None /\ explorerCalls' = [explorerCalls EXCEPT ![s] = f]
    BY <2>1, SendFree
  <2>5. s \in ExplorerSlots /\ explorerCalls \in [ExplorerSlots -> Filters \cup {None}]
    BY <1>0, <2>4 DEF ExplorerTypeOK
  <2>6. /\ explorerCalls' \in [ExplorerSlots -> Filters \cup {None}] /\ explorerCalls'[s] = f
        /\ \A t \in ExplorerSlots \ {s} : explorerCalls'[t] = explorerCalls[t]
    BY <2>3, <2>4, <2>5
  <2>7. inTurn' \in BOOLEAN
    BY <2>1
  <2>8. ExplorerTypeOK'
    BY <1>0, <2>1, <2>2, <2>3, <2>6, <2>7 DEF ExplorerTypeOK
  <2>9. inTurn' => \A t \in ExplorerSlots : explorerCalls[t] = None
    BY <2>1, <2>5 DEF Waiting
  <2>10. TurnsKept'
    BY <2>1, <2>3, <2>5, <2>6, <2>9 DEF TurnsKept
  <2> QED BY <2>8, <2>10 DEF ExplorerIInv
<1>2. ASSUME FiltersOffered PROVE ExplorerIInv'
  BY <1>0, <1>2 DEF FiltersOffered, ExplorerIInv, ExplorerTypeOK, TurnsKept
<1>3. ASSUME NEW s \in ExplorerSlots, ResourcesListed(s) \/ ResourcesFail(s) PROVE ExplorerIInv'
  <2>1. /\ explorerCalls[s] # None /\ explorerLoading' = FALSE
        /\ explorerCalls' = [explorerCalls EXCEPT ![s] = None]
        /\ UNCHANGED <<filters, offered>>
    BY <1>3 DEF ResourcesListed, ResourcesFail, Answered
  <2>2. explorerCalls \in [ExplorerSlots -> Filters \cup {None}]
    BY <1>0 DEF ExplorerTypeOK
  <2>3. /\ explorerCalls' \in [ExplorerSlots -> Filters \cup {None}] /\ explorerCalls'[s] = None
        /\ \A t \in ExplorerSlots \ {s} : explorerCalls'[t] = explorerCalls[t]
    BY <2>1, <2>2
  <2>4. resources' \in Filters \cup {None} /\ inTurn' \in BOOLEAN
    BY <1>0, <1>3, <2>2 DEF ResourcesListed, ResourcesFail, ExplorerTypeOK
  <2>5. ExplorerTypeOK'
    BY <1>0, <2>1, <2>3, <2>4 DEF ExplorerTypeOK
  <2>6. TurnsKept'
    BY <1>0, <1>3, <2>1, <2>3 DEF ResourcesListed, ResourcesFail, TurnsKept
  <2> QED BY <2>5, <2>6 DEF ExplorerIInv
<1>4. ASSUME RemountExplorer PROVE ExplorerIInv'
  <2>1. /\ filters' \in Filters /\ offered' = FALSE /\ resources' = None
        /\ explorerLoading' = TRUE /\ inTurn' = TRUE
        /\ explorerCalls' = Send([t \in ExplorerSlots |-> None], filters')
    BY <1>4 DEF RemountExplorer, Unfiltered
  <2>2. PICK s \in ExplorerSlots :
          /\ explorerCalls' \in [ExplorerSlots -> Filters \cup {None}]
          /\ explorerCalls'[s] = filters'
          /\ \A t \in ExplorerSlots \ {s} : explorerCalls'[t] = None
    BY <2>1, ExplorerMounted
  <2>3. filters' # None
    BY <2>1
  <2> QED BY <2>1, <2>2, <2>3 DEF ExplorerIInv, ExplorerTypeOK, TurnsKept
<1>5. CASE UNCHANGED explorerVars
  BY <1>0, <1>5 DEF explorerVars, ExplorerIInv, ExplorerTypeOK, TurnsKept
<1> QED BY <1>1, <1>2, <1>3, <1>4, <1>5 DEF ExplorerNext

LEMMA ExplorerInitIInv == ExplorerInit => ExplorerIInv
<1> SUFFICES ASSUME ExplorerInit PROVE ExplorerIInv
  OBVIOUS
<1>1. /\ filters \in Filters /\ offered = FALSE /\ resources = None
      /\ explorerLoading = TRUE /\ inTurn = TRUE
      /\ explorerCalls = Send([t \in ExplorerSlots |-> None], filters)
  BY DEF ExplorerInit, Unfiltered
<1>2. PICK s \in ExplorerSlots :
        /\ explorerCalls \in [ExplorerSlots -> Filters \cup {None}]
        /\ explorerCalls[s] = filters
        /\ \A t \in ExplorerSlots \ {s} : explorerCalls[t] = None
  BY <1>1, ExplorerMounted
<1>3. filters # None
  BY <1>1, ExplorerAssumption
<1> QED BY <1>1, <1>2, <1>3 DEF ExplorerIInv, ExplorerTypeOK, TurnsKept

LEMMA ExplorerInvariance == ExplorerSpec => []ExplorerIInv
BY ExplorerInitIInv, ExplorerStep, PTL DEF ExplorerSpec

\* Types of the explorer's filters, rows and requests.
THEOREM ExplorerTypes == ExplorerSpec => []ExplorerTypeOK
<1>1. ExplorerIInv => ExplorerTypeOK
  BY DEF ExplorerIInv
<1> QED BY <1>1, ExplorerInvariance, PTL

\* Requests answered one after the other leave the rows of the filters that
\* are set, for any values of the filters (fetchResources and its effect).
THEOREM RowsMatch == ExplorerSpec => []RowsMatchFilters
<1>1. ExplorerIInv => RowsMatchFilters
  BY DEF ExplorerIInv, ExplorerTypeOK, TurnsKept, RowsMatchFilters, Waiting
<1> QED BY <1>1, ExplorerInvariance, PTL

LEMMA ExplorerReleasesStep ==
  ExplorerIInv /\ ExplorerReleases /\ [ExplorerNext]_explorerVars => ExplorerReleases'
<1>. SUFFICES ASSUME ExplorerIInv, ExplorerReleases, [ExplorerNext]_explorerVars PROVE ExplorerReleases'
  OBVIOUS
<1>1. CASE ChooseFilter
  <2>1. PICK f \in FilterChoices \ {filters} :
          /\ Free(explorerCalls) # {} /\ explorerCalls' = Send(explorerCalls, f)
    BY <1>1 DEF ChooseFilter, Depends
  <2>2. f # None
    BY <2>1, FilterChosen, ExplorerAssumption DEF ExplorerIInv
  <2>. QED BY <2>1, <2>2, SendWaiting DEF ExplorerReleases
<1>2. CASE RemountExplorer
  <2>1. PICK s \in ExplorerSlots :
          /\ explorerCalls' \in [ExplorerSlots -> Filters \cup {None}] /\ explorerCalls'[s] = filters'
          /\ filters' \in Filters
    BY <1>2, ExplorerMounted DEF RemountExplorer, Unfiltered
  <2>. QED BY <2>1, ExplorerAssumption DEF ExplorerReleases, Waiting
<1>3. ASSUME NEW s \in ExplorerSlots, ResourcesListed(s) \/ ResourcesFail(s) PROVE ExplorerReleases'
  BY <1>3 DEF ResourcesListed, ResourcesFail, ExplorerReleases
<1>4. CASE FiltersOffered \/ UNCHANGED explorerVars
  BY <1>4 DEF FiltersOffered, explorerVars, ExplorerReleases, Waiting
<1>. QED BY <1>1, <1>2, <1>3, <1>4 DEF ExplorerNext

LEMMA ExplorerReleasesInit == ExplorerInit => ExplorerReleases
<1>. SUFFICES ASSUME ExplorerInit PROVE ExplorerReleases
  OBVIOUS
<1>1. PICK s \in ExplorerSlots :
        /\ explorerCalls \in [ExplorerSlots -> Filters \cup {None}] /\ explorerCalls[s] = filters
        /\ filters \in Filters
  BY ExplorerMounted DEF ExplorerInit, Unfiltered
<1>. QED BY <1>1, ExplorerAssumption DEF ExplorerReleases, Waiting

\* fetchResources: the skeleton ends with an answer that is still to come.
THEOREM ExplorerReleased == ExplorerSpec => []ExplorerReleases
BY ExplorerReleasesInit, ExplorerReleasesStep, ExplorerInitIInv, ExplorerStep, PTL DEF ExplorerSpec

-----------------------------------------------------------------------------
(* The policies                                                            *)

\* The policies proper, without the identifiers of the cloud accounts.
SamePolicy(doc, other) == doc.tags = other.tags /\ doc.level = other.level

AllPolicySlots == \A s, t \in PolicySlots : policyCalls[s] # None /\ policyCalls[t] # None => s = t

\* What the history promises while it is not disturbed: one request at most,
\* of the kind the history names, and once it is served the document it
\* carries is the one that is stored.
PolicyTurns ==
  /\ policyHistory # "disturbed" =>
       /\ AllPolicySlots
       /\ \A s \in PolicySlots : policyCalls[s] # None =>
            policyCalls[s].op = IF policyHistory = "loading" THEN "load" ELSE "save"
       /\ \A s \in PolicySlots : policyCalls[s] # None /\ policyCalls[s].stage = "served" =>
            SamePolicy(policyCalls[s].doc, storedPolicy)
  /\ policyHistory = "loading" => \E s \in PolicySlots : policyCalls[s] # None
  /\ policyHistory = "calm" /\ (\A s \in PolicySlots :
                                  policyCalls[s] # None => policyCalls[s].stage = "sent") =>
       SamePolicy(platformSettings, storedPolicy)

PolicyIInv == PolicyTypeOK /\ PolicyTurns

LEMMA PolicyCallServed ==
  ASSUME NEW c \in PolicyCall, NEW doc \in Policy
  PROVE  /\ [c EXCEPT !.stage = "served"] \in PolicyCall
         /\ [c EXCEPT !.stage = "served"].op = c.op
         /\ [c EXCEPT !.stage = "served"].stage = "served"
         /\ [c EXCEPT !.stage = "served"].doc = c.doc
         /\ [c EXCEPT !.stage = "served", !.doc = doc] \in PolicyCall
         /\ [c EXCEPT !.stage = "served", !.doc = doc].op = c.op
         /\ [c EXCEPT !.stage = "served", !.doc = doc].stage = "served"
         /\ [c EXCEPT !.stage = "served", !.doc = doc].doc = doc
<1> HIDE DEF Policy
<1> QED BY DEF PolicyCall

\* A request that is sent keeps the turns if it is the only one and of the
\* kind the history has from then on.
LEMMA PolicySent ==
  ASSUME PolicyIInv, NEW c \in PolicyCall, c.stage = "sent",
         Free(policyCalls) # {}, policyCalls' = Send(policyCalls, c),
         \/ c.op = "load" /\ policyHistory' = IF PolicyQuiet THEN "loading" ELSE "disturbed"
         \/ /\ c.op = "save"
            /\ policyHistory' = IF policyHistory = "calm" /\ PolicyQuiet THEN "calm" ELSE "disturbed",
         onPolicy' \in BOOLEAN,
         UNCHANGED <<storedPolicy, platformSettings, policyAdmin>>
  PROVE  PolicyIInv'
<1>0. PolicyTypeOK /\ PolicyTurns
  BY DEF PolicyIInv
<1>1. PICK s \in DOMAIN policyCalls :
        policyCalls[s] = None /\ policyCalls' = [policyCalls EXCEPT ![s] = c]
  BY SendFree
<1>2. s \in PolicySlots /\ policyCalls \in [PolicySlots -> PolicyCall \cup {None}] /\ c # None
  BY <1>0, <1>1, PolicyAssumption DEF PolicyTypeOK
<1>3. /\ policyCalls' \in [PolicySlots -> PolicyCall \cup {None}] /\ policyCalls'[s] = c
      /\ \A t \in PolicySlots \ {s} : policyCalls'[t] = policyCalls[t]
  BY <1>1, <1>2
<1>4. PolicyQuiet <=> \A t \in PolicySlots : policyCalls[t] = None
  BY <1>2 DEF PolicyQuiet, Waiting
<1>5. PolicyTypeOK'
  BY <1>0, <1>3 DEF PolicyTypeOK
<1>6. PolicyTurns'
  <2>1. CASE policyHistory' = "disturbed"
    BY <2>1 DEF PolicyTurns
  <2>2. CASE policyHistory' # "disturbed"
    <3>1. /\ \A t \in PolicySlots : policyCalls[t] = None
          /\ \A t \in PolicySlots : policyCalls'[t] # None <=> t = s
      BY <1>2, <1>3, <1>4, <2>2
    <3>2. \/ c.op = "load" /\ policyHistory' = "loading"
          \/ c.op = "save" /\ policyHistory' = "calm" /\ policyHistory = "calm"
      BY <2>2
    <3>3. policyHistory' = "calm" =>
            SamePolicy(platformSettings, storedPolicy)
      BY <1>0, <3>1, <3>2 DEF PolicyTurns
    <3>4. AllPolicySlots'
      BY <3>1 DEF AllPolicySlots
    <3>5. \A t \in PolicySlots : policyCalls'[t] # None =>
            /\ policyCalls'[t].op = IF policyHistory' = "loading" THEN "load" ELSE "save"
            /\ policyCalls'[t].stage = "sent"
      BY <1>3, <3>1, <3>2
    <3>6. \A t \in PolicySlots :
            policyCalls'[t] # None /\ policyCalls'[t].stage = "served" =>
              SamePolicy(policyCalls'[t].doc, storedPolicy')
      BY <3>5
    <3>7. \E t \in PolicySlots : policyCalls'[t] # None
      BY <1>2, <3>1
    <3>8. policyHistory' = "calm" => SamePolicy(platformSettings', storedPolicy')
      BY <3>3
    <3> QED BY <3>4, <3>5, <3>6, <3>7, <3>8 DEF PolicyTurns
  <2> QED BY <2>1, <2>2
<1> QED BY <1>5, <1>6 DEF PolicyIInv

LEMMA ChangePolicyStep ==
  ASSUME PolicyIInv, NEW doc \in Policy, ChangePolicy(doc)
  PROVE  PolicyIInv'
<1> DEFINE c == [op |-> "save", stage |-> "sent", doc |-> doc]
<1>1. c \in PolicyCall /\ c.stage = "sent" /\ c.op = "save"
  BY DEF PolicyCall
<1>2. /\ Free(policyCalls) # {} /\ policyCalls' = Send(policyCalls, c)
      /\ policyHistory' = IF policyHistory = "calm" /\ PolicyQuiet THEN "calm" ELSE "disturbed"
      /\ UNCHANGED <<storedPolicy, platformSettings, onPolicy, policyAdmin>>
  BY DEF ChangePolicy, SavePolicy
<1>3. onPolicy' \in BOOLEAN
  BY <1>2 DEF PolicyIInv, PolicyTypeOK
<1> HIDE DEF c
<1> QED BY <1>1, <1>2, <1>3, PolicySent

\* What is loaded differs from what is stored in the cloud accounts at most.
LEMMA LoadedSame ==
  ASSUME NEW stored \in Policy, NEW doc \in LoadedFrom(stored)
  PROVE  doc \in Policy /\ SamePolicy(doc, stored)
<1>1. CASE doc = stored
  BY <1>1 DEF SamePolicy
<1>2. CASE \E c \in Clouds : doc = [stored EXCEPT !.cloud = c]
  BY <1>2 DEF SamePolicy, Policy
<1> QED BY <1>1, <1>2 DEF LoadedFrom

LEMMA PolicyServedStep ==
  ASSUME PolicyIInv, NEW s \in PolicySlots, PolicyServed(s)
  PROVE  PolicyIInv'
<1> DEFINE c == policyCalls[s]
           e == policyCalls'[s]
<1>0. PolicyTypeOK /\ PolicyTurns
  BY DEF PolicyIInv
<1>1. /\ c \in PolicyCall /\ c # None /\ c.stage = "sent"
      /\ UNCHANGED <<platformSettings, onPolicy, policyAdmin, policyHistory>>
      /\ policyCalls \in [PolicySlots -> PolicyCall \cup {None}]
      /\ storedPolicy \in Policy /\ c.doc \in Policy /\ c.op \in {"load", "save"}
  BY <1>0 DEF PolicyServed, PolicyTypeOK, PolicyCall
<1>2. /\ policyCalls' \in [PolicySlots -> PolicyCall \cup {None}]
      /\ \A t \in PolicySlots \ {s} : policyCalls'[t] = policyCalls[t]
      /\ e # None /\ e.op = c.op /\ e.stage = "served" /\ SamePolicy(e.doc, storedPolicy')
      /\ storedPolicy' \in Policy
      /\ c.op = "load" => storedPolicy' = storedPolicy
  <2>1. CASE c.op = "save"
    <3> DEFINE d == [c EXCEPT !.stage = "served"]
    <3>1. d \in PolicyCall /\ d.op = c.op /\ d.stage = "served" /\ d.doc = c.doc
      BY <1>1, PolicyCallServed
    <3>2. policyCalls' = [policyCalls EXCEPT ![s] = d] /\ storedPolicy' = c.doc
      BY <2>1 DEF PolicyServed
    <3>3. d # None
      BY <3>1, PolicyAssumption
    <3>4. SamePolicy(d.doc, storedPolicy')
      BY <3>1, <3>2 DEF SamePolicy
    <3> HIDE DEF c, d
    <3> QED BY <1>1, <2>1, <3>1, <3>2, <3>3, <3>4
  <2>2. CASE c.op = "load"
    <3>0. PICK doc \in LoadedFrom(storedPolicy) :
            policyCalls' = [policyCalls EXCEPT ![s].stage = "served", ![s].doc = doc]
      BY <2>2 DEF PolicyServed
    <3> DEFINE d == [c EXCEPT !.stage = "served", !.doc = doc]
    <3>4. doc \in Policy /\ SamePolicy(doc, storedPolicy)
      BY <1>1, LoadedSame
    <3>1. d \in PolicyCall /\ d.op = c.op /\ d.stage = "served" /\ d.doc = doc
      BY <1>1, <3>4, PolicyCallServed
    <3>2. policyCalls' = [policyCalls EXCEPT ![s] = d] /\ storedPolicy' = storedPolicy
      BY <2>2, <3>0 DEF PolicyServed
    <3>3. d # None
      BY <3>1, PolicyAssumption
    <3> HIDE DEF c, d
    <3> QED BY <1>1, <2>2, <3>1, <3>2, <3>3, <3>4
  <2> QED BY <1>1, <2>1, <2>2
<1>3. PolicyTypeOK'
  BY <1>0, <1>1, <1>2 DEF PolicyTypeOK
<1> HIDE DEF c, e
<1>4. PolicyTurns'
  <2>1. CASE policyHistory = "disturbed"
    BY <1>1, <2>1 DEF PolicyTurns
  <2>2. CASE policyHistory # "disturbed"
    <3>1. \A t \in PolicySlots : policyCalls[t] # None => t = s
      BY <1>0, <1>1, <2>2 DEF PolicyTurns, AllPolicySlots, c
    <3>2. \A t \in PolicySlots : policyCalls'[t] # None <=> t = s
      BY <1>2, <3>1 DEF e
    <3>3. c.op = IF policyHistory = "loading" THEN "load" ELSE "save"
      BY <1>0, <1>1, <2>2 DEF PolicyTurns, c
    <3>4. AllPolicySlots'
      BY <3>2 DEF AllPolicySlots
    <3> QED BY <1>1, <1>2, <3>2, <3>3, <3>4 DEF PolicyTurns, e
  <2> QED BY <2>1, <2>2
<1> QED BY <1>3, <1>4 DEF PolicyIInv

LEMMA PolicyDoneStep ==
  ASSUME PolicyIInv, NEW s \in PolicySlots, PolicyAnswered(s) \/ PolicyFails(s)
  PROVE  PolicyIInv'
<1> DEFINE c == policyCalls[s]
<1>0. PolicyTypeOK /\ PolicyTurns
  BY DEF PolicyIInv
<1>1. /\ c \in PolicyCall /\ c # None
      /\ policyCalls' = [policyCalls EXCEPT ![s] = None]
      /\ policyCalls \in [PolicySlots -> PolicyCall \cup {None}]
      /\ UNCHANGED <<storedPolicy, onPolicy, policyAdmin>>
  BY <1>0 DEF PolicyAnswered, PolicyFails, PolicyTypeOK, Answered
<1>2. /\ policyCalls' \in [PolicySlots -> PolicyCall \cup {None}] /\ policyCalls'[s] = None
      /\ \A t \in PolicySlots \ {s} : policyCalls'[t] = policyCalls[t]
  BY <1>1
<1>3. c.op \in {"load", "save"} /\ c.stage \in {"sent", "served"} /\ c.doc \in Policy
  BY <1>1 DEF PolicyCall
<1>4. \/ /\ PolicyAnswered(s) /\ c.stage = "served" /\ platformSettings' = c.doc
         /\ policyHistory' = IF c.op = "load" /\ policyHistory = "loading" THEN "calm" ELSE policyHistory
      \/ /\ PolicyFails(s) /\ platformSettings' = platformSettings
         /\ policyHistory' = IF c.op = "save" /\ c.stage = "sent" THEN policyHistory ELSE "disturbed"
  BY DEF PolicyAnswered, PolicyFails
<1> HIDE DEF c
<1>5. PolicyTypeOK'
  <2>1. platformSettings' \in Policy /\ policyHistory' \in {"loading", "calm", "disturbed"}
    BY <1>0, <1>3, <1>4 DEF PolicyTypeOK
  <2> QED BY <1>0, <1>1, <1>2, <2>1 DEF PolicyTypeOK
<1>6. PolicyTurns'
  <2>1. CASE policyHistory' = "disturbed"
    BY <2>1 DEF PolicyTurns
  <2>2. CASE policyHistory' # "disturbed"
    <3>1. policyHistory # "disturbed"
      BY <1>4, <2>2
    <3>2. \A t \in PolicySlots : policyCalls'[t] = None
      BY <1>0, <1>1, <1>2, <3>1 DEF PolicyTurns, AllPolicySlots, c
    <3>3. /\ c.op = IF policyHistory = "loading" THEN "load" ELSE "save"
          /\ c.stage = "served" => SamePolicy(c.doc, storedPolicy)
      BY <1>0, <1>1, <3>1 DEF PolicyTurns, c
    <3>4. policyHistory' = "calm"
      BY <1>0, <1>4, <2>2, <3>1, <3>3 DEF PolicyTypeOK
    <3>5. SamePolicy(platformSettings', storedPolicy)
      <4>1. CASE PolicyAnswered(s) /\ platformSettings' = c.doc /\ c.stage = "served"
        BY <3>3, <4>1
      <4>2. CASE /\ PolicyFails(s) /\ platformSettings' = platformSettings
                 /\ c.op = "save" /\ c.stage = "sent" /\ policyHistory = "calm"
        <5>1. \A t \in PolicySlots : policyCalls[t] # None => policyCalls[t].stage = "sent"
          BY <1>2, <3>2, <4>2 DEF c
        <5> QED BY <1>0, <4>2, <5>1 DEF PolicyTurns
      <4> QED BY <1>4, <3>4, <4>1, <4>2
    <3>6. AllPolicySlots'
      BY <3>2 DEF AllPolicySlots
    <3> QED BY <1>1, <3>2, <3>4, <3>5, <3>6 DEF PolicyTurns
  <2> QED BY <2>1, <2>2
<1> QED BY <1>5, <1>6 DEF PolicyIInv

LEMMA PolicyStep == PolicyIInv /\ [PolicyNext]_policyVars => PolicyIInv'
<1> SUFFICES ASSUME PolicyIInv, [PolicyNext]_policyVars PROVE PolicyIInv'
  OBVIOUS
<1>0. PolicyTypeOK /\ PolicyTurns
  BY DEF PolicyIInv
<1>1. CASE ShowPolicy
  <2>1. LoadPolicy \in PolicyCall /\ LoadPolicy.op = "load" /\ LoadPolicy.stage = "sent"
    BY PolicyAssumption DEF LoadPolicy, DefaultPolicy, PolicyCall, Policy
  <2> QED BY <1>1, <2>1, PolicySent DEF ShowPolicy
<1>2. CASE HidePolicy
  <2>1. onPolicy' = FALSE /\ UNCHANGED <<storedPolicy, platformSettings, policyAdmin, policyHistory, policyCalls>>
    BY <1>2 DEF HidePolicy
  <2> QED BY <1>0, <2>1 DEF PolicyIInv, PolicyTypeOK, PolicyTurns, AllPolicySlots
<1>3. CASE AddTag
  <2>1. PICK t \in Tags : ChangePolicy([platformSettings EXCEPT !.tags = @ \cup {t}])
    BY <1>3 DEF AddTag
  <2>2. [platformSettings EXCEPT !.tags = @ \cup {t}] \in Policy
    BY <1>0 DEF PolicyTypeOK, Policy
  <2> QED BY <2>1, <2>2, ChangePolicyStep
<1>4. CASE RemoveTag
  <2>1. PICK t \in platformSettings.tags : ChangePolicy([platformSettings EXCEPT !.tags = @ \ {t}])
    BY <1>4 DEF RemoveTag
  <2>2. [platformSettings EXCEPT !.tags = @ \ {t}] \in Policy
    BY <1>0 DEF PolicyTypeOK, Policy
  <2> QED BY <2>1, <2>2, ChangePolicyStep
<1>5. CASE SetLevel
  <2>1. PICK l \in Levels : ChangePolicy([platformSettings EXCEPT !.level = l])
    BY <1>5 DEF SetLevel
  <2>2. [platformSettings EXCEPT !.level = l] \in Policy
    BY <1>0 DEF PolicyTypeOK, Policy
  <2> QED BY <2>1, <2>2, ChangePolicyStep
<1>6. CASE SaveClouds
  BY <1>0, <1>6, ChangePolicyStep DEF SaveClouds, PolicyTypeOK
<1>7. CASE TypeCloud
  <2>1. PICK c \in Clouds : platformSettings' = [platformSettings EXCEPT !.cloud = c]
    BY <1>7 DEF TypeCloud
  <2>2. UNCHANGED <<storedPolicy, onPolicy, policyAdmin, policyHistory, policyCalls>>
    BY <1>7 DEF TypeCloud
  <2>3. /\ platformSettings' \in Policy /\ platformSettings'.tags = platformSettings.tags
        /\ platformSettings'.level = platformSettings.level
    BY <1>0, <2>1 DEF PolicyTypeOK, Policy
  <2>4. PolicyTypeOK'
    BY <1>0, <2>2, <2>3 DEF PolicyTypeOK
  <2>5. PolicyTurns'
    BY <1>0, <2>2, <2>3 DEF PolicyTurns, AllPolicySlots, SamePolicy
  <2> QED BY <2>4, <2>5 DEF PolicyIInv
<1>8. ASSUME NEW s \in PolicySlots, PolicyServed(s) \/ PolicyAnswered(s) \/ PolicyFails(s)
      PROVE  PolicyIInv'
  BY <1>8, PolicyServedStep, PolicyDoneStep
<1>9. CASE RemountPolicy
  <2>1. /\ policyCalls' = [s \in PolicySlots |-> None] /\ platformSettings' = DefaultPolicy
        /\ onPolicy' = FALSE /\ policyHistory' = "disturbed" /\ policyAdmin' = policyAdmin
    BY <1>9 DEF RemountPolicy
  <2>2. DefaultPolicy \in Policy
    BY PolicyAssumption DEF DefaultPolicy, Policy
  <2>3. storedPolicy' \in Policy
    <3>1. \A s \in Waiting(policyCalls) : policyCalls[s].doc \in Policy
      BY <1>0 DEF PolicyTypeOK, PolicyCall, Waiting
    <3> QED BY <1>0, <1>9, <3>1 DEF RemountPolicy, PolicyTypeOK
  <2>4. PolicyTypeOK'
    BY <1>0, <2>1, <2>2, <2>3 DEF PolicyTypeOK
  <2>5. PolicyTurns'
    BY <2>1 DEF PolicyTurns
  <2> QED BY <2>4, <2>5 DEF PolicyIInv
<1>10. CASE UNCHANGED policyVars
  BY <1>0, <1>10 DEF policyVars, PolicyIInv, PolicyTypeOK, PolicyTurns, AllPolicySlots
<1> QED BY <1>1, <1>2, <1>3, <1>4, <1>5, <1>6, <1>7, <1>8, <1>9, <1>10 DEF PolicyNext

LEMMA PolicyInitIInv == PolicyInit => PolicyIInv
<1> SUFFICES ASSUME PolicyInit PROVE PolicyIInv
  OBVIOUS
<1>1. PolicyTypeOK
  BY PolicyAssumption DEF PolicyInit, PolicyTypeOK, DefaultPolicy, Policy
<1>2. PolicyTurns
  BY DEF PolicyInit, PolicyTurns
<1> QED BY <1>1, <1>2 DEF PolicyIInv

LEMMA PolicyInvariance == PolicySpec => []PolicyIInv
BY PolicyInitIInv, PolicyStep, PTL DEF PolicySpec

\* Types of the policy document, the page's copy and the requests.
THEOREM PolicyTypes == PolicySpec => []PolicyTypeOK
<1>1. PolicyIInv => PolicyTypeOK
  BY DEF PolicyIInv
<1> QED BY <1>1, PolicyInvariance, PTL

\* With one request at a time since the document was loaded, and none lost, the
\* policies shown are those stored (savePlatformSettings, loadPlatformSettings).
THEOREM PolicyShown == PolicySpec => []PolicyShownIsStored
<1>1. PolicyIInv => PolicyShownIsStored
  BY DEF PolicyIInv, PolicyTypeOK, PolicyTurns, PolicyShownIsStored, PolicyQuiet, Waiting, SamePolicy
<1> QED BY <1>1, PolicyInvariance, PTL

-----------------------------------------------------------------------------
(* The settings                                                            *)

SubmitOps == {"submit", "profile", "sync"}
SubmitAt(s) == settingCalls[s] # None /\ settingCalls[s].op \in SubmitOps

\* One submission at a time, said of slots.
SubmitAlone ==
  /\ \A s, t \in SettingSlots : SubmitAt(s) /\ SubmitAt(t) => s = t
  /\ submitting <=> \E s \in SettingSlots : SubmitAt(s)

SettingsIInv == SettingsTypeOK /\ RuleFormConsistent /\ SubmitAlone

\* Every step is one of four kinds, by what it does to the requests under way.
LEMMA RequestsStep ==
  ASSUME SettingsIInv, NEW c \in SettingCall, c.op = "submit" => c.edit = c.rule,
         \/ /\ Free(settingCalls) # {} /\ settingCalls' = Send(settingCalls, c)
            /\ \/ c.op \in SubmitOps /\ ~submitting /\ submitting' = TRUE
               \/ c.op \notin SubmitOps /\ submitting' = submitting
         \/ \E s \in SettingSlots :
              /\ settingCalls[s] # None
              /\ \/ settingCalls' = Answered(settingCalls, s)
                 \/ settingCalls' = [settingCalls EXCEPT ![s] = c] /\ c.op \notin SubmitOps
              /\ \/ SubmitAt(s) /\ submitting' = FALSE
                 \/ ~SubmitAt(s) /\ submitting' = submitting
  PROVE  /\ settingCalls' \in [SettingSlots -> SettingCall \cup {None}]
         /\ submitting' \in BOOLEAN /\ SubmitAlone'
         /\ \A s \in SettingSlots :
              OpPending(s, {"submit"})' => settingCalls'[s].edit = settingCalls'[s].rule
<1>0. /\ settingCalls \in [SettingSlots -> SettingCall \cup {None}] /\ submitting \in BOOLEAN
      /\ SubmitAlone /\ c # None
      /\ \A s \in SettingSlots :
           settingCalls[s] # None /\ settingCalls[s].op = "submit" =>
             settingCalls[s].edit = settingCalls[s].rule
  BY SettingsAssumption DEF SettingsIInv, SettingsTypeOK, RuleFormConsistent, OpPending
<1> HIDE DEF SubmitOps
<1>1. CASE /\ Free(settingCalls) # {} /\ settingCalls' = Send(settingCalls, c)
           /\ \/ c.op \in SubmitOps /\ ~submitting /\ submitting' = TRUE
              \/ c.op \notin SubmitOps /\ submitting' = submitting
  <2>1. PICK s \in DOMAIN settingCalls :
          settingCalls[s] = None /\ settingCalls' = [settingCalls EXCEPT ![s] = c]
    BY <1>1, SendFree
  <2>2. /\ s \in SettingSlots
        /\ settingCalls' \in [SettingSlots -> SettingCall \cup {None}] /\ settingCalls'[s] = c
        /\ \A t \in SettingSlots \ {s} : settingCalls'[t] = settingCalls[t]
    BY <1>0, <2>1
  <2>3. /\ ~SubmitAt(s) /\ (SubmitAt(s)' <=> c.op \in SubmitOps)
        /\ \A t \in SettingSlots \ {s} : SubmitAt(t)' <=> SubmitAt(t)
    BY <1>0, <2>1, <2>2 DEF SubmitAt
  <2>4. SubmitAlone'
    BY <1>0, <1>1, <2>2, <2>3 DEF SubmitAlone
  <2>5. submitting' \in BOOLEAN
    BY <1>0, <1>1
  <2>6. \A t \in SettingSlots :
          OpPending(t, {"submit"})' => settingCalls'[t].edit = settingCalls'[t].rule
    BY <1>0, <2>2 DEF OpPending
  <2> QED BY <2>2, <2>4, <2>5, <2>6
<1>2. ASSUME NEW s \in SettingSlots,
             settingCalls[s] # None,
             \/ settingCalls' = Answered(settingCalls, s)
             \/ settingCalls' = [settingCalls EXCEPT ![s] = c] /\ c.op \notin SubmitOps,
             \/ SubmitAt(s) /\ submitting' = FALSE
             \/ ~SubmitAt(s) /\ submitting' = submitting
      PROVE  /\ settingCalls' \in [SettingSlots -> SettingCall \cup {None}]
             /\ submitting' \in BOOLEAN /\ SubmitAlone'
             /\ \A t \in SettingSlots :
                  OpPending(t, {"submit"})' => settingCalls'[t].edit = settingCalls'[t].rule
  <2>1. /\ settingCalls' \in [SettingSlots -> SettingCall \cup {None}]
        /\ settingCalls'[s] = None \/ (settingCalls'[s] = c /\ c.op \notin SubmitOps)
        /\ \A t \in SettingSlots \ {s} : settingCalls'[t] = settingCalls[t]
    BY <1>0, <1>2 DEF Answered
  <2>2. /\ ~SubmitAt(s)'
        /\ \A t \in SettingSlots \ {s} : SubmitAt(t)' <=> SubmitAt(t)
    BY <2>1 DEF SubmitAt
  <2>3. SubmitAlone'
    BY <1>0, <1>2, <2>1, <2>2 DEF SubmitAlone
  <2>4. submitting' \in BOOLEAN
    BY <1>0, <1>2
  <2>5. \A t \in SettingSlots :
          OpPending(t, {"submit"})' => settingCalls'[t].edit = settingCalls'[t].rule
    BY <1>0, <2>1 DEF OpPending
  <2> QED BY <2>1, <2>3, <2>4, <2>5
<1> QED BY <1>1, <1>2

\* The requests stay as they are.
LEMMA RequestsStay ==
  ASSUME SettingsIInv, UNCHANGED <<submitting, settingCalls>>
  PROVE  /\ settingCalls' \in [SettingSlots -> SettingCall \cup {None}]
         /\ submitting' \in BOOLEAN /\ SubmitAlone'
         /\ \A s \in SettingSlots :
              OpPending(s, {"submit"})' => settingCalls'[s].edit = settingCalls'[s].rule
BY DEF SettingsIInv, SettingsTypeOK, RuleFormConsistent, OpPending, SubmitAlone, SubmitAt

\* The page starts over: no request is its own any more.
LEMMA SettingsResetStep ==
  ASSUME SettingsIInv, NEW at \in {"shown", "left", "failed"}, SettingsReset(at)
  PROVE  SettingsIInv'
<1>1. /\ settingsTab' = "profile" /\ settingsAt' = at /\ flash' = {}
      /\ flashTimers' = [f \in FlashKinds |-> 0]
      /\ submitting' = FALSE /\ pushing' = FALSE
      /\ rules' = [k \in RuleKinds |-> {}] /\ dialog' = [k \in RuleKinds |-> FALSE]
      /\ editingRule' = [k \in RuleKinds |-> None] /\ ruleForm' = [k \in RuleKinds |-> None]
      /\ settingCalls' = [s \in SettingSlots |-> None] /\ settingsAdmin' = settingsAdmin
  BY DEF SettingsReset
<1>2. 0 \in 0..MaxFlash /\ settingsTab' \in SettingTabs /\ settingsAdmin' \in BOOLEAN
  BY <1>1, SettingsAssumption DEF SettingTabs, SettingsIInv, SettingsTypeOK
<1>3. SettingsTypeOK'
  BY <1>1, <1>2 DEF SettingsTypeOK
<1>4. RuleFormConsistent' /\ SubmitAlone'
  BY <1>1 DEF RuleFormConsistent, OpPending, SubmitAlone, SubmitAt
<1> QED BY <1>3, <1>4 DEF SettingsIInv

\* What is left to show of a step once its requests are settled.
LEMMA SettingsSettled ==
  ASSUME SettingsIInv,
         /\ settingCalls' \in [SettingSlots -> SettingCall \cup {None}]
         /\ submitting' \in BOOLEAN /\ SubmitAlone'
         /\ \A s \in SettingSlots :
              OpPending(s, {"submit"})' => settingCalls'[s].edit = settingCalls'[s].rule,
         settingsTab' \in SettingTabs, settingsAdmin' = settingsAdmin, settingsAt' = settingsAt,
         flash' \subseteq FlashKinds, flashTimers' \in [FlashKinds -> 0..MaxFlash],
         pushing' \in BOOLEAN, rules' \in [RuleKinds -> SUBSET RuleIds],
         \/ UNCHANGED dialogVars
         \/ /\ dialog' \in [RuleKinds -> BOOLEAN]
            /\ editingRule' \in [RuleKinds -> RuleIds \cup {None}]
            /\ ruleForm' \in [RuleKinds -> RuleIds \cup {None}]
            /\ \A k \in RuleKinds : dialog'[k] => editingRule'[k] = ruleForm'[k]
  PROVE  SettingsIInv'
<1>0. SettingsTypeOK /\ RuleFormConsistent
  BY DEF SettingsIInv
<1>1. /\ dialog' \in [RuleKinds -> BOOLEAN]
      /\ editingRule' \in [RuleKinds -> RuleIds \cup {None}]
      /\ ruleForm' \in [RuleKinds -> RuleIds \cup {None}]
      /\ \A k \in RuleKinds : dialog'[k] => editingRule'[k] = ruleForm'[k]
  BY <1>0 DEF SettingsTypeOK, RuleFormConsistent, dialogVars
<1>2. SettingsTypeOK'
  BY <1>0, <1>1 DEF SettingsTypeOK
<1>3. RuleFormConsistent'
  BY <1>1 DEF RuleFormConsistent
<1> QED BY <1>2, <1>3 DEF SettingsIInv

LEMMA AskType ==
  ASSUME NEW op \in {"list", "profile", "sync", "delete", "member", "scan", "push", "status"},
         NEW kind \in SettingTabs
  PROVE  /\ AskSetting(op, kind) \in SettingCall /\ AskSetting(op, kind).op = op
         /\ AskSetting(op, kind).edit = AskSetting(op, kind).rule
BY DEF AskSetting, SettingCall

LEMMA FlashShown ==
  ASSUME SettingsIInv, NEW f \in FlashKinds, ShowFlash(f)
  PROVE  flash' \subseteq FlashKinds /\ flashTimers' \in [FlashKinds -> 0..MaxFlash]
<1>1. /\ flash \subseteq FlashKinds /\ flashTimers \in [FlashKinds -> 0..MaxFlash]
      /\ MaxFlash \in Nat
  BY SettingsAssumption DEF SettingsIInv, SettingsTypeOK
<1>2. flashTimers[f] + 1 \in 0..MaxFlash
  BY <1>1 DEF ShowFlash
<1> QED BY <1>1, <1>2 DEF ShowFlash

\* What a step that leaves everything but the requests alone keeps.
LEMMA SettingsTypes0 ==
  ASSUME SettingsIInv
  PROVE  /\ settingsTab \in SettingTabs /\ flash \subseteq FlashKinds
         /\ flashTimers \in [FlashKinds -> 0..MaxFlash] /\ pushing \in BOOLEAN
         /\ rules \in [RuleKinds -> SUBSET RuleIds] /\ submitting \in BOOLEAN
         /\ dialog \in [RuleKinds -> BOOLEAN]
         /\ editingRule \in [RuleKinds -> RuleIds \cup {None}]
         /\ ruleForm \in [RuleKinds -> RuleIds \cup {None}]
         /\ settingCalls \in [SettingSlots -> SettingCall \cup {None}]
         /\ \A k \in RuleKinds : dialog[k] => editingRule[k] = ruleForm[k]
BY DEF SettingsIInv, SettingsTypeOK, RuleFormConsistent

LEMMA OpenRuleStep ==
  ASSUME SettingsIInv, NEW k \in RuleKinds, NEW id \in RuleIds \cup {None}, OpenRule(k, id)
  PROVE  SettingsIInv'
<1>1. /\ dialog' = [dialog EXCEPT ![k] = TRUE]
      /\ editingRule' = [editingRule EXCEPT ![k] = id]
      /\ ruleForm' = [ruleForm EXCEPT ![k] = id]
  BY DEF OpenRule
<1>2. UNCHANGED <<submitting, settingCalls, settingsTab, settingsAdmin, settingsAt, flash,
                  flashTimers, pushing, rules>>
  BY DEF OpenRule, SettingsOther, flashVars
<1>3. /\ dialog' \in [RuleKinds -> BOOLEAN]
      /\ editingRule' \in [RuleKinds -> RuleIds \cup {None}]
      /\ ruleForm' \in [RuleKinds -> RuleIds \cup {None}]
  BY <1>1, SettingsTypes0
<1>4. \A j \in RuleKinds : dialog'[j] => editingRule'[j] = ruleForm'[j]
  BY <1>1, SettingsTypes0
<1> HIDE DEF SettingTabs, FlashKinds
<1> QED BY <1>2, <1>3, <1>4, RequestsStay, SettingsTypes0, SettingsSettled

LEMMA CloseDialogStep == ASSUME SettingsIInv, CloseDialog PROVE SettingsIInv'
<1>1. PICK k \in RuleKinds : dialog' = [dialog EXCEPT ![k] = FALSE] /\ UNCHANGED submitting
  BY DEF CloseDialog, DialogClosed
<1>2. UNCHANGED <<submitting, settingCalls, settingsTab, settingsAdmin, settingsAt, flash,
                  flashTimers, pushing, rules, editingRule, ruleForm>>
  BY <1>1 DEF CloseDialog, SettingsOther, flashVars
<1>3. dialog' \in [RuleKinds -> BOOLEAN] /\ \A j \in RuleKinds : dialog'[j] => dialog[j]
  BY <1>1, SettingsTypes0
<1>4. \A j \in RuleKinds : dialog'[j] => editingRule'[j] = ruleForm'[j]
  BY <1>2, <1>3, SettingsTypes0
<1> QED BY <1>2, <1>3, <1>4, RequestsStay, SettingsTypes0, SettingsSettled

LEMMA FlashStep == ASSUME SettingsIInv, FlashTimeout \/ PasswordMismatch PROVE SettingsIInv'
<1>1. UNCHANGED <<settingsTab, settingsAdmin, settingsAt, submitting, pushing, rules, dialogVars, settingCalls>>
  BY DEF FlashTimeout, PasswordMismatch
<1>2. flash' \subseteq FlashKinds /\ flashTimers' \in [FlashKinds -> 0..MaxFlash]
  <2>1. CASE FlashTimeout
    <3>1. PICK f \in FlashKinds : /\ flashTimers[f] > 0 /\ flash' = flash \ {f}
                                  /\ flashTimers' = [flashTimers EXCEPT ![f] = @ - 1]
      BY <2>1 DEF FlashTimeout
    <3>2. flashTimers[f] - 1 \in 0..MaxFlash
      BY <3>1, SettingsTypes0, SettingsAssumption
    <3> QED BY <3>1, <3>2, SettingsTypes0
  <2>2. CASE PasswordMismatch
    BY <2>2, FlashShown DEF PasswordMismatch, FlashKinds
  <2> QED BY <2>1, <2>2
<1> QED BY <1>1, <1>2, RequestsStay, SettingsTypes0, SettingsSettled

LEMMA SubmitRuleStep ==
  ASSUME SettingsIInv, NEW k \in RuleKinds, SubmitRule(k)
  PROVE  SettingsIInv'
<1> DEFINE c == [op |-> "submit", kind |-> k, edit |-> editingRule[k], rule |-> ruleForm[k]]
<1>1. /\ ~submitting /\ Free(settingCalls) # {} /\ submitting' = TRUE /\ dialog[k]
      /\ settingCalls' = Send(settingCalls, c)
      /\ UNCHANGED <<dialogVars, settingsTab, settingsAdmin, settingsAt, flash, flashTimers, pushing, rules>>
  BY DEF SubmitRule, SettingsOther, flashVars
<1>2. c \in SettingCall /\ c.op = "submit" /\ c.edit = c.rule
  <2>1. k \in SettingTabs
    BY DEF RuleKinds, SettingTabs
  <2>2. /\ editingRule[k] \in RuleIds \cup {None} /\ ruleForm[k] \in RuleIds \cup {None}
        /\ editingRule[k] = ruleForm[k]
    BY <1>1, SettingsTypes0
  <2> QED BY <2>1, <2>2 DEF SettingCall
<1>3. c.op \in SubmitOps
  BY DEF SubmitOps
<1> HIDE DEF c
<1>4. /\ settingCalls' \in [SettingSlots -> SettingCall \cup {None}]
      /\ submitting' \in BOOLEAN /\ SubmitAlone'
      /\ \A s \in SettingSlots :
           OpPending(s, {"submit"})' => settingCalls'[s].edit = settingCalls'[s].rule
  BY <1>1, <1>2, <1>3, RequestsStep
<1> QED BY <1>1, <1>4, SettingsTypes0, SettingsSettled

\* A request other than a rule's: a submission, which disables, or not.
LEMMA AskStep ==
  ASSUME SettingsIInv,
         NEW op \in {"list", "profile", "sync", "delete", "member", "scan", "push", "status"},
         NEW kind \in SettingTabs, Free(settingCalls) # {},
         settingCalls' = Send(settingCalls, AskSetting(op, kind)),
         \/ op \in SubmitOps /\ ~submitting /\ submitting' = TRUE
         \/ op \notin SubmitOps /\ submitting' = submitting,
         settingsTab' \in SettingTabs, pushing' \in BOOLEAN,
         UNCHANGED <<settingsAdmin, settingsAt, flash, flashTimers, rules, dialogVars>>
  PROVE  SettingsIInv'
<1> DEFINE c == AskSetting(op, kind)
<1>1. c \in SettingCall /\ c.op = op /\ c.edit = c.rule
  BY AskType
<1>2. settingCalls' = Send(settingCalls, c)
  OBVIOUS
<1> HIDE DEF c, SubmitOps
<1>3. /\ settingCalls' \in [SettingSlots -> SettingCall \cup {None}]
      /\ submitting' \in BOOLEAN /\ SubmitAlone'
      /\ \A s \in SettingSlots :
           OpPending(s, {"submit"})' => settingCalls'[s].edit = settingCalls'[s].rule
  BY <1>1, <1>2, RequestsStep
<1> QED BY <1>3, SettingsTypes0, SettingsSettled

LEMMA AskOnTabStep ==
  ASSUME SettingsIInv, NEW tab \in SettingTabs, NEW allowed,
         NEW op \in {"delete", "member", "scan", "status"}, AskOnTab(tab, op, allowed)
  PROVE  SettingsIInv'
<1>1. /\ Free(settingCalls) # {} /\ settingCalls' = Send(settingCalls, AskSetting(op, tab))
      /\ submitting' = submitting /\ op \notin SubmitOps
      /\ UNCHANGED <<settingsTab, settingsAdmin, settingsAt, flash, flashTimers, pushing, rules, dialogVars>>
  BY DEF AskOnTab, SettingsOther, flashVars, SubmitOps
<1> QED BY <1>1, AskStep, SettingsTypes0

LEMMA SubmitOnTabStep ==
  ASSUME SettingsIInv, NEW tab \in {"profile", "sync"}, SubmitOnTab(tab)
  PROVE  SettingsIInv'
<1>1. /\ Free(settingCalls) # {} /\ settingCalls' = Send(settingCalls, AskSetting(tab, tab))
      /\ ~submitting /\ submitting' = TRUE /\ tab \in SubmitOps /\ tab \in SettingTabs
      /\ UNCHANGED <<settingsTab, settingsAdmin, settingsAt, flash, flashTimers, pushing, rules, dialogVars>>
  BY DEF SubmitOnTab, SettingsOther, flashVars, SubmitOps, SettingTabs
<1> QED BY <1>1, AskStep, SettingsTypes0

LEMMA SelectTabStep == ASSUME SettingsIInv, SelectTab PROVE SettingsIInv'
<1>1. PICK t \in SettingTabs \ {settingsTab} :
        /\ settingsTab' = t
        /\ IF ListingOf(t) = "nothing"
             THEN UNCHANGED settingCalls
             ELSE Free(settingCalls) # {} /\ settingCalls' = Send(settingCalls, AskSetting(ListingOf(t), t))
  BY DEF SelectTab
<1>2. UNCHANGED <<settingsAdmin, settingsAt, flash, flashTimers, submitting, pushing, rules, dialogVars>>
  BY DEF SelectTab, flashVars
<1>3. CASE ListingOf(t) = "nothing"
  BY <1>1, <1>2, <1>3, RequestsStay, SettingsTypes0, SettingsSettled
<1>4. CASE ListingOf(t) # "nothing"
  <2>1. ListingOf(t) \in {"list", "status"}
    BY <1>4, Zenon DEF ListingOf
  <2>2. ListingOf(t) \notin SubmitOps
    BY <2>1 DEF SubmitOps
  <2> QED BY <1>1, <1>2, <1>4, <2>1, <2>2, AskStep, SettingsTypes0
<1> QED BY <1>3, <1>4

LEMMA PushAgentStep == ASSUME SettingsIInv, PushAgent PROVE SettingsIInv'
<1>1. /\ Free(settingCalls) # {} /\ settingCalls' = Send(settingCalls, AskSetting("push", "daemon"))
      /\ submitting' = submitting /\ "push" \notin SubmitOps /\ "daemon" \in SettingTabs
      /\ pushing' \in BOOLEAN
      /\ UNCHANGED <<settingsTab, settingsAdmin, settingsAt, flash, flashTimers, rules, dialogVars>>
  BY DEF PushAgent, flashVars, SubmitOps, SettingTabs
<1> QED BY <1>1, AskStep, SettingsTypes0

\* An answer, after which the list or the state may be asked for.
LEMMA AnswerSettles ==
  ASSUME SettingsIInv, NEW s \in SettingSlots, settingCalls[s] # None,
         \/ settingCalls' = Answered(settingCalls, s)
         \/ settingCalls' = FollowedBy(s, "list") \/ settingCalls' = FollowedBy(s, "status"),
         \/ settingCalls[s].op \in SubmitOps /\ submitting' = FALSE
         \/ settingCalls[s].op \notin SubmitOps /\ submitting' = submitting
  PROVE  /\ settingCalls' \in [SettingSlots -> SettingCall \cup {None}]
         /\ submitting' \in BOOLEAN /\ SubmitAlone'
         /\ \A t \in SettingSlots :
              OpPending(t, {"submit"})' => settingCalls'[t].edit = settingCalls'[t].rule
<1> DEFINE kind == settingCalls[s].kind
           op == IF settingCalls' = FollowedBy(s, "status") THEN "status" ELSE "list"
           c == AskSetting(op, kind)
<1>1. kind \in SettingTabs
  BY DEF SettingsIInv, SettingsTypeOK, SettingCall
<1>2. c \in SettingCall /\ c.op = op /\ c.edit = c.rule
  BY <1>1, AskType
<1>3. c.op \notin SubmitOps /\ c.op # "submit"
  BY <1>2 DEF SubmitOps
<1>4. \/ settingCalls' = Answered(settingCalls, s)
      \/ settingCalls' = [settingCalls EXCEPT ![s] = c]
  BY DEF FollowedBy
<1>5. SubmitAt(s) <=> settingCalls[s].op \in SubmitOps
  BY DEF SubmitAt
<1> HIDE DEF c, SubmitOps
<1> QED BY <1>2, <1>3, <1>4, <1>5, RequestsStep

LEMMA SubmitAnsweredStep ==
  ASSUME SettingsIInv, NEW s \in SettingSlots, SubmitAnswered(s)
  PROVE  SettingsIInv'
<1>1. /\ settingCalls[s] # None /\ settingCalls[s].op \in SubmitOps /\ submitting' = FALSE
      /\ \/ settingCalls' = FollowedBy(s, "list") \/ settingCalls' = Answered(settingCalls, s)
      /\ ShowFlash("success") \/ ShowFlash("error")
      /\ UNCHANGED <<settingsTab, settingsAdmin, settingsAt, pushing, rules, ruleForm>>
  BY DEF SubmitAnswered, OpPending, SubmitOps
<1>2. /\ settingCalls' \in [SettingSlots -> SettingCall \cup {None}]
      /\ submitting' \in BOOLEAN /\ SubmitAlone'
      /\ \A t \in SettingSlots :
           OpPending(t, {"submit"})' => settingCalls'[t].edit = settingCalls'[t].rule
  BY <1>1, AnswerSettles
<1>3. flash' \subseteq FlashKinds /\ flashTimers' \in [FlashKinds -> 0..MaxFlash]
  BY <1>1, FlashShown DEF FlashKinds
<1>4. \/ UNCHANGED dialogVars
      \/ /\ dialog' = [dialog EXCEPT ![settingCalls[s].kind] = FALSE]
         /\ editingRule' = [editingRule EXCEPT ![settingCalls[s].kind] = None]
  BY DEF SubmitAnswered, SubmitSucceeds, dialogVars
<1>5. CASE UNCHANGED dialogVars
  BY <1>1, <1>2, <1>3, <1>5, SettingsTypes0, SettingsSettled
<1>6. CASE /\ dialog' = [dialog EXCEPT ![settingCalls[s].kind] = FALSE]
           /\ editingRule' = [editingRule EXCEPT ![settingCalls[s].kind] = None]
  <2>1. dialog' \in [RuleKinds -> BOOLEAN] /\ editingRule' \in [RuleKinds -> RuleIds \cup {None}]
    BY <1>6, SettingsTypes0
  <2>2. \A k \in RuleKinds : dialog'[k] => dialog[k] /\ editingRule'[k] = editingRule[k]
    BY <1>6, SettingsTypes0
  <2>3. \A k \in RuleKinds : dialog'[k] => editingRule'[k] = ruleForm'[k]
    BY <1>1, <2>2, SettingsTypes0
  <2> QED BY <1>1, <1>2, <1>3, <2>1, <2>3, SettingsTypes0, SettingsSettled
<1> QED BY <1>4, <1>5, <1>6

LEMMA OtherAnsweredStep ==
  ASSUME SettingsIInv, NEW s \in SettingSlots,
         TabAnswered(s) \/ ChangeAnswered(s) \/ PushAnswered(s) \/ ListAnswered(s)
  PROVE  SettingsIInv'
<1>1. /\ settingCalls[s] # None
      /\ \/ settingCalls' = Answered(settingCalls, s)
         \/ settingCalls' = FollowedBy(s, "list") \/ settingCalls' = FollowedBy(s, "status")
      /\ \/ settingCalls[s].op \in SubmitOps /\ submitting' = FALSE
         \/ settingCalls[s].op \notin SubmitOps /\ submitting' = submitting
  BY DEF TabAnswered, ChangeAnswered, PushAnswered, ListAnswered, OpPending, SubmitOps
<1>2. /\ settingCalls' \in [SettingSlots -> SettingCall \cup {None}]
      /\ submitting' \in BOOLEAN /\ SubmitAlone'
      /\ \A t \in SettingSlots :
           OpPending(t, {"submit"})' => settingCalls'[t].edit = settingCalls'[t].rule
  BY <1>1, AnswerSettles
<1>3. /\ UNCHANGED <<settingsTab, settingsAdmin, settingsAt, dialogVars>>
      /\ pushing' = pushing \/ pushing' = FALSE
      /\ (\E f \in FlashKinds : ShowFlash(f)) \/ UNCHANGED <<flash, flashTimers>>
  BY DEF TabAnswered, ChangeAnswered, PushAnswered, ListAnswered, flashVars, FlashKinds
<1>4. flash' \subseteq FlashKinds /\ flashTimers' \in [FlashKinds -> 0..MaxFlash]
  BY <1>3, FlashShown, SettingsTypes0
<1>5. rules' \in [RuleKinds -> SUBSET RuleIds]
  <2>1. CASE ListAnswered(s)
    <3>1. rules' = rules \/ \E k \in RuleKinds, ids \in SUBSET RuleIds : rules' = [rules EXCEPT ![k] = ids]
      BY <2>1 DEF ListAnswered
    <3> QED BY <3>1, SettingsTypes0
  <2>2. CASE TabAnswered(s) \/ ChangeAnswered(s) \/ PushAnswered(s)
    BY <2>2, SettingsTypes0 DEF TabAnswered, ChangeAnswered, PushAnswered
  <2> QED BY <2>1, <2>2
<1>6. pushing' \in BOOLEAN
  BY <1>3, SettingsTypes0
<1> QED BY <1>2, <1>3, <1>4, <1>5, <1>6, SettingsTypes0, SettingsSettled

LEMMA SettingsStep == SettingsIInv /\ [SettingsNext]_settingsVars => SettingsIInv'
<1> SUFFICES ASSUME SettingsIInv, [SettingsNext]_settingsVars PROVE SettingsIInv'
  OBVIOUS
<1>1. CASE SelectTab \/ FlashTimeout \/ PasswordMismatch \/ CloseDialog \/ PushAgent
  BY <1>1, SelectTabStep, FlashStep, CloseDialogStep, PushAgentStep
<1>2. CASE OpenBudgetEdit \/ OpenBudgetCreate \/ OpenAlertEdit \/ OpenAlertCreate
  <2>1. rules["budgets"] \subseteq RuleIds /\ rules["alerts"] \subseteq RuleIds
    BY SettingsTypes0 DEF RuleKinds
  <2>2. \E k \in RuleKinds, id \in RuleIds \cup {None} : OpenRule(k, id)
    BY <1>2, <2>1 DEF OpenBudgetEdit, OpenBudgetCreate, OpenAlertEdit, OpenAlertCreate, RuleKinds
  <2> QED BY <2>2, OpenRuleStep
<1>3. CASE BudgetSubmit \/ AlertSubmit
  BY <1>3, SubmitRuleStep DEF BudgetSubmit, AlertSubmit, RuleKinds
<1>4. CASE DeleteBudget \/ DeleteAlert \/ RunAnomalyScan \/ ChangeMember \/ PollAgent
  <2>1. {"budgets", "alerts", "team", "daemon"} \subseteq SettingTabs
    BY DEF SettingTabs
  <2>2. CASE DeleteBudget
    BY <2>1, <2>2, AskOnTabStep DEF DeleteBudget
  <2>3. CASE DeleteAlert
    BY <2>1, <2>3, AskOnTabStep DEF DeleteAlert
  <2>4. CASE RunAnomalyScan
    BY <2>1, <2>4, AskOnTabStep DEF RunAnomalyScan
  <2>5. CASE ChangeMember
    BY <2>1, <2>5, AskOnTabStep DEF ChangeMember
  <2>6. CASE PollAgent
    BY <2>1, <2>6, AskOnTabStep DEF PollAgent
  <2> QED BY <1>4, <2>2, <2>3, <2>4, <2>5, <2>6
<1>5. CASE UpdateProfile \/ TriggerSync
  BY <1>5, SubmitOnTabStep DEF UpdateProfile, TriggerSync
<1>6. ASSUME NEW s \in SettingSlots,
             \/ SubmitAnswered(s) \/ TabAnswered(s) \/ ChangeAnswered(s)
             \/ PushAnswered(s) \/ ListAnswered(s)
      PROVE  SettingsIInv'
  BY <1>6, SubmitAnsweredStep, OtherAnsweredStep
<1>7. CASE OpenTeamModal \/ LeaveSettings \/ EnterSettings
  BY <1>7, SettingsResetStep DEF OpenTeamModal, LeaveSettings, EnterSettings
<1>8. CASE UNCHANGED settingsVars
  BY <1>8 DEF settingsVars, SettingsIInv, SettingsTypeOK, RuleFormConsistent, SubmitAlone,
              SubmitAt, OpPending
<1> QED BY <1>1, <1>2, <1>3, <1>4, <1>5, <1>6, <1>7, <1>8 DEF SettingsNext

LEMMA SettingsInitIInv == SettingsInit => SettingsIInv
<1> SUFFICES ASSUME SettingsInit PROVE SettingsIInv
  OBVIOUS
<1>1. 0 \in 0..MaxFlash /\ "profile" \in SettingTabs
  BY SettingsAssumption DEF SettingTabs
<1>2. SettingsTypeOK
  BY <1>1 DEF SettingsInit, SettingsTypeOK
<1>3. RuleFormConsistent /\ SubmitAlone
  BY DEF SettingsInit, RuleFormConsistent, OpPending, SubmitAlone, SubmitAt
<1> QED BY <1>2, <1>3 DEF SettingsIInv

LEMMA SettingsInvariance == SettingsSpec => []SettingsIInv
BY SettingsInitIInv, SettingsStep, PTL DEF SettingsSpec

\* Types of the settings page's tabs, dialogs and requests.
THEOREM SettingsTypes == SettingsSpec => []SettingsTypeOK
<1>1. SettingsIInv => SettingsTypeOK
  BY DEF SettingsIInv
<1> QED BY <1>1, SettingsInvariance, PTL

\* A dialog, and every submission under way, edits the rule its form was filled
\* from (openEditBudget, handleBudgetSubmit and those of the alerts).
THEOREM RuleForms == SettingsSpec => []RuleFormConsistent
<1>1. SettingsIInv => RuleFormConsistent
  BY DEF SettingsIInv
<1> QED BY <1>1, SettingsInvariance, PTL

\* One submission at a time, whichever dialog or tab it came from, and the
\* flag all of them share says so.
THEOREM SubmitsAlone == SettingsSpec => []OneSubmission
<1>1. SettingsIInv => OneSubmission
  <2> SUFFICES ASSUME SettingsIInv PROVE OneSubmission
    OBVIOUS
  <2>1. Submissions = {s \in SettingSlots : SubmitAt(s)}
    BY DEF Submissions, OpPending, SubmitAt, SubmitOps
  <2>2. \A s, t \in Submissions : s = t
    BY <2>1 DEF SettingsIInv, SubmitAlone
  <2>3. submitting <=> Submissions # {}
    BY <2>1 DEF SettingsIInv, SubmitAlone
  <2>4. Cardinality(Submissions) <= 1
    <3>1. CASE Submissions = {}
      BY <3>1, FS_EmptySet
    <3>2. ASSUME NEW s \in Submissions PROVE Cardinality(Submissions) <= 1
      <4>1. Submissions = {s}
        BY <2>2, <3>2
      <4>2. Cardinality({s}) = 1
        BY FS_Singleton
      <4> HIDE DEF Submissions
      <4> QED BY <4>1, <4>2
    <3> QED BY <3>1, <3>2
  <2> QED BY <2>3, <2>4 DEF OneSubmission
<1> QED BY <1>1, SettingsInvariance, PTL

\* A message that is shown has a timer that takes it down.
FlashTimed == \A f \in flash : flashTimers[f] > 0

LEMMA FlashTimedStep == SettingsIInv /\ FlashTimed /\ [SettingsNext]_settingsVars => FlashTimed'
<1>. SUFFICES ASSUME SettingsIInv, FlashTimed, [SettingsNext]_settingsVars PROVE FlashTimed'
  OBVIOUS
<1>0. flash \subseteq FlashKinds /\ flashTimers \in [FlashKinds -> 0..MaxFlash] /\ MaxFlash \in Nat
  BY SettingsTypes0, SettingsAssumption
<1>1. ASSUME UNCHANGED flashVars PROVE FlashTimed'
  BY <1>1 DEF flashVars, FlashTimed
<1>2. ASSUME NEW f \in FlashKinds, ShowFlash(f) PROVE FlashTimed'
  <2>1. /\ flash' = flash \cup {f} /\ flashTimers'[f] > 0
        /\ \A g \in FlashKinds \ {f} : flashTimers'[g] = flashTimers[g]
    BY <1>0, <1>2 DEF ShowFlash
  <2>. QED BY <1>0, <2>1 DEF FlashTimed
<1>3. CASE FlashTimeout
  <2>1. PICK f \in FlashKinds : flash' = flash \ {f} /\ flashTimers' = [flashTimers EXCEPT ![f] = @ - 1]
    BY <1>3 DEF FlashTimeout
  <2>2. \A g \in FlashKinds \ {f} : flashTimers'[g] = flashTimers[g]
    BY <1>0, <2>1
  <2>. QED BY <1>0, <2>1, <2>2 DEF FlashTimed
<1>4. ASSUME NEW at, SettingsReset(at) PROVE FlashTimed'
  BY <1>4 DEF SettingsReset, FlashTimed
<1>5. CASE \/ SelectTab \/ OpenBudgetEdit \/ OpenBudgetCreate \/ OpenAlertEdit \/ OpenAlertCreate
           \/ CloseDialog \/ BudgetSubmit \/ AlertSubmit \/ DeleteBudget \/ DeleteAlert
           \/ RunAnomalyScan \/ ChangeMember \/ PollAgent \/ UpdateProfile \/ TriggerSync \/ PushAgent
           \/ UNCHANGED settingsVars
  <2>1. UNCHANGED flashVars
    BY <1>5 DEF SelectTab, OpenBudgetEdit, OpenBudgetCreate, OpenAlertEdit, OpenAlertCreate, OpenRule,
         CloseDialog, BudgetSubmit, AlertSubmit, SubmitRule, DeleteBudget, DeleteAlert, RunAnomalyScan,
         ChangeMember, PollAgent, AskOnTab, UpdateProfile, TriggerSync, SubmitOnTab, PushAgent,
         SettingsOther, settingsVars, flashVars
  <2>. QED BY <1>1, <2>1
<1>6. CASE OpenTeamModal \/ LeaveSettings \/ EnterSettings
  BY <1>4, <1>6 DEF OpenTeamModal, LeaveSettings, EnterSettings
<1>7. CASE PasswordMismatch
  BY <1>2, <1>7 DEF PasswordMismatch, FlashKinds
<1>8. ASSUME NEW s \in SettingSlots,
             \/ SubmitAnswered(s) \/ TabAnswered(s) \/ ChangeAnswered(s) \/ PushAnswered(s) \/ ListAnswered(s)
      PROVE  FlashTimed'
  <2>1. (\E f \in FlashKinds : ShowFlash(f)) \/ UNCHANGED flashVars
    BY <1>8 DEF SubmitAnswered, TabAnswered, ChangeAnswered, PushAnswered, ListAnswered, FlashKinds
  <2>. QED BY <1>1, <1>2, <2>1
<1>. QED BY <1>3, <1>5, <1>6, <1>7, <1>8 DEF SettingsNext

PushAwaited == pushing => \E s \in SettingSlots : OpPending(s, {"push"})

LEMMA PushAwaitedStep == SettingsIInv /\ PushAwaited /\ [SettingsNext]_settingsVars => PushAwaited'
<1>. SUFFICES ASSUME SettingsIInv, PushAwaited, [SettingsNext]_settingsVars PROVE PushAwaited'
  OBVIOUS
<1>. DEFINE Pushes(s) == settingCalls[s] # None /\ settingCalls[s].op = "push"
<1>0. /\ settingCalls \in [SettingSlots -> SettingCall \cup {None}]
      /\ (pushing => \E s \in SettingSlots : Pushes(s))
  BY SettingsTypes0 DEF PushAwaited, OpPending
<1>. HIDE DEF SettingCall
<1>1. ASSUME pushing' => \E s \in SettingSlots : Pushes(s)'
      PROVE  PushAwaited'
  BY <1>1 DEF PushAwaited, OpPending
<1>2. ASSUME UNCHANGED <<pushing, settingCalls>> PROVE PushAwaited'
  BY <1>0, <1>1, <1>2
<1>3. ASSUME NEW c \in SettingCall, Free(settingCalls) # {}, settingCalls' = Send(settingCalls, c),
             pushing' = pushing \/ c.op = "push"
      PROVE  PushAwaited'
  <2>1. /\ \A s \in Waiting(settingCalls) : s \in Waiting(settingCalls') /\ settingCalls'[s] = settingCalls[s]
        /\ \E s \in Waiting(settingCalls') : settingCalls'[s] = c
        /\ DOMAIN settingCalls' = SettingSlots
    BY <1>0, <1>3, SettingsAssumption, SendWaiting
  <2>2. \A s \in SettingSlots : Pushes(s) => Pushes(s)'
    BY <1>0, <2>1 DEF Waiting
  <2>3. \E s \in SettingSlots : settingCalls'[s] # None /\ settingCalls'[s] = c
    BY <2>1 DEF Waiting
  <2>. QED BY <1>0, <1>1, <1>3, <2>2, <2>3
<1>4. CASE \/ FlashTimeout \/ OpenBudgetEdit \/ OpenBudgetCreate \/ OpenAlertEdit \/ OpenAlertCreate
           \/ CloseDialog \/ PasswordMismatch \/ UNCHANGED settingsVars
  <2>1. UNCHANGED <<pushing, settingCalls>>
    BY <1>4 DEF FlashTimeout, OpenBudgetEdit, OpenBudgetCreate, OpenAlertEdit, OpenAlertCreate, OpenRule,
         CloseDialog, PasswordMismatch, SettingsOther, settingsVars
  <2>. QED BY <1>2, <2>1
<1>5. CASE SelectTab
  <2>1. PICK t \in SettingTabs :
          IF ListingOf(t) = "nothing"
            THEN UNCHANGED settingCalls
            ELSE Free(settingCalls) # {} /\ settingCalls' = Send(settingCalls, AskSetting(ListingOf(t), t))
    BY <1>5 DEF SelectTab
  <2>2. pushing' = pushing
    BY <1>5 DEF SelectTab
  <2>3. ListingOf(t) \in {"list", "status", "nothing"}
    BY DEF ListingOf
  <2>4. ListingOf(t) # "nothing" => AskSetting(ListingOf(t), t) \in SettingCall
    BY <2>3, AskType
  <2>. QED BY <1>2, <1>3, <2>1, <2>2, <2>4
<1>6. ASSUME NEW k \in RuleKinds, SubmitRule(k) PROVE PushAwaited'
  <2>. DEFINE c == [op |-> "submit", kind |-> k, edit |-> editingRule[k], rule |-> ruleForm[k]]
  <2>1. c \in SettingCall
    BY SettingsTypes0 DEF SettingCall, SettingTabs, RuleKinds
  <2>2. /\ Free(settingCalls) # {} /\ settingCalls' = Send(settingCalls, c) /\ pushing' = pushing
    BY <1>6 DEF SubmitRule, SettingsOther
  <2>. HIDE DEF c
  <2>. QED BY <1>3, <2>1, <2>2
<1>7. ASSUME NEW tab \in SettingTabs, NEW op \in {"delete", "member", "scan", "status"}, NEW allowed,
             AskOnTab(tab, op, allowed)
      PROVE  PushAwaited'
  BY <1>3, <1>7, AskType DEF AskOnTab, SettingsOther
<1>8. ASSUME NEW tab \in {"profile", "sync"}, SubmitOnTab(tab) PROVE PushAwaited'
  <2>1. AskSetting(tab, tab) \in SettingCall
    BY AskType DEF SettingTabs
  <2>. QED BY <1>3, <1>8, <2>1 DEF SubmitOnTab, SettingsOther
<1>9. CASE PushAgent
  <2>1. AskSetting("push", "daemon") \in SettingCall /\ AskSetting("push", "daemon").op = "push"
    BY AskType DEF SettingTabs
  <2>2. /\ Free(settingCalls) # {} /\ settingCalls' = Send(settingCalls, AskSetting("push", "daemon"))
        /\ pushing' = TRUE
    BY <1>9 DEF PushAgent
  <2>. QED BY <1>1, <2>1, <2>2, <1>0, SettingsAssumption, SendWaiting DEF Waiting
<1>10. CASE \/ BudgetSubmit \/ AlertSubmit \/ DeleteBudget \/ DeleteAlert \/ RunAnomalyScan \/ ChangeMember
            \/ PollAgent \/ UpdateProfile \/ TriggerSync
  BY <1>6, <1>7, <1>8, <1>10 DEF BudgetSubmit, AlertSubmit, DeleteBudget, DeleteAlert, RunAnomalyScan,
     ChangeMember, PollAgent, UpdateProfile, TriggerSync, RuleKinds, SettingTabs
<1>11. ASSUME NEW s \in SettingSlots,
             SubmitAnswered(s) \/ TabAnswered(s) \/ ChangeAnswered(s) \/ PushAnswered(s) \/ ListAnswered(s)
       PROVE  PushAwaited'
  <2>1. \A t \in SettingSlots \ {s} : settingCalls'[t] = settingCalls[t]
    BY <1>0, <1>11 DEF SubmitAnswered, TabAnswered, ChangeAnswered, PushAnswered, ListAnswered, FollowedBy, Answered
  <2>2. (pushing' = pushing /\ ~Pushes(s)) \/ pushing' = FALSE
    BY <1>11 DEF SubmitAnswered, TabAnswered, ChangeAnswered, PushAnswered, ListAnswered, OpPending
  <2>. QED BY <1>0, <1>1, <2>1, <2>2
<1>12. CASE OpenTeamModal \/ LeaveSettings \/ EnterSettings
  BY <1>12 DEF OpenTeamModal, LeaveSettings, EnterSettings, SettingsReset, PushAwaited
<1>. QED BY <1>4, <1>5, <1>9, <1>10, <1>11, <1>12 DEF SettingsNext

\* The agent's button is given back, and showSuccess and showError leave no
\* message without a timer.
THEOREM SettingsReleased == SettingsSpec => []SettingsReleases
<1>1. SettingsInit => FlashTimed /\ PushAwaited
  BY DEF SettingsInit, FlashTimed, PushAwaited
<1>2. FlashTimed /\ PushAwaited => SettingsReleases
  BY DEF FlashTimed, PushAwaited, SettingsReleases
<1>. QED BY <1>1, <1>2, FlashTimedStep, PushAwaitedStep, SettingsInitIInv, SettingsStep, PTL DEF SettingsSpec

-----------------------------------------------------------------------------
(* The query studio                                                        *)

AllFit(list, service) == \A i \in DOMAIN list : Fits(list[i], service)

\* What is built for a service compiles, at every moment it could be sent.
BuiltFits ==
  serviceKey # None =>
    /\ selectedColumns \subseteq ColumnsOf(serviceKey)
    /\ AllFit(conditions, serviceKey)
    /\ orderBy \in ColumnsOf(serviceKey) \cup {None}

QueryIInv == QueryTypeOK /\ BuiltFits /\ QueryCompiles /\ QueryReleases

\* The first condition offered for a column, and another operator for one.
LEMMA InitiallyFits ==
  ASSUME NEW c \in ColumnsOf(serviceKey), serviceKey \in Services
  PROVE  Initially(c) \in QueryCondition /\ Fits(Initially(c), serviceKey)
BY QueryAssumption DEF Initially, QueryCondition, Fits, Columns

LEMMA OtherOperatorFits ==
  ASSUME NEW v \in Services, NEW d \in QueryCondition, Fits(d, v), NEW o \in Operators[ColumnTypes[v][d.column]]
  PROVE  [d EXCEPT !.operator = o] \in QueryCondition /\ Fits([d EXCEPT !.operator = o], v)
BY QueryAssumption DEF QueryCondition, Fits

\* Steps of the builder: what is sent, and what is shown, stay.
LEMMA BuilderStep ==
  ASSUME QueryIInv, UNCHANGED <<catalog, queryAccounts, accountId, serviceKey, running, queryCall>>,
         result' \in {result, None}, serviceKey \in Services,
         selectedColumns' \subseteq ColumnsOf(serviceKey),
         conditions' \in Seq(QueryCondition), Len(conditions') <= MaxConditions,
         AllFit(conditions', serviceKey),
         orderBy' \in ColumnsOf(serviceKey) \cup {None}
  PROVE  QueryIInv'
<1>1. ColumnsOf(serviceKey) \subseteq Columns
  BY DEF Columns
<1>2. QueryTypeOK'
  BY <1>1 DEF QueryIInv, QueryTypeOK
<1>3. BuiltFits' /\ QueryCompiles' /\ QueryReleases'
  BY DEF QueryIInv, BuiltFits, QueryCompiles, QueryReleases
<1>. QED BY <1>2, <1>3 DEF QueryIInv

LEMMA BuildingStep ==
  ASSUME QueryIInv,
         ApplyRecipe \/ ChooseColumns \/ AddCondition \/ ChangeCondition \/ RemoveCondition \/ SortBy
  PROVE  QueryIInv'
<1>. HIDE DEF QueryCondition
<1>1. /\ serviceKey # None /\ serviceKey \in Services
      /\ selectedColumns \subseteq ColumnsOf(serviceKey) /\ AllFit(conditions, serviceKey)
      /\ orderBy \in ColumnsOf(serviceKey) \cup {None}
      /\ conditions \in Seq(QueryCondition) /\ Len(conditions) <= MaxConditions /\ MaxConditions \in Nat
  BY QueryAssumption
     DEF QueryIInv, BuiltFits, QueryTypeOK, Building, ApplyRecipe, ChooseColumns, AddCondition,
         ChangeCondition, RemoveCondition, SortBy
<1>2. DefaultsOf[serviceKey] \subseteq ColumnsOf(serviceKey) /\ FirstColumn[serviceKey] \in ColumnsOf(serviceKey)
  BY <1>1, QueryAssumption
<1>3. CASE ApplyRecipe
  <2>1. PICK r \in Recipes : r.service = serviceKey /\ conditions' = r.conditions
    BY <1>3 DEF ApplyRecipe
  <2>2. conditions' \in Seq(QueryCondition) /\ Len(conditions') <= MaxConditions /\ AllFit(conditions', serviceKey)
    BY <1>1, <2>1, QueryAssumption DEF AllFit
  <2>. QED BY <1>1, <1>2, <1>3, <2>2, BuilderStep DEF ApplyRecipe
<1>4. CASE ChooseColumns
  <2>1. selectedColumns' \subseteq ColumnsOf(serviceKey)
    BY <1>1, <1>2, <1>4 DEF ChooseColumns
  <2>. QED BY <1>1, <1>4, <2>1, BuilderStep DEF ChooseColumns, BuilderOther
<1>5. CASE AddCondition
  <2>. DEFINE d == Initially(FirstColumn[serviceKey])
  <2>1. d \in QueryCondition /\ Fits(d, serviceKey)
    BY <1>1, <1>2, InitiallyFits
  <2>2. conditions' = Append(conditions, d) /\ Len(conditions) < MaxConditions
    BY <1>5 DEF AddCondition
  <2>. HIDE DEF d
  <2>3. /\ conditions' \in Seq(QueryCondition) /\ Len(conditions') = Len(conditions) + 1
        /\ \A i \in 1..Len(conditions) : conditions'[i] = conditions[i]
        /\ conditions'[Len(conditions) + 1] = d
    BY <1>1, <2>1, <2>2, AppendProperties
  <2>4. AllFit(conditions', serviceKey)
    BY <1>1, <2>1, <2>3 DEF AllFit
  <2>5. Len(conditions') <= MaxConditions
    BY <1>1, <2>2, <2>3
  <2>. QED BY <1>1, <1>5, <2>3, <2>4, <2>5, BuilderStep DEF AddCondition, BuilderOther
<1>6. CASE ChangeCondition
  <2>1. PICK i \in DOMAIN conditions :
          \/ \E c \in ColumnsOf(serviceKey) : conditions' = [conditions EXCEPT ![i] = OtherColumn(@, c)]
          \/ \E o \in Operators[ColumnTypes[serviceKey][conditions[i].column]] :
               conditions' = [conditions EXCEPT ![i].operator = o]
    BY <1>6 DEF ChangeCondition
  <2>2. conditions[i] \in QueryCondition /\ Fits(conditions[i], serviceKey)
    BY <1>1, <2>1 DEF AllFit
  <2>3. PICK d \in QueryCondition : Fits(d, serviceKey) /\ conditions' = [conditions EXCEPT ![i] = d]
    <3>1. ASSUME NEW c \in ColumnsOf(serviceKey), conditions' = [conditions EXCEPT ![i] = OtherColumn(@, c)]
          PROVE  \E d \in QueryCondition : Fits(d, serviceKey) /\ conditions' = [conditions EXCEPT ![i] = d]
      BY <1>1, <3>1, InitiallyFits DEF OtherColumn
    <3>2. ASSUME NEW o \in Operators[ColumnTypes[serviceKey][conditions[i].column]],
                 conditions' = [conditions EXCEPT ![i].operator = o]
          PROVE  \E d \in QueryCondition : Fits(d, serviceKey) /\ conditions' = [conditions EXCEPT ![i] = d]
      <4>. DEFINE d == [conditions[i] EXCEPT !.operator = o]
      <4>1. d \in QueryCondition /\ Fits(d, serviceKey)
        BY <1>1, <2>2, OtherOperatorFits
      <4>2. conditions' = [conditions EXCEPT ![i] = d]
        BY <3>2
      <4>. QED BY <4>1, <4>2
    <3>. QED BY <2>1, <3>1, <3>2
  <2>4. conditions' \in Seq(QueryCondition) /\ Len(conditions') = Len(conditions) /\ AllFit(conditions', serviceKey)
    <3>1. i \in 1..Len(conditions) /\ DOMAIN conditions = 1..Len(conditions)
      BY <1>1, LenProperties
    <3>2. /\ conditions' \in Seq(QueryCondition) /\ Len(conditions') = Len(conditions)
          /\ \A j \in 1..Len(conditions) : conditions'[j] = IF j = i THEN d ELSE conditions[j]
      BY <1>1, <2>3, <3>1, ExceptSeq
    <3>3. DOMAIN conditions' = 1..Len(conditions)
      BY <3>2, LenProperties
    <3>. QED BY <1>1, <2>3, <3>1, <3>2, <3>3 DEF AllFit
  <2>5. Len(conditions') <= MaxConditions
    BY <1>1, <2>4
  <2>. QED BY <1>1, <1>6, <2>4, <2>5, BuilderStep DEF ChangeCondition, BuilderOther
<1>7. CASE RemoveCondition
  <2>1. PICK i \in DOMAIN conditions : conditions' = RemoveAt(conditions, i)
    BY <1>7 DEF RemoveCondition
  <2>2. /\ conditions' \in Seq(QueryCondition) /\ Len(conditions') = Len(conditions) - 1
        /\ \A j \in DOMAIN conditions' :
             LET k == IF j < i THEN j ELSE j + 1 IN k \in DOMAIN conditions \ {i} /\ conditions'[j] = conditions[k]
    BY <1>1, <2>1, ElementRemoved
  <2>3. AllFit(conditions', serviceKey)
    BY <1>1, <2>2 DEF AllFit
  <2>4. Len(conditions') <= MaxConditions
    BY <1>1, <2>2, LenProperties
  <2>. QED BY <1>1, <1>7, <2>2, <2>3, <2>4, BuilderStep DEF RemoveCondition, BuilderOther
<1>8. CASE SortBy
  <2>1. orderBy' \in ColumnsOf(serviceKey) \cup {None}
    BY <1>1, <1>8 DEF SortBy
  <2>. QED BY <1>1, <1>8, <2>1, BuilderStep DEF SortBy, BuilderOther
<1>. QED BY <1>3, <1>4, <1>5, <1>6, <1>7, <1>8

LEMMA SelectServiceStep == ASSUME QueryIInv, SelectService PROVE QueryIInv'
<1>1. PICK v \in Services : serviceKey' = v /\ BuilderReset(v)
  BY DEF SelectService
<1>2. selectedColumns' \subseteq ColumnsOf(v) /\ conditions' = <<>> /\ orderBy' = None
  BY <1>1, QueryAssumption DEF BuilderReset
<1>3. BuiltFits' /\ selectedColumns' \subseteq Columns
  BY <1>1, <1>2 DEF BuiltFits, AllFit, Columns
<1>4. conditions' \in Seq(QueryCondition) /\ Len(conditions') <= MaxConditions
  BY <1>2, QueryAssumption
<1>. HIDE DEF Columns
<1>. QED BY <1>1, <1>2, <1>3, <1>4
     DEF SelectService, QueryIInv, QueryTypeOK, QueryCompiles, QueryReleases

\* Runs, answers, the account and the catalog leave the builder alone.
LEMMA BuilderStays ==
  ASSUME QueryIInv, UNCHANGED <<serviceKey, selectedColumns, conditions, orderBy>>,
         catalog' \in {"loading", "ready", "error", "failed"}, queryAccounts' \subseteq QueryAccounts,
         accountId' \in QueryAccounts \cup {None}, result' \in Services \cup {None},
         running' \in BOOLEAN, queryCall' \in QueryRequest \cup {None},
         queryCall' # None => Compiles(queryCall'), running' => queryCall' # None
  PROVE  QueryIInv'
<1>. HIDE DEF QueryRequest, Columns, QueryCondition
<1>1. QueryTypeOK'
  BY DEF QueryIInv, QueryTypeOK
<1>2. BuiltFits' /\ QueryCompiles' /\ QueryReleases'
  BY DEF QueryIInv, BuiltFits, QueryCompiles, QueryReleases
<1>. QED BY <1>1, <1>2 DEF QueryIInv

LEMMA RunsStep ==
  ASSUME QueryIInv, CatalogLoaded \/ ChooseAccount \/ RunQuery \/ QueryAnswered \/ UNCHANGED queryVars
  PROVE  QueryIInv'
<1>0. /\ QueryTypeOK /\ BuiltFits /\ QueryReleases
      /\ queryCall # None => Compiles(queryCall)
  BY DEF QueryIInv, QueryCompiles
<1>. HIDE DEF QueryRequest, Columns, QueryCondition
<1>1. CASE CatalogLoaded \/ ChooseAccount \/ UNCHANGED queryVars
  <2>1. /\ catalog' \in {"loading", "ready", "error", "failed"} /\ queryAccounts' \subseteq QueryAccounts
        /\ accountId' \in QueryAccounts \cup {None}
    BY <1>0, <1>1 DEF CatalogLoaded, ChooseAccount, queryVars, QueryTypeOK
  <2>2. UNCHANGED <<serviceKey, selectedColumns, conditions, orderBy, result, running, queryCall>>
    BY <1>1 DEF CatalogLoaded, ChooseAccount, queryVars
  <2>. QED BY <1>0, <2>1, <2>2, BuilderStays DEF QueryTypeOK, QueryReleases
<1>2. CASE RunQuery
  <2>1. serviceKey # None /\ serviceKey \in Services
    BY <1>0, <1>2 DEF RunQuery, Building, QueryTypeOK
  <2>2. SentQuery \in QueryRequest /\ Compiles(SentQuery)
    BY <1>0, <2>1 DEF SentQuery, QueryRequest, Compiles, QueryTypeOK, BuiltFits, AllFit
  <2>3. SentQuery # None
    BY <2>2, QueryAssumption
  <2>. HIDE DEF SentQuery
  <2>. QED BY <1>0, <1>2, <2>2, <2>3, BuilderStays DEF RunQuery, QueryTypeOK
<1>3. CASE QueryAnswered
  <2>1. result' \in Services \cup {None}
    BY <1>0, <1>3 DEF QueryAnswered, QueryTypeOK, QueryRequest
  <2>. QED BY <1>0, <1>3, <2>1, BuilderStays DEF QueryAnswered, QueryEnds, QueryTypeOK
<1>. QED BY <1>1, <1>2, <1>3

LEMMA QueryMounted ==
  /\ <<>> \in Seq(QueryCondition) /\ Len(<<>>) = 0 /\ Len(<<>>) <= MaxConditions
BY QueryAssumption

LEMMA RemountStudioStep == RemountStudio => QueryIInv'
BY QueryMounted DEF RemountStudio, QueryIInv, QueryTypeOK, BuiltFits, QueryCompiles, QueryReleases

LEMMA QueryInitIInv == QueryInit => QueryIInv
BY QueryMounted DEF QueryInit, QueryIInv, QueryTypeOK, BuiltFits, QueryCompiles, QueryReleases

LEMMA QueryNextIInv == QueryIInv /\ [QueryNext]_queryVars => QueryIInv'
BY BuildingStep, SelectServiceStep, RunsStep, RemountStudioStep DEF QueryNext

LEMMA QueryInvariance == QuerySpec => []QueryIInv
BY QueryInitIInv, QueryNextIInv, PTL DEF QuerySpec

\* The builder's state keeps its types.
THEOREM QueryTypes == QuerySpec => []QueryTypeOK
BY QueryInvariance, PTL DEF QueryIInv

\* selectService, the recipes, ConditionEditor and the order menu, in any order:
\* what runQuery sends is accepted by the backend's builder, for every catalog
\* whose recipes and defaults fit their services.
THEOREM QueriesCompile == QuerySpec => []QueryCompiles
BY QueryInvariance, PTL DEF QueryIInv

-----------------------------------------------------------------------------
(* The copilot                                                             *)

\* The conversation waits exactly while its last message is a question, whose
\* request is then the only one.
CopilotTurns ==
  /\ Len(messages) >= 1
  /\ IsFiniteSet(Questions) /\ Cardinality(Questions) = Len(messages) \div 2
  /\ thinking <=> Waiting(copilotCalls) # {}
  /\ ~thinking => Len(messages) % 2 = 1
  /\ \A s \in Waiting(copilotCalls) : Len(messages) = 2 * copilotCalls[s].question
  /\ \A s, t \in Waiting(copilotCalls) : s = t

CopilotIInv == CopilotTypeOK /\ CopilotConversation /\ CopilotTurns

Turn(i) == [role |-> IF i % 2 = 1 THEN "assistant" ELSE "user", about |-> i \div 2]

LEMMA Halves ==
  ASSUME NEW k \in Nat
  PROVE  /\ (2 * k) % 2 = 0 /\ (2 * k) \div 2 = k
         /\ (2 * k + 1) % 2 = 1 /\ (2 * k + 1) \div 2 = k
OBVIOUS

LEMMA OddHalf ==
  ASSUME NEW k \in Nat, k % 2 = 1
  PROVE  k \div 2 \in Nat /\ k = 2 * (k \div 2) + 1
OBVIOUS

\* A message is added: what was said stays, and the questions are one more if
\* it is one.
LEMMA MessageAdded ==
  ASSUME CopilotIInv, NEW m \in Message, messages' = Append(messages, m)
  PROVE  LET n == Len(messages) + 1 IN
         /\ messages' \in Seq(Message) /\ Len(messages') = n /\ messages'[n] = m
         /\ \A i \in DOMAIN messages : i \in DOMAIN messages' /\ messages'[i] = messages[i]
         /\ DOMAIN messages' = DOMAIN messages \cup {n} /\ n \notin DOMAIN messages
         /\ IsFiniteSet(Questions')
         /\ Cardinality(Questions') = Cardinality(Questions) + (IF m.role = "user" THEN 1 ELSE 0)
<1>. HIDE DEF Message
<1>. DEFINE n == Len(messages) + 1
<1>1. messages \in Seq(Message) /\ Len(messages) \in Nat /\ DOMAIN messages = 1..Len(messages)
  BY LenProperties DEF CopilotIInv, CopilotTypeOK
<1>2. /\ messages' \in Seq(Message) /\ Len(messages') = n /\ messages'[n] = m
      /\ \A i \in 1..Len(messages) : messages'[i] = messages[i]
  BY <1>1, AppendProperties
<1>3. DOMAIN messages' = 1..n
  BY <1>2, LenProperties
<1>4. DOMAIN messages' = DOMAIN messages \cup {n} /\ n \notin DOMAIN messages
  BY <1>1, <1>3
<1>5. Questions' = IF m.role = "user" THEN Questions \cup {n} ELSE Questions
  BY <1>1, <1>2, <1>4 DEF Questions
<1>6. IsFiniteSet(Questions) /\ n \notin Questions /\ Cardinality(Questions) \in Nat
  BY <1>4, FS_CardinalityType DEF CopilotIInv, CopilotTurns, Questions
<1>7. IsFiniteSet(Questions \cup {n}) /\ Cardinality(Questions \cup {n}) = Cardinality(Questions) + 1
  BY <1>6, FS_AddElement
<1>. HIDE DEF n
<1>8. /\ IsFiniteSet(Questions')
      /\ Cardinality(Questions') = Cardinality(Questions) + (IF m.role = "user" THEN 1 ELSE 0)
  BY <1>5, <1>6, <1>7
<1>. QED BY <1>1, <1>2, <1>4, <1>8 DEF n

LEMMA AskCopilotStep == ASSUME CopilotIInv, AskCopilot PROVE CopilotIInv'
<1>. DEFINE n == Cardinality(Questions) + 1
            m == [role |-> "user", about |-> n]
            c == [question |-> n, history |-> messages]
<1>0. CopilotTypeOK /\ CopilotConversation /\ CopilotTurns
  BY DEF CopilotIInv
<1>1. /\ ~thinking /\ n <= MaxQuestions /\ Free(copilotCalls) # {}
      /\ messages' = Append(messages, m) /\ thinking' = TRUE /\ copilotCalls' = Send(copilotCalls, c)
  BY DEF AskCopilot, MaySubmit
<1>2. messages \in Seq(Message) /\ Len(messages) \in Nat /\ DOMAIN messages = 1..Len(messages)
  BY <1>0, LenProperties DEF CopilotTypeOK
<1>3. Cardinality(Questions) \in Nat /\ Len(messages) = 2 * n - 1 /\ n \in 1..MaxQuestions
  <2>1. Cardinality(Questions) = Len(messages) \div 2 /\ Len(messages) % 2 = 1
    BY <1>0, <1>1 DEF CopilotTurns
  <2>2. Cardinality(Questions) \in Nat /\ Len(messages) = 2 * Cardinality(Questions) + 1
    BY <1>2, <2>1, OddHalf
  <2>3. Cardinality(Questions) + 1 <= MaxQuestions /\ MaxQuestions \in Nat
    BY <1>1, CopilotAssumption
  <2>. QED BY <2>2, <2>3
<1>4. m \in Message /\ c \in CopilotCall /\ c # None
  <2>1. m \in Message /\ c \in CopilotCall
    BY <1>2, <1>3, CopilotAssumption DEF Message, CopilotCall
  <2>. QED BY <2>1, CopilotAssumption
<1>5. Waiting(copilotCalls) = {}
  BY <1>0, <1>1 DEF CopilotTurns
<1>6. PICK s \in CopilotSlots : copilotCalls' = [copilotCalls EXCEPT ![s] = c]
  BY <1>0, <1>1, SendFree DEF CopilotTypeOK
<1>. HIDE DEF Message, CopilotCall
<1>7. /\ copilotCalls' \in [CopilotSlots -> CopilotCall \cup {None}]
      /\ Waiting(copilotCalls') = {s} /\ copilotCalls'[s] = c
  BY <1>0, <1>4, <1>5, <1>6 DEF CopilotTypeOK, Waiting
<1>8. /\ messages' \in Seq(Message) /\ Len(messages') = 2 * n /\ messages'[2 * n] = m
      /\ \A i \in DOMAIN messages : messages'[i] = messages[i]
      /\ DOMAIN messages' = DOMAIN messages \cup {2 * n}
      /\ IsFiniteSet(Questions')
      /\ Cardinality(Questions') = Cardinality(Questions) + 1
  <2>1. m.role = "user" /\ Len(messages) + 1 = 2 * n
    BY <1>2, <1>3
  <2>. HIDE DEF m, n
  <2>. QED BY <1>1, <1>4, <2>1, MessageAdded DEF CopilotIInv
<1>9. m = Turn(2 * n)
  BY <1>3, Halves DEF Turn
<1>10. \A i \in DOMAIN messages' : messages'[i] = Turn(i)
  <2>1. \A i \in DOMAIN messages : messages[i] = Turn(i)
    BY <1>0 DEF CopilotConversation, Turn
  <2>. HIDE DEF m, n, Turn
  <2>. QED BY <1>8, <1>9, <2>1
<1>11. CopilotConversation'
  <2>1. c.question = n /\ c.history = messages
    OBVIOUS
  <2>. HIDE DEF m, n, c
  <2>. QED BY <1>3, <1>7, <1>8, <1>10, <2>1 DEF CopilotConversation, Turn
<1>12. CopilotTurns'
  <2>1. c.question = n /\ Len(messages') \div 2 = n
    BY <1>3, <1>8, Halves
  <2>2. Cardinality(Questions') = n /\ Len(messages') >= 1
    BY <1>3, <1>8
  <2>. HIDE DEF m, n, c
  <2>. QED BY <1>1, <1>7, <1>8, <2>1, <2>2 DEF CopilotTurns
<1>13. CopilotTypeOK'
  BY <1>1, <1>7, <1>8 DEF CopilotTypeOK
<1>. QED BY <1>11, <1>12, <1>13 DEF CopilotIInv

LEMMA CopilotRepliesStep ==
  ASSUME CopilotIInv, NEW s \in CopilotSlots, CopilotReplies(s)
  PROVE  CopilotIInv'
<1>. DEFINE q == copilotCalls[s].question
            m == [role |-> "assistant", about |-> q]
<1>0. CopilotTypeOK /\ CopilotConversation /\ CopilotTurns
  BY DEF CopilotIInv
<1>1. /\ messages' = Append(messages, m) /\ thinking' = FALSE
      /\ copilotCalls' = [copilotCalls EXCEPT ![s] = None]
  BY DEF CopilotReplies, Answered
<1>2. messages \in Seq(Message) /\ Len(messages) \in Nat /\ DOMAIN messages = 1..Len(messages)
  BY <1>0, LenProperties DEF CopilotTypeOK
<1>3. s \in Waiting(copilotCalls) /\ copilotCalls[s] \in CopilotCall
  BY <1>0 DEF CopilotReplies, CopilotTypeOK, Waiting
<1>4. q \in 1..MaxQuestions /\ m \in Message /\ Len(messages) = 2 * q
  <2>1. q \in 1..MaxQuestions /\ Len(messages) = 2 * q
    BY <1>0, <1>3 DEF CopilotCall, CopilotTurns
  <2>. QED BY <2>1, CopilotAssumption DEF Message
<1>. HIDE DEF Message, CopilotCall
<1>5. /\ copilotCalls' \in [CopilotSlots -> CopilotCall \cup {None}]
      /\ Waiting(copilotCalls') = {}
  BY <1>0, <1>1, <1>3 DEF CopilotTypeOK, CopilotTurns, Waiting
<1>6. /\ messages' \in Seq(Message) /\ Len(messages') = 2 * q + 1 /\ messages'[2 * q + 1] = m
      /\ \A i \in DOMAIN messages : messages'[i] = messages[i]
      /\ DOMAIN messages' = DOMAIN messages \cup {2 * q + 1}
      /\ IsFiniteSet(Questions')
      /\ Cardinality(Questions') = Cardinality(Questions) + 0
  <2>1. m.role # "user" /\ Len(messages) + 1 = 2 * q + 1
    BY <1>4
  <2>. HIDE DEF m, q
  <2>. QED BY <1>1, <1>4, <2>1, MessageAdded DEF CopilotIInv
<1>7. m = Turn(2 * q + 1)
  <2>1. q \in Nat
    BY <1>4, CopilotAssumption
  <2>2. (2 * q + 1) % 2 = 1 /\ (2 * q + 1) \div 2 = q
    BY <2>1, Halves
  <2>. HIDE DEF q
  <2>. QED BY <2>2 DEF Turn
<1>8. \A i \in DOMAIN messages' : messages'[i] = Turn(i)
  <2>1. \A i \in DOMAIN messages : messages[i] = Turn(i)
    BY <1>0 DEF CopilotConversation, Turn
  <2>. HIDE DEF m, q, Turn
  <2>. QED BY <1>6, <1>7, <2>1
<1>9. CopilotConversation'
  BY <1>5, <1>8 DEF CopilotConversation, Turn
<1>10. CopilotTurns'
  <2>1. Cardinality(Questions) = q /\ q \in Nat
    BY <1>0, <1>4, Halves DEF CopilotTurns
  <2>2. Len(messages') \div 2 = q /\ Len(messages') % 2 = 1 /\ Len(messages') >= 1
    BY <1>6, <2>1, Halves
  <2>3. IsFiniteSet(Questions') /\ Cardinality(Questions') = q
    BY <1>6, <2>1
  <2>4. thinking' = FALSE
    BY <1>1
  <2>. HIDE DEF q
  <2>. QED BY <1>5, <2>2, <2>3, <2>4 DEF CopilotTurns
<1>11. CopilotTypeOK'
  BY <1>1, <1>5, <1>6 DEF CopilotTypeOK
<1>. QED BY <1>9, <1>10, <1>11 DEF CopilotIInv

\* The conversation as it begins, on the first visit and on every other.
CopilotFresh ==
  messages = <<Greeting>> /\ thinking = FALSE /\ copilotCalls = [s \in CopilotSlots |-> None]

LEMMA FreshIInv == CopilotFresh => CopilotIInv
<1>. SUFFICES ASSUME CopilotFresh PROVE CopilotIInv
  OBVIOUS
<1>1. Greeting \in Message
  BY CopilotAssumption DEF Greeting, Message
<1>2. messages \in Seq(Message) /\ Len(messages) = 1 /\ DOMAIN messages = {1} /\ messages[1] = Greeting
  BY <1>1 DEF CopilotFresh
<1>3. Questions = {}
  BY <1>2 DEF Questions, Greeting
<1>4. IsFiniteSet(Questions) /\ Cardinality(Questions) = 0
  BY <1>3, FS_EmptySet
<1>5. Waiting(copilotCalls) = {} /\ copilotCalls \in [CopilotSlots -> CopilotCall \cup {None}]
  BY DEF CopilotFresh, Waiting
<1>6. CopilotConversation
  BY <1>2, <1>5 DEF CopilotConversation, Greeting
<1>7. CopilotTurns
  BY <1>2, <1>4, <1>5 DEF CopilotTurns, CopilotFresh
<1>. QED BY <1>2, <1>5, <1>6, <1>7 DEF CopilotIInv, CopilotTypeOK, CopilotFresh

LEMMA CopilotInitIInv == CopilotInit => CopilotIInv
BY FreshIInv DEF CopilotInit, CopilotFresh

LEMMA RemountCopilotStep == RemountCopilot => CopilotIInv'
<1>1. CopilotFresh' => CopilotIInv'
  BY FreshIInv, PTL
<1>. QED BY <1>1 DEF RemountCopilot, CopilotFresh

LEMMA CopilotNextIInv == CopilotIInv /\ [CopilotNext]_copilotVars => CopilotIInv'
<1>. SUFFICES ASSUME CopilotIInv, [CopilotNext]_copilotVars PROVE CopilotIInv'
  OBVIOUS
<1>1. CASE UNCHANGED copilotVars
  BY <1>1 DEF copilotVars, CopilotIInv, CopilotTypeOK, CopilotConversation, CopilotTurns, Questions
<1>. QED BY <1>1, AskCopilotStep, CopilotRepliesStep, RemountCopilotStep DEF CopilotNext

LEMMA CopilotInvariance == CopilotSpec => []CopilotIInv
BY CopilotInitIInv, CopilotNextIInv, PTL DEF CopilotSpec

\* The conversation and its requests keep their types.
THEOREM CopilotTypes == CopilotSpec => []CopilotTypeOK
BY CopilotInvariance, PTL DEF CopilotIInv

\* handleSubmit's button is disabled while an answer is awaited: questions and
\* answers take turns, and every history sent is what was said before.
THEOREM CopilotTakesTurns == CopilotSpec => []CopilotConversation
BY CopilotInvariance, PTL DEF CopilotIInv
=============================================================================
