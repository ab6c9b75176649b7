---------------------------- MODULE ShellProofs -----------------------------
(***************************************************************************)
(* What is around every page and on the dashboard: the session, the        *)
(* indicator of synchronizations, the cost anomalies, the top bar, and the *)
(* palette and the tour over them, for every number of accounts, spikes,   *)
(* scopes, routes, requests under way and pending timers.                  *)
(***************************************************************************)
EXTENDS Session, DashboardPage, AnomalyWidget, Topbar, Overlays,
        PageRequestsProofs, FiniteSetTheorems

-----------------------------------------------------------------------------
(* The session                                                             *)

\* Session.  Only an account that was admitted changes its profile.
Held(c) == c \in SessionCall /\ (c.op = "profile" => c.account \in admitted)

CallsHeld(calls) ==
  /\ calls \in [SessionSlots -> SessionCall \cup {None}]
  /\ \A s \in SessionSlots : calls[s] # None => Held(calls[s])

Owned ==
  /\ session \in [user : Accounts \cup {None}, token : Accounts \cup {None}]
  /\ stored = session /\ session.token = session.user
  /\ session.user \in admitted \cup {None}
  /\ page \in Outside \cup {"inside"}
  /\ page = "inside" => session.user # None
  /\ signing \in BOOLEAN /\ savingProfile \in BOOLEAN
  /\ admitted \subseteq Accounts

SessionIInv == Owned /\ CallsHeld(sessionCalls)

LEMMA SessionIInvImplies == SessionIInv => SessionTypeOK /\ SessionOneOwner
<1>. HIDE DEF SessionCall
<1>. QED BY DEF SessionIInv, Owned, CallsHeld, SessionTypeOK, SessionOneOwner

LEMMA PutHeld ==
  ASSUME NEW calls, CallsHeld(calls), NEW s \in SessionSlots, NEW c, c = None \/ Held(c)
  PROVE  CallsHeld([calls EXCEPT ![s] = c])
<1>. HIDE DEF SessionCall
<1>1. c \in SessionCall \cup {None}
  BY DEF Held
<1>. QED BY <1>1 DEF CallsHeld

LEMMA SendHeld ==
  ASSUME NEW calls, CallsHeld(calls), NEW op \in {"signin", "profile", "api"}, NEW a \in Accounts,
         op = "profile" => a \in admitted, Free(calls) # {}
  PROVE  CallsHeld(Send(calls, SessionRequest(op, a)))
<1>. DEFINE c == SessionRequest(op, a)
<1>1. Held(c)
  BY DEF Held, SessionRequest, SessionCall
<1>2. PICK s \in DOMAIN calls : Send(calls, c) = [calls EXCEPT ![s] = c]
  BY SendFree
<1>. HIDE DEF c
<1>3. s \in SessionSlots
  BY <1>2 DEF CallsHeld
<1>4. CallsHeld([calls EXCEPT ![s] = c])
  BY <1>1, <1>3, PutHeld
<1>5. CallsHeld(Send(calls, c))
  BY <1>2, <1>4
<1>. QED BY <1>5 DEF c

LEMMA AbandonedHeld ==
  ASSUME NEW calls, CallsHeld(calls)
  PROVE  CallsHeld(Abandoned(calls))
<1>. DEFINE kept(s) == [calls[s] EXCEPT !.live = FALSE]
<1>1. ASSUME NEW s \in SessionSlots, calls[s] # None
      PROVE  Held(kept(s))
  <2>1. Held(calls[s])
    BY <1>1 DEF CallsHeld
  <2>2. kept(s) \in SessionCall /\ kept(s).op = calls[s].op /\ kept(s).account = calls[s].account
    BY <2>1 DEF Held, SessionCall
  <2>. QED BY <2>1, <2>2 DEF Held
<1>2. \A s \in SessionSlots :
        Abandoned(calls)[s] = None \/ (calls[s] # None /\ Abandoned(calls)[s] = kept(s))
  BY DEF Abandoned
<1>. HIDE DEF kept, SessionCall
<1>3. \A s \in SessionSlots : Abandoned(calls)[s] = None \/ Held(Abandoned(calls)[s])
  BY <1>1, <1>2
<1>4. Abandoned(calls) \in [SessionSlots -> SessionCall \cup {None}]
  BY <1>3 DEF Abandoned, Held
<1>. QED BY <1>3, <1>4 DEF CallsHeld

LEMMA NoneHeld == CallsHeld([s \in SessionSlots |-> None])
BY DEF CallsHeld

\* The steps but those that admit somebody.
LEMMA SessionStep ==
  ASSUME Owned', CallsHeld(sessionCalls'), admitted' = admitted
  PROVE  SessionIInv'
BY DEF SessionIInv, CallsHeld, Held

LEMMA AnsweredHeld ==
  ASSUME SessionIInv, NEW s \in SessionSlots
  PROVE  CallsHeld(Answered(sessionCalls, s))
BY PutHeld DEF Answered, SessionIInv

LEMMA SessionNextIInv == SessionIInv /\ [SessionNext]_sessionVars => SessionIInv'
<1>. SUFFICES ASSUME SessionIInv, [SessionNext]_sessionVars PROVE SessionIInv'
  OBVIOUS
<1>1. CASE UNCHANGED sessionVars
  BY <1>1 DEF sessionVars, SessionIInv, Owned, CallsHeld, Held
<1>2. CASE ReloadTab
  <2>1. Owned' /\ admitted' = admitted
    BY <1>2 DEF ReloadTab, SessionIInv, Owned, Routed, Outside
  <2>. QED BY <1>2, <2>1, NoneHeld, SessionStep DEF ReloadTab
<1>3. CASE FollowLink
  <2>1. Owned' /\ admitted' = admitted
    BY <1>3 DEF FollowLink, SessionIInv, Owned, Routed, Outside
  <2>. QED BY <1>3, <2>1, AbandonedHeld, SessionStep DEF FollowLink, SessionIInv
<1>4. CASE SubmitCredentials
  <2>1. Owned' /\ admitted' = admitted
    BY <1>4 DEF SubmitCredentials, SessionIInv, Owned
  <2>. QED BY <1>4, <2>1, SendHeld, SessionStep DEF SubmitCredentials, SessionIInv
<1>5. CASE SaveProfile \/ CallApi
  <2>1. Owned' /\ admitted' = admitted
    BY <1>5 DEF SaveProfile, CallApi, SessionIInv, Owned
  <2>2. session.user \in admitted /\ session.user \in Accounts
    BY <1>5 DEF SaveProfile, CallApi, SessionIInv, Owned
  <2>. QED BY <1>5, <2>1, <2>2, SendHeld, SessionStep DEF SaveProfile, CallApi, SessionIInv
<1>6. ASSUME NEW calls, CallsHeld(calls), SessionEnds(calls)
      PROVE  SessionIInv'
  <2>1. Owned' /\ admitted' = admitted
    BY <1>6 DEF SessionEnds, SignOut, NoSession, SessionIInv, Owned, Routed, Outside
  <2>. QED BY <1>6, <2>1, AbandonedHeld, SessionStep DEF SessionEnds
<1>7. CASE Logout
  BY <1>6, <1>7 DEF Logout, SessionIInv
<1>8. ASSUME NEW s \in SessionSlots, CredentialsAccepted(s)
      PROVE  SessionIInv'
  <2>. DEFINE a == sessionCalls[s].account
  <2>1. a \in Accounts /\ a # None
    BY <1>8, SessionAssumption DEF CredentialsAccepted, SessionPending, SessionIInv, CallsHeld, SessionCall
  <2>. HIDE DEF a
  <2>2. session' = [user |-> a, token |-> a] /\ stored' = session' /\ admitted' = admitted \cup {a}
    BY <1>8 DEF CredentialsAccepted, SignIn, a
  <2>3. Owned'
    BY <1>8, <2>1, <2>2 DEF CredentialsAccepted, SessionIInv, Owned
  <2>4. CallsHeld(sessionCalls')
    BY <1>8, AnsweredHeld, AbandonedHeld DEF CredentialsAccepted
  <2>. QED BY <2>2, <2>3, <2>4 DEF SessionIInv, CallsHeld, Held
<1>9. ASSUME NEW s \in SessionSlots, ProfileSaved(s)
      PROVE  SessionIInv'
  <2>. DEFINE a == sessionCalls[s].account
  <2>1. a \in Accounts /\ a # None /\ a \in admitted
    BY <1>9, SessionAssumption DEF ProfileSaved, SessionPending, SessionIInv, CallsHeld, Held, SessionCall
  <2>. HIDE DEF a
  <2>2. session' = [user |-> a, token |-> a] /\ stored' = session' /\ admitted' = admitted
    BY <1>9 DEF ProfileSaved, ProfileApplied, SignIn, a
  <2>3. savingProfile' \in BOOLEAN /\ UNCHANGED <<page, signing>>
    BY <1>9 DEF ProfileSaved, SessionIInv, Owned
  <2>4. Owned'
    BY <2>1, <2>2, <2>3 DEF SessionIInv, Owned
  <2>. QED BY <1>9, <2>2, <2>4, AnsweredHeld, SessionStep DEF ProfileSaved
<1>10. ASSUME NEW s \in SessionSlots, CredentialsRefused(s) \/ ProfileRefused(s) \/ ApiAnswers(s)
       PROVE  SessionIInv'
  <2>1. Owned' /\ admitted' = admitted
    BY <1>10 DEF CredentialsRefused, ProfileRefused, ApiAnswers, SessionIInv, Owned
  <2>. QED BY <1>10, <2>1, AnsweredHeld, SessionStep DEF CredentialsRefused, ProfileRefused, ApiAnswers
<1>11. ASSUME NEW s \in SessionSlots, Unauthorized(s)
       PROVE  SessionIInv'
  BY <1>6, <1>11, AnsweredHeld DEF Unauthorized
<1>. QED
  BY <1>1, <1>2, <1>3, <1>4, <1>5, <1>7, <1>8, <1>9, <1>10, <1>11 DEF SessionNext

LEMMA SessionInitIInv == SessionInit => SessionIInv
<1>. SUFFICES ASSUME SessionInit PROVE SessionIInv
  OBVIOUS
<1>1. PICK a \in Accounts \cup {None} :
        /\ session = [user |-> a, token |-> a] /\ stored = session /\ admitted = {a} \ {None}
        /\ \E p \in Outside \cup {"inside"} : page = Routed(p, a)
  BY DEF SessionInit
<1>2. Owned
  BY <1>1 DEF SessionInit, Owned, Routed, Outside
<1>. QED BY <1>2, NoneHeld DEF SessionInit, SessionIInv

LEMMA SessionInvariance == SessionSpec => []SessionIInv
BY SessionInitIInv, SessionNextIInv, PTL DEF SessionSpec

\* The session's state keeps its types.
THEOREM SessionTypes == SessionSpec => []SessionTypeOK
BY SessionInvariance, SessionIInvImplies, PTL

\* login, logout, the profile's answer and the listener for 401s change the
\* user, the token and what the browser stores together, in whatever order the
\* answers of several sessions come.
THEOREM SessionOwner == SessionSpec => []SessionOneOwner
BY SessionInvariance, SessionIInvImplies, PTL

\* A form that waits has its request under way, and nobody signs in inside.
FormsWait == SessionReleases /\ (page = "inside" => ~signing)

LEMMA FormsWaitStep == SessionIInv /\ FormsWait /\ [SessionNext]_sessionVars => FormsWait'
<1>. SUFFICES ASSUME SessionIInv, FormsWait, [SessionNext]_sessionVars PROVE FormsWait'
  OBVIOUS
<1>. DEFINE Live(calls, op) == \E s \in SessionSlots : calls[s] # None /\ calls[s].op = op /\ calls[s].live
<1>0. /\ sessionCalls \in [SessionSlots -> SessionCall \cup {None}]
      /\ (signing => Live(sessionCalls, "signin")) /\ (savingProfile => Live(sessionCalls, "profile"))
      /\ (page = "inside" => ~signing) /\ signing \in BOOLEAN /\ savingProfile \in BOOLEAN
  BY SessionIInvImplies DEF SessionTypeOK, FormsWait, SessionReleases, SessionPending
<1>. HIDE DEF SessionCall
<1>1. ASSUME signing' => Live(sessionCalls', "signin"), savingProfile' => Live(sessionCalls', "profile"),
             page' = "inside" => ~signing'
      PROVE  FormsWait'
  BY <1>1 DEF FormsWait, SessionReleases, SessionPending
<1>2. CASE UNCHANGED sessionVars
  BY <1>0, <1>1, <1>2 DEF sessionVars
<1>3. CASE ReloadTab \/ FollowLink
  <2>1. ~signing' /\ ~savingProfile'
    BY <1>3 DEF ReloadTab, FollowLink
  <2>. QED BY <1>1, <2>1
<1>4. ASSUME NEW op, op = "signin" \/ op = "profile" \/ op = "api",
             NEW a \in Accounts, Free(sessionCalls) # {}, sessionCalls' = Send(sessionCalls, SessionRequest(op, a)),
             signing' = signing \/ (op = "signin" /\ page # "inside"),
             savingProfile' = savingProfile \/ op = "profile", page' = page
      PROVE  FormsWait'
  <2>. DEFINE c == SessionRequest(op, a)
  <2>1. c.op = op /\ c.live = TRUE
    BY DEF SessionRequest
  <2>a. op \in {"signin", "profile", "api"}
    BY <1>4
  <2>b. c \in SessionCall
    BY <2>a DEF SessionRequest, SessionCall
  <2>2. c # None
    BY <2>b, SessionAssumption
  <2>3. /\ \A s \in Waiting(sessionCalls) : s \in Waiting(sessionCalls') /\ sessionCalls'[s] = sessionCalls[s]
        /\ \E s \in Waiting(sessionCalls') : sessionCalls'[s] = c
        /\ DOMAIN sessionCalls' = SessionSlots
    BY <1>0, <1>4, <2>2, SendWaiting
  <2>. HIDE DEF c
  <2>4. \A o : Live(sessionCalls, o) => Live(sessionCalls', o)
    BY <1>0, <2>3 DEF Waiting
  <2>5. Live(sessionCalls', op)
    BY <2>1, <2>3 DEF Waiting
  <2>. HIDE DEF Live
  <2>. QED BY <1>0, <1>1, <1>4, <2>4, <2>5
<1>5. CASE SubmitCredentials
  <2>1. PICK a \in Accounts : sessionCalls' = Send(sessionCalls, SessionRequest("signin", a))
    BY <1>5 DEF SubmitCredentials
  <2>2. /\ Free(sessionCalls) # {} /\ page \in {"login", "signup"} /\ signing' = TRUE
        /\ savingProfile' = savingProfile /\ page' = page
    BY <1>5 DEF SubmitCredentials
  <2>. QED BY <1>0, <1>4, <2>1, <2>2
<1>6. CASE SaveProfile \/ CallApi
  <2>1. session.user \in Accounts
    BY <1>6, SessionIInvImplies DEF SaveProfile, CallApi, SessionTypeOK, SessionOneOwner
  <2>2. Free(sessionCalls) # {} /\ signing' = signing /\ page' = page
    BY <1>6 DEF SaveProfile, CallApi
  <2>3. \/ /\ sessionCalls' = Send(sessionCalls, SessionRequest("profile", session.user))
           /\ savingProfile' = TRUE
        \/ /\ sessionCalls' = Send(sessionCalls, SessionRequest("api", session.user))
           /\ savingProfile' = savingProfile
    BY <1>6 DEF SaveProfile, CallApi
  <2>. QED BY <1>0, <1>4, <2>1, <2>2, <2>3
<1>7. ASSUME NEW s \in SessionSlots, sessionCalls[s] # None, sessionCalls' = Answered(sessionCalls, s),
             signing' => signing /\ ~(sessionCalls[s].op = "signin" /\ sessionCalls[s].live),
             savingProfile' => savingProfile /\ ~(sessionCalls[s].op = "profile" /\ sessionCalls[s].live),
             page' = page
      PROVE  FormsWait'
  <2>1. \A t \in SessionSlots \ {s} : sessionCalls'[t] = sessionCalls[t]
    BY <1>0, <1>7 DEF Answered
  <2>2. ASSUME NEW op, Live(sessionCalls, op), ~(sessionCalls[s].op = op /\ sessionCalls[s].live)
        PROVE  Live(sessionCalls', op)
    <3>1. PICK t \in SessionSlots : sessionCalls[t] # None /\ sessionCalls[t].op = op /\ sessionCalls[t].live
      BY <2>2
    <3>. QED BY <2>1, <2>2, <3>1
  <2>. HIDE DEF Live
  <2>. QED BY <1>0, <1>1, <1>7, <2>2
<1>8. ASSUME NEW s \in SessionSlots, CredentialsAccepted(s)
      PROVE  FormsWait'
  BY <1>1, <1>8 DEF CredentialsAccepted
<1>9. ASSUME NEW s \in SessionSlots,
             CredentialsRefused(s) \/ ProfileSaved(s) \/ ProfileRefused(s) \/ ApiAnswers(s)
      PROVE  FormsWait'
  <2>1. sessionCalls[s] # None /\ sessionCalls' = Answered(sessionCalls, s) /\ page' = page
    BY <1>9 DEF CredentialsRefused, ProfileSaved, ProfileRefused, ApiAnswers, SessionPending
  <2>2. CASE CredentialsRefused(s)
    <3>1. sessionCalls[s].op = "signin" /\ savingProfile' = savingProfile
      BY <2>2 DEF CredentialsRefused, SessionPending
    <3>2. signing' => signing /\ ~sessionCalls[s].live
      BY <2>2 DEF CredentialsRefused
    <3>. QED BY <1>7, <2>1, <3>1, <3>2
  <2>3. CASE ProfileSaved(s) \/ ProfileRefused(s)
    <3>1. sessionCalls[s].op = "profile" /\ signing' = signing
      BY <2>3 DEF ProfileSaved, ProfileRefused, SessionPending
    <3>2. savingProfile' => savingProfile /\ ~sessionCalls[s].live
      BY <2>3 DEF ProfileSaved, ProfileRefused
    <3>. QED BY <1>7, <2>1, <3>1, <3>2
  <2>4. CASE ApiAnswers(s)
    <3>1. sessionCalls[s].op = "api" /\ signing' = signing /\ savingProfile' = savingProfile
      BY <2>4 DEF ApiAnswers, SessionPending
    <3>. QED BY <1>7, <2>1, <3>1
  <2>. QED BY <1>9, <2>2, <2>3, <2>4
\* Inside nobody signs in; outside the forms keep what is left of their calls.
<1>10. ASSUME NEW calls, SessionEnds(calls), Live(calls, "signin") \/ ~signing \/ page = "inside"
       PROVE  FormsWait'
  <2>1. ~savingProfile' /\ signing' = signing /\ page' # "inside"
    BY <1>10 DEF SessionEnds, Routed
  <2>2. CASE page = "inside"
    BY <1>0, <1>1, <2>1, <2>2
  <2>3. CASE page # "inside"
    <3>1. sessionCalls' = calls
      BY <1>10, <2>3 DEF SessionEnds
    <3>. HIDE DEF Live
    <3>. QED BY <1>0, <1>1, <1>10, <2>1, <2>3, <3>1
  <2>. QED BY <2>2, <2>3
<1>11. CASE Logout
  BY <1>10, <1>11 DEF Logout
<1>12. ASSUME NEW s \in SessionSlots, Unauthorized(s)
       PROVE  FormsWait'
  <2>. DEFINE calls == Answered(sessionCalls, s)
  <2>1. /\ SessionEnds(calls)
        /\ sessionCalls[s].op # "signin"
    BY <1>12 DEF Unauthorized, SessionPending
  <2>2. \A t \in SessionSlots \ {s} : calls[t] = sessionCalls[t]
    BY <1>0 DEF Answered
  <2>. HIDE DEF calls
  <2>3. signing => Live(calls, "signin")
    BY <1>0, <2>1, <2>2
  <2>. HIDE DEF Live
  <2>. QED BY <1>10, <2>1, <2>3
<1>. QED
  BY <1>2, <1>3, <1>5, <1>6, <1>8, <1>9, <1>11, <1>12 DEF SessionNext

LEMMA FormsWaitInit == SessionInit => FormsWait
BY DEF SessionInit, FormsWait, SessionReleases

\* The buttons of the forms come back: whoever is inside is not signing in, and
\* what ends a session gives the profile form up with it.
THEOREM SessionReleased == SessionSpec => []SessionReleases
<1>1. FormsWait => SessionReleases
  BY DEF FormsWait
<1>. QED BY <1>1, FormsWaitInit, FormsWaitStep, SessionInitIInv, SessionNextIInv, PTL DEF SessionSpec

-----------------------------------------------------------------------------
(* The dashboard                                                           *)

\* Dashboard.  A synchronisation that is announced runs.
Synchronizes(c) == c # None /\ c.op \in Starting

DashRestOK ==
  /\ summary \in Summaries \cup {None}
  /\ isRefreshing \in BOOLEAN /\ refreshSuccess \in BOOLEAN /\ isSandbox \in BOOLEAN
  /\ dashboardAt \in {"shown", "left", "failed"}
  /\ indicator \in {"idle", "syncing", "success", "error"}
  /\ awsHealth \in {"checking", "connected", "down"}

TimersOK == refreshTimers \in 0..MaxTimers /\ indicatorTimers \in 0..MaxTimers

DashCallsOK(calls) == calls \in [DashSlots -> DashCall \cup {None}]

Announced ==
  /\ indicator = "syncing" => \E s \in DashSlots : Synchronizes(dashCalls[s])
  /\ indicator \in {"success", "error"} => indicatorTimers > 0

\* Behind the error page nothing runs.
FailedQuiet ==
  dashboardAt = "failed" => indicator = "idle" /\ \A s \in DashSlots : dashCalls[s] = None

DashIInv == DashRestOK /\ TimersOK /\ DashCallsOK(dashCalls) /\ Announced /\ FailedQuiet

LEMMA MaxTimersNat == MaxTimers \in Nat
BY DashboardAssumption

LEMMA DashIInvImplies == DashIInv => DashTypeOK /\ IndicatorExplained
BY DEF DashIInv, DashRestOK, TimersOK, DashCallsOK, Announced, Synchronizes, DashTypeOK, IndicatorExplained, DashPending

LEMMA DashRequestOK ==
  ASSUME NEW op \in {"summary", "check"} \cup Stages \cup Starting
  PROVE  DashRequest(op) \in DashCall /\ DashRequest(op) # None /\ DashRequest(op).op = op
<1>1. DashRequest(op) \in DashCall
  BY DEF DashRequest, DashCall
<1>. QED BY <1>1, DashboardAssumption DEF DashRequest

\* A call is put into slot s, and no announced one lost there.
DashPut(s, c) == dashCalls' = [dashCalls EXCEPT ![s] = c]

LEMMA DashPutKeeps ==
  ASSUME DashIInv, DashRestOK', TimersOK', NEW s \in DashSlots, NEW c \in DashCall \cup {None}, DashPut(s, c),
         dashboardAt' # "failed",
         \/ UNCHANGED <<indicator, indicatorTimers>> /\ (Synchronizes(dashCalls[s]) => Synchronizes(c))
         \/ indicator' = "syncing" /\ Synchronizes(c)
         \/ indicator' \in {"success", "error"} /\ indicatorTimers' > 0
  PROVE  DashIInv'
<1>. HIDE DEF DashCall
<1>1. DashCallsOK(dashCalls)'
  BY DEF DashPut, DashIInv, DashCallsOK
<1>2. dashCalls'[s] = c /\ \A t \in DashSlots : t # s => dashCalls'[t] = dashCalls[t]
  BY DEF DashPut, DashIInv, DashCallsOK
<1>3. Announced'
  BY <1>2 DEF DashIInv, Announced, DashRestOK
<1>. QED BY <1>1, <1>3 DEF DashIInv, FailedQuiet

LEMMA DashSendKeeps ==
  ASSUME DashIInv, DashRestOK', TimersOK', NEW c \in DashCall, dashCalls' = Send(dashCalls, c),
         Free(dashCalls) # {}, dashboardAt' # "failed",
         \/ UNCHANGED <<indicator, indicatorTimers>>
         \/ indicator' = "syncing" /\ Synchronizes(c)
  PROVE  DashIInv'
<1>1. PICK s \in DOMAIN dashCalls : dashCalls[s] = None /\ DashPut(s, c)
  BY SendFree DEF DashPut
<1>2. s \in DashSlots /\ ~Synchronizes(dashCalls[s])
  BY <1>1 DEF DashIInv, DashCallsOK, Synchronizes
<1>. QED BY <1>1, <1>2, DashPutKeeps

LEMMA DashSendersKeep ==
  ASSUME DashIInv, CheckHealth \/ ForceRefresh \/ SaveStarts \/ EnterDashboard
  PROVE  DashIInv'
<1>1. DashRestOK' /\ TimersOK'
  <2>1. DashRestOK'
    BY DEF CheckHealth, ForceRefresh, SaveStarts, EnterDashboard, SyncStart, refreshVars, DashIInv,
         DashRestOK
  <2>2. TimersOK'
    BY MaxTimersNat DEF CheckHealth, ForceRefresh, SaveStarts, EnterDashboard, SyncStart,
         refreshVars, DashIInv, TimersOK
  <2>. QED BY <2>1, <2>2
<1>2. CASE CheckHealth
  BY <1>1, <1>2, DashRequestOK, DashSendKeeps DEF CheckHealth
<1>3. CASE ForceRefresh
  BY <1>1, <1>3, DashRequestOK, DashSendKeeps DEF ForceRefresh, Stages
<1>4. CASE SaveStarts
  BY <1>1, <1>4, DashRequestOK, DashSendKeeps DEF SaveStarts, SyncStart, Starting, Synchronizes
<1>5. CASE EnterDashboard
  BY <1>1, <1>5, DashRequestOK, DashSendKeeps DEF EnterDashboard
<1>. QED BY <1>2, <1>3, <1>4, <1>5

LEMMA DashMovesOn ==
  ASSUME DashIInv, NEW s \in DashSlots, dashCalls[s] # None, NEW op \in Stages,
         dashCalls' = MovesOn(s, op)
  PROVE  \E c \in DashCall : DashPut(s, c) /\ c # None /\ c.op = op
<1>. DEFINE c == [dashCalls[s] EXCEPT !.op = op]
<1>1. dashCalls[s] \in DashCall
  BY DEF DashIInv, DashCallsOK
<1>2. c \in DashCall /\ c.op = op
  BY <1>1 DEF DashCall
<1>3. DashPut(s, c)
  BY DEF MovesOn, DashPut
<1>. HIDE DEF c
<1>. QED BY <1>2, <1>3, DashboardAssumption

\* Where the summary is asked for again, or the call has ended.
LEMMA RefetchPuts ==
  ASSUME NEW s \in DashSlots, RefetchSummary(s)
  PROVE  \E c \in DashCall \cup {None} : DashPut(s, c)
BY DashRequestOK DEF RefetchSummary, Answered, DashPut

LEMMA DashAnswersKeep ==
  ASSUME DashIInv, NEW s \in DashSlots,
         \/ HealthChecked(s) \/ NotConnected(s) \/ RefreshStarts(s) \/ ScanTriggered(s)
         \/ RefreshSucceeds(s) \/ RefreshFails(s) \/ SaveEnds(s)
         \/ SummaryArrives(s) \/ SummaryLost(s)
  PROVE  DashIInv'
<1>0. dashCalls[s] # None /\ dashboardAt' = dashboardAt /\ dashboardAt # "failed"
  BY DEF HealthChecked, NotConnected, RefreshStarts, ScanTriggered, RefreshSucceeds, RefreshFails,
         SaveEnds, SummaryArrives, SummaryLost, DashPending, DashIInv, FailedQuiet
<1>1. DashRestOK' /\ TimersOK'
  <2>1. DashRestOK'
    BY DEF HealthChecked, NotConnected, RefreshStarts, ScanTriggered, RefreshSucceeds, RefreshFails,
         SaveEnds, SummaryArrives, SummaryLost, SyncStart, SyncSuccess, SyncError,
         NoLongerRefreshing, refreshVars, DashIInv, DashRestOK
  <2>2. TimersOK'
    BY MaxTimersNat DEF HealthChecked, NotConnected, RefreshStarts, ScanTriggered, RefreshSucceeds,
         RefreshFails, SaveEnds, SummaryArrives, SummaryLost, SyncStart, SyncSuccess, SyncError,
         NoLongerRefreshing, refreshVars, DashIInv, TimersOK
  <2>. QED BY <2>1, <2>2
<1>2. CASE HealthChecked(s) \/ SummaryArrives(s) \/ SummaryLost(s)
  <2>1. DashPut(s, None) /\ UNCHANGED <<indicator, indicatorTimers>>
    BY <1>2 DEF HealthChecked, SummaryArrives, SummaryLost, Answered, DashPut
  <2>2. ~Synchronizes(dashCalls[s])
    BY <1>2 DEF HealthChecked, SummaryArrives, SummaryLost, DashPending, Synchronizes, Starting
  <2>. QED BY <1>0, <1>1, <2>1, <2>2, DashPutKeeps
<1>3. CASE NotConnected(s) \/ RefreshFails(s)
  <2>1. DashPut(s, None) /\ indicator' = "error" /\ indicatorTimers' > 0
    BY <1>3, MaxTimersNat DEF NotConnected, RefreshFails, SyncError, Answered, DashPut, DashIInv, TimersOK
  <2>. QED BY <1>0, <1>1, <2>1, DashPutKeeps
<1>4. CASE RefreshStarts(s) \/ ScanTriggered(s)
  <2>1. PICK op \in {"trigger", "poll"} : dashCalls' = MovesOn(s, op)
    BY <1>4 DEF RefreshStarts, ScanTriggered
  <2>2. PICK c \in DashCall : DashPut(s, c) /\ c # None /\ c.op = op
    BY <1>0, <2>1, DashMovesOn DEF Stages
  <2>3. Synchronizes(c)
    BY <2>2 DEF Synchronizes, Starting
  <2>4. indicator' = "syncing" \/ UNCHANGED <<indicator, indicatorTimers>>
    BY <1>4 DEF RefreshStarts, ScanTriggered, SyncStart
  <2>. QED BY <1>0, <1>1, <2>2, <2>3, <2>4, DashPutKeeps
<1>5. CASE RefreshSucceeds(s) \/ SaveEnds(s)
  <2>1. indicator' \in {"success", "error"} /\ indicatorTimers' > 0
    BY <1>5, MaxTimersNat DEF RefreshSucceeds, SaveEnds, SyncSuccess, SyncError, DashIInv, TimersOK
  <2>2. PICK c \in DashCall \cup {None} : DashPut(s, c)
    BY <1>5, RefetchPuts DEF RefreshSucceeds, SaveEnds, Answered, DashPut
  <2>. QED BY <1>0, <1>1, <2>1, <2>2, DashPutKeeps
<1>. QED BY <1>2, <1>3, <1>4, <1>5

\* What runs without the dashboard that asked for it keeps its stage.
LEMMA WithoutKeeps ==
  ASSUME DashIInv
  PROVE  /\ DashCallsOK(WithoutDashboard)
         /\ \A s \in DashSlots : Synchronizes(dashCalls[s]) => Synchronizes(WithoutDashboard[s])
<1>. DEFINE kept(s) == [dashCalls[s] EXCEPT !.live = FALSE]
<1>1. \A s \in DashSlots : dashCalls[s] # None => dashCalls[s] \in DashCall
  BY DEF DashIInv, DashCallsOK
<1>2. \A s \in DashSlots : dashCalls[s] # None =>
        kept(s) \in DashCall /\ kept(s).op = dashCalls[s].op /\ kept(s) # None
  BY <1>1, DashboardAssumption DEF DashCall
<1>3. \A s \in DashSlots :
        WithoutDashboard[s] = IF DashPending(s, Stages) THEN kept(s)
                              ELSE IF DashPending(s, {"summary"}) THEN None ELSE dashCalls[s]
  BY DEF WithoutDashboard
<1>4. WithoutDashboard = [s \in DashSlots |-> WithoutDashboard[s]]
  BY DEF WithoutDashboard
<1>. HIDE DEF kept, DashCall
<1>5. \A s \in DashSlots : WithoutDashboard[s] \in DashCall \cup {None}
  BY <1>1, <1>2, <1>3 DEF DashPending
<1>6. \A s \in DashSlots : Synchronizes(dashCalls[s]) => Synchronizes(WithoutDashboard[s])
  BY <1>2, <1>3 DEF DashPending, Synchronizes, Starting
<1>. QED BY <1>4, <1>5, <1>6 DEF DashCallsOK

LEMMA DashPagesKeep ==
  ASSUME DashIInv, LeaveDashboard \/ RemountLayout
  PROVE  DashIInv'
<1>1. DashRestOK' /\ TimersOK'
  <2>1. DashRestOK'
    BY DEF LeaveDashboard, RemountLayout, PageGone, DashIInv, DashRestOK
  <2>2. TimersOK'
    BY MaxTimersNat DEF LeaveDashboard, RemountLayout, PageGone, DashIInv, TimersOK
  <2>. QED BY <2>1, <2>2
<1>2. CASE LeaveDashboard
  <2>1. Announced'
    BY <1>2, WithoutKeeps DEF LeaveDashboard, DashIInv, Announced
  <2>. QED BY <1>1, <1>2, <2>1, WithoutKeeps DEF LeaveDashboard, PageGone, DashIInv, DashCallsOK, FailedQuiet
<1>3. CASE RemountLayout
  <2>. DEFINE running == [s \in DashSlots |->
                           IF DashPending(s, {"check"}) THEN None ELSE WithoutDashboard[s]]
  <2>1. running \in [DashSlots -> DashCall \cup {None}]
    <3>. HIDE DEF DashCall
    <3>. QED BY WithoutKeeps DEF DashCallsOK
  <2>2. Free(running) # {} /\ dashCalls' = Send(running, DashRequest("check"))
    BY <1>3 DEF RemountLayout
  <2>. HIDE DEF running
  <2>3. DashCallsOK(dashCalls)'
    BY <2>1, <2>2, SendType, DashRequestOK DEF DashCallsOK
  <2>. QED BY <1>1, <1>3, <2>3 DEF RemountLayout, PageGone, DashIInv, Announced, FailedQuiet
<1>. QED BY <1>2, <1>3

LEMMA SummaryUnreadableKeeps ==
  ASSUME DashIInv, NEW s \in DashSlots, SummaryUnreadable(s)
  PROVE  DashIInv'
<1>1. DashRestOK' /\ TimersOK'
  <2>1. DashRestOK'
    BY DEF SummaryUnreadable, PageGone, DashIInv, DashRestOK
  <2>2. TimersOK'
    BY MaxTimersNat DEF SummaryUnreadable, PageGone, DashIInv, TimersOK
  <2>. QED BY <2>1, <2>2
<1>2. DashCallsOK(dashCalls)' /\ Announced' /\ FailedQuiet'
  BY DEF SummaryUnreadable, DashCallsOK, Announced, FailedQuiet
<1>. QED BY <1>1, <1>2 DEF DashIInv

\* Layout and dashboard mount: two calls are sent, none was under way.
LEMMA MountedCalls ==
  ASSUME NEW calls \in [DashSlots -> DashCall \cup {None}], \A s \in DashSlots : calls[s] = None
  PROVE  DashCallsOK(Send(Send(calls, DashRequest("check")), DashRequest("summary")))
<1>1. Free(calls) # {}
  BY DashboardAssumption DEF Free
<1>2. PICK s \in DashSlots : Send(calls, DashRequest("check")) = [calls EXCEPT ![s] = DashRequest("check")]
  BY <1>1, SendFree
<1>3. PICK t \in DashSlots : t # s
  BY DashboardAssumption
<1>. HIDE DEF DashCall
<1>4. Free(Send(calls, DashRequest("check"))) # {}
  BY <1>2, <1>3 DEF Free
<1>5. Send(calls, DashRequest("check")) \in [DashSlots -> DashCall \cup {None}]
  BY <1>1, SendType, DashRequestOK
<1>. QED BY <1>4, <1>5, SendType, DashRequestOK DEF DashCallsOK

LEMMA ReloadDashboardKeeps ==
  ASSUME DashIInv, ReloadDashboard
  PROVE  DashIInv'
<1>1. DashRestOK' /\ TimersOK'
  <2>1. DashRestOK'
    BY DEF ReloadDashboard, refreshVars, DashIInv, DashRestOK
  <2>2. TimersOK'
    BY MaxTimersNat DEF ReloadDashboard, refreshVars, DashIInv, TimersOK
  <2>. QED BY <2>1, <2>2
<1>2. DashCallsOK(dashCalls)'
  BY MountedCalls DEF ReloadDashboard, DashIInv, DashCallsOK, FailedQuiet
<1>. QED BY <1>1, <1>2 DEF ReloadDashboard, DashIInv, Announced, FailedQuiet

LEMMA DashTimersKeep ==
  ASSUME DashIInv, IndicatorTimeout \/ RefreshedTimeout
  PROVE  DashIInv'
<1>1. DashRestOK' /\ TimersOK'
  <2>1. DashRestOK'
    BY DEF IndicatorTimeout, RefreshedTimeout, refreshVars, DashIInv, DashRestOK
  <2>2. TimersOK'
    BY MaxTimersNat DEF IndicatorTimeout, RefreshedTimeout, refreshVars, DashIInv, TimersOK
  <2>. QED BY <2>1, <2>2
<1>. QED BY <1>1 DEF IndicatorTimeout, RefreshedTimeout, DashIInv, DashCallsOK, Announced, FailedQuiet

LEMMA DashInitIInv == DashInit => DashIInv
<1>. SUFFICES ASSUME DashInit PROVE DashIInv
  OBVIOUS
<1>1. DashRestOK /\ TimersOK /\ Announced /\ FailedQuiet
  <2>1. DashRestOK
    BY DEF DashInit, DashRestOK
  <2>2. TimersOK
    BY MaxTimersNat DEF DashInit, TimersOK
  <2>. QED BY <2>1, <2>2 DEF DashInit, Announced, FailedQuiet
<1>2. DashCallsOK(dashCalls)
  BY MountedCalls DEF DashInit
<1>. QED BY <1>1, <1>2 DEF DashIInv

LEMMA DashNextIInv == DashIInv /\ [DashNext]_dashVars => DashIInv'
<1>. SUFFICES ASSUME DashIInv, [DashNext]_dashVars PROVE DashIInv'
  OBVIOUS
<1>1. CASE UNCHANGED dashVars
  BY <1>1 DEF dashVars, DashIInv, DashRestOK, TimersOK, DashCallsOK, Announced, FailedQuiet
<1>2. CASE CheckHealth \/ ForceRefresh \/ SaveStarts \/ EnterDashboard
  BY <1>2, DashSendersKeep
<1>3. ASSUME NEW s \in DashSlots,
             \/ HealthChecked(s) \/ NotConnected(s) \/ RefreshStarts(s) \/ ScanTriggered(s)
             \/ RefreshSucceeds(s) \/ RefreshFails(s) \/ SaveEnds(s)
             \/ SummaryArrives(s) \/ SummaryLost(s) \/ SummaryUnreadable(s)
      PROVE  DashIInv'
  BY <1>3, DashAnswersKeep, SummaryUnreadableKeeps
<1>4. CASE IndicatorTimeout \/ RefreshedTimeout
  BY <1>4, DashTimersKeep
<1>5. CASE LeaveDashboard \/ RemountLayout
  BY <1>5, DashPagesKeep
<1>6. CASE ReloadDashboard
  BY <1>6, ReloadDashboardKeeps
<1>. QED BY <1>1, <1>2, <1>3, <1>4, <1>5, <1>6 DEF DashNext

LEMMA DashInvariance == DashSpec => []DashIInv
BY DashInitIInv, DashNextIInv, PTL DEF DashSpec

\* The dashboard's and the layout's state keeps its types.
THEOREM DashTypes == DashSpec => []DashTypeOK
BY DashInvariance, DashIInvImplies, PTL

\* The layout's indicator never says that a synchronisation runs when none
\* does, and the outcome it shows has a timer that will hide it, however the
\* events of refreshes and saves follow each other.
THEOREM DashIndicator == DashSpec => []IndicatorExplained
BY DashInvariance, DashIInvImplies, PTL

Refreshes(c) == c # None /\ c.op \in Stages /\ c.live
Checks(c) == c # None /\ c.op = "check"

RefreshAlone ==
  /\ \A s, t \in DashSlots : Refreshes(dashCalls[s]) /\ Refreshes(dashCalls[t]) => s = t
  /\ isRefreshing <=> \E s \in DashSlots : Refreshes(dashCalls[s])

HealthAwaited ==
  awsHealth = "checking" /\ dashboardAt # "failed" => \E s \in DashSlots : Checks(dashCalls[s])

SuccessTimed == refreshSuccess => refreshTimers > 0

RefreshExplained == RefreshAlone /\ HealthAwaited /\ SuccessTimed

LEMMA RefreshExplainedImplies == RefreshExplained => RefreshReleases
<1>. SUFFICES ASSUME RefreshExplained PROVE RefreshReleases
  OBVIOUS
<1>1. LiveRefreshes = {s \in DashSlots : Refreshes(dashCalls[s])}
  BY DEF LiveRefreshes, DashPending, Refreshes
<1>2. Cardinality(LiveRefreshes) <= 1 /\ (isRefreshing <=> LiveRefreshes # {})
  <2>1. CASE LiveRefreshes = {}
    BY <1>1, <2>1, FS_EmptySet DEF RefreshExplained, RefreshAlone
  <2>2. CASE LiveRefreshes # {}
    <3>1. PICK s : LiveRefreshes = {s}
      BY <1>1, <2>2 DEF RefreshExplained, RefreshAlone
    <3>2. Cardinality(LiveRefreshes) = 1
      BY <3>1, FS_Singleton
    <3>. QED BY <1>1, <2>2, <3>2 DEF RefreshExplained, RefreshAlone
  <2>. QED BY <2>1, <2>2
<1>. QED BY <1>2 DEF RefreshExplained, SuccessTimed, HealthAwaited, Checks, RefreshReleases, DashPending

\* A call is put into slot s.
LEMMA PutAlone ==
  ASSUME DashIInv, RefreshAlone, NEW s \in DashSlots, NEW c, DashPut(s, c),
         \/ isRefreshing' = isRefreshing /\ (Refreshes(c) <=> Refreshes(dashCalls[s]))
         \/ isRefreshing' = TRUE /\ ~isRefreshing /\ Refreshes(c)
         \/ (isRefreshing' <=> isRefreshing /\ ~Refreshes(dashCalls[s])) /\ ~Refreshes(c)
  PROVE  RefreshAlone'
<1>1. dashCalls'[s] = c /\ \A t \in DashSlots : t # s => dashCalls'[t] = dashCalls[t]
  BY DEF DashPut, DashIInv, DashCallsOK
<1>. HIDE DEF Refreshes
<1>2. (Refreshes(c) <=> Refreshes(dashCalls'[s])) /\ \A t \in DashSlots \ {s} : Refreshes(dashCalls'[t]) <=> Refreshes(dashCalls[t])
  BY <1>1
<1>. QED BY <1>2 DEF RefreshAlone

LEMMA PutAwaited ==
  ASSUME DashIInv, HealthAwaited, NEW s \in DashSlots, NEW c, DashPut(s, c),
         \/ awsHealth' # "checking"
         \/ Checks(c)
         \/ /\ awsHealth' = awsHealth /\ dashboardAt # "failed"
            /\ Checks(dashCalls[s]) => Checks(c)
  PROVE  HealthAwaited'
<1>1. dashCalls'[s] = c /\ \A t \in DashSlots : t # s => dashCalls'[t] = dashCalls[t]
  BY DEF DashPut, DashIInv, DashCallsOK
<1>. QED BY <1>1 DEF HealthAwaited

LEMMA RequestFields ==
  ASSUME NEW op
  PROVE  DashRequest(op).op = op /\ DashRequest(op).live = TRUE
BY DEF DashRequest

LEMMA SendersExplained ==
  ASSUME DashIInv, RefreshExplained, CheckHealth \/ ForceRefresh \/ SaveStarts \/ EnterDashboard
  PROVE  RefreshExplained'
<1>1. PICK op \in {"check", "health", "save", "summary"} :
         /\ dashCalls' = Send(dashCalls, DashRequest(op)) /\ Free(dashCalls) # {}
         /\ op = "health" => isRefreshing' = TRUE /\ ~isRefreshing
         /\ op # "health" => isRefreshing' = isRefreshing
         /\ op # "check" => awsHealth' = awsHealth
  BY DEF CheckHealth, ForceRefresh, SaveStarts, EnterDashboard, refreshVars
<1>2. dashboardAt # "failed"
  BY DEF CheckHealth, ForceRefresh, SaveStarts, EnterDashboard, DashIInv, FailedQuiet
<1>3. PICK s \in DOMAIN dashCalls : dashCalls[s] = None /\ DashPut(s, DashRequest(op))
  BY <1>1, SendFree DEF DashPut
<1>. DEFINE c == DashRequest(op)
<1>4. /\ s \in DashSlots /\ ~Refreshes(dashCalls[s]) /\ ~Checks(dashCalls[s])
      /\ c # None /\ c.op = op /\ c.live = TRUE
  BY <1>1, <1>3, DashRequestOK, RequestFields DEF DashIInv, DashCallsOK, Refreshes, Checks, Stages, Starting
<1>5. (Refreshes(c) <=> op = "health") /\ (Checks(c) <=> op = "check")
  BY <1>4, <1>1 DEF Refreshes, Checks, Stages
<1>. HIDE DEF c
<1>6. RefreshAlone'
  BY <1>1, <1>3, <1>4, <1>5, PutAlone DEF RefreshExplained, c
<1>7. HealthAwaited'
  BY <1>1, <1>2, <1>3, <1>4, <1>5, PutAwaited DEF RefreshExplained, c
<1>8. SuccessTimed'
  BY DEF CheckHealth, ForceRefresh, SaveStarts, EnterDashboard, refreshVars, RefreshExplained, SuccessTimed
<1>. QED BY <1>6, <1>7, <1>8 DEF RefreshExplained

LEMMA AnswersExplained ==
  ASSUME DashIInv, RefreshExplained, NEW s \in DashSlots,
         \/ HealthChecked(s) \/ NotConnected(s) \/ RefreshStarts(s) \/ ScanTriggered(s)
         \/ RefreshSucceeds(s) \/ RefreshFails(s) \/ SaveEnds(s)
         \/ SummaryArrives(s) \/ SummaryLost(s)
  PROVE  RefreshExplained'
<1>0. dashCalls[s] # None /\ dashCalls[s] \in DashCall /\ dashboardAt # "failed" /\ isRefreshing \in BOOLEAN
  BY DEF HealthChecked, NotConnected, RefreshStarts, ScanTriggered, RefreshSucceeds, RefreshFails,
         SaveEnds, SummaryArrives, SummaryLost, DashPending, DashIInv, DashRestOK, DashCallsOK, FailedQuiet
<1>1. SuccessTimed'
  <2>1. CASE RefreshSucceeds(s)
    <3>1. refreshTimers \in Nat
      BY MaxTimersNat DEF DashIInv, TimersOK
    <3>2. refreshTimers' = refreshTimers + 1 \/ UNCHANGED <<refreshSuccess, refreshTimers>>
      BY <2>1 DEF RefreshSucceeds
    <3>3. CASE refreshTimers' = refreshTimers + 1
      <4>1. refreshTimers' > 0
        BY <3>1, <3>3
      <4>. QED BY <4>1 DEF SuccessTimed
    <3>4. CASE UNCHANGED <<refreshSuccess, refreshTimers>>
      BY <3>4 DEF RefreshExplained, SuccessTimed
    <3>. QED BY <3>2, <3>3, <3>4
  <2>2. CASE ~RefreshSucceeds(s)
    <3>1. UNCHANGED <<refreshSuccess, refreshTimers>>
      BY <2>2 DEF HealthChecked, NotConnected, RefreshStarts, ScanTriggered, RefreshFails,
         SaveEnds, SummaryArrives, SummaryLost, refreshVars
    <3>. QED BY <3>1 DEF RefreshExplained, SuccessTimed
  <2>. QED BY <2>1, <2>2
<1>2. ASSUME NEW c, DashPut(s, c), ~Checks(dashCalls[s]) \/ awsHealth' # "checking",
             awsHealth' = awsHealth \/ awsHealth' # "checking",
             \/ isRefreshing' = isRefreshing /\ (Refreshes(c) <=> Refreshes(dashCalls[s]))
             \/ (isRefreshing' <=> isRefreshing /\ ~Refreshes(dashCalls[s])) /\ ~Refreshes(c)
      PROVE  RefreshExplained'
  BY <1>0, <1>1, <1>2, PutAlone, PutAwaited DEF RefreshExplained
<1>3. CASE HealthChecked(s) \/ SummaryArrives(s) \/ SummaryLost(s)
  <2>1. DashPut(s, None) /\ isRefreshing' = isRefreshing
    BY <1>3 DEF HealthChecked, SummaryArrives, SummaryLost, Answered, DashPut, refreshVars
  <2>2. \/ dashCalls[s].op = "check" /\ awsHealth' # "checking"
        \/ dashCalls[s].op = "summary" /\ awsHealth' = awsHealth
    BY <1>3 DEF HealthChecked, SummaryArrives, SummaryLost, DashPending
  <2>3. ~Refreshes(None) /\ ~Refreshes(dashCalls[s])
    BY <2>2 DEF Refreshes, Stages
  <2>. QED BY <1>2, <2>1, <2>2, <2>3 DEF Checks
<1>4. ASSUME dashCalls[s].op \in Stages, NoLongerRefreshing(s), awsHealth' = awsHealth,
             NEW c, DashPut(s, c), ~Refreshes(c)
      PROVE  RefreshExplained'
  <2>1. (Refreshes(dashCalls[s]) <=> dashCalls[s].live) /\ ~Checks(dashCalls[s])
    BY <1>0, <1>4 DEF Refreshes, Checks, Stages
  <2>2. isRefreshing' <=> isRefreshing /\ ~dashCalls[s].live
    BY <1>0, <1>4 DEF NoLongerRefreshing
  <2>. QED BY <1>2, <1>4, <2>1, <2>2
<1>5. CASE NotConnected(s) \/ RefreshFails(s)
  <2>1. DashPut(s, None) /\ NoLongerRefreshing(s) /\ awsHealth' = awsHealth /\ dashCalls[s].op \in Stages
    BY <1>5 DEF NotConnected, RefreshFails, Answered, DashPut, DashPending, Stages
  <2>. QED BY <1>4, <2>1 DEF Refreshes
<1>6. CASE RefreshStarts(s) \/ ScanTriggered(s)
  <2>1. PICK op \in {"trigger", "poll"} : dashCalls' = MovesOn(s, op)
    BY <1>6 DEF RefreshStarts, ScanTriggered
  <2>2. dashCalls[s].op \in Stages /\ awsHealth' = awsHealth /\ isRefreshing' = isRefreshing
    BY <1>6 DEF RefreshStarts, ScanTriggered, DashPending, Stages, refreshVars
  <2>. DEFINE c == [dashCalls[s] EXCEPT !.op = op]
  <2>3. c \in DashCall /\ c.op = op /\ c.live = dashCalls[s].live
    BY <1>0, <2>1 DEF DashCall, Stages
  <2>4. DashPut(s, c)
    BY <2>1 DEF MovesOn, DashPut
  <2>. HIDE DEF c, DashCall
  <2>5. (Refreshes(c) <=> Refreshes(dashCalls[s])) /\ ~Checks(dashCalls[s])
    BY <1>0, <2>1, <2>2, <2>3, DashboardAssumption DEF Refreshes, Checks, Stages
  <2>. QED BY <1>2, <2>2, <2>4, <2>5
<1>7. ASSUME RefetchSummary(s)
      PROVE  \E c : DashPut(s, c) /\ ~Refreshes(c)
  BY <1>7, RequestFields DEF RefetchSummary, Answered, DashPut, Refreshes, Stages
<1>8. CASE RefreshSucceeds(s)
  <2>1. NoLongerRefreshing(s) /\ awsHealth' = awsHealth /\ dashCalls[s].op \in Stages /\ RefetchSummary(s)
    BY <1>8 DEF RefreshSucceeds, DashPending, Stages
  <2>. QED BY <1>4, <1>7, <2>1
<1>9. CASE SaveEnds(s)
  <2>1. dashCalls[s].op = "save" /\ awsHealth' = awsHealth /\ isRefreshing' = isRefreshing
    BY <1>9 DEF SaveEnds, DashPending, refreshVars
  <2>2. PICK c : DashPut(s, c) /\ ~Refreshes(c)
    BY <1>7, <1>9 DEF SaveEnds, Answered, DashPut, Refreshes
  <2>. QED BY <1>2, <2>1, <2>2 DEF Refreshes, Checks, Stages
<1>. QED BY <1>3, <1>5, <1>6, <1>8, <1>9

\* Without the dashboard no refresh is its own.
LEMMA WithoutExplained ==
  ASSUME DashIInv, NEW s \in DashSlots
  PROVE  /\ ~Refreshes(WithoutDashboard[s])
         /\ Checks(dashCalls[s]) => Checks(WithoutDashboard[s])
<1>1. dashCalls[s] # None => dashCalls[s] \in DashCall
  BY DEF DashIInv, DashCallsOK
<1>2. WithoutDashboard[s] =
        IF DashPending(s, Stages) THEN [dashCalls[s] EXCEPT !.live = FALSE]
        ELSE IF DashPending(s, {"summary"}) THEN None ELSE dashCalls[s]
  BY DEF WithoutDashboard
<1>3. dashCalls[s] # None => [dashCalls[s] EXCEPT !.live = FALSE].live = FALSE
  BY <1>1 DEF DashCall
<1>. HIDE DEF DashCall
<1>4. CASE DashPending(s, Stages)
  BY <1>2, <1>3, <1>4 DEF DashPending, Refreshes, Checks, Stages
<1>5. CASE ~DashPending(s, Stages)
  BY <1>2, <1>5 DEF DashPending, Refreshes, Checks
<1>. QED BY <1>4, <1>5

\* Layout and dashboard mounted: the connection is checked, nothing refreshed.
LEMMA MountedExplained ==
  ASSUME NEW calls \in [DashSlots -> DashCall \cup {None}], \A s \in DashSlots : calls[s] = None
  PROVE  LET after == Send(Send(calls, DashRequest("check")), DashRequest("summary")) IN
         (\A s \in DashSlots : ~Refreshes(after[s])) /\ \E s \in DashSlots : Checks(after[s])
<1>. DEFINE one == Send(calls, DashRequest("check"))
            two == Send(one, DashRequest("summary"))
<1>1. Free(calls) # {}
  BY DashboardAssumption DEF Free
<1>2. PICK s \in DashSlots : one = [calls EXCEPT ![s] = DashRequest("check")]
  BY <1>1, SendFree
<1>3. PICK t \in DashSlots : t # s
  BY DashboardAssumption
<1>. HIDE DEF DashCall, one
<1>4. /\ one[s] = DashRequest("check") /\ (\A u \in DashSlots \ {s} : one[u] = None)
      /\ DOMAIN one = DashSlots
  BY <1>2
<1>5. Free(one) # {}
  BY <1>3, <1>4 DEF Free
<1>6. PICK u \in DashSlots : one[u] = None /\ two = [one EXCEPT ![u] = DashRequest("summary")]
  BY <1>4, <1>5, SendFree
<1>. HIDE DEF two
<1>7. u # s
  BY <1>4, <1>6, DashRequestOK
<1>8. two[s] = DashRequest("check") /\ two[u] = DashRequest("summary") /\ \A v \in DashSlots \ {s, u} : two[v] = None
  BY <1>4, <1>6, <1>7
<1>9. /\ Checks(DashRequest("check")) /\ ~Refreshes(DashRequest("check"))
      /\ ~Refreshes(DashRequest("summary")) /\ ~Refreshes(None)
  BY DashRequestOK DEF Checks, Refreshes, Stages
<1>10. (\A v \in DashSlots : ~Refreshes(two[v])) /\ \E v \in DashSlots : Checks(two[v])
  BY <1>8, <1>9
<1>. QED BY <1>10 DEF one, two

LEMMA PagesExplained ==
  ASSUME DashIInv, RefreshExplained,
         LeaveDashboard \/ RemountLayout \/ (\E s \in DashSlots : SummaryUnreadable(s)) \/ ReloadDashboard
  PROVE  RefreshExplained'
<1>. HIDE DEF DashCall
<1>1. CASE LeaveDashboard
  <2>1. /\ isRefreshing' = FALSE /\ refreshSuccess' = FALSE /\ awsHealth' = awsHealth
        /\ dashCalls' = WithoutDashboard /\ dashboardAt # "failed"
    BY <1>1 DEF LeaveDashboard, PageGone
  <2>. QED BY <2>1, WithoutExplained DEF RefreshExplained, RefreshAlone, HealthAwaited, SuccessTimed
<1>2. CASE RemountLayout
  <2>. DEFINE running == [s \in DashSlots |->
                           IF DashPending(s, {"check"}) THEN None ELSE WithoutDashboard[s]]
              c == DashRequest("check")
  <2>1. Free(running) # {} /\ dashCalls' = Send(running, c) /\ isRefreshing' = FALSE /\ refreshSuccess' = FALSE
    BY <1>2 DEF RemountLayout, PageGone
  <2>2. PICK s \in DOMAIN running : dashCalls' = [running EXCEPT ![s] = c]
    BY <2>1, SendFree
  <2>3. Checks(c) /\ ~Refreshes(c)
    BY DashRequestOK DEF Checks, Refreshes, Stages
  <2>4. \A t \in DashSlots : ~Refreshes(running[t])
    BY WithoutExplained DEF Refreshes
  <2>5. s \in DashSlots /\ DOMAIN running = DashSlots
    BY <2>2
  <2>. HIDE DEF running, c
  <2>6. dashCalls'[s] = c /\ \A t \in DashSlots \ {s} : dashCalls'[t] = running[t]
    BY <2>2, <2>5
  <2>. QED BY <2>1, <2>3, <2>4, <2>5, <2>6 DEF RefreshExplained, RefreshAlone, HealthAwaited, SuccessTimed
<1>3. CASE \E s \in DashSlots : SummaryUnreadable(s)
  BY <1>3 DEF SummaryUnreadable, PageGone, RefreshExplained, RefreshAlone, HealthAwaited, SuccessTimed, Refreshes
<1>4. CASE ReloadDashboard
  <2>1. /\ \A s \in DashSlots : dashCalls[s] = None
        /\ dashCalls \in [DashSlots -> DashCall \cup {None}]
    BY <1>4 DEF ReloadDashboard, DashIInv, FailedQuiet, DashCallsOK
  <2>2. (\A s \in DashSlots : ~Refreshes(dashCalls'[s])) /\ \E s \in DashSlots : Checks(dashCalls'[s])
    BY <1>4, <2>1, MountedExplained DEF ReloadDashboard
  <2>3. ~isRefreshing
    BY <2>1 DEF RefreshExplained, RefreshAlone, Refreshes
  <2>4. UNCHANGED <<isRefreshing, refreshSuccess, refreshTimers>>
    BY <1>4 DEF ReloadDashboard, refreshVars
  <2>. QED BY <2>2, <2>3, <2>4 DEF RefreshExplained, RefreshAlone, HealthAwaited, SuccessTimed
<1>. QED BY <1>1, <1>2, <1>3, <1>4

LEMMA RefreshExplainedStep == DashIInv /\ RefreshExplained /\ [DashNext]_dashVars => RefreshExplained'
<1>. SUFFICES ASSUME DashIInv, RefreshExplained, [DashNext]_dashVars PROVE RefreshExplained'
  OBVIOUS
<1>1. CASE UNCHANGED dashVars
  BY <1>1 DEF dashVars, RefreshExplained, RefreshAlone, HealthAwaited, SuccessTimed
<1>2. CASE IndicatorTimeout \/ RefreshedTimeout
  BY <1>2 DEF IndicatorTimeout, RefreshedTimeout, refreshVars, RefreshExplained, RefreshAlone, HealthAwaited, SuccessTimed
<1>. QED BY <1>1, <1>2, SendersExplained, AnswersExplained, PagesExplained DEF DashNext

LEMMA RefreshExplainedInit == DashInit => RefreshExplained
<1>. SUFFICES ASSUME DashInit PROVE RefreshExplained
  OBVIOUS
<1>1. (\A s \in DashSlots : ~Refreshes(dashCalls[s])) /\ \E s \in DashSlots : Checks(dashCalls[s])
  BY MountedExplained DEF DashInit
<1>. QED BY <1>1 DEF DashInit, RefreshExplained, RefreshAlone, HealthAwaited, SuccessTimed

\* handleForceRefresh: one refresh of a dashboard at a time, and its button, its
\* message and the check of the connection are each given back.
THEOREM RefreshReleased == DashSpec => []RefreshReleases
BY RefreshExplainedInit, RefreshExplainedStep, RefreshExplainedImplies, DashInitIInv, DashNextIInv, PTL
   DEF DashSpec

-----------------------------------------------------------------------------
(* The cost anomalies                                                      *)

AnomalyIInv == AnomalyTypeOK /\ StatsMatchList

\* The counts of a list are bounded by what may be listed.
LEMMA CountsBounded ==
  ASSUME NEW list
  PROVE  CountsOf(list) \in [active : 0..Cardinality(Spikes), critical : 0..Cardinality(Critical)]
<1> DEFINE A == {a \in Spikes : list[a] = "active"}
           C == {a \in Critical : list[a] = "active"}
<1>1. IsFiniteSet(Spikes) /\ IsFiniteSet(Critical)
  BY AnomalyAssumption, FS_Subset
<1>2. A \in SUBSET Spikes /\ C \in SUBSET Critical
  OBVIOUS
<1>3. /\ IsFiniteSet(A) /\ Cardinality(A) <= Cardinality(Spikes)
      /\ IsFiniteSet(C) /\ Cardinality(C) <= Cardinality(Critical)
  BY <1>1, <1>2, FS_Subset
<1>4. /\ Cardinality(A) \in Nat /\ Cardinality(C) \in Nat
      /\ Cardinality(Spikes) \in Nat /\ Cardinality(Critical) \in Nat
  BY <1>1, <1>3, FS_CardinalityType
<1>5. CountsOf(list) = [active |-> Cardinality(A), critical |-> Cardinality(C)]
  BY DEF CountsOf
<1> HIDE DEF A, C
<1> QED BY <1>3, <1>4, <1>5

\* A list of nothing has counts of zero.
LEMMA NoCounts == CountsOf([a \in Spikes |-> None]) = [active |-> 0, critical |-> 0]
<1> DEFINE list == [a \in Spikes |-> None]
<1>1. None # "active"
  BY AnomalyAssumption DEF SpikeStatus
<1>2. {a \in Spikes : list[a] = "active"} = {} /\ {a \in Critical : list[a] = "active"} = {}
  BY <1>1, AnomalyAssumption
<1> QED BY <1>2, FS_EmptySet DEF CountsOf

LEMMA SpikeRequestType ==
  ASSUME NEW op \in {"list", "settings", "acknowledge"}, NEW a \in Spikes \cup {None},
         NEW calls \in [SpikeSlots -> SpikeCall \cup {None}], Free(calls) # {}
  PROVE  Send(calls, SpikeRequest(op, a)) \in [SpikeSlots -> SpikeCall \cup {None}]
<1>1. SpikeRequest(op, a) \in SpikeCall
  BY DEF SpikeRequest, SpikeCall
<1> QED BY <1>1, SendType

LEMMA MountedType == Mounted \in [SpikeSlots -> SpikeCall \cup {None}]
<1> DEFINE empty == [s \in SpikeSlots |-> None]
<1>1. empty \in [SpikeSlots -> SpikeCall \cup {None}] /\ Free(empty) # {}
  BY AnomalyAssumption DEF Free
<1> HIDE DEF empty
<1>2. Send(empty, SpikeRequest("list", None)) \in [SpikeSlots -> SpikeCall \cup {None}]
  BY <1>1, SpikeRequestType
<1> QED BY <1>2 DEF Mounted, empty

LEMMA AnomalyStep == AnomalyIInv /\ [AnomalyNext]_anomalyVars => AnomalyIInv'
<1> SUFFICES ASSUME AnomalyIInv, [AnomalyNext]_anomalyVars PROVE AnomalyIInv'
  OBVIOUS
<1>0. AnomalyTypeOK /\ StatsMatchList
  BY DEF AnomalyIInv
<1>1. ASSUME UNCHANGED <<spikes, spikeStats>>,
             selectedSpike' = selectedSpike \/ selectedSpike' \in ActiveSpikes,
             sensitivity' \in Sensitivities, spikesLoading' \in BOOLEAN,
             acknowledging' \subseteq Spikes, asked' \subseteq Spikes,
             spikeCalls' \in [SpikeSlots -> SpikeCall \cup {None}]
      PROVE  AnomalyIInv'
  <2>1. selectedSpike' # None => selectedSpike' \in ActiveSpikes
    BY <1>0, <1>1 DEF StatsMatchList
  <2>2. ActiveSpikes' = ActiveSpikes /\ CountsOf(spikes)' = CountsOf(spikes)
    BY <1>1 DEF ActiveSpikes, CountsOf
  <2>3. StatsMatchList'
    BY <1>0, <1>1, <2>1, <2>2 DEF StatsMatchList
  <2>4. selectedSpike' \in Spikes \cup {None}
    BY <2>1 DEF ActiveSpikes
  <2>5. AnomalyTypeOK'
    BY <1>0, <1>1, <2>4 DEF AnomalyTypeOK
  <2> QED BY <2>3, <2>5 DEF AnomalyIInv
<1>2. CASE SelectSpike
  <2>1. SpikeCards \subseteq ActiveSpikes
    BY DEF SpikeCards
  <2> QED BY <1>0, <1>1, <1>2, <2>1 DEF SelectSpike, AnomalyTypeOK
<1>3. CASE Acknowledge
  <2>1. selectedSpike \in Spikes
    BY <1>3 DEF Acknowledge, SpikeCards, ActiveSpikes
  <2>2. spikeCalls' \in [SpikeSlots -> SpikeCall \cup {None}]
    BY <1>0, <1>3, <2>1, SpikeRequestType DEF Acknowledge, AnomalyTypeOK
  <2> QED BY <1>0, <1>1, <1>3, <2>1, <2>2 DEF Acknowledge, AnomalyTypeOK
<1>4. CASE ChangeSensitivity \/ SpikesRefreshed
  <2>1. spikeCalls' \in [SpikeSlots -> SpikeCall \cup {None}]
    BY <1>0, <1>4, SpikeRequestType DEF ChangeSensitivity, SpikesRefreshed, AnomalyTypeOK
  <2> QED BY <1>0, <1>1, <1>4, <2>1 DEF ChangeSensitivity, SpikesRefreshed, AnomalyTypeOK
<1>5. ASSUME NEW s \in SpikeSlots, SensitivityStored(s) PROVE AnomalyIInv'
  <2>1. spikeCalls[s] \in SpikeCall /\ spikeCalls \in [SpikeSlots -> SpikeCall \cup {None}]
    BY <1>0, <1>5 DEF SensitivityStored, SpikePending, AnomalyTypeOK
  <2>2. [spikeCalls[s] EXCEPT !.op = "list"] \in SpikeCall
    BY <2>1 DEF SpikeCall
  <2>3. \/ spikeCalls' = [spikeCalls EXCEPT ![s] = [spikeCalls[s] EXCEPT !.op = "list"]]
        \/ spikeCalls' = [spikeCalls EXCEPT ![s] = None]
    BY <1>5 DEF SensitivityStored, Answered
  <2>4. spikeCalls' \in [SpikeSlots -> SpikeCall \cup {None}]
    BY <2>1, <2>2, <2>3
  <2> QED BY <1>0, <1>1, <1>5, <2>4 DEF SensitivityStored, AnomalyTypeOK
<1>6. ASSUME NEW s \in SpikeSlots, SpikesLost(s) \/ AcknowledgeFails(s) PROVE AnomalyIInv'
  <2>1. spikeCalls' \in [SpikeSlots -> SpikeCall \cup {None}]
    BY <1>0, <1>6, AnsweredType DEF SpikesLost, AcknowledgeFails, AnomalyTypeOK
  <2> QED BY <1>0, <1>1, <1>6, <2>1 DEF SpikesLost, AcknowledgeFails, AnomalyTypeOK
<1>7. ASSUME NEW s \in SpikeSlots, SpikesListed(s) PROVE AnomalyIInv'
  <2>1. /\ spikes' \in [Spikes -> SpikeStatus \cup {None}] /\ spikeStats' = CountsOf(spikes')
        /\ selectedSpike' \in {None} \cup ActiveSpikes'
        /\ spikesLoading' = FALSE /\ UNCHANGED <<sensitivity, acknowledging, asked>>
    BY <1>7 DEF SpikesListed, SpikeLists, ActiveSpikes
  <2>2. spikeCalls' \in [SpikeSlots -> SpikeCall \cup {None}]
    BY <1>0, <1>7, AnsweredType DEF SpikesListed, AnomalyTypeOK
  <2>3. StatsMatchList'
    BY <2>1 DEF StatsMatchList
  <2>4. selectedSpike' \in Spikes \cup {None}
    BY <2>1 DEF ActiveSpikes
  <2>5. AnomalyTypeOK'
    BY <1>0, <2>1, <2>2, <2>4, CountsBounded DEF AnomalyTypeOK
  <2> QED BY <2>3, <2>5 DEF AnomalyIInv
<1>8. ASSUME NEW s \in SpikeSlots, Acknowledged(s) PROVE AnomalyIInv'
  <2> DEFINE id == spikeCalls[s].spike
  <2>1. /\ spikes' = [spikes EXCEPT ![id] = IF @ = None THEN None ELSE "acknowledged"]
        /\ spikeStats' = CountsOf(spikes') /\ acknowledging' \subseteq acknowledging
        /\ selectedSpike' = None /\ UNCHANGED <<sensitivity, spikesLoading, asked>>
    BY <1>8 DEF Acknowledged, CountsAfter
  <2>2. spikes' \in [Spikes -> SpikeStatus \cup {None}]
    BY <1>0, <2>1 DEF AnomalyTypeOK, SpikeStatus
  <2>3. spikeCalls' \in [SpikeSlots -> SpikeCall \cup {None}]
    BY <1>0, <1>8, AnsweredType DEF Acknowledged, AnomalyTypeOK
  <2>4. StatsMatchList'
    BY <2>1 DEF StatsMatchList
  <2>5. AnomalyTypeOK'
    BY <1>0, <2>1, <2>2, <2>3, CountsBounded DEF AnomalyTypeOK
  <2> QED BY <2>4, <2>5 DEF AnomalyIInv
<1>9. CASE RemountAnomalies
  <2>1. StatsMatchList'
    BY <1>9, NoCounts DEF RemountAnomalies, StatsMatchList
  <2>2. spikeStats' = CountsOf([a \in Spikes |-> None])
    BY <1>9, NoCounts DEF RemountAnomalies
  <2>3. AnomalyTypeOK'
    BY <1>0, <1>9, <2>2, CountsBounded, MountedType DEF RemountAnomalies, AnomalyTypeOK, Sensitivities
  <2> QED BY <2>1, <2>3 DEF AnomalyIInv
<1>10. CASE UNCHANGED anomalyVars
  BY <1>0, <1>1, <1>10 DEF anomalyVars, AnomalyTypeOK
<1> QED BY <1>2, <1>3, <1>4, <1>5, <1>6, <1>7, <1>8, <1>9, <1>10 DEF AnomalyNext

LEMMA AnomalyInitIInv == AnomalyInit => AnomalyIInv
<1> SUFFICES ASSUME AnomalyInit PROVE AnomalyIInv
  OBVIOUS
<1>1. /\ spikes = [a \in Spikes |-> None] /\ spikeStats = CountsOf(spikes)
      /\ selectedSpike = None /\ sensitivity = "high" /\ spikesLoading = TRUE
      /\ acknowledging = {} /\ asked = {} /\ spikeCalls = Mounted
  BY NoCounts DEF AnomalyInit, AnomalyFresh
<1>2. AnomalyTypeOK
  BY <1>1, CountsBounded, MountedType DEF AnomalyTypeOK, Sensitivities
<1>3. StatsMatchList
  BY <1>1 DEF StatsMatchList
<1> QED BY <1>2, <1>3 DEF AnomalyIInv

LEMMA AnomalyInvariance == AnomalySpec => []AnomalyIInv
BY AnomalyInitIInv, AnomalyStep, PTL DEF AnomalySpec

\* Types of the widget; the counts stay within what may be listed.
THEOREM AnomalyTypes == AnomalySpec => []AnomalyTypeOK
<1>1. AnomalyIInv => AnomalyTypeOK
  BY DEF AnomalyIInv
<1> QED BY <1>1, AnomalyInvariance, PTL

\* The counts are those of the list that is shown, and the selected spike is an
\* active one of it, whatever lists and acknowledgements cross (fetchAnomalies,
\* handleAcknowledge).
THEOREM StatsMatch == AnomalySpec => []StatsMatchList
<1>1. AnomalyIInv => StatsMatchList
  BY DEF AnomalyIInv
<1> QED BY <1>1, AnomalyInvariance, PTL

\* No two acknowledgements of one spike are under way.
AcksApart ==
  \A s, t \in SpikeSlots :
    SpikePending(s, "acknowledge") /\ SpikePending(t, "acknowledge") /\ spikeCalls[s].spike = spikeCalls[t].spike
      => s = t

ButtonsExplained == AnomalyReleases /\ AcksApart

LEMMA SpikeSent ==
  ASSUME AnomalyTypeOK, NEW op \in {"list", "settings", "acknowledge"}, NEW a \in Spikes \cup {None},
         Free(spikeCalls) # {}, spikeCalls' = Send(spikeCalls, SpikeRequest(op, a))
  PROVE  \E n \in SpikeSlots :
           /\ spikeCalls[n] = None /\ spikeCalls'[n] # None
           /\ spikeCalls'[n].op = op /\ spikeCalls'[n].spike = a
           /\ \A s \in SpikeSlots \ {n} : spikeCalls'[s] = spikeCalls[s]
<1>. DEFINE c == SpikeRequest(op, a)
<1>1. c \in SpikeCall /\ c.op = op /\ c.spike = a
  BY DEF SpikeRequest, SpikeCall
<1>2. c # None
  BY <1>1, AnomalyAssumption
<1>. HIDE DEF c
<1>3. PICK n \in DOMAIN spikeCalls : spikeCalls[n] = None /\ spikeCalls' = [spikeCalls EXCEPT ![n] = c]
  BY SendFree DEF c
<1>4. spikeCalls \in [SpikeSlots -> SpikeCall \cup {None}]
  BY DEF AnomalyTypeOK
<1>5. n \in SpikeSlots /\ spikeCalls'[n] = c /\ \A s \in SpikeSlots \ {n} : spikeCalls'[s] = spikeCalls[s]
  BY <1>3, <1>4
<1>. QED BY <1>1, <1>2, <1>3, <1>5

LEMMA SpikesMounted ==
  \E n \in SpikeSlots : /\ Mounted[n] # None /\ Mounted[n].op = "list"
                        /\ \A s \in SpikeSlots \ {n} : Mounted[s] = None
<1>. DEFINE empty == [s \in SpikeSlots |-> None]
            c == SpikeRequest("list", None)
<1>1. c \in SpikeCall /\ c.op = "list"
  BY DEF SpikeRequest, SpikeCall
<1>2. c # None
  BY <1>1, AnomalyAssumption
<1>3. Free(empty) # {} /\ DOMAIN empty = SpikeSlots
  BY AnomalyAssumption DEF Free
<1>. HIDE DEF c
<1>4. PICK n \in SpikeSlots : Mounted = [empty EXCEPT ![n] = c]
  BY <1>3, SendFree DEF Mounted, c
<1>. QED BY <1>1, <1>2, <1>4

LEMMA ButtonsExplainedStep == AnomalyIInv /\ ButtonsExplained /\ [AnomalyNext]_anomalyVars => ButtonsExplained'
<1>. SUFFICES ASSUME AnomalyIInv, ButtonsExplained, [AnomalyNext]_anomalyVars PROVE ButtonsExplained'
  OBVIOUS
<1>. DEFINE Ack(s) == spikeCalls[s] # None /\ spikeCalls[s].op = "acknowledge"
            Lst(s) == spikeCalls[s] # None /\ spikeCalls[s].op = "list"
<1>0. /\ AnomalyTypeOK /\ spikeCalls \in [SpikeSlots -> SpikeCall \cup {None}] /\ spikesLoading \in BOOLEAN
      /\ \A s \in SpikeSlots : Ack(s) => spikeCalls[s].spike \in acknowledging
      /\ \A a \in acknowledging : \E s \in SpikeSlots : Ack(s) /\ spikeCalls[s].spike = a
      /\ \A s, t \in SpikeSlots : Ack(s) /\ Ack(t) /\ spikeCalls[s].spike = spikeCalls[t].spike => s = t
      /\ spikesLoading => \E s \in SpikeSlots : Lst(s)
  BY DEF AnomalyIInv, AnomalyTypeOK, ButtonsExplained, AnomalyReleases, AcksApart, SpikePending
<1>. HIDE DEF SpikeCall
<1>1. ASSUME \A s \in SpikeSlots : Ack(s)' => spikeCalls'[s].spike \in acknowledging',
             \A a \in acknowledging' : \E s \in SpikeSlots : Ack(s)' /\ spikeCalls'[s].spike = a,
             \A s, t \in SpikeSlots : Ack(s)' /\ Ack(t)' /\ spikeCalls'[s].spike = spikeCalls'[t].spike => s = t,
             spikesLoading' => \E s \in SpikeSlots : Lst(s)'
      PROVE  ButtonsExplained'
  BY <1>1 DEF ButtonsExplained, AnomalyReleases, AcksApart, SpikePending
<1>2. ASSUME NEW n \in SpikeSlots, ~Ack(n), ~Ack(n)', acknowledging' = acknowledging,
             \A s \in SpikeSlots \ {n} : spikeCalls'[s] = spikeCalls[s],
             spikesLoading' => (spikesLoading /\ ~Lst(n)) \/ Lst(n)'
      PROVE  ButtonsExplained'
  BY <1>0, <1>1, <1>2
<1>3. CASE SelectSpike \/ UNCHANGED anomalyVars
  BY <1>0, <1>1, <1>3 DEF SelectSpike, anomalyVars
<1>4. CASE Acknowledge
  <2>1. selectedSpike \in Spikes \ acknowledging
    BY <1>4 DEF Acknowledge, SpikeCards, ActiveSpikes
  <2>2. PICK n \in SpikeSlots :
           /\ spikeCalls[n] = None /\ spikeCalls'[n] # None
           /\ spikeCalls'[n].op = "acknowledge" /\ spikeCalls'[n].spike = selectedSpike
           /\ \A s \in SpikeSlots \ {n} : spikeCalls'[s] = spikeCalls[s]
    BY <1>0, <1>4, <2>1, SpikeSent DEF Acknowledge
  <2>3. acknowledging' = acknowledging \cup {selectedSpike} /\ spikesLoading' = spikesLoading
    BY <1>4 DEF Acknowledge
  <2>. QED BY <1>0, <1>1, <2>1, <2>2, <2>3
<1>5. CASE ChangeSensitivity
  <2>1. PICK n \in SpikeSlots :
           /\ spikeCalls[n] = None /\ spikeCalls'[n] # None /\ spikeCalls'[n].op = "settings"
           /\ \A s \in SpikeSlots \ {n} : spikeCalls'[s] = spikeCalls[s]
    BY <1>0, <1>5, SpikeSent DEF ChangeSensitivity
  <2>. QED BY <1>2, <1>5, <2>1 DEF ChangeSensitivity
<1>6. CASE SpikesRefreshed
  <2>1. PICK n \in SpikeSlots :
           /\ spikeCalls[n] = None /\ spikeCalls'[n] # None /\ spikeCalls'[n].op = "list"
           /\ \A s \in SpikeSlots \ {n} : spikeCalls'[s] = spikeCalls[s]
    BY <1>0, <1>6, SpikeSent DEF SpikesRefreshed
  <2>. QED BY <1>2, <1>6, <2>1 DEF SpikesRefreshed
<1>7. ASSUME NEW s \in SpikeSlots, SensitivityStored(s) PROVE ButtonsExplained'
  <2>1. spikeCalls[s] \in SpikeCall /\ spikeCalls[s].op = "settings" /\ acknowledging' = acknowledging
    BY <1>0, <1>7 DEF SensitivityStored, SpikePending
  <2>2. CASE spikesLoading' = TRUE /\ spikeCalls' = [spikeCalls EXCEPT ![s].op = "list"]
    <3>1. spikeCalls'[s].op = "list" /\ spikeCalls'[s] \in SpikeCall
      BY <1>0, <2>1, <2>2 DEF SpikeCall
    <3>2. spikeCalls'[s] # None /\ \A t \in SpikeSlots \ {s} : spikeCalls'[t] = spikeCalls[t]
      BY <1>0, <2>2, <3>1, AnomalyAssumption
    <3>. QED BY <1>2, <2>1, <3>1, <3>2
  <2>3. CASE spikesLoading' = spikesLoading /\ spikeCalls' = Answered(spikeCalls, s)
    <3>1. spikeCalls'[s] = None /\ \A t \in SpikeSlots \ {s} : spikeCalls'[t] = spikeCalls[t]
      BY <1>0, <2>3 DEF Answered
    <3>. QED BY <1>2, <2>1, <2>3, <3>1
  <2>. QED BY <1>7, <2>2, <2>3 DEF SensitivityStored
<1>8. ASSUME NEW s \in SpikeSlots, SpikesListed(s) \/ SpikesLost(s) PROVE ButtonsExplained'
  <2>1. /\ spikeCalls[s].op = "list" /\ acknowledging' = acknowledging /\ spikesLoading' = FALSE
        /\ spikeCalls' = Answered(spikeCalls, s)
    BY <1>8 DEF SpikesListed, SpikesLost, SpikePending
  <2>2. spikeCalls'[s] = None /\ \A t \in SpikeSlots \ {s} : spikeCalls'[t] = spikeCalls[t]
    BY <1>0, <2>1 DEF Answered
  <2>. QED BY <1>2, <2>1, <2>2
<1>9. ASSUME NEW s \in SpikeSlots, Acknowledged(s) \/ AcknowledgeFails(s) PROVE ButtonsExplained'
  <2>1. /\ Ack(s) /\ acknowledging' = acknowledging \ {spikeCalls[s].spike} /\ spikesLoading' = spikesLoading
        /\ spikeCalls' = Answered(spikeCalls, s)
    BY <1>9 DEF Acknowledged, AcknowledgeFails, SpikePending
  <2>2. spikeCalls'[s] = None /\ \A t \in SpikeSlots \ {s} : spikeCalls'[t] = spikeCalls[t]
    BY <1>0, <2>1 DEF Answered
  <2>3. \A t \in SpikeSlots : Ack(t)' <=> Ack(t) /\ t # s
    BY <2>1, <2>2
  <2>4. \A t \in SpikeSlots : Lst(t) => Lst(t)'
    BY <2>1, <2>2
  <2>. QED BY <1>0, <1>1, <2>1, <2>2, <2>3, <2>4
<1>10. CASE RemountAnomalies
  <2>1. PICK n \in SpikeSlots : /\ Mounted[n] # None /\ Mounted[n].op = "list"
                                /\ \A s \in SpikeSlots \ {n} : Mounted[s] = None
    BY SpikesMounted
  <2>. QED BY <1>1, <1>10, <2>1 DEF RemountAnomalies
<1>. QED
  BY <1>3, <1>4, <1>5, <1>6, <1>7, <1>8, <1>9, <1>10 DEF AnomalyNext

LEMMA ButtonsExplainedInit == AnomalyInit => ButtonsExplained
BY SpikesMounted DEF AnomalyInit, AnomalyFresh, ButtonsExplained, AnomalyReleases, AcksApart, SpikePending

\* handleAcknowledge's buttons are those of the acknowledgements under way, one
\* for each spike, and the cards come back.
THEOREM AnomalyReleased == AnomalySpec => []AnomalyReleases
<1>1. ButtonsExplained => AnomalyReleases
  BY DEF ButtonsExplained
<1>. QED BY <1>1, ButtonsExplainedInit, ButtonsExplainedStep, AnomalyInitIInv, AnomalyStep, PTL DEF AnomalySpec

-----------------------------------------------------------------------------
(* The top bar                                                             *)

TopbarIInv == TopbarTypeOK /\ SelectedScopeCurrent /\ TopbarReleases

LEMMA TopbarMounted ==
  LET calls == Send([s \in TopbarSlots |-> None], "list") IN calls \in [TopbarSlots -> {"list", None}]
<1>. DEFINE none == [s \in TopbarSlots |-> None]
<1>1. Free(none) # {} /\ none \in [TopbarSlots -> {"list"} \cup {None}]
  BY TopbarAssumption DEF Free
<1>2. Send(none, "list") \in [TopbarSlots -> {"list"} \cup {None}]
  <2>. HIDE DEF none
  <2>. QED BY <1>1, SendType
<1>. QED BY <1>2

\* A list of connections is a sequence, its rows scopes.
LEMMA ScopeListRows ==
  ASSUME NEW list \in ScopeLists \cup {DemoScopes}
  PROVE  /\ list \in Seq(Scope)
         /\ ListedIn(list) \subseteq Scope
         /\ list # <<>> => list[1] \in ListedIn(list)
         /\ \A id : RowOf(list, id) \subseteq ListedIn(list)
<1>. HIDE DEF Scope
<1>1. list \in Seq(Scope)
  BY TopbarAssumption DEF ScopeLists
<1>. QED BY <1>1 DEF ListedIn, RowOf

\* Whatever was stored and held, the scope restored is a row of the list, as
\* long as what is held was what is stored.
LEMMA RestoredListed ==
  ASSUME NEW list \in ScopeLists \cup {DemoScopes}, NEW saved, NEW held,
         held # None => saved = held.id, NEW env \in ScopeRestored(list, saved, held)
  PROVE  IF list = <<>> THEN env = None ELSE env \in ListedIn(list)
<1>1. CASE list = <<>>
  BY <1>1 DEF ScopeRestored
<1>2. CASE list # <<>> /\ RowOf(list, saved) # {}
  BY <1>2, ScopeListRows DEF ScopeRestored
<1>3. CASE list # <<>> /\ RowOf(list, saved) = {}
  BY <1>3, ScopeListRows DEF ScopeRestored
<1>. QED BY <1>1, <1>2, <1>3

\* A new list with the scope restored from it, or as the bar is mounted.
LEMMA ScopesSet ==
  ASSUME scopes' \in ScopeLists \cup {DemoScopes},
         IF scopes' = <<>> THEN selectedEnv' = None ELSE selectedEnv' \in ListedIn(scopes'),
         storedEnv' = IdOf(selectedEnv')
  PROVE  /\ selectedEnv' \in Scope \cup {None} /\ storedEnv' \in ScopeIds \cup {None}
         /\ SelectedScopeCurrent'
<1>1. selectedEnv' \in Scope \cup {None}
  <2>. HIDE DEF Scope
  <2>. QED BY ScopeListRows
<1>2. storedEnv' \in ScopeIds \cup {None}
  BY <1>1 DEF IdOf, Scope
<1>. QED BY <1>1, <1>2 DEF SelectedScopeCurrent

LEMMA MountedScopes ==
  ASSUME NEW sandbox \in BOOLEAN, NEW saved, NEW env \in MountedScope(sandbox, saved)
  PROVE  LET list == IF sandbox THEN DemoScopes ELSE <<>> IN
         /\ list \in ScopeLists \cup {DemoScopes}
         /\ IF list = <<>> THEN env = None ELSE env \in ListedIn(list)
<1>1. CASE sandbox
  BY <1>1, RestoredListed DEF MountedScope
<1>2. CASE ~sandbox
  <2>1. <<>> \in [1..0 -> Scope] /\ \A i, j \in 1..0 : <<>>[i].id = <<>>[j].id => i = j
    OBVIOUS
  <2>2. <<>> \in ScopeLists
    BY <2>1, TopbarAssumption DEF ScopeLists
  <2>. QED BY <1>2, <2>2 DEF MountedScope
<1>. QED BY <1>1, <1>2

LEMMA NotesType ==
  ASSUME NEW sandbox \in BOOLEAN, NEW read \in SUBSET Notes
  PROVE  MountedNotes(sandbox, read) \subseteq Notes
BY TopbarAssumption DEF MountedNotes

\* Steps that leave the scopes alone.
LEMMA TopbarQuietStep ==
  ASSUME TopbarIInv, UNCHANGED <<scopeVars, isSandboxUser>>,
         menu' \in Menus \cup {None}, toast' \in BOOLEAN, copied' \in BOOLEAN,
         copyTimers' \in 0..MaxCopies, copied' => copyTimers' > 0,
         notesShown' \subseteq Notes, storedRead' \subseteq Notes, theme' \in Themes,
         topbarCalls' \in [TopbarSlots -> {"list", None}]
  PROVE  TopbarIInv'
BY DEF TopbarIInv, TopbarTypeOK, SelectedScopeCurrent, TopbarReleases, scopeVars

LEMMA TopbarMenusStep ==
  ASSUME TopbarIInv, ToggleMenu \/ CloseMenu \/ SelectTheme \/ ToastTimeout \/ UNCHANGED topbarVars
  PROVE  TopbarIInv'
<1>1. /\ menu' \in Menus \cup {None} /\ toast' \in BOOLEAN /\ theme' \in Themes
      /\ UNCHANGED <<scopeVars, isSandboxUser, copyVars, noteVars>>
  BY DEF TopbarIInv, TopbarTypeOK, ToggleMenu, CloseMenu, SelectTheme, ToastTimeout, topbarVars,
         scopeVars, copyVars, noteVars
<1>2. topbarCalls' \in [TopbarSlots -> {"list", None}]
  <2>1. topbarCalls \in [TopbarSlots -> {"list"} \cup {None}]
    BY DEF TopbarIInv, TopbarTypeOK
  <2>2. Free(topbarCalls) # {} => Send(topbarCalls, "list") \in [TopbarSlots -> {"list"} \cup {None}]
    BY <2>1, SendType
  <2>3. topbarCalls' = topbarCalls \/ (Free(topbarCalls) # {} /\ topbarCalls' = Send(topbarCalls, "list"))
    BY DEF ToggleMenu, CloseMenu, SelectTheme, ToastTimeout, topbarVars
  <2>. QED BY <2>1, <2>2, <2>3
<1>. QED BY <1>1, <1>2, TopbarQuietStep DEF TopbarIInv, TopbarTypeOK, TopbarReleases, copyVars, noteVars

LEMMA CopyNotesStep ==
  ASSUME TopbarIInv, CopyToken \/ CopiedTimeout \/ ReadNote \/ ReadAllNotes \/ NotesReset
  PROVE  TopbarIInv'
<1>. USE DEF TopbarIInv, TopbarTypeOK
<1>1. CASE CopyToken \/ CopiedTimeout
  <2>1. copied' \in BOOLEAN /\ copyTimers' \in 0..MaxCopies /\ (copied' => copyTimers' > 0) /\ toast' \in BOOLEAN
    <3>1. MaxCopies \in Nat /\ copyTimers \in 0..MaxCopies
      BY TopbarAssumption
    <3>2. CASE CopyToken
      BY <3>1, <3>2 DEF CopyToken
    <3>3. CASE CopiedTimeout
      <4>1. copyTimers' \in 0..MaxCopies
        BY <3>1, <3>3 DEF CopiedTimeout
      <4>. QED BY <3>3, <4>1 DEF CopiedTimeout
    <3>. QED BY <1>1, <3>2, <3>3
  <2>. QED BY <1>1, <2>1, TopbarQuietStep DEF CopyToken, CopiedTimeout, noteVars
<1>2. CASE ReadNote \/ ReadAllNotes \/ NotesReset
  <2>1. notesShown' \subseteq Notes /\ storedRead' \subseteq Notes
    BY <1>2, NotesType DEF ReadNote, ReadAllNotes, NotesReset
  <2>. QED BY <1>2, <2>1, TopbarQuietStep DEF ReadNote, ReadAllNotes, NotesReset, copyVars, TopbarReleases
<1>. QED BY <1>1, <1>2

LEMMA SelectScopeStep == ASSUME TopbarIInv, SelectScope PROVE TopbarIInv'
<1>1. PICK env \in ListedIn(scopes) : selectedEnv' = env /\ storedEnv' = env.id
  BY DEF SelectScope
<1>2. scopes \in ScopeLists \cup {DemoScopes} /\ scopes' = scopes
  BY DEF TopbarIInv, TopbarTypeOK, SelectScope
<1>3. env \in Scope /\ env # None
  <2>. HIDE DEF Scope
  <2>. QED BY <1>1, <1>2, ScopeListRows, TopbarAssumption
<1>4. storedEnv' = IdOf(selectedEnv') /\ scopes' # <<>>
  BY <1>1, <1>2, <1>3 DEF IdOf, ListedIn
<1>5. /\ selectedEnv' \in Scope \cup {None} /\ storedEnv' \in ScopeIds \cup {None}
      /\ SelectedScopeCurrent'
  BY <1>1, <1>2, <1>4, ScopesSet
<1>. HIDE DEF Scope
<1>. QED BY <1>2, <1>5 DEF SelectScope, TopbarIInv, TopbarTypeOK, TopbarReleases, copyVars, noteVars

LEMMA ScopesListedStep ==
  ASSUME TopbarIInv, NEW s \in TopbarSlots, ScopesListed(s) \/ ScopesLost(s)
  PROVE  TopbarIInv'
<1>. HIDE DEF Scope
<1>1. topbarCalls' \in [TopbarSlots -> {"list", None}]
  BY DEF TopbarIInv, TopbarTypeOK, ScopesListed, ScopesLost, Answered
<1>2. CASE UNCHANGED scopeVars
  <2>1. UNCHANGED <<isSandboxUser, menu, toast, copyVars, noteVars, theme>>
    BY DEF ScopesListed, ScopesLost
  <2>. QED BY <1>1, <1>2, <2>1, TopbarQuietStep DEF TopbarIInv, TopbarTypeOK, TopbarReleases, copyVars, noteVars
<1>3. CASE ~UNCHANGED scopeVars
  <2>1. /\ scopes' \in ScopeLists
        /\ selectedEnv' \in ScopeRestored(scopes', storedEnv, selectedEnv)
        /\ storedEnv' = IdOf(selectedEnv')
        /\ UNCHANGED <<isSandboxUser, menu, toast, copyVars, noteVars, theme>>
    BY <1>3 DEF ScopesListed, ScopesLost
  <2>2. selectedEnv # None => storedEnv = selectedEnv.id
    BY DEF TopbarIInv, SelectedScopeCurrent, IdOf
  <2>3. IF scopes' = <<>> THEN selectedEnv' = None ELSE selectedEnv' \in ListedIn(scopes')
    BY <2>1, <2>2, RestoredListed
  <2>4. /\ selectedEnv' \in Scope \cup {None} /\ storedEnv' \in ScopeIds \cup {None}
        /\ SelectedScopeCurrent'
    BY <2>1, <2>3, ScopesSet
  <2>. QED BY <1>1, <2>1, <2>4 DEF TopbarIInv, TopbarTypeOK, TopbarReleases, copyVars, noteVars
<1>. QED BY <1>2, <1>3

LEMMA RemountTopbarStep == ASSUME TopbarIInv, RemountTopbar PROVE TopbarIInv'
<1>. HIDE DEF Scope
<1>1. /\ scopes' \in ScopeLists \cup {DemoScopes}
      /\ IF scopes' = <<>> THEN selectedEnv' = None ELSE selectedEnv' \in ListedIn(scopes')
  BY MountedScopes DEF RemountTopbar
<1>2. /\ selectedEnv' \in Scope \cup {None} /\ storedEnv' \in ScopeIds \cup {None}
      /\ SelectedScopeCurrent'
  BY <1>1, ScopesSet DEF RemountTopbar
<1>3. topbarCalls' \in [TopbarSlots -> {"list", None}] /\ notesShown' \subseteq Notes
  BY TopbarMounted, NotesType DEF RemountTopbar, TopbarIInv, TopbarTypeOK
<1>4. copyTimers' \in 0..MaxCopies
  BY TopbarAssumption DEF RemountTopbar
<1>. QED BY <1>1, <1>2, <1>3, <1>4 DEF RemountTopbar, TopbarIInv, TopbarTypeOK, TopbarReleases

LEMMA TopbarInitIInv == TopbarInit => TopbarIInv
<1>. SUFFICES ASSUME TopbarInit PROVE TopbarIInv
  OBVIOUS
<1>. HIDE DEF Scope
<1>1. PICK saved \in ScopeIds \cup {None} : selectedEnv \in MountedScope(isSandboxUser, saved)
  BY DEF TopbarInit
<1>2. /\ scopes \in ScopeLists \cup {DemoScopes}
      /\ IF scopes = <<>> THEN selectedEnv = None ELSE selectedEnv \in ListedIn(scopes)
  BY <1>1, MountedScopes DEF TopbarInit
<1>3. selectedEnv \in Scope \cup {None}
  BY <1>2, ScopeListRows
<1>4. storedEnv = IdOf(selectedEnv) /\ storedEnv \in ScopeIds \cup {None}
  BY <1>3 DEF TopbarInit, IdOf, Scope
<1>5. topbarCalls \in [TopbarSlots -> {"list", None}] /\ notesShown \subseteq Notes
  BY TopbarMounted, NotesType DEF TopbarInit
<1>6. copyTimers \in 0..MaxCopies
  BY TopbarAssumption DEF TopbarInit
<1>. QED BY <1>2, <1>3, <1>4, <1>5, <1>6 DEF TopbarInit, TopbarIInv, TopbarTypeOK, SelectedScopeCurrent, TopbarReleases

LEMMA TopbarNextIInv == TopbarIInv /\ [TopbarNext]_topbarVars => TopbarIInv'
BY TopbarMenusStep, CopyNotesStep, SelectScopeStep, ScopesListedStep, RemountTopbarStep DEF TopbarNext

LEMMA TopbarInvariance == TopbarSpec => []TopbarIInv
BY TopbarInitIInv, TopbarNextIInv, PTL DEF TopbarSpec

\* The bar's state keeps its types.
THEOREM TopbarTypes == TopbarSpec => []TopbarTypeOK
BY TopbarInvariance, PTL DEF TopbarIInv

\* The two effects on availableEnvironments: what is selected is a row of the
\* list of now and what the browser stores, whatever list comes next.
THEOREM TopbarScope == TopbarSpec => []SelectedScopeCurrent
BY TopbarInvariance, PTL DEF TopbarIInv

-----------------------------------------------------------------------------
(* The palette, the tour and the guide                                     *)

OverlaysIInv == OverlaysTypeOK /\ PaletteSelects

OnceEach(list) == \A i, j \in DOMAIN list : list[i] = list[j] => i = j

\* The recent destinations without the one navigated to.
LEMMA PathRemoved ==
  ASSUME NEW S, NEW list \in Seq(S), OnceEach(list), NEW path
  PROVE  LET others == RemoveFirst(list, path) IN
         /\ others \in Seq(S) /\ Len(others) <= Len(list) /\ OnceEach(others)
         /\ \A i \in DOMAIN others : others[i] # path
<1>1. Len(list) \in Nat /\ DOMAIN list = 1..Len(list)
  BY LenProperties
<1>2. CASE ~\E i \in 1..Len(list) : list[i] = path
  BY <1>1, <1>2 DEF RemoveFirst
<1>3. CASE \E i \in 1..Len(list) : list[i] = path
  <2>1. PICK i \in 1..Len(list) : list[i] = path
    BY <1>3
  <2>2. {j \in 1..Len(list) : list[j] = path} = {i}
    BY <1>1, <2>1 DEF OnceEach
  <2>3. Min({i}) = i
    BY DEF Min
  <2>. DEFINE others == RemoveAt(list, i)
  <2>4. RemoveFirst(list, path) = others
    BY <1>3, <2>2, <2>3 DEF RemoveFirst, SelectInSeq
  <2>a. i \in DOMAIN list
    BY <1>1, <2>1
  <2>5. /\ others \in Seq(S) /\ Len(others) = Len(list) - 1
        /\ \A j \in DOMAIN others :
             LET k == IF j < i THEN j ELSE j + 1 IN k \in DOMAIN list \ {i} /\ others[j] = list[k]
    BY <2>a, ElementRemoved
  <2>. HIDE DEF others
  <2>6. \A j \in DOMAIN others : j \in Nat
    BY <2>5, LenProperties
  <2>7. \A j \in DOMAIN others : others[j] # path
    BY <1>1, <2>1, <2>5 DEF OnceEach
  <2>8. OnceEach(others)
    <3>. SUFFICES ASSUME NEW j \in DOMAIN others, NEW k \in DOMAIN others, others[j] = others[k] PROVE j = k
      BY DEF OnceEach
    <3>. DEFINE jj == IF j < i THEN j ELSE j + 1
                kk == IF k < i THEN k ELSE k + 1
    <3>1. jj \in DOMAIN list /\ kk \in DOMAIN list /\ list[jj] = list[kk]
      BY <2>5
    <3>2. jj = kk
      <4>. HIDE DEF jj, kk
      <4>. QED BY <3>1 DEF OnceEach
    <3>. QED BY <2>1, <2>6, <3>2
  <2>. QED BY <1>1, <2>4, <2>5, <2>7, <2>8
<1>. QED BY <1>2, <1>3

\* handleNavigate keeps the recent destinations few and distinct.
LEMMA LatestFine ==
  ASSUME recents \in Seq(RouteSet), OnceEach(recents), NEW path \in RouteSet
  PROVE  Latest(path) \in Seq(RouteSet) /\ Len(Latest(path)) <= MaxRecent /\ OnceEach(Latest(path))
<1>. HIDE DEF RouteSet
<1>. DEFINE others == RemoveFirst(recents, path)
            all == <<path>> \o others
            n == IF Len(others) < MaxRecent THEN Len(others) + 1 ELSE MaxRecent
<1>1. /\ others \in Seq(RouteSet) /\ OnceEach(others)
      /\ \A i \in DOMAIN others : others[i] # path
  BY PathRemoved
<1>. HIDE DEF others
<1>2. Len(others) \in Nat /\ DOMAIN others = 1..Len(others)
  BY <1>1, LenProperties
<1>3. /\ all \in Seq(RouteSet) /\ Len(all) = Len(others) + 1
      /\ \A i \in 1..Len(others) + 1 : all[i] = IF i = 1 THEN path ELSE others[i - 1]
  <2>1. <<path>> \in Seq(RouteSet) /\ Len(<<path>>) = 1 /\ <<path>>[1] = path
    OBVIOUS
  <2>2. /\ all \in Seq(RouteSet) /\ Len(all) = 1 + Len(others)
        /\ \A i \in 1..1 + Len(others) : all[i] = IF i <= 1 THEN <<path>>[i] ELSE others[i - 1]
    BY <1>1, <2>1, ConcatProperties
  <2>. HIDE DEF all
  <2>. QED BY <1>2, <2>1, <2>2
<1>4. n \in Nat /\ n <= Len(others) + 1 /\ n <= MaxRecent
  BY <1>2, OverlaysAssumption
<1>5. Latest(path) = SubSeq(all, 1, n)
  BY DEF Latest, others
<1>. HIDE DEF all, n
<1>6. /\ SubSeq(all, 1, n) \in Seq(RouteSet) /\ Len(SubSeq(all, 1, n)) = n
      /\ \A i \in 1..n : SubSeq(all, 1, n)[i] = all[i]
  <2>1. \A i \in 1..n : all[i] \in RouteSet
    BY <1>2, <1>3, <1>4, ElementOfSeq
  <2>. QED BY <1>4, <2>1, SubSeqProperties
<1>7. \A i, j \in 1..n : all[i] = all[j] => i = j
  <2>. SUFFICES ASSUME NEW i \in 1..n, NEW j \in 1..n, all[i] = all[j] PROVE i = j
    OBVIOUS
  <2>1. /\ all[i] = IF i = 1 THEN path ELSE others[i - 1]
        /\ all[j] = IF j = 1 THEN path ELSE others[j - 1]
        /\ i # 1 => i - 1 \in DOMAIN others
        /\ j # 1 => j - 1 \in DOMAIN others
    BY <1>2, <1>3, <1>4
  <2>2. CASE i # 1 /\ j # 1
    <3>1. i - 1 = j - 1
      BY <2>1, <2>2, <1>1 DEF OnceEach
    <3>. QED BY <1>4, <3>1
  <2>. QED BY <1>1, <2>1, <2>2
<1>8. DOMAIN SubSeq(all, 1, n) = 1..n
  BY <1>6, LenProperties
<1>. QED BY <1>4, <1>5, <1>6, <1>7, <1>8 DEF OnceEach

LEMMA ShownType ==
  ASSUME OverlaysTypeOK
  PROVE  /\ ShownRoutes \in Seq(RouteSet) /\ Len(ShownRoutes) \in Nat
         /\ DOMAIN ShownRoutes = 1..Len(ShownRoutes)
         /\ ShownRoutes # <<>> => Len(ShownRoutes) > 0
<1>. HIDE DEF RouteSet
<1>1. ShownRoutes \in Seq(RouteSet)
  BY OverlaysAssumption DEF ShownRoutes, OverlaysTypeOK
<1>. QED BY <1>1, LenProperties, EmptySeq

\* Steps that leave the recent destinations alone and start the palette over,
\* or leave it as it is.
LEMMA PaletteStep ==
  ASSUME OverlaysIInv, UNCHANGED <<recents, storedRecents>>,
         paletteOpen' \in BOOLEAN, query' \in Searches \cup {None},
         (query' = query /\ selectedIndex' = selectedIndex) \/ selectedIndex' = 0,
         tour' \in {"due", "open", "closed"}, tourStep' \in 0..TourSteps - 1,
         tourDone' \in BOOLEAN, guideOpen' \in BOOLEAN
  PROVE  OverlaysIInv'
<1>. HIDE DEF RouteSet
<1>0. OverlaysTypeOK /\ PaletteSelects
  BY DEF OverlaysIInv
<1>1. OverlaysTypeOK'
  BY <1>0 DEF OverlaysTypeOK
<1>2. query' = query => ShownRoutes' = ShownRoutes
  BY DEF ShownRoutes
<1>3. ShownRoutes' # <<>> => Len(ShownRoutes') \in Nat /\ Len(ShownRoutes') > 0
  <2>1. ShownRoutes' \in Seq(RouteSet)
    BY <1>1, OverlaysAssumption DEF ShownRoutes, OverlaysTypeOK
  <2>. QED BY <2>1, LenProperties, EmptySeq
<1>4. ShownRoutes' # <<>> => selectedIndex' # None /\ selectedIndex' < Len(ShownRoutes')
  <2>1. CASE query' = query /\ selectedIndex' = selectedIndex
    BY <1>0, <1>2, <2>1 DEF PaletteSelects
  <2>2. CASE selectedIndex' = 0
    BY <1>3, <2>2, OverlaysAssumption
  <2>. QED BY <2>1, <2>2
<1>. QED BY <1>0, <1>1, <1>4 DEF OverlaysIInv, PaletteSelects

LEMMA ArrowStep ==
  ASSUME OverlaysIInv, PressArrow \/ HoverRoute
  PROVE  OverlaysIInv'
<1>. HIDE DEF RouteSet
<1>0. OverlaysTypeOK /\ PaletteSelects
  BY DEF OverlaysIInv
<1>1. Len(ShownRoutes) \in Nat /\ DOMAIN ShownRoutes = 1..Len(ShownRoutes)
      /\ (ShownRoutes # <<>> => Len(ShownRoutes) > 0)
  BY <1>0, ShownType
<1>2. /\ UNCHANGED <<paletteOpen, query, recents, storedRecents, tour, tourStep, tourDone, guideOpen>>
      /\ ShownRoutes' = ShownRoutes
  BY DEF PressArrow, HoverRoute, tourVars, ShownRoutes
<1>3. /\ selectedIndex' \in Nat \cup {None}
      /\ ShownRoutes # <<>> => selectedIndex' # None /\ selectedIndex' < Len(ShownRoutes)
  <2>1. CASE HoverRoute
    <3>1. PICK i \in DOMAIN ShownRoutes : selectedIndex' = i - 1
      BY <2>1 DEF HoverRoute
    <3>. QED BY <1>1, <3>1, OverlaysAssumption
  <2>2. CASE PressArrow
    <3>1. PICK step \in {-1, 1} :
            selectedIndex' = IF Len(ShownRoutes) = 0 \/ selectedIndex = None THEN None
                             ELSE (selectedIndex + step + Len(ShownRoutes)) % Len(ShownRoutes)
      BY <2>2 DEF PressArrow
    <3>2. CASE Len(ShownRoutes) = 0 \/ selectedIndex = None
      BY <1>0, <1>1, <3>1, <3>2 DEF PaletteSelects
    <3>3. CASE ~(Len(ShownRoutes) = 0 \/ selectedIndex = None)
      <4>1. selectedIndex \in Nat /\ Len(ShownRoutes) \in Nat \ {0}
        BY <1>0, <1>1, <3>3 DEF OverlaysTypeOK
      <4>2. (selectedIndex + step + Len(ShownRoutes)) % Len(ShownRoutes) \in 0..Len(ShownRoutes) - 1
        BY <4>1
      <4>. QED BY <1>1, <3>1, <3>3, <4>2, OverlaysAssumption
    <3>. QED BY <3>2, <3>3
  <2>. QED BY <2>1, <2>2
<1>4. OverlaysTypeOK'
  BY <1>0, <1>2, <1>3 DEF OverlaysTypeOK
<1>. QED BY <1>0, <1>2, <1>3, <1>4 DEF OverlaysIInv, PaletteSelects

LEMMA NavigateStep ==
  ASSUME OverlaysIInv, NEW path \in RouteSet, Navigate(path)
  PROVE  OverlaysIInv'
<1>. HIDE DEF RouteSet
<1>0. OverlaysTypeOK /\ PaletteSelects
  BY DEF OverlaysIInv
<1>1. /\ recents' \in Seq(RouteSet) /\ storedRecents' = recents' /\ Len(recents') <= MaxRecent
      /\ \A i, j \in DOMAIN recents' : recents'[i] = recents'[j] => i = j
  BY <1>0, LatestFine DEF Navigate, OverlaysTypeOK, PaletteSelects, OnceEach
<1>2. /\ paletteOpen' = FALSE /\ query' = None /\ selectedIndex' = 0
      /\ UNCHANGED <<tour, tourStep, tourDone, guideOpen>>
  BY DEF Navigate, PaletteSet, tourVars
<1>3. OverlaysTypeOK'
  BY <1>0, <1>1, <1>2 DEF OverlaysTypeOK
<1>4. ShownRoutes' # <<>> => selectedIndex' # None /\ selectedIndex' < Len(ShownRoutes')
  <2>1. ShownRoutes' \in Seq(RouteSet)
    BY <1>1, <1>2, OverlaysAssumption DEF ShownRoutes
  <2>2. ShownRoutes' # <<>> => Len(ShownRoutes') \in Nat /\ Len(ShownRoutes') > 0
    BY <2>1, LenProperties, EmptySeq
  <2>. QED BY <1>2, <2>2, OverlaysAssumption
<1>. QED BY <1>1, <1>3, <1>4 DEF OverlaysIInv, PaletteSelects

LEMMA GoStep == ASSUME OverlaysIInv, PressEnter \/ ClickRoute PROVE OverlaysIInv'
<1>1. OverlaysTypeOK /\ PaletteSelects
  BY DEF OverlaysIInv
<1>2. /\ Len(ShownRoutes) \in Nat /\ DOMAIN ShownRoutes = 1..Len(ShownRoutes)
      /\ \A i \in DOMAIN ShownRoutes : ShownRoutes[i] \in RouteSet
  <2>. HIDE DEF RouteSet
  <2>. QED BY <1>1, ShownType, ElementOfSeq
<1>3. CASE PressEnter
  <2>1. selectedIndex \in Nat /\ selectedIndex < Len(ShownRoutes)
    BY <1>1, <1>3 DEF PressEnter, PaletteSelects, OverlaysTypeOK
  <2>2. ShownRoutes[selectedIndex + 1] \in RouteSet
    BY <1>2, <2>1
  <2>. QED BY <1>3, <2>2, NavigateStep DEF PressEnter
<1>4. CASE ClickRoute
  BY <1>2, <1>4, NavigateStep DEF ClickRoute
<1>. QED BY <1>3, <1>4

LEMMA PaletteOpensStep ==
  ASSUME OverlaysIInv,
         TogglePalette \/ ClosePalette \/ PressEscape \/ EnterQuery \/ RemountOverlays
  PROVE  OverlaysIInv'
<1>0. OverlaysTypeOK /\ PaletteSelects /\ TourSteps \in Nat \ {0}
  BY OverlaysAssumption DEF OverlaysIInv
<1>1. /\ paletteOpen' \in BOOLEAN /\ query' \in Searches \cup {None}
      /\ (query' = query /\ selectedIndex' = selectedIndex) \/ selectedIndex' = 0
      /\ recents' = recents /\ storedRecents' = storedRecents
  BY <1>0 DEF TogglePalette, ClosePalette, PressEscape, EnterQuery, RemountOverlays, PaletteSet,
              SelectionAfter, OverlaysTypeOK, PaletteSelects
<1>2. tour' \in {"due", "open", "closed"}
  BY <1>0 DEF TogglePalette, ClosePalette, PressEscape, EnterQuery, RemountOverlays, OverlaysTypeOK, tourVars
<1>4. tourStep' \in 0..TourSteps - 1
  <2>1. tourStep' = tourStep \/ tourStep' = 0
    BY DEF TogglePalette, ClosePalette, PressEscape, EnterQuery, RemountOverlays, tourVars
  <2>2. 0 \in 0..TourSteps - 1
    BY <1>0
  <2>. QED BY <1>0, <2>1, <2>2 DEF OverlaysTypeOK
<1>3. tourDone' \in BOOLEAN /\ guideOpen' \in BOOLEAN
  BY <1>0 DEF TogglePalette, ClosePalette, PressEscape, EnterQuery, RemountOverlays, OverlaysTypeOK, tourVars
<1>. QED BY <1>1, <1>2, <1>3, <1>4, PaletteStep

LEMMA TourGuideStep ==
  ASSUME OverlaysIInv,
         TourOpens \/ SkipTour \/ NextTourStep \/ ToggleGuide \/ CloseGuide \/ UNCHANGED overlayVars
  PROVE  OverlaysIInv'
<1>0. OverlaysTypeOK /\ TourSteps \in Nat \ {0}
  BY OverlaysAssumption DEF OverlaysIInv
<1>1. UNCHANGED <<paletteOpen, query, selectedIndex, recents, storedRecents>>
  BY DEF TourOpens, SkipTour, NextTourStep, ToggleGuide, CloseGuide, overlayVars, paletteVars
<1>2. tourStep' \in 0..TourSteps - 1
  <2>1. tourStep' = tourStep \/ (tourStep < TourSteps - 1 /\ tourStep' = tourStep + 1)
    BY DEF TourOpens, SkipTour, NextTourStep, ToggleGuide, CloseGuide, overlayVars, tourVars, CompleteTour
  <2>. QED BY <1>0, <2>1 DEF OverlaysTypeOK
<1>3. tour' \in {"due", "open", "closed"}
  BY <1>0 DEF TourOpens, SkipTour, NextTourStep, ToggleGuide, CloseGuide, overlayVars, tourVars,
              CompleteTour, OverlaysTypeOK
<1>4. tourDone' \in BOOLEAN /\ guideOpen' \in BOOLEAN
  BY <1>0 DEF TourOpens, SkipTour, NextTourStep, ToggleGuide, CloseGuide, overlayVars, tourVars,
              CompleteTour, OverlaysTypeOK
<1>. QED BY <1>0, <1>1, <1>2, <1>3, <1>4, PaletteStep DEF OverlaysTypeOK

LEMMA OverlaysInitIInv == OverlaysInit => OverlaysIInv
<1>. SUFFICES ASSUME OverlaysInit PROVE OverlaysIInv
  OBVIOUS
<1>. HIDE DEF RouteSet
<1>1. <<>> \in Seq(RouteSet) /\ Len(<<>>) = 0 /\ DOMAIN <<>> = {}
  OBVIOUS
<1>0. TourSteps \in Nat \ {0} /\ MaxRecent \in Nat
  BY OverlaysAssumption
<1>a. tourStep \in 0..TourSteps - 1 /\ selectedIndex \in Nat
  BY <1>0 DEF OverlaysInit
<1>2. OverlaysTypeOK
  BY <1>0, <1>1, <1>a DEF OverlaysInit, OverlaysTypeOK
<1>3. ShownRoutes # <<>> => selectedIndex # None /\ selectedIndex < Len(ShownRoutes)
  <2>1. Len(ShownRoutes) \in Nat /\ (ShownRoutes # <<>> => Len(ShownRoutes) > 0)
    BY <1>2, ShownType
  <2>. QED BY <2>1, OverlaysAssumption DEF OverlaysInit
<1>. QED BY <1>1, <1>2, <1>3, OverlaysAssumption DEF OverlaysInit, OverlaysIInv, PaletteSelects

LEMMA OverlaysNextIInv == OverlaysIInv /\ [OverlaysNext]_overlayVars => OverlaysIInv'
BY ArrowStep, GoStep, PaletteOpensStep, TourGuideStep DEF OverlaysNext

LEMMA OverlaysInvariance == OverlaysSpec => []OverlaysIInv
BY OverlaysInitIInv, OverlaysNextIInv, PTL DEF OverlaysSpec

\* The palette, the tour and the guide keep their types.
THEOREM OverlaysTypes == OverlaysSpec => []OverlaysTypeOK
BY OverlaysInvariance, PTL DEF OverlaysIInv

\* handleKeyDown's arrows divide by a length that may be zero: even so Enter
\* finds a destination whenever one is shown, for every list and every search.
THEOREM PaletteFinds == OverlaysSpec => []PaletteSelects
BY OverlaysInvariance, PTL DEF OverlaysIInv
=============================================================================
