------------------------------- MODULE Session -------------------------------
(***************************************************************************)
(* Who is signed in: the user and the token a tab of the browser holds and *)
(* stores, the forms that obtain them, the profile form that replaces      *)
(* them, and the answers of the API that end the session, whichever        *)
(* session their request was made in.                                      *)
(***************************************************************************)
EXTENDS PageRequests

CONSTANTS
  Accounts,     \* people with an account; a token is known by its owner
  SessionSlots  \* bound: requests under way at once

Outside     == {"landing", "login", "signup"}
SessionCall == [op : {"signin", "profile", "api"}, account : Accounts, live : BOOLEAN]
NoSession   == [user |-> None, token |-> None]

ASSUME SessionAssumption == None \notin Accounts /\ None \notin SessionCall

VARIABLES
  session,        \* user and token
  stored,         \* what the browser stores of them
  page,           \* "inside" is any page below the protected route
  signing,        \* isLoading of the form shown
  savingProfile,  \* loading of the settings page
  admitted,       \* history: accounts whose credentials were accepted
  sessionCalls

sessionVars == <<session, stored, page, signing, savingProfile, admitted, sessionCalls>>

\* What runs without the page or the form that asked for it.
Abandoned(calls) == [s \in SessionSlots |->
  IF calls[s] = None THEN None ELSE [calls[s] EXCEPT !.live = FALSE]]
SessionPending(s, ops) == sessionCalls[s] # None /\ sessionCalls[s].op \in ops
SessionRequest(op, a)  == [op |-> op, account |-> a, live |-> TRUE]

-----------------------------------------------------------------------------
\* The page loads: AuthProvider restores what is stored, and the protected
\* route sends who is not signed in to the login form.
Routed(p, user) == IF p = "inside" /\ user = None THEN "login" ELSE p

SessionInit ==
  /\ \E a \in Accounts \cup {None} :
       /\ stored = [user |-> a, token |-> a]
       /\ session = stored
       /\ admitted = {a} \ {None}
       /\ \E p \in Outside \cup {"inside"} : page = Routed(p, a)
  /\ signing = FALSE /\ savingProfile = FALSE
  /\ sessionCalls = [s \in SessionSlots |-> None]

ReloadTab ==
  /\ session' = stored
  /\ \E p \in Outside \cup {"inside"} : page' = Routed(p, stored.user)
  /\ signing' = FALSE /\ savingProfile' = FALSE
  /\ sessionCalls' = [s \in SessionSlots |-> None]
  /\ UNCHANGED <<stored, admitted>>

\* A link is followed, to another page inside as well.
FollowLink ==
  /\ page' \in IF page = "inside" THEN {"inside"} ELSE {Routed(p, session.user) : p \in Outside \cup {"inside"}}
  /\ signing' = FALSE /\ savingProfile' = FALSE
  /\ sessionCalls' = Abandoned(sessionCalls)
  /\ UNCHANGED <<session, stored, admitted>>

-----------------------------------------------------------------------------
\* AuthContext's login and logout.
SignIn(a) ==
  /\ session' = [user |-> a, token |-> a]
  /\ stored' = session'

SignOut ==
  /\ session' = NoSession
  /\ stored' = NoSession

\* handleSubmit of the two forms, once the form is valid.
SubmitCredentials ==
  /\ page \in {"login", "signup"} /\ ~signing
  /\ Free(sessionCalls) # {}
  /\ signing' = TRUE
  /\ \E a \in Accounts : sessionCalls' = Send(sessionCalls, SessionRequest("signin", a))
  /\ UNCHANGED <<session, stored, page, savingProfile, admitted>>

\* Accepted, also after the form was left for another page.
CredentialsAccepted(s) ==
  /\ SessionPending(s, {"signin"})
  /\ SignIn(sessionCalls[s].account)
  /\ admitted' = admitted \cup {sessionCalls[s].account}
  /\ page' = "inside"
  /\ signing' = FALSE /\ savingProfile' = FALSE
  /\ sessionCalls' = Abandoned(Answered(sessionCalls, s))

CredentialsRefused(s) ==
  /\ SessionPending(s, {"signin"})
  /\ signing' = (signing /\ ~sessionCalls[s].live)
  /\ sessionCalls' = Answered(sessionCalls, s)
  /\ UNCHANGED <<session, stored, page, savingProfile, admitted>>

-----------------------------------------------------------------------------
\* handleProfileUpdate up to its await.
SaveProfile ==
  /\ page = "inside" /\ ~savingProfile
  /\ Free(sessionCalls) # {}
  /\ savingProfile' = TRUE
  /\ sessionCalls' = Send(sessionCalls, SessionRequest("profile", session.user))
  /\ UNCHANGED <<session, stored, page, signing, admitted>>

\* Slip: the token is kept.
ProfileAppliedUserOnly(a) ==
  /\ session' = [session EXCEPT !.user = a]
  /\ stored' = [stored EXCEPT !.user = a]

\* The answer brings the user and a token.
ProfileApplied(a) == SignIn(a)

\* Whoever is signed in by now, or nobody: the answer signs its account in.
ProfileSaved(s) ==
  /\ SessionPending(s, {"profile"})
  /\ ProfileApplied(sessionCalls[s].account)
  /\ savingProfile' = (savingProfile /\ ~sessionCalls[s].live)
  /\ sessionCalls' = Answered(sessionCalls, s)
  /\ UNCHANGED <<page, signing, admitted>>

ProfileRefused(s) ==
  /\ SessionPending(s, {"profile"})
  /\ savingProfile' = (savingProfile /\ ~sessionCalls[s].live)
  /\ sessionCalls' = Answered(sessionCalls, s)
  /\ UNCHANGED <<session, stored, page, signing, admitted>>

\* Any other request of a page inside.
CallApi ==
  /\ page = "inside" /\ Free(sessionCalls) # {}
  /\ sessionCalls' = Send(sessionCalls, SessionRequest("api", session.user))
  /\ UNCHANGED <<session, stored, page, signing, savingProfile, admitted>>

ApiAnswers(s) ==
  /\ SessionPending(s, {"api"})
  /\ sessionCalls' = Answered(sessionCalls, s)
  /\ UNCHANGED <<session, stored, page, signing, savingProfile, admitted>>

\* The session ends, and with it the page, if one inside is shown.
SessionEnds(calls) ==
  /\ SignOut
  /\ page' = Routed(page, None)
  /\ savingProfile' = FALSE
  /\ signing' = signing
  /\ sessionCalls' = IF page = "inside" THEN Abandoned(calls) ELSE calls
  /\ UNCHANGED admitted

\* The interceptor of fetch: a 401 to any request but those of the two forms.
Unauthorized(s) ==
  /\ SessionPending(s, {"profile", "api"})
  /\ SessionEnds(Answered(sessionCalls, s))

\* handleLogout of the layout.
Logout == page = "inside" /\ SessionEnds(sessionCalls)

SessionNext ==
  \/ ReloadTab \/ FollowLink \/ SubmitCredentials \/ SaveProfile \/ CallApi \/ Logout
  \/ \E s \in SessionSlots :
       \/ CredentialsAccepted(s) \/ CredentialsRefused(s)
       \/ ProfileSaved(s) \/ ProfileRefused(s) \/ ApiAnswers(s) \/ Unauthorized(s)

SessionSpec == SessionInit /\ [][SessionNext]_sessionVars

-----------------------------------------------------------------------------
\* Types of the session's state.
SessionTypeOK ==
  /\ session \in [user : Accounts \cup {None}, token : Accounts \cup {None}]
  /\ stored \in [user : Accounts \cup {None}, token : Accounts \cup {None}]
  /\ page \in Outside \cup {"inside"}
  /\ signing \in BOOLEAN /\ savingProfile \in BOOLEAN
  /\ admitted \subseteq Accounts
  /\ sessionCalls \in [SessionSlots -> SessionCall \cup {None}]

\* The user shown, the token sent and the pair stored are always one account's,
\* whose credentials were accepted in this browser, and nobody sees a protected
\* page without it: also when answers to an earlier session's requests arrive
\* after somebody else signed in.
SessionOneOwner ==
  /\ session.token = session.user /\ stored = session
  /\ session.user \in admitted \cup {None}
  /\ page = "inside" => session.user # None

\* The forms' buttons come back.
SessionReleases ==
  /\ signing => \E s \in SessionSlots : SessionPending(s, {"signin"}) /\ sessionCalls[s].live
  /\ savingProfile => \E s \in SessionSlots : SessionPending(s, {"profile"}) /\ sessionCalls[s].live
=============================================================================
