-------------------------------- MODULE Topbar --------------------------------
(***************************************************************************)
(* The bar above every page: the cloud scope that is selected among those  *)
(* the connections give rise to, which the browser stores, and the menus   *)
(* of the scopes, the notifications, the profile and the themes.           *)
(***************************************************************************)
EXTENDS Integers, Sequences, PageRequests

CONSTANTS
  ScopeIds,     \* connections
  MaxScopes,    \* bound: how many of them are connected
  DemoScopes,   \* the sequence of scopes of the sandbox user
  Notes,        \* the notifications of the sandbox user
  NotesRead,    \* those read from the start
  Themes,
  TopbarSlots,  \* bound: requests under way at once
  MaxCopies     \* bound: pending timers of the copy button

Scope == [id : ScopeIds, status : {"active", "standby", "maintenance"}]

ASSUME TopbarAssumption ==
  /\ MaxScopes \in Nat /\ MaxCopies \in Nat
  /\ NotesRead \subseteq Notes
  /\ DemoScopes \in Seq(Scope)
  /\ TopbarSlots # {} /\ None \notin Scope \cup {"list"}

\* The environments made of a list of connections.
ScopeLists == UNION {{list \in [1..n -> Scope] : \A i, j \in 1..n : list[i].id = list[j].id => i = j}
                      : n \in 0..MaxScopes}
Menus == {"scopes", "notifications", "themes", "profile"}

VARIABLES
  scopes,       \* availableEnvironments
  selectedEnv,
  storedEnv,    \* the id the browser stores
  isSandboxUser,
  menu,         \* the menu that is open
  toast,        \* whether one is shown
  copied, copyTimers,
  notesShown,   \* notifications shown as read
  storedRead,   \* those the browser stores as read
  theme,        \* as stored
  topbarCalls   \* lists of connections asked for

topbarVars == <<scopes, selectedEnv, storedEnv, isSandboxUser, menu, toast, copied, copyTimers,
                notesShown, storedRead, theme, topbarCalls>>
scopeVars == <<scopes, selectedEnv, storedEnv>>
copyVars  == <<copied, copyTimers>>
noteVars  == <<notesShown, storedRead>>

-----------------------------------------------------------------------------
RowOf(list, id)  == {list[i] : i \in {j \in DOMAIN list : list[j].id = id}}
IdOf(scope)      == IF scope = None THEN None ELSE scope.id
ListedIn(list)      == {list[i] : i \in DOMAIN list}

\* Slip: a scope that is still there stays as it is held.
ScopeRestoredStale(list, saved, held) ==
  IF list = <<>> THEN {None}
  ELSE IF held # None /\ RowOf(list, held.id) # {} THEN {held}
  ELSE IF RowOf(list, saved) # {} THEN RowOf(list, saved) ELSE {list[1]}

\* The effect on availableEnvironments: the scope stored, else the one held,
\* else the first.
ScopeRestored(list, saved, held) ==
  IF list = <<>> THEN {None}
  ELSE IF RowOf(list, saved) # {} THEN RowOf(list, saved)
  ELSE IF held # None /\ RowOf(list, held.id) # {} THEN {held} ELSE {list[1]}

\* The two effects as the layout mounts.  The second stores what was selected
\* before the first: without the connections, nothing.
MountedScope(sandbox, saved) ==
  IF sandbox THEN ScopeRestored(DemoScopes, saved, None) ELSE {None}

MountedNotes(sandbox, read) == IF sandbox THEN NotesRead \cup read ELSE {}

TopbarInit ==
  /\ isSandboxUser \in BOOLEAN
  /\ scopes = IF isSandboxUser THEN DemoScopes ELSE <<>>
  /\ \E saved \in ScopeIds \cup {None} : selectedEnv \in MountedScope(isSandboxUser, saved)
  /\ storedEnv = IdOf(selectedEnv)
  /\ menu = None /\ toast = FALSE /\ copied = FALSE /\ copyTimers = 0
  /\ notesShown = MountedNotes(isSandboxUser, {}) /\ storedRead = {}
  /\ theme \in Themes
  /\ topbarCalls = Send([s \in TopbarSlots |-> None], "list")

\* Signed out and in again, or reloaded.
RemountTopbar ==
  /\ isSandboxUser' \in BOOLEAN
  /\ scopes' = IF isSandboxUser' THEN DemoScopes ELSE <<>>
  /\ selectedEnv' \in MountedScope(isSandboxUser', storedEnv)
  /\ storedEnv' = IdOf(selectedEnv')
  /\ menu' = None /\ toast' = FALSE /\ copied' = FALSE /\ copyTimers' = 0
  /\ notesShown' = MountedNotes(isSandboxUser', storedRead)
  /\ topbarCalls' = Send([s \in TopbarSlots |-> None], "list")
  /\ UNCHANGED <<storedRead, theme>>

-----------------------------------------------------------------------------
\* A list of connections arrives; the sandbox user's scopes are not made of it.
ScopesListed(s) ==
  /\ topbarCalls[s] # None
  /\ topbarCalls' = Answered(topbarCalls, s)
  /\ IF isSandboxUser
       THEN UNCHANGED scopeVars
       ELSE /\ scopes' \in ScopeLists
            /\ selectedEnv' \in ScopeRestored(scopes', storedEnv, selectedEnv)
            /\ storedEnv' = IdOf(selectedEnv')
  /\ UNCHANGED <<isSandboxUser, menu, toast, copyVars, noteVars, theme>>

\* The request fails or its answer is no list.
ScopesLost(s) ==
  /\ topbarCalls[s] # None
  /\ topbarCalls' = Answered(topbarCalls, s)
  /\ UNCHANGED <<scopeVars, isSandboxUser, menu, toast, copyVars, noteVars, theme>>

\* Pressing outside of a menu closes it before the click opens another.  The
\* menu of scopes asks for the connections as it opens.
ToggleMenu ==
  /\ \E m \in Menus :
       /\ menu' = IF menu = m THEN None ELSE m
       /\ IF menu' = "scopes"
            THEN Free(topbarCalls) # {} /\ topbarCalls' = Send(topbarCalls, "list")
            ELSE UNCHANGED topbarCalls
  /\ UNCHANGED <<scopeVars, isSandboxUser, toast, copyVars, noteVars, theme>>

\* A click outside, or an entry of the menu that leads to another page.
CloseMenu ==
  /\ menu # None /\ menu' = None
  /\ UNCHANGED <<scopeVars, isSandboxUser, toast, copyVars, noteVars, theme, topbarCalls>>

SelectScope ==
  /\ menu = "scopes"
  /\ \E env \in ListedIn(scopes) : selectedEnv' = env /\ storedEnv' = env.id
  /\ menu' = None /\ toast' = TRUE
  /\ UNCHANGED <<scopes, isSandboxUser, copyVars, noteVars, theme, topbarCalls>>

SelectTheme ==
  /\ menu = "themes"
  /\ theme' \in Themes /\ menu' = None
  /\ UNCHANGED <<scopeVars, isSandboxUser, toast, copyVars, noteVars, topbarCalls>>

\* The toast's timer is stopped by a later toast, the button's never is.
CopyToken ==
  /\ menu = "profile" /\ copyTimers < MaxCopies
  /\ copied' = TRUE /\ copyTimers' = copyTimers + 1 /\ toast' = TRUE
  /\ UNCHANGED <<scopeVars, isSandboxUser, menu, noteVars, theme, topbarCalls>>

CopiedTimeout ==
  /\ copyTimers > 0
  /\ copied' = FALSE /\ copyTimers' = copyTimers - 1
  /\ UNCHANGED <<scopeVars, isSandboxUser, menu, toast, noteVars, theme, topbarCalls>>

ToastTimeout ==
  /\ toast /\ toast' = FALSE
  /\ UNCHANGED <<scopeVars, isSandboxUser, menu, copyVars, noteVars, theme, topbarCalls>>

-----------------------------------------------------------------------------
ReadNote ==
  /\ menu = "notifications" /\ isSandboxUser
  /\ \E n \in Notes : notesShown' = notesShown \cup {n}
  /\ storedRead' = notesShown'
  /\ UNCHANGED <<scopeVars, isSandboxUser, menu, toast, copyVars, theme, topbarCalls>>

ReadAllNotes ==
  /\ menu = "notifications" /\ isSandboxUser /\ notesShown # Notes
  /\ notesShown' = Notes /\ storedRead' = Notes
  /\ UNCHANGED <<scopeVars, isSandboxUser, menu, toast, copyVars, theme, topbarCalls>>

\* The user changes, by the profile form: the notifications start over.
NotesReset ==
  /\ notesShown' = MountedNotes(isSandboxUser, {})
  /\ UNCHANGED <<scopeVars, isSandboxUser, menu, toast, copyVars, storedRead, theme, topbarCalls>>

TopbarNext ==
  \/ ToggleMenu \/ CloseMenu \/ SelectScope \/ SelectTheme
  \/ CopyToken \/ CopiedTimeout \/ ToastTimeout
  \/ ReadNote \/ ReadAllNotes \/ NotesReset
  \/ \E s \in TopbarSlots : ScopesListed(s) \/ ScopesLost(s)
  \/ RemountTopbar

TopbarSpec == TopbarInit /\ [][TopbarNext]_topbarVars

-----------------------------------------------------------------------------
\* Types of the bar's state.
TopbarTypeOK ==
  /\ scopes \in ScopeLists \cup {DemoScopes}
  /\ selectedEnv \in Scope \cup {None} /\ storedEnv \in ScopeIds \cup {None}
  /\ isSandboxUser \in BOOLEAN
  /\ menu \in Menus \cup {None}
  /\ toast \in BOOLEAN /\ copied \in BOOLEAN /\ copyTimers \in 0..MaxCopies
  /\ notesShown \subseteq Notes /\ storedRead \subseteq Notes
  /\ theme \in Themes
  /\ topbarCalls \in [TopbarSlots -> {"list", None}]

\* The scope selected is the very row of the list as it was last fetched, with
\* its status of now, there is one whenever there are scopes, and the browser
\* stores that one: whatever connections come, go or change between a
\* selection and the next list.
SelectedScopeCurrent ==
  /\ IF scopes = <<>> THEN selectedEnv = None ELSE selectedEnv \in ListedIn(scopes)
  /\ storedEnv = IdOf(selectedEnv)

\* The copy button shows its icon again.
TopbarReleases == copied => copyTimers > 0
=============================================================================
