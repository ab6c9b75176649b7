-------------------------- MODULE IntegrationWizard --------------------------
(***************************************************************************)
(* The integrations page of the browser: the list of connections and the   *)
(* wizard that tests and saves one.  Every handler is cut at its await and *)
(* goes on with the values it closed over when the user clicked, while the *)
(* user may close the wizard, open another or leave the page.              *)
(***************************************************************************)
EXTENDS Integers, PageRequests

CONSTANTS
  WizardSlots,     \* bound: requests under way at once
  ConnIds,         \* bound: connection ids, in the order they are listed
  WizardAccounts,  \* complete AWS account numbers
  WizardSecrets    \* valid role names, or secrets of a key pair

AwsCards    == {"aws_role", "aws_keys"}
Cards       == AwsCards \cup {"other"}
Connection  == [id : ConnIds, card : AwsCards, account : WizardAccounts]
\* A field is None while it is empty or incomplete.
WizardForm  == [account : WizardAccounts \cup {None}, secret : WizardSecrets \cup {None}]
EmptyForm   == [account |-> None, secret |-> None]
\* "saving" is a test that handleConnect waits for before it saves.
WizardCall  == [op : {"list", "delete", "test", "saving", "save"},
                card : Cards, edit : Connection \cup {None}, form : WizardForm,
                live : BOOLEAN]

ASSUME WizardAssumption == WizardSlots # {} /\ None \notin WizardCall

VARIABLES
  connections,  \* the connected rows of the last answer
  cardsListed,  \* the cards are there
  setup,        \* activeSetup: the card the wizard is open for
  editing,      \* editingConnection
  formData,
  atForm,       \* the step of the wizard that has the form (setupStep = 3)
  testing,      \* isTestingConnection
  tested,       \* testSuccess: the outcome of the last test, or "none"
  suggestion,   \* conflictSuggestion
  connecting,   \* isConnecting
  wizardAt,     \* whether the page is shown, left, or replaced by the error page
  wizardCalls

wizardVars == <<connections, cardsListed, setup, editing, formData, atForm, testing,
                tested, suggestion, connecting, wizardAt, wizardCalls>>
wizardEditor == <<setup, editing, formData, atForm, tested, suggestion>>

WizardRequest(op) ==
  [op |-> op, card |-> IF setup = None THEN "other" ELSE setup, edit |-> editing,
   form |-> formData, live |-> TRUE]
\* Requests whose answers have nothing to do with what was entered.
Plain(op) == [op |-> op, card |-> "other", edit |-> None, form |-> EmptyForm, live |-> TRUE]
ListConnections == Plain("list")

-----------------------------------------------------------------------------
\* The page as it mounts: the effect has asked for the list.
WizardFresh(calls) ==
  /\ connections = {}
  /\ cardsListed = FALSE
  /\ setup = None
  /\ editing = None
  /\ formData = EmptyForm
  /\ atForm = FALSE
  /\ testing = FALSE
  /\ tested = "none"
  /\ suggestion = None
  /\ connecting = FALSE
  /\ wizardAt = "shown"
  /\ wizardCalls = calls

WizardInit == WizardFresh(Send([s \in WizardSlots |-> None], ListConnections))

\* connectedAccountMethods: the row listed last for the number entered.
Owners == {c \in connections : c.account = formData.account}
DuplicateEntry ==
  IF setup \in AwsCards /\ Owners # {}
    THEN CHOOSE c \in Owners : \A d \in Owners : d.id <= c.id
    ELSE None

\* isDuplicateAccountConflict
AccountConflict ==
  /\ DuplicateEntry # None
  /\ IF editing # None THEN DuplicateEntry.id # editing.id
                       ELSE DuplicateEntry.card # setup

Complete(f) == f.account # None /\ f.secret # None
FormValid   == ~AccountConflict /\ (setup = "aws_role" => Complete(formData))

-----------------------------------------------------------------------------
\* Slip: the edit mode is entered, never left.
EditorSetKeepsEdit(card, row, f) ==
  /\ setup' = card
  /\ editing' = IF row = None THEN editing ELSE row
  /\ formData' = f
  /\ atForm' = FALSE
  /\ tested' = "none"
  /\ suggestion' = None
  /\ testing' = FALSE

\* openSetup, openEditConnection and closeSetup: all the wizard's state.
EditorSet(card, row, f) ==
  /\ setup' = card
  /\ editing' = row
  /\ formData' = f
  /\ atForm' = FALSE
  /\ tested' = "none"
  /\ suggestion' = None
  /\ testing' = FALSE

WizardShown == wizardAt = "shown"
InWizard    == WizardShown /\ setup # None
WizardOther == UNCHANGED <<connections, cardsListed, connecting, wizardAt>>

\* The role is prefilled as it is stored; the secret key never is.
Prefilled(c) == [account |-> c.account, secret |-> None]
PrefilledForms(c) ==
  {Prefilled(c)} \cup
  {[account |-> c.account, secret |-> n] : n \in IF c.card = "aws_role" THEN WizardSecrets ELSE {}}

OpenSetup ==
  /\ WizardShown /\ setup = None /\ cardsListed
  /\ \E card \in Cards : EditorSet(card, None, EmptyForm)
  /\ WizardOther /\ UNCHANGED wizardCalls

EditOpens(c) ==
  /\ \E f \in PrefilledForms(c) : EditorSet(c.card, c, f)
  /\ WizardOther /\ UNCHANGED wizardCalls

OpenEdit ==
  /\ WizardShown /\ setup = None /\ cardsListed
  /\ \E c \in connections : EditOpens(c)

\* The warning below the account field and the one below a failed test offer
\* to edit the connection they name, if the list still has it.
Suggested ==
  {DuplicateEntry.id : x \in IF AccountConflict THEN {0} ELSE {}} \cup
  {suggestion : x \in IF ~testing /\ tested = "failed" /\ suggestion # None
                        THEN {0} ELSE {}}

SwitchToExisting ==
  /\ InWizard /\ atForm
  /\ \E c \in connections : c.id \in Suggested /\ EditOpens(c)

CloseSetup ==
  /\ InWizard
  /\ EditorSet(None, None, EmptyForm)
  /\ WizardOther /\ UNCHANGED wizardCalls

\* The steps before the form only explain.
ChangeStep ==
  /\ InWizard
  /\ atForm' = ~atForm
  /\ UNCHANGED <<setup, editing, formData, tested, suggestion, testing, wizardCalls>>
  /\ WizardOther

\* The inputs stay enabled while a test or a save is under way, and leave the
\* outcome of the last test as it is.
EnterField ==
  /\ InWizard /\ atForm
  /\ \/ /\ setup \in AwsCards
        /\ \E a \in WizardAccounts \cup {None} : formData' = [formData EXCEPT !.account = a]
     \/ \E n \in WizardSecrets \cup {None} : formData' = [formData EXCEPT !.secret = n]
  /\ UNCHANGED <<setup, editing, atForm, tested, suggestion, testing, wizardCalls>>
  /\ WizardOther

-----------------------------------------------------------------------------
\* The first half of runConnectionTest.
TestBegins(call) ==
  /\ testing' = TRUE
  /\ tested' = "none"
  /\ suggestion' = None
  /\ wizardCalls' = Send(wizardCalls, call)
  /\ UNCHANGED <<setup, editing, formData, atForm>>

DryRun ==
  /\ InWizard /\ atForm /\ setup = "aws_role"
  /\ ~testing /\ FormValid
  /\ Free(wizardCalls) # {}
  /\ TestBegins(Plain("test"))
  /\ WizardOther

\* handleConnect up to its first await.
HandleConnect ==
  /\ InWizard /\ atForm
  /\ ~connecting /\ ~testing /\ FormValid
  /\ Free(wizardCalls) # {}
  /\ IF tested = "ok"
       THEN /\ connecting' = TRUE
            /\ wizardCalls' = Send(wizardCalls, WizardRequest("save"))
            /\ UNCHANGED <<wizardEditor, testing>>
       ELSE /\ TestBegins(WizardRequest("saving"))
            /\ UNCHANGED connecting
  /\ UNCHANGED <<connections, cardsListed, wizardAt>>

\* Slip: the save takes what the form holds by then.
AfterTestCurrent(s) == [wizardCalls EXCEPT ![s] = [@ EXCEPT !.op = "save", !.form = formData]]

\* What handleConnect saves after its test: what it closed over.
AfterTest(s) == [wizardCalls EXCEPT ![s] = [@ EXCEPT !.op = "save"]]

\* The backend tests no half of a key pair.  The outcome of a test goes to
\* whatever wizard is open by now.
TestPasses(s) ==
  LET call == wizardCalls[s] IN
  /\ call # None /\ call.op \in {"test", "saving"}
  /\ call.card = "aws_keys" => call.form.secret # None
  /\ wizardCalls' = IF call.op = "saving" THEN AfterTest(s) ELSE Answered(wizardCalls, s)
  /\ IF call.live
       THEN /\ tested' = "ok"
            /\ testing' = FALSE
            /\ connecting' = (connecting \/ call.op = "saving")
       ELSE UNCHANGED <<tested, testing, connecting>>
  /\ UNCHANGED <<setup, editing, formData, atForm, suggestion, connections, cardsListed, wizardAt>>

TestFails(s) ==
  LET call == wizardCalls[s] IN
  /\ call # None /\ call.op \in {"test", "saving"}
  /\ wizardCalls' = Answered(wizardCalls, s)
  /\ IF call.live
       THEN /\ tested' = "failed"
            /\ testing' = FALSE
            /\ suggestion' \in {suggestion} \cup ConnIds
       ELSE UNCHANGED <<tested, testing, suggestion>>
  /\ UNCHANGED <<setup, editing, formData, atForm>>
  /\ WizardOther

\* A save that succeeds closes the wizard that is open by now.
SaveSucceeds(s) ==
  LET call == wizardCalls[s] IN
  /\ call # None /\ call.op = "save"
  /\ IF call.live
       THEN /\ wizardCalls' = [wizardCalls EXCEPT ![s] = ListConnections]
            /\ EditorSet(None, None, EmptyForm)
            /\ connecting' = FALSE
       ELSE /\ wizardCalls' = Answered(wizardCalls, s)
            /\ UNCHANGED <<wizardEditor, testing, connecting>>
  /\ UNCHANGED <<connections, cardsListed, wizardAt>>

SaveFails(s) ==
  LET call == wizardCalls[s] IN
  /\ call # None /\ call.op = "save"
  /\ wizardCalls' = Answered(wizardCalls, s)
  /\ IF call.live
       THEN /\ connecting' = FALSE
            /\ \/ /\ tested' = "failed"
                  /\ suggestion' \in {suggestion} \cup ConnIds
               \/ UNCHANGED <<tested, suggestion>>  \* the request itself failed
       ELSE UNCHANGED <<connecting, tested, suggestion>>
  /\ UNCHANGED <<setup, editing, formData, atForm, testing, connections, cardsListed, wizardAt>>

-----------------------------------------------------------------------------
\* deleteConnection, confirmed by the user.
DeleteConnection ==
  /\ WizardShown /\ setup = None /\ cardsListed /\ connections # {}
  /\ Free(wizardCalls) # {}
  /\ wizardCalls' = Send(wizardCalls, Plain("delete"))
  /\ UNCHANGED <<wizardEditor, testing>> /\ WizardOther

DeleteAnswered(s) ==
  LET call == wizardCalls[s] IN
  /\ call # None /\ call.op = "delete"
  /\ \/ wizardCalls' = [wizardCalls EXCEPT ![s] = ListConnections]
     \/ wizardCalls' = Answered(wizardCalls, s)
  /\ UNCHANGED <<wizardEditor, testing>> /\ WizardOther

Listings == {rows \in SUBSET Connection : \A c, d \in rows : c.id = d.id => c = d}

\* fetchIntegrations: an older listing may come after a newer one.
ConnectionsListed(s) ==
  LET call == wizardCalls[s] IN
  /\ call # None /\ call.op = "list"
  /\ wizardCalls' = Answered(wizardCalls, s)
  /\ \/ cardsListed' = TRUE /\ connections' \in Listings
     \/ UNCHANGED <<cardsListed, connections>>
  /\ UNCHANGED <<wizardEditor, testing, connecting, wizardAt>>

-----------------------------------------------------------------------------
\* handleConnect goes on without its page; nothing else does anything then.
Outlives(call) == call.op \in {"saving", "save"}
StillSaving(calls) ==
  [s \in WizardSlots |-> IF calls[s] # None /\ Outlives(calls[s])
                           THEN [calls[s] EXCEPT !.live = FALSE] ELSE None]

WizardGone(at) ==
  /\ wizardAt' = at
  /\ wizardCalls' = StillSaving(wizardCalls)
  /\ connections' = {} /\ cardsListed' = FALSE
  /\ EditorSet(None, None, EmptyForm)
  /\ connecting' = FALSE

\* An error body where the list was expected: rendering it fails, and the
\* error page that replaces everything offers a reload only.
RenderFails(s) ==
  /\ wizardCalls[s] # None /\ wizardCalls[s].op = "list"
  /\ WizardGone("failed")

LeaveWizard == WizardShown /\ WizardGone("left")

EnterWizard ==
  /\ wizardAt = "left" /\ Free(wizardCalls) # {}
  /\ wizardAt' = "shown"
  /\ wizardCalls' = Send(wizardCalls, ListConnections)
  /\ UNCHANGED <<connections, cardsListed, wizardEditor, testing, connecting>>

ReloadWizard ==
  /\ wizardAt = "failed"
  /\ wizardAt' = "shown"
  /\ wizardCalls' = Send([s \in WizardSlots |-> None], ListConnections)
  /\ UNCHANGED <<connections, cardsListed, wizardEditor, testing, connecting>>

WizardAnswer(s) ==
  \/ TestPasses(s) \/ TestFails(s)
  \/ SaveSucceeds(s) \/ SaveFails(s)
  \/ DeleteAnswered(s) \/ ConnectionsListed(s) \/ RenderFails(s)

WizardNext ==
  \/ OpenSetup \/ OpenEdit \/ SwitchToExisting \/ CloseSetup
  \/ ChangeStep \/ EnterField
  \/ DryRun \/ HandleConnect \/ DeleteConnection
  \/ \E s \in WizardSlots : WizardAnswer(s)
  \/ LeaveWizard \/ EnterWizard \/ ReloadWizard

WizardSpec == WizardInit /\ [][WizardNext]_wizardVars

-----------------------------------------------------------------------------
\* Types of the wizard's state.
WizardTypeOK ==
  /\ connections \subseteq Connection
  /\ cardsListed \in BOOLEAN
  /\ setup \in Cards \cup {None}
  /\ editing \in Connection \cup {None}
  /\ formData \in WizardForm
  /\ atForm \in BOOLEAN
  /\ testing \in BOOLEAN /\ connecting \in BOOLEAN
  /\ tested \in {"none", "failed", "ok"}
  /\ suggestion \in ConnIds \cup {None}
  /\ wizardAt \in {"shown", "left", "failed"}
  /\ wizardCalls \in [WizardSlots -> WizardCall \cup {None}]

\* What is edited belongs to the card the wizard is open for, now and in every
\* request that still runs: closing, reopening and switching between the
\* modes never turns the edit of one connection into another card's.
EditorConsistent ==
  /\ editing # None => setup = editing.card
  /\ \A s \in Waiting(wizardCalls) :
       wizardCalls[s].edit # None => wizardCalls[s].card = wizardCalls[s].edit.card

\* handleConnect checks the form before it waits for the test: what it sends
\* afterwards is a complete role still, whatever was typed meanwhile.
SavedFormValid ==
  \A s \in Waiting(wizardCalls) :
    wizardCalls[s].op \in {"saving", "save"} /\ wizardCalls[s].card = "aws_role"
      => Complete(wizardCalls[s].form)

\* The buttons are disabled only on account of a request of this page that is
\* still under way, although answers of closed wizards clear the same flags.
BusyExplained ==
  /\ testing => \E s \in WizardSlots :
       wizardCalls[s] # None /\ wizardCalls[s].op \in {"test", "saving"} /\ wizardCalls[s].live
  /\ connecting => \E s \in WizardSlots :
       wizardCalls[s] # None /\ wizardCalls[s].op = "save" /\ wizardCalls[s].live
=============================================================================
