------------------------- MODULE ActionPagesProofs --------------------------
(***************************************************************************)
(* The pages that have the backend do something and wait for it: the       *)
(* connections, the optimizations, the orphaned resources and the drifts, for *)
(* every number of each and of requests under way.                         *)
(***************************************************************************)
EXTENDS IntegrationWizard, OptimizationsPage, OrphanedPage, DriftPage, PageRequestsProofs

-----------------------------------------------------------------------------
(* The connections                                                         *)

WizardOps == {"list", "delete", "test", "saving", "save"}

\* While the page is not shown no flag is set, and only saves go on.
QuietElsewhere ==
  wizardAt # "shown" =>
    /\ ~testing /\ ~connecting
    /\ \A s \in WizardSlots :
         wizardCalls[s] # None => ~wizardCalls[s].live /\ Outlives(wizardCalls[s])

WizardInv == WizardTypeOK /\ EditorConsistent /\ SavedFormValid /\ BusyExplained /\ QuietElsewhere

-----------------------------------------------------------------------------
\* The types of the calls a page makes and of what becomes of them.
LEMMA PlainCall ==
  ASSUME NEW op \in WizardOps
  PROVE  /\ Plain(op) \in WizardCall /\ Plain(op) # None
         /\ Plain(op).op = op /\ Plain(op).edit = None /\ Plain(op).card = "other" /\ Plain(op).live
<1>1. Plain(op) \in WizardCall
  BY DEF Plain, WizardCall, WizardOps, Cards, AwsCards, WizardForm, EmptyForm
<1>. QED BY <1>1, WizardAssumption DEF Plain

LEMMA RequestCall ==
  ASSUME NEW op \in WizardOps, WizardTypeOK
  PROVE  /\ WizardRequest(op) \in WizardCall /\ WizardRequest(op) # None
         /\ WizardRequest(op).op = op /\ WizardRequest(op).edit = editing
         /\ WizardRequest(op).form = formData /\ WizardRequest(op).live
         /\ setup # None => WizardRequest(op).card = setup
<1>1. WizardRequest(op) \in WizardCall
  BY DEF WizardRequest, WizardCall, WizardOps, Cards, AwsCards, WizardTypeOK
<1>. QED BY <1>1, WizardAssumption DEF WizardRequest

LEMMA SavingCall ==
  ASSUME NEW c \in WizardCall
  PROVE  LET d == [c EXCEPT !.op = "save"] IN
         d \in WizardCall /\ d.op = "save" /\ d.card = c.card /\ d.edit = c.edit
         /\ d.form = c.form /\ d.live = c.live
BY DEF WizardCall

LEMMA OutlivingCall ==
  ASSUME NEW c \in WizardCall
  PROVE  LET d == [c EXCEPT !.live = FALSE] IN
         d \in WizardCall /\ d.op = c.op /\ d.card = c.card /\ d.edit = c.edit
         /\ d.form = c.form /\ d.live = FALSE
BY DEF WizardCall

\* What one call may add to the calls under way: it says nothing false.
CallFine(c) ==
  /\ c \in WizardCall
  /\ c.edit # None => c.card = c.edit.card
  /\ c.op \in {"saving", "save"} /\ c.card = "aws_role" => Complete(c.form)

CallsFine(calls) ==
  /\ calls \in [WizardSlots -> WizardCall \cup {None}]
  /\ \A s \in WizardSlots : calls[s] # None => CallFine(calls[s])

LEMMA FineEquivalent ==
  ASSUME wizardCalls \in [WizardSlots -> WizardCall \cup {None}]
  PROVE  CallsFine(wizardCalls) <=>
           /\ SavedFormValid
           /\ \A s \in Waiting(wizardCalls) :
                wizardCalls[s].edit # None => wizardCalls[s].card = wizardCalls[s].edit.card
<1>. HIDE DEF WizardCall
<1>1. \A s \in WizardSlots : wizardCalls[s] # None => wizardCalls[s] \in WizardCall
  OBVIOUS
<1>. QED BY <1>1 DEF CallsFine, CallFine, SavedFormValid, Waiting

LEMMA PlainFine ==
  ASSUME NEW op \in {"list", "delete", "test"}
  PROVE  CallFine(Plain(op))
BY PlainCall DEF CallFine, WizardOps

\* However the calls change, they stay fine.
LEMMA PutFine ==
  ASSUME NEW calls, CallsFine(calls), NEW s \in WizardSlots, NEW c, c = None \/ CallFine(c)
  PROVE  CallsFine([calls EXCEPT ![s] = c])
<1>. HIDE DEF WizardCall
<1>1. c \in WizardCall \cup {None}
  BY DEF CallFine
<1>. QED BY <1>1 DEF CallsFine

LEMMA SendFine ==
  ASSUME NEW calls, CallsFine(calls), NEW c, CallFine(c), Free(calls) # {}
  PROVE  CallsFine(Send(calls, c))
<1>1. PICK s \in DOMAIN calls : Send(calls, c) = [calls EXCEPT ![s] = c]
  BY SendFree
<1>2. s \in WizardSlots
  BY <1>1 DEF CallsFine
<1>3. CallsFine([calls EXCEPT ![s] = c])
  BY <1>2, PutFine
<1>. QED BY <1>1, <1>3

LEMMA SurvivorsFine ==
  ASSUME NEW calls, CallsFine(calls)
  PROVE  /\ CallsFine(StillSaving(calls))
         /\ \A s \in WizardSlots : StillSaving(calls)[s] # None =>
              ~StillSaving(calls)[s].live /\ Outlives(StillSaving(calls)[s])
<1>. DEFINE kept(s) == [calls[s] EXCEPT !.live = FALSE]
<1>1. \A s \in WizardSlots : calls[s] # None =>
        CallFine(kept(s)) /\ ~kept(s).live /\ kept(s).op = calls[s].op
  BY OutlivingCall DEF CallsFine, CallFine
<1>2. \A s \in WizardSlots :
        \/ StillSaving(calls)[s] = None
        \/ calls[s] # None /\ Outlives(calls[s]) /\ StillSaving(calls)[s] = kept(s)
  BY DEF StillSaving
<1>3. StillSaving(calls) \in [WizardSlots -> WizardCall \cup {None}]
  <2>. HIDE DEF kept, WizardCall
  <2>1. \A s \in WizardSlots : StillSaving(calls)[s] \in WizardCall \cup {None}
    BY <1>1, <1>2 DEF CallFine
  <2>. QED BY <2>1 DEF StillSaving
<1>. HIDE DEF kept
<1>. QED BY <1>1, <1>2, <1>3 DEF CallsFine, Outlives

-----------------------------------------------------------------------------
\* The inductive invariant, part by part.
RestOK ==
  /\ connections \subseteq Connection
  /\ cardsListed \in BOOLEAN
  /\ setup \in Cards \cup {None}
  /\ editing \in Connection \cup {None}
  /\ formData \in WizardForm
  /\ atForm \in BOOLEAN
  /\ testing \in BOOLEAN /\ connecting \in BOOLEAN
  /\ tested \in {"none", "failed", "ok"}
  /\ suggestion \in ConnIds \cup {None}
  /\ wizardAt \in {"shown", "left", "failed"}

EditsItsCard == editing # None => setup = editing.card

Testing(c) == c # None /\ c.op \in {"test", "saving"} /\ c.live
Saving(c)  == c # None /\ c.op = "save" /\ c.live

FlagsExplained ==
  /\ testing => \E s \in WizardSlots : Testing(wizardCalls[s])
  /\ connecting => \E s \in WizardSlots : Saving(wizardCalls[s])

WizardIInv == RestOK /\ EditsItsCard /\ CallsFine(wizardCalls) /\ FlagsExplained /\ QuietElsewhere

LEMMA InvariantImplies ==
  WizardIInv => WizardTypeOK /\ EditorConsistent /\ SavedFormValid /\ BusyExplained
<1>. SUFFICES ASSUME WizardIInv PROVE WizardTypeOK /\ EditorConsistent /\ SavedFormValid /\ BusyExplained
  OBVIOUS
<1>1. wizardCalls \in [WizardSlots -> WizardCall \cup {None}]
  BY DEF WizardIInv, CallsFine
<1>2. WizardTypeOK
  BY <1>1 DEF WizardIInv, RestOK, WizardTypeOK
<1>3. EditorConsistent /\ SavedFormValid
  BY <1>1, FineEquivalent DEF WizardIInv, EditsItsCard, EditorConsistent
<1>4. BusyExplained
  BY DEF WizardIInv, FlagsExplained, Testing, Saving, BusyExplained
<1>. QED BY <1>2, <1>3, <1>4

-----------------------------------------------------------------------------
\* The editor: whatever it is opened for, a row comes with the card of the row.
LEMMA EditorSetKeeps ==
  ASSUME NEW card \in Cards \cup {None}, NEW row \in Connection \cup {None}, NEW f \in WizardForm,
         row # None => card = row.card, RestOK, EditorSet(card, row, f),
         UNCHANGED <<connections, cardsListed, connecting, wizardAt>>
  PROVE  RestOK' /\ EditsItsCard' /\ testing' = FALSE
BY DEF EditorSet, RestOK, EditsItsCard

\* Steps that leave the calls alone and set no flag.
LEMMA QuietStep ==
  ASSUME WizardIInv, RestOK', EditsItsCard', UNCHANGED <<wizardCalls, connecting, wizardAt>>,
         testing' = FALSE \/ testing' = testing
  PROVE  WizardIInv'
<1>1. CallsFine(wizardCalls)'
  BY DEF WizardIInv
<1>2. FlagsExplained' /\ QuietElsewhere'
  BY DEF WizardIInv, FlagsExplained, QuietElsewhere
<1>. QED BY <1>1, <1>2 DEF WizardIInv

LEMMA EditOpensKeeps ==
  ASSUME WizardIInv, NEW c \in connections, EditOpens(c)
  PROVE  WizardIInv'
<1>1. c \in Connection /\ c.card \in AwsCards /\ c.account \in WizardAccounts
  BY DEF WizardIInv, RestOK, Connection
<1>2. PrefilledForms(c) \subseteq WizardForm
  BY <1>1 DEF PrefilledForms, Prefilled, WizardForm
<1>3. PICK f \in PrefilledForms(c) : EditorSet(c.card, c, f)
  BY DEF EditOpens
<1>4. RestOK' /\ EditsItsCard' /\ testing' = FALSE
  BY <1>1, <1>2, <1>3, EditorSetKeeps DEF EditOpens, WizardOther, WizardIInv, Cards
<1>. QED BY <1>4, QuietStep DEF EditOpens, WizardOther

LEMMA EditorActionsKeep ==
  ASSUME WizardIInv, OpenSetup \/ OpenEdit \/ SwitchToExisting \/ CloseSetup \/ ChangeStep \/ EnterField
  PROVE  WizardIInv'
<1>1. EmptyForm \in WizardForm
  BY DEF EmptyForm, WizardForm
<1>2. CASE OpenSetup
  <2>1. PICK card \in Cards : EditorSet(card, None, EmptyForm)
    BY <1>2 DEF OpenSetup
  <2>2. RestOK' /\ EditsItsCard' /\ testing' = FALSE
    BY <1>1, <1>2, <2>1, EditorSetKeeps DEF OpenSetup, WizardOther, WizardIInv
  <2>. QED BY <1>2, <2>2, QuietStep DEF OpenSetup, WizardOther
<1>3. CASE OpenEdit
  BY <1>3, EditOpensKeeps DEF OpenEdit
<1>4. CASE SwitchToExisting
  BY <1>4, EditOpensKeeps DEF SwitchToExisting
<1>5. CASE CloseSetup
  <2>1. RestOK' /\ EditsItsCard' /\ testing' = FALSE
    BY <1>1, <1>5, EditorSetKeeps DEF CloseSetup, WizardOther, WizardIInv
  <2>. QED BY <1>5, <2>1, QuietStep DEF CloseSetup, WizardOther
<1>6. CASE ChangeStep
  <2>1. RestOK' /\ EditsItsCard'
    BY <1>6 DEF ChangeStep, WizardOther, WizardIInv, RestOK, EditsItsCard
  <2>. QED BY <1>6, <2>1, QuietStep DEF ChangeStep, WizardOther
<1>7. CASE EnterField
  <2>1. formData' \in WizardForm
    BY <1>7 DEF EnterField, WizardIInv, RestOK, WizardForm
  <2>2. RestOK' /\ EditsItsCard'
    BY <1>7, <2>1 DEF EnterField, WizardOther, WizardIInv, RestOK, EditsItsCard
  <2>. QED BY <1>7, <2>2, QuietStep DEF EnterField, WizardOther
<1>. QED BY <1>2, <1>3, <1>4, <1>5, <1>6, <1>7

-----------------------------------------------------------------------------
\* A step that puts a call, or none, into slot s: which flags may be set then.
Put(s, c) == wizardCalls' = [wizardCalls EXCEPT ![s] = c]

LEMMA PutKeeps ==
  ASSUME WizardIInv, RestOK', EditsItsCard', NEW s \in WizardSlots, NEW c, c = None \/ CallFine(c), Put(s, c),
         testing' => Testing(c) \/ (testing /\ ~Testing(wizardCalls[s])),
         connecting' => Saving(c) \/ (connecting /\ ~Saving(wizardCalls[s])),
         wizardAt' # "shown" =>
           wizardAt # "shown" /\ ~testing' /\ ~connecting' /\ (c # None => ~c.live /\ Outlives(c))
  PROVE  WizardIInv'
<1>1. CallsFine(wizardCalls)'
  BY PutFine DEF WizardIInv, Put
<1>2. DOMAIN wizardCalls = WizardSlots
  BY DEF WizardIInv, CallsFine
<1>3. /\ wizardCalls'[s] = c
      /\ \A t \in WizardSlots : t # s => wizardCalls'[t] = wizardCalls[t]
  BY <1>2 DEF Put
<1>4. FlagsExplained'
  <2>1. ASSUME testing' PROVE \E t \in WizardSlots : Testing(wizardCalls'[t])
    BY <1>3, <2>1 DEF WizardIInv, FlagsExplained
  <2>2. ASSUME connecting' PROVE \E t \in WizardSlots : Saving(wizardCalls'[t])
    BY <1>3, <2>2 DEF WizardIInv, FlagsExplained
  <2>. QED BY <2>1, <2>2 DEF FlagsExplained
<1>5. QuietElsewhere'
  BY <1>3 DEF WizardIInv, QuietElsewhere
<1>. QED BY <1>1, <1>4, <1>5 DEF WizardIInv

\* A step that sends a call while the page is shown.
LEMMA SendKeeps ==
  ASSUME WizardIInv, RestOK', EditsItsCard', NEW c, CallFine(c), wizardCalls' = Send(wizardCalls, c),
         Free(wizardCalls) # {}, wizardAt' = "shown",
         testing' => Testing(c) \/ testing, connecting' => Saving(c) \/ connecting
  PROVE  WizardIInv'
<1>1. PICK s \in DOMAIN wizardCalls : wizardCalls[s] = None /\ Put(s, c)
  BY SendFree DEF Put
<1>2. s \in WizardSlots
  BY <1>1 DEF WizardIInv, CallsFine
<1>3. ~Testing(wizardCalls[s]) /\ ~Saving(wizardCalls[s])
  BY <1>1 DEF Testing, Saving
<1>. QED BY <1>1, <1>2, <1>3, PutKeeps

LEMMA SendingActionsKeep ==
  ASSUME WizardIInv, DryRun \/ HandleConnect \/ DeleteConnection \/ EnterWizard
  PROVE  WizardIInv'
<1>. USE DEF WizardIInv, RestOK, EditsItsCard
<1>1. CASE DryRun
  <2>1. CallFine(Plain("test")) /\ Testing(Plain("test"))
    BY PlainFine, PlainCall DEF Testing, WizardOps, CallFine
  <2>. QED BY <1>1, <2>1, SendKeeps DEF DryRun, TestBegins, WizardOther, InWizard, WizardShown
<1>2. CASE HandleConnect
  <2>1. /\ CallFine(WizardRequest("save")) /\ Saving(WizardRequest("save"))
        /\ CallFine(WizardRequest("saving")) /\ Testing(WizardRequest("saving"))
    <3>1. setup = "aws_role" => Complete(formData)
      BY <1>2 DEF HandleConnect, FormValid
    <3>2. WizardTypeOK /\ setup # None
      BY <1>2, InvariantImplies DEF HandleConnect, InWizard
    <3>3. ASSUME NEW op \in {"save", "saving"}
          PROVE  /\ CallFine(WizardRequest(op))
                 /\ WizardRequest(op).op = op /\ WizardRequest(op).live
                 /\ WizardRequest(op) # None
      BY <3>1, <3>2, <3>3, RequestCall DEF CallFine, WizardOps
    <3>. QED BY <3>3 DEF Testing, Saving
  <2>2. CASE tested = "ok"
    BY <1>2, <2>1, <2>2, SendKeeps DEF HandleConnect, wizardEditor, InWizard, WizardShown
  <2>3. CASE tested # "ok"
    BY <1>2, <2>1, <2>3, SendKeeps DEF HandleConnect, TestBegins, InWizard, WizardShown
  <2>. QED BY <2>2, <2>3
<1>3. CASE DeleteConnection
  BY <1>3, PlainFine, SendKeeps DEF DeleteConnection, wizardEditor, WizardOther, WizardShown
<1>4. CASE EnterWizard
  BY <1>4, PlainFine, SendKeeps DEF EnterWizard, wizardEditor, ListConnections
<1>. QED BY <1>1, <1>2, <1>3, <1>4

-----------------------------------------------------------------------------
\* The answers: what they leave in their slot.
LEMMA AnswersPut ==
  ASSUME WizardIInv, NEW s \in WizardSlots
  PROVE  /\ Answered(wizardCalls, s) = [wizardCalls EXCEPT ![s] = None]
         /\ ListConnections # None /\ CallFine(ListConnections)
         /\ ~Testing(ListConnections) /\ ~Saving(ListConnections) /\ ~Testing(None) /\ ~Saving(None)
<1>1. CallFine(ListConnections) /\ ListConnections # None /\ ListConnections.op = "list"
  BY PlainFine, PlainCall DEF ListConnections, WizardOps
<1>. QED BY <1>1 DEF Answered, Testing, Saving

LEMMA TestAnswersKeep ==
  ASSUME WizardIInv, NEW s \in WizardSlots, TestPasses(s) \/ TestFails(s)
  PROVE  WizardIInv'
<1>1. /\ wizardCalls[s] # None /\ wizardCalls[s].op \in {"test", "saving"} /\ CallFine(wizardCalls[s])
      /\ wizardAt # "shown" => ~wizardCalls[s].live
      /\ ~Saving(wizardCalls[s]) /\ (Testing(wizardCalls[s]) <=> wizardCalls[s].live)
  BY DEF TestPasses, TestFails, WizardIInv, CallsFine, QuietElsewhere, Testing, Saving
<1>2. RestOK' /\ EditsItsCard'
  BY DEF TestPasses, TestFails, WizardIInv, RestOK, EditsItsCard, WizardOther
<1>3. wizardAt' = wizardAt /\ (wizardAt # "shown" => ~testing /\ ~connecting)
  BY DEF TestPasses, TestFails, WizardOther, WizardIInv, QuietElsewhere
<1>4. CASE TestPasses(s) /\ wizardCalls[s].op = "saving"
  <2>. DEFINE saved == [wizardCalls[s] EXCEPT !.op = "save"]
  <2>1. saved \in WizardCall /\ saved.op = "save" /\ saved.card = wizardCalls[s].card
        /\ saved.edit = wizardCalls[s].edit /\ saved.form = wizardCalls[s].form
        /\ saved.live = wizardCalls[s].live
    BY <1>1, SavingCall DEF CallFine
  <2>2. Put(s, saved)
    BY <1>4 DEF TestPasses, AfterTest, Put
  <2>. HIDE DEF saved
  <2>3. CallFine(saved) /\ saved # None
    BY <1>1, <1>4, <2>1, WizardAssumption DEF CallFine
  <2>4. Saving(saved) <=> wizardCalls[s].live
    BY <2>1, <2>3 DEF Saving
  <2>5. /\ testing' => testing /\ ~Testing(wizardCalls[s])
        /\ connecting' => connecting \/ Saving(saved)
        /\ wizardAt # "shown" => ~testing' /\ ~connecting' /\ ~saved.live
    BY <1>1, <1>3, <1>4, <2>1, <2>4 DEF TestPasses
  <2>. QED BY <1>1, <1>2, <1>3, <2>1, <2>2, <2>3, <2>5, PutKeeps DEF Outlives
<1>5. CASE (TestPasses(s) /\ wizardCalls[s].op # "saving") \/ TestFails(s)
  <2>1. Put(s, None)
    BY <1>5 DEF TestPasses, TestFails, Answered, Put
  <2>2. /\ testing' => testing /\ ~Testing(wizardCalls[s])
        /\ connecting' => connecting
    BY <1>1, <1>5 DEF TestPasses, TestFails, WizardOther, WizardIInv, RestOK
  <2>. QED BY <1>1, <1>2, <1>3, <2>1, <2>2, PutKeeps
<1>. QED BY <1>4, <1>5

LEMMA SaveAnswersKeep ==
  ASSUME WizardIInv, NEW s \in WizardSlots, SaveSucceeds(s) \/ SaveFails(s)
  PROVE  WizardIInv'
<1>1. /\ wizardCalls[s] # None /\ wizardCalls[s].op = "save"
      /\ wizardAt # "shown" => ~wizardCalls[s].live /\ ~testing /\ ~connecting
      /\ ~Testing(wizardCalls[s]) /\ (Saving(wizardCalls[s]) <=> wizardCalls[s].live)
      /\ wizardAt' = wizardAt
  BY DEF SaveSucceeds, SaveFails, WizardIInv, QuietElsewhere, Testing, Saving
<1>2. CASE SaveSucceeds(s) /\ wizardCalls[s].live
  <2>1. EmptyForm \in WizardForm
    BY DEF EmptyForm, WizardForm
  <2>2. EditorSet(None, None, EmptyForm) /\ connecting' = FALSE /\ Put(s, ListConnections)
    BY <1>2 DEF SaveSucceeds, Put
  <2>3. RestOK' /\ EditsItsCard' /\ testing' = FALSE
    BY <1>2, <2>1, <2>2 DEF SaveSucceeds, EditorSet, WizardIInv, RestOK, EditsItsCard
  <2>. QED BY <1>1, <1>2, <2>2, <2>3, AnswersPut, PutKeeps
<1>3. CASE SaveSucceeds(s) /\ ~wizardCalls[s].live
  <2>1. Put(s, None) /\ UNCHANGED <<testing, connecting>>
    BY <1>3 DEF SaveSucceeds, Answered, Put
  <2>2. RestOK' /\ EditsItsCard'
    BY <1>3 DEF SaveSucceeds, WizardIInv, RestOK, EditsItsCard, wizardEditor
  <2>. QED BY <1>1, <1>3, <2>1, <2>2, PutKeeps
<1>4. CASE SaveFails(s)
  <2>1. Put(s, None) /\ testing' = testing
        /\ connecting' = IF wizardCalls[s].live THEN FALSE ELSE connecting
    BY <1>4 DEF SaveFails, Answered, Put
  <2>2. RestOK' /\ EditsItsCard'
    BY <1>4 DEF SaveFails, WizardIInv, RestOK, EditsItsCard
  <2>. QED BY <1>1, <2>1, <2>2, PutKeeps
<1>. QED BY <1>2, <1>3, <1>4

LEMMA ListAnswersKeep ==
  ASSUME WizardIInv, NEW s \in WizardSlots, DeleteAnswered(s) \/ ConnectionsListed(s)
  PROVE  WizardIInv'
<1>1. /\ wizardCalls[s] # None /\ wizardCalls[s].op \in {"delete", "list"}
      /\ ~Testing(wizardCalls[s]) /\ ~Saving(wizardCalls[s])
      /\ UNCHANGED <<testing, connecting, wizardAt>>
  BY DEF DeleteAnswered, ConnectionsListed, Testing, Saving, WizardOther
<1>2. RestOK' /\ EditsItsCard'
  BY DEF DeleteAnswered, ConnectionsListed, WizardOther, wizardEditor, Listings, WizardIInv, RestOK,
         EditsItsCard
<1>3. CASE Put(s, None)
  BY <1>1, <1>2, <1>3, PutKeeps DEF WizardIInv, QuietElsewhere
<1>4. CASE Put(s, ListConnections)
  <2>1. wizardAt = "shown"
    BY <1>1 DEF WizardIInv, QuietElsewhere, Outlives
  <2>. QED BY <1>1, <1>2, <1>4, <2>1, AnswersPut, PutKeeps
<1>. QED BY <1>3, <1>4 DEF DeleteAnswered, ConnectionsListed, Answered, Put

-----------------------------------------------------------------------------
LEMMA WizardGoneKeeps ==
  ASSUME WizardIInv, NEW at \in {"left", "failed"}, WizardGone(at)
  PROVE  WizardIInv'
<1>1. EmptyForm \in WizardForm
  BY DEF EmptyForm, WizardForm
<1>2. RestOK' /\ EditsItsCard' /\ testing' = FALSE /\ connecting' = FALSE
  BY <1>1 DEF WizardGone, EditorSet, RestOK, EditsItsCard
<1>3. wizardCalls' = StillSaving(wizardCalls)
  BY DEF WizardGone
<1>4. CallsFine(wizardCalls)'
  BY <1>3, SurvivorsFine DEF WizardIInv
<1>5. QuietElsewhere'
  BY <1>2, <1>3, SurvivorsFine DEF WizardIInv, QuietElsewhere
<1>. QED BY <1>2, <1>4, <1>5 DEF WizardIInv, FlagsExplained

\* The page as it mounts, for the first time or after a reload.
LEMMA NoCallsFine ==
  LET calls == Send([s \in WizardSlots |-> None], ListConnections) IN CallsFine(calls)
<1>1. CallsFine([s \in WizardSlots |-> None])
  BY DEF CallsFine
<1>2. Free([s \in WizardSlots |-> None]) # {}
  BY WizardAssumption DEF Free
<1>. QED BY <1>1, <1>2, SendFine, PlainFine DEF ListConnections

LEMMA ReloadKeeps ==
  ASSUME WizardIInv, ReloadWizard
  PROVE  WizardIInv'
<1>1. ~testing' /\ ~connecting' /\ wizardAt' = "shown"
  BY DEF ReloadWizard, WizardIInv, QuietElsewhere
<1>2. RestOK' /\ EditsItsCard'
  BY DEF ReloadWizard, WizardIInv, RestOK, EditsItsCard, wizardEditor
<1>3. CallsFine(wizardCalls)'
  BY NoCallsFine DEF ReloadWizard
<1>. QED BY <1>1, <1>2, <1>3 DEF WizardIInv, FlagsExplained, QuietElsewhere

LEMMA WizardInitIInv == WizardInit => WizardIInv
<1>. SUFFICES ASSUME WizardInit PROVE WizardIInv
  OBVIOUS
<1>1. RestOK /\ EditsItsCard
  BY DEF WizardInit, WizardFresh, RestOK, EditsItsCard, EmptyForm, WizardForm
<1>2. CallsFine(wizardCalls)
  BY NoCallsFine DEF WizardInit, WizardFresh
<1>. QED BY <1>1, <1>2 DEF WizardIInv, FlagsExplained, QuietElsewhere, WizardInit, WizardFresh

LEMMA WizardNextIInv == WizardIInv /\ [WizardNext]_wizardVars => WizardIInv'
<1>. SUFFICES ASSUME WizardIInv, [WizardNext]_wizardVars PROVE WizardIInv'
  OBVIOUS
<1>1. CASE UNCHANGED wizardVars
  <2>1. UNCHANGED <<connections, cardsListed, setup, editing, formData, atForm, testing, tested,
                    suggestion, connecting, wizardAt, wizardCalls>>
    BY <1>1 DEF wizardVars
  <2>2. RestOK' /\ EditsItsCard'
    BY <2>1 DEF WizardIInv, RestOK, EditsItsCard
  <2>. QED BY <2>1, <2>2, QuietStep
<1>2. CASE OpenSetup \/ OpenEdit \/ SwitchToExisting \/ CloseSetup \/ ChangeStep \/ EnterField
  BY <1>2, EditorActionsKeep
<1>3. CASE DryRun \/ HandleConnect \/ DeleteConnection \/ EnterWizard
  BY <1>3, SendingActionsKeep
<1>4. ASSUME NEW s \in WizardSlots, WizardAnswer(s) PROVE WizardIInv'
  <2>1. CASE RenderFails(s)
    BY <2>1, WizardGoneKeeps DEF RenderFails
  <2>. QED BY <1>4, <2>1, TestAnswersKeep, SaveAnswersKeep, ListAnswersKeep DEF WizardAnswer
<1>5. CASE LeaveWizard
  BY <1>5, WizardGoneKeeps DEF LeaveWizard
<1>6. CASE ReloadWizard
  BY <1>6, ReloadKeeps
<1>. QED BY <1>1, <1>2, <1>3, <1>4, <1>5, <1>6 DEF WizardNext

-----------------------------------------------------------------------------
LEMMA WizardInvariance == WizardSpec => []WizardIInv
BY WizardInitIInv, WizardNextIInv, PTL DEF WizardSpec

\* The wizard's state keeps its types.
THEOREM WizardTypes == WizardSpec => []WizardTypeOK
BY WizardInvariance, InvariantImplies, PTL

\* openSetup, openEditConnection, closeSetup and the switch to an existing
\* connection never leave the edit of one connection under another card, nor
\* does a request that closed over them.
THEOREM WizardEditor == WizardSpec => []EditorConsistent
BY WizardInvariance, InvariantImplies, PTL

\* What handleConnect sends of a role was complete when it was checked.
THEOREM WizardSavesValid == WizardSpec => []SavedFormValid
BY WizardInvariance, InvariantImplies, PTL

\* isTestingConnection and isConnecting are never left set: a request of this
\* page that will clear them is under way.
THEOREM WizardReleased == WizardSpec => []BusyExplained
BY WizardInvariance, InvariantImplies, PTL

-----------------------------------------------------------------------------
(* The optimizations                                                       *)

\* What the rest of the page's state may be.
OptRestOK ==
  /\ optimizations \in [Opts -> OptStatus \cup {None}]
  /\ optLoading \in BOOLEAN /\ optAdmin \in BOOLEAN /\ isExecuting \in BOOLEAN
  /\ activeTab \in OptStatus
  /\ selectedOpt \in Opts \cup {None}
  /\ executed \subseteq Opts
  /\ optAt \in {"shown", "left"}

\* Each plan of a runbook, and each plan that is being applied, was executed.
\* Listings have no plan and end with their page.
Asked(c) ==
  /\ c \in OptCall
  /\ c.op = "apply" => c.opt \in executed
  /\ c.op \in {"dismiss", "restore", "apply"} => c.opt \in Opts
  /\ c.op \in {"summary", "optimizations"} => c.opt = None /\ c.live
RunbookAsked(r) == r \in Runbook /\ r.opt \in executed

CallsAsked(calls) ==
  /\ calls \in [OptSlots -> OptCall \cup {None}]
  /\ \A s \in OptSlots : calls[s] # None => Asked(calls[s])
RunbooksAsked(timers) ==
  /\ timers \in [Runbooks -> Runbook \cup {None}]
  /\ \A r \in Runbooks : timers[r] # None => RunbookAsked(timers[r])
StatusAsked ==
  /\ optStatus \in [Opts -> OptStatus]
  /\ \A o \in Opts : optStatus[o] = "applied" => o \in executed

OptIInv == OptRestOK /\ StatusAsked /\ CallsAsked(optCalls) /\ RunbooksAsked(runbooks)

LEMMA OptIInvImplies == OptIInv => OptTypeOK /\ NothingAppliedUnasked
<1>. SUFFICES ASSUME OptIInv PROVE OptTypeOK /\ NothingAppliedUnasked
  OBVIOUS
<1>. HIDE DEF OptCall, Runbook
<1>1. OptTypeOK
  BY DEF OptIInv, OptRestOK, StatusAsked, CallsAsked, RunbooksAsked, OptTypeOK
<1>2. NothingAppliedUnasked
  BY DEF OptIInv, StatusAsked, CallsAsked, Asked, NothingAppliedUnasked, Waiting
<1>. QED BY <1>1, <1>2

-----------------------------------------------------------------------------
\* Where a call or a runbook is put, or none, all were asked for still.
LEMMA PutAsked ==
  ASSUME NEW calls, CallsAsked(calls), NEW s \in OptSlots, NEW c, c = None \/ Asked(c)
  PROVE  CallsAsked([calls EXCEPT ![s] = c])
<1>. HIDE DEF OptCall
<1>1. c \in OptCall \cup {None}
  BY DEF Asked
<1>. QED BY <1>1 DEF CallsAsked

LEMMA SendAsked ==
  ASSUME NEW calls, CallsAsked(calls), NEW c, Asked(c), Free(calls) # {}
  PROVE  CallsAsked(Send(calls, c))
<1>1. PICK s \in DOMAIN calls : Send(calls, c) = [calls EXCEPT ![s] = c]
  BY SendFree
<1>2. s \in OptSlots
  BY <1>1 DEF CallsAsked
<1>3. CallsAsked([calls EXCEPT ![s] = c])
  BY <1>2, PutAsked
<1>. QED BY <1>1, <1>3

LEMMA RunbookPutAsked ==
  ASSUME NEW timers, RunbooksAsked(timers), NEW r \in Runbooks, NEW b, b = None \/ RunbookAsked(b)
  PROVE  RunbooksAsked([timers EXCEPT ![r] = b])
<1>. HIDE DEF Runbook
<1>1. b \in Runbook \cup {None}
  BY DEF RunbookAsked
<1>. QED BY <1>1 DEF RunbooksAsked

\* The calls themselves.
LEMMA CallsMade ==
  /\ \A then \in {"nothing", "close", "finish"} :
       Asked(FetchOptimizations(then)) /\ FetchOptimizations(then) # None
  /\ \A op \in {"dismiss", "restore"}, o \in Opts :
       Asked([op |-> op, opt |-> o, then |-> "close", live |-> TRUE])
  /\ \A o \in executed \cap Opts, live \in BOOLEAN :
       Asked([op |-> "apply", opt |-> o, then |-> "finish", live |-> live])
<1>1. ASSUME NEW then \in {"nothing", "close", "finish"}
      PROVE  Asked(FetchOptimizations(then)) /\ FetchOptimizations(then) # None
  <2>1. FetchOptimizations(then) \in OptCall /\ FetchOptimizations(then).op = "summary"
    BY DEF FetchOptimizations, OptCall
  <2>2. FetchOptimizations(then).opt = None /\ FetchOptimizations(then).live
    BY DEF FetchOptimizations
  <2>. QED BY <2>1, <2>2, OptAssumption DEF Asked
<1>2. ASSUME NEW op \in {"dismiss", "restore"}, NEW o \in Opts
      PROVE  Asked([op |-> op, opt |-> o, then |-> "close", live |-> TRUE])
  BY DEF Asked, OptCall
<1>3. ASSUME NEW o \in executed \cap Opts, NEW live \in BOOLEAN
      PROVE  Asked([op |-> "apply", opt |-> o, then |-> "finish", live |-> live])
  BY DEF Asked, OptCall
<1>. QED BY <1>1, <1>2, <1>3

LEMMA CallMovesOn ==
  ASSUME NEW c, Asked(c)
  PROVE  /\ c.opt # None => Asked([c EXCEPT !.live = FALSE])
         /\ c.op = "summary" => Asked([c EXCEPT !.op = "optimizations"])
<1>1. /\ [c EXCEPT !.live = FALSE] \in OptCall
      /\ [c EXCEPT !.live = FALSE].op = c.op /\ [c EXCEPT !.live = FALSE].opt = c.opt
  BY DEF Asked, OptCall
<1>2. /\ [c EXCEPT !.op = "optimizations"] \in OptCall
      /\ [c EXCEPT !.op = "optimizations"].op = "optimizations"
      /\ [c EXCEPT !.op = "optimizations"].opt = c.opt
      /\ [c EXCEPT !.op = "optimizations"].live = c.live
  BY DEF Asked, OptCall
<1>. QED BY <1>1, <1>2 DEF Asked

LEMMA RunbookMovesOn ==
  ASSUME NEW b, RunbookAsked(b)
  PROVE  RunbookAsked([b EXCEPT !.live = FALSE])
<1>1. /\ [b EXCEPT !.live = FALSE] \in Runbook
      /\ [b EXCEPT !.live = FALSE].opt = b.opt
  BY DEF RunbookAsked, Runbook
<1>. QED BY <1>1 DEF RunbookAsked

-----------------------------------------------------------------------------
\* Steps that change neither what is stored nor what runs.
LEMMA OptQuietStep ==
  ASSUME OptIInv, OptRestOK', UNCHANGED <<optStatus, optCalls, runbooks, executed>>
  PROVE  OptIInv'
BY DEF OptIInv, StatusAsked, CallsAsked, RunbooksAsked, Asked, RunbookAsked

\* Steps that change the calls only, besides the rest.
LEMMA OptCallStep ==
  ASSUME OptIInv, OptRestOK', CallsAsked(optCalls'), UNCHANGED <<optStatus, runbooks, executed>>
  PROVE  OptIInv'
BY DEF OptIInv, StatusAsked, CallsAsked, RunbooksAsked, Asked, RunbookAsked

LEMMA OptViewsKeep ==
  ASSUME OptIInv, ShowTab \/ ViewPlan \/ ClosePlan
  PROVE  OptIInv'
<1>1. OptRestOK' /\ UNCHANGED <<optStatus, optCalls, runbooks, executed>>
  BY DEF ShowTab, ViewPlan, ClosePlan, OptRows, OptIInv, OptRestOK
<1>. QED BY <1>1, OptQuietStep

LEMMA ChangeStatusKeeps ==
  ASSUME OptIInv, NEW o \in Opts, NEW op \in {"dismiss", "restore"}, ChangeStatus(o, op)
  PROVE  OptIInv'
<1>1. OptRestOK' /\ UNCHANGED <<optStatus, runbooks, executed>>
  BY DEF ChangeStatus, OptIInv, OptRestOK
<1>2. CallsAsked(optCalls')
  BY CallsMade, SendAsked DEF ChangeStatus, OptIInv
<1>. QED BY <1>1, <1>2, OptCallStep

\* The user executes the plan that is open.
LEMMA ExecuteKeeps ==
  ASSUME OptIInv, Execute
  PROVE  OptIInv'
<1>. DEFINE b == [opt |-> selectedOpt, live |-> TRUE]
<1>1. selectedOpt \in Opts /\ executed' = executed \cup {selectedOpt}
  BY DEF Execute, OptIInv, OptRestOK
<1>2. OptRestOK' /\ UNCHANGED <<optStatus, optCalls>>
  BY <1>1 DEF Execute, OptIInv, OptRestOK
<1>3. b \in Runbook /\ b.opt \in executed'
  BY <1>1 DEF Runbook
<1>. HIDE DEF b
<1>4. PICK r \in Runbooks : runbooks' = [runbooks EXCEPT ![r] = b]
  BY SendFree DEF Execute, b, OptIInv, RunbooksAsked
<1>5. RunbooksAsked(runbooks)'
  <2>. HIDE DEF Runbook
  <2>1. runbooks' \in [Runbooks -> Runbook \cup {None}]
    BY <1>3, <1>4 DEF OptIInv, RunbooksAsked
  <2>2. \A t \in Runbooks : runbooks'[t] # None => runbooks'[t] \in Runbook /\ runbooks'[t].opt \in executed'
    BY <1>1, <1>3, <1>4 DEF OptIInv, RunbooksAsked, RunbookAsked
  <2>. QED BY <2>1, <2>2 DEF RunbooksAsked, RunbookAsked
<1>6. StatusAsked' /\ CallsAsked(optCalls)'
  BY <1>1, <1>2 DEF OptIInv, StatusAsked, CallsAsked, Asked
<1>. QED BY <1>2, <1>5, <1>6 DEF OptIInv

\* The last timer fires: what it applies is what was executed.
LEMMA RunbookEndsKeeps ==
  ASSUME OptIInv, NEW r \in Runbooks, RunbookEnds(r)
  PROVE  OptIInv'
<1>1. runbooks[r].opt \in executed \cap Opts /\ runbooks[r].live \in BOOLEAN
  BY DEF RunbookEnds, OptIInv, RunbooksAsked, RunbookAsked, Runbook
<1>2. OptRestOK' /\ UNCHANGED <<optStatus, executed>>
  BY DEF RunbookEnds, OptIInv, OptRestOK
<1>3. CallsAsked(optCalls')
  BY <1>1, CallsMade, SendAsked DEF RunbookEnds, RunbookTarget, OptIInv
<1>4. RunbooksAsked(runbooks')
  BY RunbookPutAsked DEF RunbookEnds, Answered, OptIInv
<1>. QED BY <1>2, <1>3, <1>4 DEF OptIInv, StatusAsked, CallsAsked, RunbooksAsked, Asked, RunbookAsked

-----------------------------------------------------------------------------
\* The backend stores what a call asks: only "apply" stores "applied".
LEMMA StoredAsked ==
  ASSUME OptIInv, NEW s \in OptSlots, optCalls[s] # None,
         optCalls[s].op \in {"apply", "dismiss", "restore"}, executed' = executed,
         optStatus' \in {optStatus, [optStatus EXCEPT ![optCalls[s].opt] = StatusAfter(optCalls[s].op)]}
  PROVE  StatusAsked'
<1>1. StatusAfter(optCalls[s].op) \in OptStatus
      /\ (StatusAfter(optCalls[s].op) = "applied" => optCalls[s].op = "apply")
  BY DEF StatusAfter, OptStatus
<1>2. optCalls[s].op = "apply" => optCalls[s].opt \in executed
  BY DEF OptIInv, CallsAsked, Asked
<1>. QED BY <1>1, <1>2 DEF OptIInv, StatusAsked

LEMMA StatusAnswersKeep ==
  ASSUME OptIInv, NEW s \in OptSlots, StatusStored(s) \/ StatusRefused(s) \/ StatusLost(s)
  PROVE  OptIInv'
<1>1. OptRestOK' /\ UNCHANGED <<runbooks, executed>>
  BY DEF StatusStored, StatusRefused, StatusLost, OptIInv, OptRestOK
<1>2. StatusAsked'
  BY <1>1, StoredAsked DEF StatusStored, StatusRefused, StatusLost
<1>3. optCalls[s] # None => optCalls[s].then \in {"nothing", "close", "finish"}
  BY DEF OptIInv, CallsAsked, Asked, OptCall
<1>4. CallsAsked(optCalls')
  <2>1. PICK c : (c = None \/ Asked(c)) /\ optCalls' = [optCalls EXCEPT ![s] = c]
    <3>1. CASE optCalls' = Answered(optCalls, s)
      BY <3>1 DEF Answered
    <3>2. CASE optCalls[s] # None /\ optCalls' = [optCalls EXCEPT ![s] = FetchOptimizations(optCalls[s].then)]
      BY <1>3, <3>2, CallsMade
    <3>. QED BY <3>1, <3>2 DEF StatusStored, StatusRefused, StatusLost
  <2>. QED BY <2>1, PutAsked DEF OptIInv
<1>. QED BY <1>1, <1>2, <1>4 DEF OptIInv, CallsAsked, RunbooksAsked, Asked, RunbookAsked

LEMMA FetchAnswersKeep ==
  ASSUME OptIInv, NEW s \in OptSlots, SummaryFetched(s) \/ OptimizationsFetched(s) \/ FetchFails(s)
  PROVE  OptIInv'
<1>1. optStatus \in [Opts -> OptStatus]
  BY DEF OptIInv, StatusAsked
<1>2. OptRestOK' /\ UNCHANGED <<optStatus, runbooks, executed>>
  BY <1>1 DEF SummaryFetched, OptimizationsFetched, FetchFails, AfterFetch, OptIInv, OptRestOK
<1>3. CASE optCalls' = Answered(optCalls, s)
  BY <1>2, <1>3, PutAsked, OptCallStep DEF Answered, OptIInv
<1>4. CASE SummaryFetched(s)
  <2>. DEFINE c == [optCalls[s] EXCEPT !.op = "optimizations"]
  <2>1. Asked(c)
    BY <1>4, CallMovesOn DEF SummaryFetched, OptIInv, CallsAsked
  <2>2. optCalls' = [optCalls EXCEPT ![s] = c]
    BY <1>4 DEF SummaryFetched
  <2>. HIDE DEF c
  <2>3. CallsAsked(optCalls')
    BY <2>1, <2>2, PutAsked DEF OptIInv
  <2>. QED BY <1>2, <2>3, OptCallStep
<1>. QED BY <1>3, <1>4 DEF OptimizationsFetched, FetchFails

-----------------------------------------------------------------------------
\* The page is left: its calls and runbooks lose their page, not their plans.
LEMMA LeaveOptimizationsKeeps ==
  ASSUME OptIInv, LeaveOptimizations
  PROVE  OptIInv'
<1>1. OptRestOK' /\ UNCHANGED <<optStatus, executed>>
  BY DEF LeaveOptimizations, OptIInv, OptRestOK, OptStatus
<1>2. CallsAsked(optCalls')
  <2>. DEFINE kept(s) == [optCalls[s] EXCEPT !.live = FALSE]
  <2>1. \A s \in OptSlots : optCalls[s] # None /\ optCalls[s].opt # None => Asked(kept(s))
    BY CallMovesOn DEF OptIInv, CallsAsked
  <2>2. \A s \in OptSlots : \/ optCalls'[s] = None
                            \/ optCalls[s] # None /\ optCalls[s].opt # None /\ optCalls'[s] = kept(s)
    BY DEF LeaveOptimizations, Detached, Changing
  <2>3. optCalls' = [s \in OptSlots |-> optCalls'[s]]
    BY DEF LeaveOptimizations, Detached, Changing
  <2>. HIDE DEF kept, OptCall
  <2>4. \A s \in OptSlots : optCalls'[s] = None \/ Asked(optCalls'[s])
    BY <2>1, <2>2
  <2>5. optCalls' \in [OptSlots -> OptCall \cup {None}]
    BY <2>3, <2>4 DEF Asked
  <2>. QED BY <2>4, <2>5 DEF CallsAsked
<1>3. RunbooksAsked(runbooks')
  <2>. DEFINE kept(r) == [runbooks[r] EXCEPT !.live = FALSE]
  <2>1. \A r \in Runbooks : runbooks[r] # None => RunbookAsked(kept(r))
    BY RunbookMovesOn DEF OptIInv, RunbooksAsked
  <2>2. DOMAIN runbooks = Runbooks
    BY DEF OptIInv, RunbooksAsked
  <2>3. \A r \in Runbooks : runbooks'[r] = None \/ (runbooks[r] # None /\ runbooks'[r] = kept(r))
    BY <2>2 DEF LeaveOptimizations, Detached
  <2>4. runbooks' = [r \in Runbooks |-> runbooks'[r]]
    BY <2>2 DEF LeaveOptimizations, Detached
  <2>. HIDE DEF kept, Runbook
  <2>5. \A r \in Runbooks : runbooks'[r] = None \/ RunbookAsked(runbooks'[r])
    BY <2>1, <2>3
  <2>6. runbooks' \in [Runbooks -> Runbook \cup {None}]
    BY <2>4, <2>5 DEF RunbookAsked
  <2>. QED BY <2>5, <2>6 DEF RunbooksAsked
<1>. QED BY <1>1, <1>2, <1>3 DEF OptIInv, StatusAsked, CallsAsked, RunbooksAsked, Asked, RunbookAsked

\* The page is listed again, by its button or because it is opened.
LEMMA ListAgainKeeps ==
  ASSUME OptIInv, RefreshOptimizations \/ EnterOptimizations
  PROVE  OptIInv'
<1>1. OptRestOK' /\ UNCHANGED <<optStatus, runbooks, executed>>
  BY DEF RefreshOptimizations, EnterOptimizations, OptIInv, OptRestOK
<1>2. CallsAsked(optCalls')
  BY CallsMade, SendAsked DEF RefreshOptimizations, EnterOptimizations, OptIInv
<1>. QED BY <1>1, <1>2, OptCallStep

LEMMA OptInitIInv == OptInit => OptIInv
<1>. SUFFICES ASSUME OptInit PROVE OptIInv
  OBVIOUS
<1>1. OptRestOK /\ StatusAsked /\ RunbooksAsked(runbooks)
  BY DEF OptInit, OptRestOK, StatusAsked, RunbooksAsked, OptStatus
<1>2. CallsAsked([s \in OptSlots |-> None]) /\ Free([s \in OptSlots |-> None]) # {}
  BY OptAssumption DEF CallsAsked, Free
<1>3. CallsAsked(optCalls)
  BY <1>2, CallsMade, SendAsked DEF OptInit
<1>. QED BY <1>1, <1>3 DEF OptIInv

LEMMA OptNextIInv == OptIInv /\ [OptNext]_optVars => OptIInv'
<1>. SUFFICES ASSUME OptIInv, [OptNext]_optVars PROVE OptIInv'
  OBVIOUS
<1>1. CASE UNCHANGED optVars
  <2>1. OptRestOK' /\ UNCHANGED <<optStatus, optCalls, runbooks, executed>>
    BY <1>1 DEF optVars, OptIInv, OptRestOK
  <2>. QED BY <2>1, OptQuietStep
<1>2. CASE ShowTab \/ ViewPlan \/ ClosePlan
  BY <1>2, OptViewsKeep
<1>3. CASE DismissOpt \/ RestoreOpt
  BY <1>3, ChangeStatusKeeps DEF DismissOpt, RestoreOpt, OptRows
<1>4. CASE Execute
  BY <1>4, ExecuteKeeps
<1>5. ASSUME NEW r \in Runbooks, RunbookEnds(r) PROVE OptIInv'
  BY <1>5, RunbookEndsKeeps
<1>6. ASSUME NEW s \in OptSlots,
             \/ StatusStored(s) \/ StatusRefused(s) \/ StatusLost(s)
             \/ SummaryFetched(s) \/ OptimizationsFetched(s) \/ FetchFails(s)
      PROVE  OptIInv'
  BY <1>6, StatusAnswersKeep, FetchAnswersKeep
<1>7. CASE LeaveOptimizations
  BY <1>7, LeaveOptimizationsKeeps
<1>8. CASE RefreshOptimizations \/ EnterOptimizations
  BY <1>8, ListAgainKeeps
<1>. QED BY <1>1, <1>2, <1>3, <1>4, <1>5, <1>6, <1>7, <1>8 DEF OptNext

LEMMA OptInvariance == OptSpec => []OptIInv
BY OptInitIInv, OptNextIInv, PTL DEF OptSpec

\* The page's and the backend's state keeps its types.
THEOREM OptTypes == OptSpec => []OptTypeOK
BY OptInvariance, OptIInvImplies, PTL

\* startAutonomousExecution's timers apply the plan they closed over, and no
\* answer, dismissal or restoration stores "applied" for another.
THEOREM OptAsked == OptSpec => []NothingAppliedUnasked
BY OptInvariance, OptIInvImplies, PTL

-----------------------------------------------------------------------------
\* A call that is replaced by one that finishes nothing it did not finish
\* itself, by none, or by one of the backend's answers.
LEMMA CallReplaced ==
  ASSUME OptIInv, RunbookExclusive, NEW s \in OptSlots, NEW c,
         optCalls' = [optCalls EXCEPT ![s] = c], Finishing(c) => Finishing(optCalls[s]),
         runbooks' = runbooks,
         \/ isExecuting' = isExecuting
         \/ Finishing(optCalls[s]) /\ ~Finishing(c)
  PROVE  RunbookExclusive'
<1>1. \A t \in OptSlots : optCalls'[t] = IF t = s THEN c ELSE optCalls[t]
  BY DEF OptIInv, CallsAsked
<1>2. \A t \in OptSlots : Finishing(optCalls'[t]) => Finishing(optCalls[t])
  BY <1>1
<1>3. isExecuting' = isExecuting \/ \A t \in OptSlots : ~Finishing(optCalls'[t])
  BY <1>1 DEF RunbookExclusive
<1>4. isExecuting' = isExecuting \/ \A r \in Runbooks : ~Runs(runbooks[r])
  BY DEF RunbookExclusive
<1>. HIDE DEF Runs, Finishing
<1>. QED BY <1>2, <1>3, <1>4 DEF RunbookExclusive

\* A call is made that is no runbook's.
LEMMA CallMade ==
  ASSUME OptIInv, RunbookExclusive, NEW c, ~Finishing(c), Free(optCalls) # {},
         optCalls' = Send(optCalls, c), UNCHANGED <<runbooks, isExecuting>>
  PROVE  RunbookExclusive'
<1>1. PICK s \in OptSlots : optCalls' = [optCalls EXCEPT ![s] = c]
  BY SendFree DEF OptIInv, CallsAsked
<1>. QED BY <1>1, CallReplaced

LEMMA ExecuteExclusive ==
  ASSUME OptIInv, RunbookExclusive, Execute
  PROVE  RunbookExclusive'
<1>1. PICK r \in Runbooks : runbooks' = [runbooks EXCEPT ![r] = [opt |-> selectedOpt, live |-> TRUE]]
  BY SendFree DEF Execute, OptIInv, RunbooksAsked
<1>2. \A q \in Runbooks : q # r => runbooks'[q] = runbooks[q]
  BY <1>1 DEF OptIInv, RunbooksAsked
<1>3. /\ \A q \in Runbooks : ~Runs(runbooks[q])
      /\ \A s \in OptSlots : ~Finishing(optCalls[s])
  BY DEF Execute, RunbookExclusive
<1>4. optCalls' = optCalls /\ isExecuting'
  BY DEF Execute
<1>. HIDE DEF Runs, Finishing
<1>. QED BY <1>2, <1>3, <1>4 DEF RunbookExclusive

\* The runbook whose last timer fires is followed by its call.
LEMMA RunbookEndsExclusive ==
  ASSUME OptIInv, RunbookExclusive, NEW r \in Runbooks, RunbookEnds(r)
  PROVE  RunbookExclusive'
<1>. DEFINE c == [op |-> "apply", opt |-> RunbookTarget(r), then |-> "finish", live |-> runbooks[r].live]
<1>1. PICK s \in OptSlots : optCalls' = [optCalls EXCEPT ![s] = c]
  BY SendFree DEF RunbookEnds, OptIInv, CallsAsked
<1>2. Finishing(c) => Runs(runbooks[r])
  BY DEF RunbookEnds, Finishing, Runs
<1>. HIDE DEF c
<1>3. \A t \in OptSlots : optCalls'[t] = IF t = s THEN c ELSE optCalls[t]
  BY <1>1 DEF OptIInv, CallsAsked
<1>4. \A q \in Runbooks : Runs(runbooks'[q]) => Runs(runbooks[q]) /\ q # r
  BY DEF RunbookEnds, Answered, OptIInv, RunbooksAsked, Runs
<1>5. isExecuting' = isExecuting
  BY DEF RunbookEnds
<1>. HIDE DEF Runs, Finishing
<1>. QED BY <1>2, <1>3, <1>4, <1>5 DEF RunbookExclusive

LEMMA StatusAnswersExclusive ==
  ASSUME OptIInv, RunbookExclusive, NEW s \in OptSlots,
         StatusStored(s) \/ StatusRefused(s) \/ StatusLost(s)
  PROVE  RunbookExclusive'
<1>1. ~Finishing(None)
  BY DEF Finishing
<1>2. runbooks' = runbooks
  BY DEF StatusStored, StatusRefused, StatusLost
<1>3. CASE StatusStored(s) /\ optCalls[s].live
  <2>. DEFINE c == FetchOptimizations(optCalls[s].then)
  <2>1. Finishing(c) => Finishing(optCalls[s])
    BY <1>3 DEF StatusStored, Finishing, FetchOptimizations
  <2>2. optCalls' = [optCalls EXCEPT ![s] = c] /\ isExecuting' = isExecuting
    BY <1>3 DEF StatusStored
  <2>. HIDE DEF c
  <2>. QED BY <1>2, <2>1, <2>2, CallReplaced
<1>4. CASE (StatusStored(s) /\ ~optCalls[s].live) \/ StatusLost(s)
  <2>1. optCalls' = [optCalls EXCEPT ![s] = None] /\ isExecuting' = isExecuting
    BY <1>4 DEF StatusStored, StatusLost, Answered
  <2>. QED BY <1>1, <1>2, <2>1, CallReplaced
<1>5. CASE StatusRefused(s)
  <2>1. optCalls' = [optCalls EXCEPT ![s] = None]
    BY <1>5 DEF StatusRefused, Answered
  <2>2. isExecuting \in BOOLEAN
    BY DEF OptIInv, OptRestOK
  <2>3. isExecuting' = isExecuting \/ Finishing(optCalls[s])
    BY <1>5, <2>2 DEF StatusRefused, Finishing
  <2>. QED BY <1>1, <1>2, <2>1, <2>3, CallReplaced
<1>. QED BY <1>3, <1>4, <1>5

LEMMA FetchAnswersExclusive ==
  ASSUME OptIInv, RunbookExclusive, NEW s \in OptSlots,
         SummaryFetched(s) \/ OptimizationsFetched(s) \/ FetchFails(s)
  PROVE  RunbookExclusive'
<1>1. ~Finishing(None) /\ optCalls[s].live
  BY DEF Finishing, SummaryFetched, OptimizationsFetched, FetchFails, OptIInv, CallsAsked, Asked
<1>2. runbooks' = runbooks
  BY DEF SummaryFetched, OptimizationsFetched, FetchFails
<1>3. CASE SummaryFetched(s)
  <2>. DEFINE c == [optCalls[s] EXCEPT !.op = "optimizations"]
  <2>1. Asked(optCalls[s])
    BY <1>3 DEF SummaryFetched, OptIInv, CallsAsked
  <2>2. c.live = optCalls[s].live /\ c.then = optCalls[s].then
    BY <2>1 DEF Asked, OptCall
  <2>3. Finishing(c) => Finishing(optCalls[s])
    BY <1>3, <2>2 DEF SummaryFetched, Finishing
  <2>4. optCalls' = [optCalls EXCEPT ![s] = c] /\ isExecuting' = isExecuting
    BY <1>3 DEF SummaryFetched
  <2>. HIDE DEF c
  <2>. QED BY <1>2, <2>3, <2>4, CallReplaced
<1>4. CASE OptimizationsFetched(s) \/ FetchFails(s)
  <2>1. optCalls' = [optCalls EXCEPT ![s] = None]
    BY <1>4 DEF OptimizationsFetched, FetchFails, Answered
  <2>2. isExecuting \in BOOLEAN
    BY DEF OptIInv, OptRestOK
  <2>3. isExecuting' = isExecuting \/ Finishing(optCalls[s])
    BY <1>1, <1>4, <2>2 DEF OptimizationsFetched, FetchFails, AfterFetch, Finishing
  <2>. QED BY <1>1, <1>2, <2>1, <2>3, CallReplaced
<1>. QED BY <1>3, <1>4

LEMMA LeaveOptimizationsExclusive ==
  ASSUME OptIInv, RunbookExclusive, LeaveOptimizations
  PROVE  RunbookExclusive'
<1>1. DOMAIN runbooks = Runbooks /\ DOMAIN optCalls = OptSlots
  BY DEF OptIInv, RunbooksAsked, CallsAsked
<1>2. \A r \in Runbooks : ~Runs(runbooks'[r])
  <2>. SUFFICES ASSUME NEW r \in Runbooks, runbooks[r] # None
                PROVE  ~Runs([runbooks[r] EXCEPT !.live = FALSE])
    BY <1>1 DEF LeaveOptimizations, Detached, Runs
  <2>. QED BY DEF OptIInv, RunbooksAsked, RunbookAsked, Runbook, Runs
<1>3. \A s \in OptSlots : ~Finishing(optCalls'[s])
  <2>. SUFFICES ASSUME NEW s \in OptSlots, optCalls[s] # None
                PROVE  ~Finishing([optCalls[s] EXCEPT !.live = FALSE])
    BY <1>1 DEF LeaveOptimizations, Detached, Changing, Finishing
  <2>. QED BY DEF OptIInv, CallsAsked, Asked, OptCall, Finishing
<1>. HIDE DEF Runs, Finishing
<1>. QED BY <1>2, <1>3 DEF RunbookExclusive

LEMMA OptInitExclusive == OptInit => RunbookExclusive
<1>. SUFFICES ASSUME OptInit PROVE RunbookExclusive
  OBVIOUS
<1>1. \A r \in Runbooks : ~Runs(runbooks[r])
  BY DEF OptInit, Runs
<1>. DEFINE none == [s \in OptSlots |-> None]
<1>2. Free(none) # {} /\ DOMAIN none = OptSlots
  BY OptAssumption DEF Free
<1>3. PICK s \in OptSlots : optCalls = [none EXCEPT ![s] = FetchOptimizations("nothing")]
  BY <1>2, SendFree DEF OptInit
<1>4. \A t \in OptSlots : ~Finishing(optCalls[t])
  BY <1>3 DEF Finishing, FetchOptimizations
<1>. HIDE DEF Runs, Finishing
<1>. QED BY <1>1, <1>4 DEF RunbookExclusive

LEMMA OptNextExclusive == OptIInv /\ RunbookExclusive /\ [OptNext]_optVars => RunbookExclusive'
<1>. SUFFICES ASSUME OptIInv, RunbookExclusive, [OptNext]_optVars PROVE RunbookExclusive'
  OBVIOUS
<1>1. CASE UNCHANGED <<runbooks, optCalls, isExecuting>>
  BY <1>1 DEF RunbookExclusive, Runs, Finishing
<1>2. CASE ShowTab \/ ViewPlan \/ UNCHANGED optVars
  BY <1>1, <1>2 DEF ShowTab, ViewPlan, optVars
<1>3. CASE ClosePlan
  BY <1>1, <1>3 DEF ClosePlan
<1>4. CASE DismissOpt \/ RestoreOpt
  <2>1. PICK o, op : ChangeStatus(o, op)
    BY <1>4 DEF DismissOpt, RestoreOpt
  <2>2. ~Finishing([op |-> op, opt |-> o, then |-> "close", live |-> TRUE])
    BY DEF Finishing
  <2>. QED BY <2>1, <2>2, CallMade DEF ChangeStatus
<1>5. CASE RefreshOptimizations \/ EnterOptimizations
  <2>1. ~Finishing(FetchOptimizations("nothing"))
    BY DEF Finishing, FetchOptimizations
  <2>. QED BY <1>5, <2>1, CallMade DEF RefreshOptimizations, EnterOptimizations
<1>6. CASE Execute
  BY <1>6, ExecuteExclusive
<1>7. ASSUME NEW r \in Runbooks, RunbookEnds(r) PROVE RunbookExclusive'
  BY <1>7, RunbookEndsExclusive
<1>8. ASSUME NEW s \in OptSlots,
             \/ StatusStored(s) \/ StatusRefused(s) \/ StatusLost(s)
             \/ SummaryFetched(s) \/ OptimizationsFetched(s) \/ FetchFails(s)
      PROVE  RunbookExclusive'
  BY <1>8, StatusAnswersExclusive, FetchAnswersExclusive
<1>9. CASE LeaveOptimizations
  BY <1>9, LeaveOptimizationsExclusive
<1>. QED BY <1>2, <1>3, <1>4, <1>5, <1>6, <1>7, <1>8, <1>9 DEF OptNext

\* The last timer's call waits for the backend, the call for the listing, with
\* the buttons disabled: whatever closes the panel, no second runbook starts.
THEOREM OptExclusive == OptSpec => []RunbookExclusive
BY OptInitExclusive, OptInvariance, OptNextExclusive, PTL DEF OptSpec

-----------------------------------------------------------------------------
(* The orphaned resources                                                  *)

\* The page left waits for nothing: what it had asked for is dropped.
OrphansDropped ==
  orphanAt = "left" =>
    console = None /\ ~playing /\ orphanLoading /\ \A s \in OrphanSlots : orphanCalls[s] = None

OrphanIInv == OrphanTypeOK /\ OrphanReleases /\ OrphansDropped

LEMMA OrphanCallMade ==
  ASSUME NEW op \in {"list", "delete", "remediate"}, NEW o \in Orphans \cup {None}
  PROVE  LET c == [op |-> op, resource |-> o] IN c \in OrphanCall /\ c # None /\ c.op = op
<1>1. [op |-> op, resource |-> o] \in OrphanCall
  BY DEF OrphanCall
<1>. QED BY <1>1, OrphanedAssumption

\* A call sent with no other change but to what it is waited for.
LEMMA OrphanSends ==
  ASSUME OrphanTypeOK, OrphanReleases, NEW c \in OrphanCall, Free(orphanCalls) # {},
         orphanCalls' = Send(orphanCalls, c), players' = players,
         playing' => playing \/ c.op = "remediate",
         orphanLoading' /\ orphanAt' = "shown" => (orphanLoading /\ orphanAt = "shown") \/ c.op = "list"
  PROVE  orphanCalls' \in [OrphanSlots -> OrphanCall \cup {None}] /\ OrphanReleases'
<1>. HIDE DEF OrphanCall
<1>1. c # None
  BY OrphanedAssumption
<1>2. orphanCalls' \in [OrphanSlots -> OrphanCall \cup {None}]
  BY SendType DEF OrphanTypeOK
<1>3. /\ \A s \in Waiting(orphanCalls) : s \in Waiting(orphanCalls') /\ orphanCalls'[s] = orphanCalls[s]
      /\ \E s \in Waiting(orphanCalls') : orphanCalls'[s] = c
  BY <1>1, SendWaiting
<1>. QED BY <1>2, <1>3 DEF OrphanReleases

\* An answer, which leaves nothing in its slot or a list asked for.
LEMMA OrphanAnswers ==
  ASSUME OrphanTypeOK, OrphanReleases, NEW s \in OrphanSlots, NEW c \in OrphanCall \cup {None},
         orphanCalls[s] # None,
         orphanCalls' = [orphanCalls EXCEPT ![s] = c], UNCHANGED orphanAt,
         orphanCalls[s].op = "remediate" /\ playing' => Waiting(players') # {},
         playing' => playing,
         Waiting(players) # {} /\ playing' => Waiting(players') # {},
         orphanCalls[s].op = "list" => ~orphanLoading',
         orphanLoading' => orphanLoading \/ (c # None /\ c.op = "list")
  PROVE  orphanCalls' \in [OrphanSlots -> OrphanCall \cup {None}] /\ OrphanReleases'
<1>. HIDE DEF OrphanCall
<1>1. /\ orphanCalls' \in [OrphanSlots -> OrphanCall \cup {None}] /\ orphanCalls'[s] = c
      /\ \A t \in OrphanSlots \ {s} : orphanCalls'[t] = orphanCalls[t]
  BY DEF OrphanTypeOK
<1>2. /\ \A t \in Waiting(orphanCalls) \ {s} : t \in Waiting(orphanCalls') /\ orphanCalls'[t] = orphanCalls[t]
      /\ c # None => s \in Waiting(orphanCalls')
  BY <1>1 DEF Waiting, OrphanTypeOK
<1>3. playing' => \/ \E t \in Waiting(orphanCalls') : orphanCalls'[t].op = "remediate"
                  \/ Waiting(players') # {}
  BY <1>2 DEF OrphanReleases
<1>4. orphanLoading' /\ orphanAt' = "shown" => \E t \in Waiting(orphanCalls') : orphanCalls'[t].op = "list"
  BY <1>1, <1>2 DEF OrphanReleases
<1>. QED BY <1>1, <1>3, <1>4 DEF OrphanReleases

LEMMA OrphanConsoleStep ==
  ASSUME OrphanIInv, SwitchSafe \/ CloseConsole \/ UNCHANGED orphanVars
  PROVE  OrphanIInv'
<1>1. UNCHANGED <<orphans, orphanLoading, orphanAdmin, progress, playing, players, orphanAt, orphanCalls>>
      /\ console' \in {console, None} /\ safeMode' \in BOOLEAN /\ storedSafe' \in BOOLEAN
  BY DEF OrphanIInv, OrphanTypeOK, SwitchSafe, CloseConsole, consoleVars, orphanVars
<1>2. OrphanTypeOK'
  BY <1>1 DEF OrphanIInv, OrphanTypeOK
<1>3. OrphanReleases' /\ OrphansDropped'
  BY <1>1 DEF OrphanIInv, OrphanReleases, OrphansDropped
<1>. QED BY <1>2, <1>3 DEF OrphanIInv

LEMMA OrphanSendersStep ==
  ASSUME OrphanIInv, DeleteOrphan \/ Remediate \/ CloseRefresh \/ EnterOrphans
  PROVE  OrphanIInv'
<1>. HIDE DEF OrphanCall
<1>0. OrphanTypeOK /\ OrphanReleases /\ OrphansDropped
  BY DEF OrphanIInv
<1>1. CASE DeleteOrphan
  <2>1. PICK o \in OrphanRows : orphanCalls' = Send(orphanCalls, [op |-> "delete", resource |-> o])
    BY <1>1 DEF DeleteOrphan
  <2>2. o \in Orphans /\ orphanAt = "shown"
    BY <1>0 DEF OrphanRows, OrphanTypeOK
  <2>3. orphanCalls' \in [OrphanSlots -> OrphanCall \cup {None}] /\ OrphanReleases'
    BY <1>0, <1>1, <2>1, <2>2, OrphanCallMade, OrphanSends DEF DeleteOrphan, consoleVars
  <2>. QED BY <1>0, <1>1, <2>2, <2>3 DEF DeleteOrphan, consoleVars, OrphanIInv, OrphanTypeOK, OrphansDropped
<1>2. CASE Remediate
  <2>1. PICK o \in OrphanRows : console' = o /\ orphanCalls' = Send(orphanCalls, [op |-> "remediate", resource |-> o])
    BY <1>2 DEF Remediate
  <2>2. o \in Orphans /\ orphanAt = "shown"
    BY <1>0 DEF OrphanRows, OrphanTypeOK
  <2>. DEFINE c == [op |-> "remediate", resource |-> o]
  <2>4. c \in OrphanCall /\ c # None /\ c.op = "remediate"
    BY <2>2, OrphanCallMade
  <2>. HIDE DEF c
  <2>3. orphanCalls' \in [OrphanSlots -> OrphanCall \cup {None}] /\ OrphanReleases'
    BY <1>0, <1>2, <2>1, <2>2, <2>4, OrphanSends DEF Remediate, c
  <2>. QED BY <1>0, <1>2, <2>1, <2>2, <2>3 DEF Remediate, OrphanIInv, OrphanTypeOK, OrphansDropped
<1>3. ListOrphans \in OrphanCall /\ ListOrphans # None /\ ListOrphans.op = "list"
  BY OrphanCallMade DEF ListOrphans
<1>4. CASE CloseRefresh
  <2>1. orphanCalls' \in [OrphanSlots -> OrphanCall \cup {None}] /\ OrphanReleases'
    BY <1>0, <1>3, <1>4, OrphanSends DEF CloseRefresh
  <2>. QED BY <1>0, <1>4, <2>1 DEF CloseRefresh, OrphanIInv, OrphanTypeOK, OrphansDropped
<1>5. CASE EnterOrphans
  <2>1. Free(orphanCalls) # {}
    BY <1>0, <1>5, OrphanedAssumption DEF EnterOrphans, OrphansDropped, Free, OrphanTypeOK
  <2>2. orphanCalls' \in [OrphanSlots -> OrphanCall \cup {None}] /\ OrphanReleases'
    BY <1>0, <1>3, <1>5, <2>1, OrphanSends DEF EnterOrphans, consoleVars
  <2>. QED BY <1>0, <1>5, <2>2 DEF EnterOrphans, consoleVars, OrphanIInv, OrphanTypeOK, OrphansDropped
<1>. QED BY <1>1, <1>2, <1>4, <1>5

LEMMA OrphanAnswersStep ==
  ASSUME OrphanIInv, NEW s \in OrphanSlots,
         RemediateServed(s) \/ RemediateFails(s) \/ DeleteServed(s) \/ OrphansListed(s)
  PROVE  OrphanIInv'
<1>. HIDE DEF OrphanCall
<1>0. OrphanTypeOK /\ OrphanReleases /\ OrphansDropped
  BY DEF OrphanIInv
<1>1. orphanAt # "left" /\ orphanCalls[s] # None
  BY <1>0 DEF OrphansDropped, RemediateServed, RemediateFails, DeleteServed, OrphansListed
<1>2. CASE RemediateServed(s)
  <2>1. LogLines \in 0..LogLines /\ LogLines # None
    BY OrphanedAssumption
  <2>2. players' \in [OrphanSlots -> (0..LogLines) \cup {None}] /\ Waiting(players') # {}
    <3>1. players' \in [OrphanSlots -> (0..LogLines) \cup {None}]
      BY <1>0, <1>2, <2>1, SendType DEF RemediateServed, OrphanTypeOK
    <3>. QED BY <1>2, <2>1, <3>1, SendWaiting DEF RemediateServed
  <2>3. orphanCalls' \in [OrphanSlots -> OrphanCall \cup {None}] /\ OrphanReleases'
    BY <1>0, <1>1, <1>2, <2>2, OrphanAnswers DEF RemediateServed, Answered
  <2>. QED BY <1>0, <1>1, <1>2, <2>2, <2>3 DEF RemediateServed, OrphanIInv, OrphanTypeOK, OrphansDropped
<1>3. CASE RemediateFails(s)
  <2>1. orphanCalls' \in [OrphanSlots -> OrphanCall \cup {None}] /\ OrphanReleases'
    BY <1>0, <1>1, <1>3, OrphanAnswers DEF RemediateFails, Answered
  <2>2. progress' \in 0..2 /\ playing' = FALSE
    BY <1>3 DEF RemediateFails
  <2>3. OrphanTypeOK'
    BY <1>0, <1>3, <2>1, <2>2 DEF RemediateFails, OrphanTypeOK
  <2>. QED BY <1>1, <1>3, <2>1, <2>3 DEF RemediateFails, OrphanIInv, OrphansDropped
<1>4. CASE DeleteServed(s)
  <2>1. ListOrphans \in OrphanCall /\ ListOrphans # None /\ ListOrphans.op = "list"
    BY OrphanCallMade DEF ListOrphans
  <2>2. orphanCalls' \in [OrphanSlots -> OrphanCall \cup {None}] /\ OrphanReleases'
    BY <1>0, <1>1, <1>4, <2>1, OrphanAnswers DEF DeleteServed, Answered, consoleVars
  <2>. QED BY <1>0, <1>1, <1>4, <2>2 DEF DeleteServed, consoleVars, OrphanIInv, OrphanTypeOK, OrphansDropped
<1>5. CASE OrphansListed(s)
  <2>1. orphanCalls' \in [OrphanSlots -> OrphanCall \cup {None}] /\ OrphanReleases'
    BY <1>0, <1>1, <1>5, OrphanAnswers DEF OrphansListed, Answered, consoleVars
  <2>. QED BY <1>0, <1>1, <1>5, <2>1 DEF OrphansListed, consoleVars, OrphanIInv, OrphanTypeOK, OrphansDropped
<1>. QED BY <1>2, <1>3, <1>4, <1>5

\* A line of a log is shown, or the timer ends with the console unlocked.
LEMMA TickStep ==
  ASSUME OrphanIInv, NEW p \in OrphanSlots, Tick(p)
  PROVE  OrphanIInv'
<1>. HIDE DEF OrphanCall
<1>0. OrphanTypeOK /\ OrphanReleases /\ OrphansDropped
  BY DEF OrphanIInv
<1>1. players[p] \in 0..LogLines /\ players[p] # None /\ LogLines \in Nat
  BY <1>0, OrphanedAssumption DEF Tick, OrphanTypeOK
<1>2. CASE players[p] > 0
  <2>1. players' = [players EXCEPT ![p] = players[p] - 1] /\ progress' \in 0..2 /\ playing' = playing
    BY <1>2 DEF Tick
  <2>2. players[p] - 1 \in 0..LogLines /\ players[p] - 1 # None
    BY <1>1, <1>2, OrphanedAssumption
  <2>3. players' \in [OrphanSlots -> (0..LogLines) \cup {None}] /\ Waiting(players') # {}
    BY <1>0, <2>1, <2>2 DEF OrphanTypeOK, Waiting
  <2>. QED BY <1>0, <2>1, <2>3 DEF Tick, OrphanIInv, OrphanTypeOK, OrphanReleases, OrphansDropped
<1>3. CASE ~(players[p] > 0)
  <2>1. players' = [players EXCEPT ![p] = None] /\ progress' = progress /\ playing' = FALSE
    BY <1>3 DEF Tick, Answered
  <2>2. players' \in [OrphanSlots -> (0..LogLines) \cup {None}]
    BY <1>0, <2>1 DEF OrphanTypeOK
  <2>. QED BY <1>0, <2>1, <2>2 DEF Tick, OrphanIInv, OrphanTypeOK, OrphanReleases, OrphansDropped
<1>. QED BY <1>2, <1>3

LEMMA LeaveOrphansStep == ASSUME OrphanIInv, LeaveOrphans PROVE OrphanIInv'
<1>. HIDE DEF OrphanCall
<1>1. /\ players' \in [OrphanSlots -> (0..LogLines) \cup {None}] /\ progress' \in 0..2
      /\ orphanCalls' \in [OrphanSlots -> OrphanCall \cup {None}]
      /\ \A s \in OrphanSlots : orphanCalls'[s] = None
  BY DEF LeaveOrphans
<1>. QED BY <1>1 DEF OrphanIInv, LeaveOrphans, OrphanTypeOK, OrphanReleases, OrphansDropped

LEMMA OrphanInitIInv == OrphanInit => OrphanIInv
<1>. SUFFICES ASSUME OrphanInit PROVE OrphanIInv
  OBVIOUS
<1>. DEFINE none == [s \in OrphanSlots |-> None]
<1>1. Free(none) # {} /\ none \in [OrphanSlots -> OrphanCall \cup {None}]
  BY OrphanedAssumption DEF Free
<1>2. ListOrphans \in OrphanCall /\ ListOrphans # None /\ ListOrphans.op = "list"
  BY OrphanCallMade DEF ListOrphans
<1>. HIDE DEF none, OrphanCall
<1>3. orphanCalls = Send(none, ListOrphans)
  BY DEF OrphanInit, none
<1>4. orphanCalls \in [OrphanSlots -> OrphanCall \cup {None}]
  BY <1>1, <1>2, <1>3, SendType
<1>5. \E s \in Waiting(orphanCalls) : orphanCalls[s].op = "list"
  BY <1>1, <1>2, <1>3, SendWaiting
<1>6. players \in [OrphanSlots -> (0..LogLines) \cup {None}] /\ progress \in 0..2
  BY DEF OrphanInit
<1>. QED BY <1>4, <1>5, <1>6 DEF OrphanInit, OrphanIInv, OrphanTypeOK, OrphanReleases, OrphansDropped

LEMMA OrphanNextIInv == OrphanIInv /\ [OrphanNext]_orphanVars => OrphanIInv'
BY OrphanConsoleStep, OrphanSendersStep, OrphanAnswersStep, TickStep, LeaveOrphansStep DEF OrphanNext

LEMMA OrphanInvariance == OrphanSpec => []OrphanIInv
BY OrphanInitIInv, OrphanNextIInv, PTL DEF OrphanSpec

\* The page's state keeps its types, whichever log plays into whichever console.
THEOREM OrphanTypes == OrphanSpec => []OrphanTypeOK
BY OrphanInvariance, PTL DEF OrphanIInv

\* handleRemediate's console and the list: each is released by an answer or a
\* timer that is still to come.
THEOREM OrphanReleased == OrphanSpec => []OrphanReleases
BY OrphanInvariance, PTL DEF OrphanIInv

-----------------------------------------------------------------------------
(* The drifts                                                              *)

DriftIInv == DriftTypeOK /\ DriftReleases

LEMMA DriftMounted ==
  LET calls == Send([s \in DriftSlots |-> None], "list") IN
  calls \in [DriftSlots -> DriftCall \cup {None}] /\ \E s \in DriftSlots : calls[s] = "list"
<1>. DEFINE none == [s \in DriftSlots |-> None]
<1>1. Free(none) # {} /\ none \in [DriftSlots -> DriftCall \cup {None}]
  BY DriftAssumption DEF Free
<1>2. PICK s \in DriftSlots : Send(none, "list") = [none EXCEPT ![s] = "list"]
  BY <1>1, SendFree
<1>. QED BY <1>1, <1>2 DEF DriftCall

\* One slot gets a call that was free, or one whose flag is cleared or handed on.
LEMMA DriftPut ==
  ASSUME DriftIInv, NEW s \in DriftSlots, NEW c \in DriftCall \cup {None},
         driftCalls' = [driftCalls EXCEPT ![s] = c],
         scanning' => c = "scan" \/ (scanning /\ driftCalls[s] # "scan"),
         driftLoading' => c = "list" \/ (driftLoading /\ driftCalls[s] # "list")
  PROVE  driftCalls' \in [DriftSlots -> DriftCall \cup {None}] /\ DriftReleases'
<1>1. /\ driftCalls' \in [DriftSlots -> DriftCall \cup {None}]
      /\ driftCalls'[s] = c /\ \A t \in DriftSlots \ {s} : driftCalls'[t] = driftCalls[t]
  BY DEF DriftIInv, DriftTypeOK
<1>. QED BY <1>1 DEF DriftIInv, DriftReleases

LEMMA DriftNextIInv == DriftIInv /\ [DriftNext]_driftVars => DriftIInv'
<1>. SUFFICES ASSUME DriftIInv, [DriftNext]_driftVars PROVE DriftIInv'
  OBVIOUS
<1>. USE DEF DriftIInv, DriftTypeOK
<1>1. CASE DriftsReported \/ UNCHANGED driftVars
  BY <1>1 DEF DriftsReported, driftVars, DriftReleases
<1>2. CASE SimulateScan \/ ResolveDrift
  <2>1. PICK c \in {"scan", "resolve"} : driftCalls' = Send(driftCalls, c) /\ scanning' = (scanning \/ c = "scan")
    BY <1>2 DEF SimulateScan, ResolveDrift
  <2>2. PICK s \in DriftSlots : driftCalls[s] = None /\ driftCalls' = [driftCalls EXCEPT ![s] = c]
    BY <1>2, <2>1, SendFree DEF SimulateScan, ResolveDrift
  <2>4. driftCalls[s] \notin {"scan", "list"} /\ c \in DriftCall \cup {None} /\ driftLoading' = driftLoading
    BY <1>2, <2>1, <2>2, DriftAssumption DEF SimulateScan, ResolveDrift, DriftCall
  <2>3. driftCalls' \in [DriftSlots -> DriftCall \cup {None}] /\ DriftReleases'
    <3>. HIDE DEF DriftTypeOK
    <3>. QED BY <2>1, <2>2, <2>4, DriftPut
  <2>. QED BY <1>2, <2>3 DEF SimulateScan, ResolveDrift
<1>3. ASSUME NEW s \in DriftSlots, ScanEnds(s) PROVE DriftIInv'
  <2>1. driftCalls' \in [DriftSlots -> DriftCall \cup {None}] /\ DriftReleases'
    BY <1>3, DriftPut DEF ScanEnds, ScanDone, DriftCall
  <2>. QED BY <1>3, <2>1 DEF ScanEnds, ScanDone
<1>4. ASSUME NEW s \in DriftSlots, ResolveRefused(s) \/ DriftsListed(s) \/ ListingFails(s) PROVE DriftIInv'
  <2>1. driftCalls' = [driftCalls EXCEPT ![s] = None] /\ scanning' = scanning
        /\ driftCalls[s] \in {"resolve", "list"}
        /\ driftLoading' = (driftLoading /\ driftCalls[s] # "list")
    BY <1>4 DEF ResolveRefused, DriftsListed, ListingFails, Answered
  <2>2. driftCalls' \in [DriftSlots -> DriftCall \cup {None}] /\ DriftReleases'
    BY <2>1, DriftPut
  <2>. QED BY <1>4, <2>2 DEF ResolveRefused, DriftsListed, ListingFails
<1>5. CASE RemountDrifts
  BY <1>5, DriftMounted DEF RemountDrifts, DriftReleases
<1>. QED BY <1>1, <1>2, <1>3, <1>4, <1>5 DEF DriftNext

LEMMA DriftInitIInv == DriftInit => DriftIInv
BY DriftMounted DEF DriftInit, DriftIInv, DriftTypeOK, DriftReleases

LEMMA DriftInvariance == DriftSpec => []DriftIInv
BY DriftInitIInv, DriftNextIInv, PTL DEF DriftSpec

\* The page's and the backend's drifts keep their types.
THEOREM DriftTypes == DriftSpec => []DriftTypeOK
BY DriftInvariance, PTL DEF DriftIInv

\* simulateScan's button and the list come back, however scans, resolutions and
\* lists overlap.
THEOREM DriftReleased == DriftSpec => []DriftReleases
BY DriftInvariance, PTL DEF DriftIInv
=============================================================================
