----------------------------- MODULE PagesProofs -----------------------------
(***************************************************************************)
(* The pages together: whatever is in focus, a behaviour of all of them is *)
(* one of each, so that what a page's own specification promises, for any  *)
(* lists, catalogs and numbers of requests, holds of all at once.          *)
(***************************************************************************)
EXTENDS Pages, ActionPagesProofs, FormPagesProofs, ShellProofs

\* A step is one page's, or none's: every page takes one of its own or stays.
LEMMA PagesStep ==
  [PagesNext]_pagesVars =>
    /\ focus' = focus
    /\ [WizardNext]_wizardVars /\ [OptNext]_optVars /\ [OrphanNext]_orphanVars
    /\ [QueryNext]_queryVars /\ [PolicyNext]_policyVars /\ [SettingsNext]_settingsVars
    /\ [CopilotNext]_copilotVars /\ [FeaturesNext]_featureVars /\ [ExplorerNext]_explorerVars
    /\ [DriftNext]_driftVars /\ [DashNext]_dashVars /\ [AnomalyNext]_anomalyVars
    /\ [OverlaysNext]_overlayVars /\ [TopbarNext]_topbarVars /\ [SessionNext]_sessionVars
BY DEF PagesNext, pagesVars

LEMMA PagesStart ==
  PagesInit =>
    /\ focus \in Focus
    /\ WizardInit /\ OptInit /\ OrphanInit /\ QueryInit /\ PolicyInit /\ SettingsInit
    /\ CopilotInit /\ FeaturesInit /\ ExplorerInit /\ DriftInit /\ DashInit /\ AnomalyInit
    /\ OverlaysInit /\ TopbarInit /\ SessionInit
BY DEF PagesInit

\* Every page by itself is what all of them together show of it.
THEOREM PagesImplementEach ==
  PagesSpec =>
    /\ WizardSpec /\ OptSpec /\ OrphanSpec /\ QuerySpec /\ PolicySpec /\ SettingsSpec
    /\ CopilotSpec /\ FeaturesSpec /\ ExplorerSpec /\ DriftSpec /\ DashSpec /\ AnomalySpec
    /\ OverlaysSpec /\ TopbarSpec /\ SessionSpec
BY PagesStep, PagesStart, PTL
   DEF PagesSpec, WizardSpec, OptSpec, OrphanSpec, QuerySpec, PolicySpec, SettingsSpec,
       CopilotSpec, FeaturesSpec, ExplorerSpec, DriftSpec, DashSpec, AnomalySpec,
       OverlaysSpec, TopbarSpec, SessionSpec

\* Every page's state keeps its types.
THEOREM PagesTypes == PagesSpec => []PagesTypeOK
<1>1. focus \in Focus /\ [PagesNext]_pagesVars => (focus \in Focus)'
  BY PagesStep
<1>2. PagesSpec => [](focus \in Focus)
  BY <1>1, PagesStart, PTL DEF PagesSpec
<1>3. /\ focus \in Focus /\ WizardTypeOK /\ OptTypeOK /\ OrphanTypeOK /\ QueryTypeOK /\ PolicyTypeOK
      /\ SettingsTypeOK /\ CopilotTypeOK /\ FeaturesTypeOK /\ ExplorerTypeOK /\ DriftTypeOK
      /\ DashTypeOK /\ AnomalyTypeOK /\ OverlaysTypeOK /\ TopbarTypeOK /\ SessionTypeOK
      => PagesTypeOK
  BY DEF PagesTypeOK
<1>. QED
  BY <1>2, <1>3, PagesImplementEach, WizardTypes, OptTypes, OrphanTypes, QueryTypes, PolicyTypes,
     SettingsTypes, CopilotTypes, FeaturesTypes, ExplorerTypes, DriftTypes, DashTypes,
     AnomalyTypes, OverlaysTypes, TopbarTypes, SessionTypes, PTL

\* What the pages disable or cover while they wait they give back: every flag of
\* theirs has a request or a timer under way that will clear it.
THEOREM PagesSpinners == PagesSpec => []SpinnersExplained
<1>1. TopbarSpec => []TopbarReleases
  BY TopbarInvariance, PTL DEF TopbarIInv
<1>2. QuerySpec => []QueryReleases
  BY QueryInvariance, PTL DEF QueryIInv
<1>. QED
  BY <1>1, <1>2, PagesImplementEach, WizardReleased, OrphanReleased, SettingsReleased,
     FeaturesReleased, ExplorerReleased, DriftReleased, RefreshReleased, AnomalyReleased,
     SessionReleased, PTL
     DEF SpinnersExplained

\* What each page promises of its own holds of the pages together: what is
\* edited, saved, applied, sent, shown, selected and signed in.
THEOREM PagesPromises ==
  PagesSpec =>
    [](/\ EditorConsistent /\ SavedFormValid /\ NothingAppliedUnasked /\ RunbookExclusive
       /\ QueryCompiles /\ PolicyShownIsStored /\ RuleFormConsistent /\ OneSubmission
       /\ CopilotConversation /\ FeaturesMatchServer /\ RowsMatchFilters /\ IndicatorExplained
       /\ StatsMatchList /\ PaletteSelects /\ SelectedScopeCurrent /\ SessionOneOwner)
BY PagesImplementEach, WizardEditor, WizardSavesValid, OptAsked, OptExclusive, QueriesCompile,
   PolicyShown, RuleForms, SubmitsAlone, CopilotTakesTurns, FeaturesMatch, RowsMatch,
   DashIndicator, StatsMatch, PaletteFinds, TopbarScope, SessionOwner, PTL
=============================================================================
