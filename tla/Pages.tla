-------------------------------- MODULE Pages --------------------------------
(***************************************************************************)
(* All pages of the browser in one model.  They share nothing but the      *)
(* events DashboardPage has in it, so that any one of them is as well run  *)
(* by itself: a behaviour keeps to the page in focus, and the others stay  *)
(* as they first are.                                                      *)
(***************************************************************************)
EXTENDS IntegrationWizard, OptimizationsPage, OrphanedPage, QueryStudio, PolicyTab,
        SettingsPage, CopilotPage, FeaturesPage, ExplorerPage, DriftPage, DashboardPage,
        AnomalyWidget, Overlays, Topbar, Session

VARIABLE focus

Focus == {"wizard", "optimizations", "orphaned", "query", "policy", "settings", "copilot",
          "features", "explorer", "drift", "dashboard", "anomalies", "overlays", "topbar",
          "session"}

pagesVars == <<focus, wizardVars, optVars, orphanVars, queryVars, policyVars, settingsVars,
               copilotVars, featureVars, explorerVars, driftVars, dashVars, anomalyVars,
               overlayVars, topbarVars, sessionVars>>

\* A page that is not in focus has one initial state.
Idle(p, state) == focus = p \/ state

PagesInit ==
  /\ focus \in Focus
  /\ WizardInit
  /\ OptInit      /\ Idle("optimizations", optAdmin /\ optStatus = [o \in Opts |-> "open"])
  /\ OrphanInit   /\ Idle("orphaned", orphanAdmin /\ storedSafe)
  /\ QueryInit
  /\ PolicyInit   /\ Idle("policy", policyAdmin /\ storedPolicy = platformSettings)
  /\ SettingsInit /\ Idle("settings", settingsAdmin)
  /\ CopilotInit
  /\ FeaturesInit /\ Idle("features", featureAdmin /\ featureFlags = CHOOSE f \in Listing : TRUE)
  /\ ExplorerInit /\ Idle("explorer", filters = CHOOSE f \in Unfiltered : TRUE)
  /\ DriftInit    /\ Idle("drift", driftAdmin /\ openDrifts = {})
  /\ DashInit     /\ Idle("dashboard", isSandbox)
  /\ AnomalyInit
  /\ OverlaysInit
  /\ TopbarInit   /\ Idle("topbar", isSandboxUser /\ selectedEnv = DemoScopes[1]
                                    /\ theme = CHOOSE t \in Themes : TRUE)
  /\ SessionInit  /\ Idle("session", session = NoSession /\ page = "login")

PagesNext ==
  \/ /\ focus = "wizard"
     /\ UNCHANGED <<focus, optVars, orphanVars, queryVars, policyVars, settingsVars,
                    copilotVars, featureVars, explorerVars, driftVars, dashVars, anomalyVars,
                    overlayVars, topbarVars, sessionVars>>
     /\ WizardNext
  \/ /\ focus = "optimizations"
     /\ UNCHANGED <<focus, wizardVars, orphanVars, queryVars, policyVars, settingsVars,
                    copilotVars, featureVars, explorerVars, driftVars, dashVars, anomalyVars,
                    overlayVars, topbarVars, sessionVars>>
     /\ OptNext
  \/ /\ focus = "orphaned"
     /\ UNCHANGED <<focus, wizardVars, optVars, queryVars, policyVars, settingsVars,
                    copilotVars, featureVars, explorerVars, driftVars, dashVars, anomalyVars,
                    overlayVars, topbarVars, sessionVars>>
     /\ OrphanNext
  \/ /\ focus = "query"
     /\ UNCHANGED <<focus, wizardVars, optVars, orphanVars, policyVars, settingsVars,
                    copilotVars, featureVars, explorerVars, driftVars, dashVars, anomalyVars,
                    overlayVars, topbarVars, sessionVars>>
     /\ QueryNext
  \/ /\ focus = "policy"
     /\ UNCHANGED <<focus, wizardVars, optVars, orphanVars, queryVars, settingsVars,
                    copilotVars, featureVars, explorerVars, driftVars, dashVars, anomalyVars,
                    overlayVars, topbarVars, sessionVars>>
     /\ PolicyNext
  \/ /\ focus = "settings"
     /\ UNCHANGED <<focus, wizardVars, optVars, orphanVars, queryVars, policyVars,
                    copilotVars, featureVars, explorerVars, driftVars, dashVars, anomalyVars,
                    overlayVars, topbarVars, sessionVars>>
     /\ SettingsNext
  \/ /\ focus = "copilot"
     /\ UNCHANGED <<focus, wizardVars, optVars, orphanVars, queryVars, policyVars,
                    settingsVars, featureVars, explorerVars, driftVars, dashVars, anomalyVars,
                    overlayVars, topbarVars, sessionVars>>
     /\ CopilotNext
  \/ /\ focus = "features"
     /\ UNCHANGED <<focus, wizardVars, optVars, orphanVars, queryVars, policyVars,
                    settingsVars, copilotVars, explorerVars, driftVars, dashVars, anomalyVars,
                    overlayVars, topbarVars, sessionVars>>
     /\ FeaturesNext
  \/ /\ focus = "explorer"
     /\ UNCHANGED <<focus, wizardVars, optVars, orphanVars, queryVars, policyVars,
                    settingsVars, copilotVars, featureVars, driftVars, dashVars, anomalyVars,
                    overlayVars, topbarVars, sessionVars>>
     /\ ExplorerNext
  \/ /\ focus = "drift"
     /\ UNCHANGED <<focus, wizardVars, optVars, orphanVars, queryVars, policyVars,
                    settingsVars, copilotVars, featureVars, explorerVars, dashVars, anomalyVars,
                    overlayVars, topbarVars, sessionVars>>
     /\ DriftNext
  \/ /\ focus = "dashboard"
     /\ UNCHANGED <<focus, wizardVars, optVars, orphanVars, queryVars, policyVars,
                    settingsVars, copilotVars, featureVars, explorerVars, driftVars, anomalyVars,
                    overlayVars, topbarVars, sessionVars>>
     /\ DashNext
  \/ /\ focus = "anomalies"
     /\ UNCHANGED <<focus, wizardVars, optVars, orphanVars, queryVars, policyVars,
                    settingsVars, copilotVars, featureVars, explorerVars, driftVars, dashVars,
                    overlayVars, topbarVars, sessionVars>>
     /\ AnomalyNext
  \/ /\ focus = "overlays"
     /\ UNCHANGED <<focus, wizardVars, optVars, orphanVars, queryVars, policyVars,
                    settingsVars, copilotVars, featureVars, explorerVars, driftVars, dashVars,
                    anomalyVars, topbarVars, sessionVars>>
     /\ OverlaysNext
  \/ /\ focus = "topbar"
     /\ UNCHANGED <<focus, wizardVars, optVars, orphanVars, queryVars, policyVars,
                    settingsVars, copilotVars, featureVars, explorerVars, driftVars, dashVars,
                    anomalyVars, overlayVars, sessionVars>>
     /\ TopbarNext
  \/ /\ focus = "session"
     /\ UNCHANGED <<focus, wizardVars, optVars, orphanVars, queryVars, policyVars,
                    settingsVars, copilotVars, featureVars, explorerVars, driftVars, dashVars,
                    anomalyVars, overlayVars, topbarVars>>
     /\ SessionNext

PagesSpec == PagesInit /\ [][PagesNext]_pagesVars

\* Types of every page's state.
PagesTypeOK ==
  /\ focus \in Focus
  /\ focus = "wizard" => WizardTypeOK
  /\ focus = "optimizations" => OptTypeOK
  /\ focus = "orphaned" => OrphanTypeOK
  /\ focus = "query" => QueryTypeOK
  /\ focus = "policy" => PolicyTypeOK
  /\ focus = "settings" => SettingsTypeOK
  /\ focus = "copilot" => CopilotTypeOK
  /\ focus = "features" => FeaturesTypeOK
  /\ focus = "explorer" => ExplorerTypeOK
  /\ focus = "drift" => DriftTypeOK
  /\ focus = "dashboard" => DashTypeOK
  /\ focus = "anomalies" => AnomalyTypeOK
  /\ focus = "overlays" => OverlaysTypeOK
  /\ focus = "topbar" => TopbarTypeOK
  /\ focus = "session" => SessionTypeOK

\* What a page disables, or shows in place of its content, while it waits, it
\* gives back: every such flag has the request or the timer under way that will
\* clear it, through closed dialogs, left pages and late answers.
SpinnersExplained ==
  /\ BusyExplained /\ OrphanReleases /\ QueryReleases /\ SettingsReleases
  /\ FeaturesRelease /\ ExplorerReleases /\ DriftReleases /\ RefreshReleases
  /\ AnomalyReleases /\ TopbarReleases /\ SessionReleases
=============================================================================
