SPECIFICATION PagesSpec
CONSTANTS
  None = None
  WizardSlots = {w1, w2}
  ConnIds = {1}
  WizardAccounts = {"account"}
  WizardSecrets = {"name"}
  OptSlots = {o1}
  Opts = {volume, instance}
  Runbooks = {r1, r2}
  OrphanSlots = {h1, h2}
  Orphans = {volume}
  LogLines = 2
  Services = {"ec2", "sg"}
  ColumnTypes <- MCColumnTypes
  FirstColumn <- MCFirstColumn
  DefaultsOf <- MCDefaultsOf
  Operators <- MCOperators
  FirstOperator <- MCFirstOperator
  Recipes <- MCRecipes
  QueryAccounts = {"account"}
  MaxConditions = 1
  Tags = {"tag"}
  Levels = {"high", "low"}
  Clouds = {"none", "aws"}
  DefaultLevel = "high"
  NoCloud = "none"
  PolicySlots = {l1, l2}
  RuleIds = {1}
  SettingSlots = {g1, g2}
  MaxFlash = 1
  CopilotSlots = {c1, c2}
  MaxQuestions = 3
  FeatureSlots = {f1, f2}
  Features = {reports, advisor}
  Configs = {config1}
  ExplorerSlots = {e1, e2}
  SearchTerms = {None, text}
  ResourceTypes = {None, instance}
  Providers = {None}
  Dates = {day}
  DriftSlots = {d1, d2}
  Drifts = {drift}
  DashSlots = {b1, b2, b3}
  MaxTimers = 1
  Spikes = {compute, storage}
  Critical = {compute}
  SpikeSlots = {p1, p2}
  Routes <- MCRoutes
  Searches = {"t", "d", "zz"}
  Matches <- MCMatches
  MaxRecent = 2
  TourSteps = 3
  ScopeIds = {"x", "y"}
  MaxScopes = 2
  DemoScopes <- MCDemoScopes
  Notes = {"anomaly", "drift"}
  NotesRead = {"drift"}
  Themes = {"dark"}
  TopbarSlots = {t1}
  MaxCopies = 1
  Accounts = {alice, bob}
  SessionSlots = {s1, s2}
INVARIANTS
  PagesTypeOK 
  EditorConsistent SavedFormValid
   RunbookExclusive
   
  RuleFormConsistent 
  CopilotConversation  RowsMatchFilters
  IndicatorExplained StatsMatchList
  PaletteSelects SelectedScopeCurrent SessionOneOwner
