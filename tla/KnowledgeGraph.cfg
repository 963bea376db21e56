SPECIFICATION Spec
CONSTANTS
  A = A
  B = B
  None = None
  NoSymbol = NoSymbol
  Unresolved = Unresolved
  Modules <- MCModules
  Repos = {A, B}
  RepoOf <- MCRepoOf
  Edition <- MCEdition
  Contents <- MCContents
  Checkout <- MCCheckout
  CodeVersion = 17
  ElseRank = 4
  NameOrder <- MCNameOrder
  MagicFields <- MCMagicFields
  Relational <- MCRelational
  FieldTypes <- MCFieldTypes
  ColumnTypes <- MCColumnTypes
  HotSymbols <- MCHotSymbols
  XmlId <- MCXmlId
  LegacyFiles <- MCLegacyFiles
  HighRisk = 4
  MediumRisk = 2
  CoreVersions <- MCVersions
  Symbols <- MCSymbols
  Length <- MCLength
  Framework <- MCFramework
  SpecData <- MCSpecData
  CoreFiles <- MCCoreFiles
  SplitInto <- MCSplitInto
  LegacyMax = 9
  LintRulesMin = 17
  Snippets <- MCSnippets
  BatchSize = 2
  CoreOverlap = FALSE
  MaxOps = 4
  MaxEdits = 1
  Modes <- MCModes
INVARIANTS
  TypeOK
  LifecycleIsExact
  CoreIsAnswered
  AnswersMatchSources
  InheritanceIsShown
  BlastRadiusIsComplete
  BaseViewIsFound
  UsageIsExact
  PagesAreComplete
CHECK_DEADLOCK FALSE
