\* One cached answer of the reasoner is enough: entries do not depend on each other, and
\* every query evicts.  The native dictionary has room for one value at a time.
SPECIFICATION MCSpec
CONSTANTS
  FactTriples = {"f"}
  RuleTriples = {"r"}
  Clash = {"f", "r"}
  Settings = {L2, L3}
  Queries = {"instances", "subsumes", "fresh name", "entails"}
  MaxEntries = 1
  MaxChanges = 4
  Unknown <- MCUnknown
  Lookups = 2
  Scopes <- MCScopes
  Accepts <- MCAccepts
  Backends = {"python", "hybrid", "native"}
  SourceFacts <- MCSource
  SuppliedFacts <- MCSupplied
  Predicates = {"item", "flag", "near", "hot"}
  Values <- MCValues
  Plain <- MCPlain
  Heads = {"near", "hot"}
  Levels = 2
  NumAdapters = 2
  Derive <- MCDerive
  MaxTerms = 1
  MaxNativeTerms = 1
  MaxResults = 2
  MaxRounds = 4
  MaxEdits = 2
  Keys <- MCKeys
  KindOf <- MCKindOf
  BodiesOf <- MCBodiesOf
  SizeOf <- MCSizeOf
  TombstoneSize = 1
  MaxElements = 4
  MaxRetained = 8
  LoadVersions = {1}
  MaxChanged = 2
  MaxPublications = 3
  MaxHostSteps = 1
SYMMETRY Symmetry
INVARIANTS
  AnswersAreCurrent
  EngineFollowsSource
  ViewsAreCurrent
  PublishedIsExact
  ReadersHaveLast
  BudgetsFit
  ProjectionsAreCurrent
  RevisionsAreNew
  IndexesAreOwned
CHECK_DEADLOCK FALSE
