\* Each budget of the cache is the one that forces an eviction for some answers.
\* Lengths are from zero to one that overflows with another.
SPECIFICATION MCSpec
CONSTANTS
  MaxEntries = 3
  MaxValues = 4
  MaxBytes = 8
  Keys = {"k1", "k2", "k3", "k4"}
  Answers <- MCAnswers
  ValuesOf <- MCValuesOf
  BytesOf <- MCBytesOf
  Unknown <- MCUnknown
  Nodes = {"a", "b", "c", "d"}
  Start = "a"
  End = "d"
  Streets <- MCStreets
  Lengths = {0, 1, 3}
  NoEdge <- MCNoEdge
  Overflow = 5
  Variables <- MCVariables
  Missing = "?"
  Impure = {"fresh"}
  Apply <- MCApply
  Distinct <- MCDistinct
  Less <- MCLess
  Programs <- MCQueries
  Inputs <- MCInputFacts
  Initials <- MCInitials
  Universe <- MCUniverse
  Lookahead = TRUE
  InputSets <- MCInputSets
  Literals <- MCLiterals
  Scalars <- MCScalars
  IdOf <- MCIdOf
  Decode <- MCDecode
  Canonical <- MCCanonical
  LiteralKey <- MCLiteralKey
  OrderOf <- MCOrderOf
  Operation <- MCOperation
  NoValue <- MCNoValue
  MaxTerms = 5
  MemoCapacity = 1
  Facts <- MCFacts
  Equalities = {}
  Plans <- MCPlans
  Slots = {"x", "y", "z"}
  Unbound = "?"
  Cursors = {"c1"}
  BatchSize = 1
  MaxVersion = 5
  Loads <- MCLoads
  Constants <- MCConstants
  Symbols = {"f"}
  ValueOf <- MCValueOf
  MaxDepth = 2
  Ranked <- MCRanked
  MaxRounds = 8
  Ontologies <- MCPrograms
  Strategies = {"semi-naive", "naive"}
  UnaryStrategies = {"union-first", "adaptive"}
  MaxFactsKept = 30
  Queries = {"q1", "q2"}
  Asked = "R"
  MaxRevision = 2
  Processes = {"p1", "p2"}
  Compilers = {"clang", "gcc"}
  Files = 1
  Contents = {1, 2}
  Compatible <- MCCompatible
INVARIANTS
  KeepsLatestWithinBudget
  ShortestFound
  PlansAreSound
  BackendsAgree
  ReturnsReference
  ReadsAreExact
  ClosureIsModel
  PublishedIsModel
  ResultsAreOfSnapshot
  LibrariesAreBuilt
  BuiltOnce
CHECK_DEADLOCK FALSE
