SPECIFICATION BareSpec
CONSTANTS
  Constants <- MCConstants
  Symbols = {"f"}
  ValueOf <- MCValueOf
  MaxDepth = 2
  Ranked <- MCRanked
  MaxRounds = 8
  Ontologies <- MCBare
  Strategies = {"semi-naive", "naive"}
  UnaryStrategies = {"union-first", "adaptive"}
INVARIANT OracleAddsNothing
CHECK_DEADLOCK FALSE
