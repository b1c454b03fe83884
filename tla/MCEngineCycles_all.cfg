SPECIFICATION Spec
CONSTANTS
  Atoms <- MCAtoms
  Assertable <- MCAssertable
  Rules <- MCRules
  Instances <- MCInstances
  NoHead = NoHead
  DifferenceRule = "difference"
  Predicate <- MCPredicate
  Mirror <- MCMirror
  Tops <- MCTops
  SeedTop = "Ts"
  AtomTops <- MCAtomTops
  RuleTops <- MCRuleTops
  GlobalRules <- MCGlobal
  UnaryRules <- MCUnary
  FunctionAtoms <- MCNone
  FunctionRules <- MCNone
  DeepAtoms <- MCNone
  Strategy = "semi-naive"
  MaxFacts = 5
  MaxRounds = 3
  InitialPrograms <- MCPrograms
  Requests <- MCRequests
  MayFail = TRUE
  MayInterruptPrepare = FALSE
INVARIANTS
  Inductive
