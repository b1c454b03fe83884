SPECIFICATION Spec
CONSTANTS
  Atoms <- MCAtoms
  Assertable <- MCAssertable
  Rules <- MCRules
  Instances <- MCInstances
  NoHead = NoHead
  DifferenceRule = "difference"
  Predicate <- MCPredicate
  Mirror <- MCMirror
  Tops <- MCTops
  SeedTop = "Ts"
  AtomTops <- TermsOf
  RuleTops <- MCRuleTops
  GlobalRules <- MCNone
  UnaryRules <- MCNone
  FunctionAtoms <- MCFunctionAtoms
  FunctionRules <- MCFunctionRules
  DeepAtoms <- MCDeep
  Strategy = "naive"
  MaxFacts = 7
  MaxRounds = 3
  InitialPrograms <- MCPrograms
  Requests <- MCRequests
  MayFail = TRUE
  MayInterruptPrepare = TRUE
INVARIANTS
  PartialIsEntailed
