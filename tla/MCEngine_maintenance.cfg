SPECIFICATION Spec
CONSTANTS
  Atoms <- MCAtoms
  Assertable <- MCAssertable
  Rules <- MCRules
  Instances <- MCInstances
  NoHead = NoHead
  DifferenceRule = "difference"
  Predicate <- MCPredicate
  Mirror <- MCMirror
  Tops <- MCTops
  SeedTop = "Ts"
  AtomTops <- TermsOf
  RuleTops <- MCRuleTops
  GlobalRules <- MCNone
  UnaryRules <- MCUnary
  FunctionAtoms <- MCNone
  FunctionRules <- MCNone
  DeepAtoms <- MCNone
  Strategy = "semi-naive"
  MaxFacts = 20
  MaxRounds = 20
  InitialPrograms <- MCPrograms
  Requests <- MCRequests
  MayFail = FALSE
  MayInterruptPrepare = FALSE
INVARIANTS
  CompleteIsLeastModel
  ViolationsAreCurrent
PROPERTIES
  WithdrawKeepsSupport
  CallsComplete
  ViewSpec
