----------------------------- MODULE EngineProofs -----------------------------
(***************************************************************************)
(* The properties of Engine for every program, every limit and every       *)
(* sequence of transactions.                                               *)
(***************************************************************************)
EXTENDS EngineInvariant, TLAPS

-----------------------------------------------------------------------------
(* Programs and their models: how models, entailment and the active domain  *)
(* behave when a program grows, and what a set of facts that is closed      *)
(* under ingestion contains.                                                *)

(* The parts of a ground instance.                                          *)
LEMMA InstanceParts ==
  ASSUME NEW i \in Instances
  PROVE  /\ i.rule \in Rules \cup {DifferenceRule}
         /\ i.body \subseteq Atoms
         /\ i.head \in Atoms \cup {NoHead}
         /\ i.rule = DifferenceRule => i.head = NoHead
  BY RulesAssumption

(* Ingesting an atom stores atoms.                                          *)
LEMMA ImpliedAtoms ==
  ASSUME NEW a \in Atoms
  PROVE  Implied(a) \subseteq Atoms
  BY AtomsAssumption DEF Implied

(* Ingesting what an ingestion stored stores nothing more.                  *)
LEMMA ImpliedClosed ==
  ASSUME NEW a \in Atoms, NEW b \in Implied(a)
  PROVE  Implied(b) \subseteq Implied(a)
  <1>1. CASE b = a
    BY <1>1
  <1>2. CASE b = Mirror[a]
    BY <1>2, AtomsAssumption, MirrorAssumption DEF Implied
  <1>3. CASE b \in AtomTops[a]
    <2>1. b \in Tops /\ b \in Atoms
      BY <1>3, AtomsAssumption
    <2>2. Mirror[b] = b /\ AtomTops[b] \subseteq AtomTops[a]
      BY <1>3, <2>1, MirrorAssumption, TermsAssumption
    <2> QED
      BY <1>3, <2>2 DEF Implied
  <1> QED
    BY <1>1, <1>2, <1>3 DEF Implied

(* The active domain consists of TOP atoms, and holds the terms of its      *)
(* terms.                                                                   *)
LEMMA DomainTops ==
  ASSUME NEW A \in SUBSET Assertable, NEW R \in SUBSET Rules
  PROVE  /\ Domain(A, R) \subseteq Tops
         /\ Domain(A, R) \subseteq Atoms
         /\ SeedTop \in Domain(A, R)
         /\ \A t \in Domain(A, R) : AtomTops[t] \subseteq Domain(A, R)
  <1>1. \A a \in A : AtomTops[a] \subseteq Tops
    BY AtomsAssumption
  <1>2. \A r \in R : RuleTops[r] \subseteq Tops
    BY RulesAssumption
  <1>3. Domain(A, R) \subseteq Tops /\ SeedTop \in Domain(A, R)
    BY <1>1, <1>2, AtomsAssumption DEF Domain
  <1>4. ASSUME NEW t \in Domain(A, R)
        PROVE  AtomTops[t] \subseteq Domain(A, R)
    <2>1. CASE t = SeedTop
      BY <2>1, TermsAssumption DEF Domain
    <2>2. ASSUME NEW a \in A, t \in AtomTops[a]
          PROVE  AtomTops[t] \subseteq Domain(A, R)
      BY <2>2, AtomsAssumption, TermsAssumption DEF Domain
    <2>3. ASSUME NEW r \in R, t \in RuleTops[r]
          PROVE  AtomTops[t] \subseteq Domain(A, R)
      BY <2>3, TermsAssumption DEF Domain
    <2> QED
      BY <1>4, <2>1, <2>2, <2>3 DEF Domain
  <1> QED
    BY <1>3, <1>4, AtomsAssumption

(* The domain holds the terms of every assertion and the constants of every *)
(* rule.                                                                    *)
LEMMA DomainCovers ==
  ASSUME NEW A, NEW R
  PROVE  /\ \A a \in A : AtomTops[a] \subseteq Domain(A, R)
         /\ \A r \in R : RuleTops[r] \subseteq Domain(A, R)
  BY DEF Domain

(* A larger program has no smaller domain.                                  *)
LEMMA DomainMonotone ==
  ASSUME NEW A, NEW R, NEW B, NEW S, A \subseteq B, R \subseteq S
  PROVE  Domain(A, R) \subseteq Domain(B, S)
  BY DEF Domain

(* A head is stored by whoever stores the heads of the matching instances.  *)
LEMMA HeadsOfMatching ==
  ASSUME NEW R, NEW F, NEW i \in Instances,
         i.rule \in R, i.body \subseteq F, i.head # NoHead
  PROVE  i.head \in Heads(Matching(R, F))
  BY DEF Heads, Matching

(* More facts match no fewer instances.                                     *)
LEMMA HeadsMonotone ==
  ASSUME NEW R, NEW S, NEW F, NEW G, R \subseteq S, F \subseteq G
  PROVE  Heads(Matching(R, F)) \subseteq Heads(Matching(S, G))
  BY DEF Heads, Matching

(* A model of a program is a model of every smaller one.                    *)
LEMMA ModelOfLess ==
  ASSUME NEW M, NEW A, NEW R, NEW B, NEW S,
         A \subseteq B, R \subseteq S, IsModel(M, B, S)
  PROVE  IsModel(M, A, R)
  BY DomainMonotone, HeadsMonotone DEF IsModel

(* What a program entails, a larger one entails.                            *)
LEMMA EntailedByMore ==
  ASSUME NEW F, NEW A, NEW R, NEW B, NEW S,
         A \subseteq B, R \subseteq S, Entailed(F, A, R)
  PROVE  Entailed(F, B, S)
  BY ModelOfLess DEF Entailed

(* Ingesting atoms that hold in every model keeps the facts entailed.       *)
LEMMA EntailedIngestion ==
  ASSUME NEW F, NEW G, NEW B, NEW A, NEW R,
         Entailed(F, A, R),
         \A M \in SUBSET Atoms : IsModel(M, A, R) => B \subseteq M,
         G \subseteq F \cup ImpliedBy(B)
  PROVE  Entailed(G, A, R)
  <1> SUFFICES ASSUME NEW M \in SUBSET Atoms, IsModel(M, A, R)
               PROVE  G \subseteq M
    BY DEF Entailed
  <1>1. F \subseteq M
    BY DEF Entailed
  <1>2. \A b \in B : Implied(b) \subseteq M
    BY DEF IsModel
  <1> QED
    BY <1>1, <1>2 DEF ImpliedBy

-----------------------------------------------------------------------------
(* Overdeletion, as a statement about sets of atoms                         *)

(* What stays protected holds in every model of the current program.        *)
LEMMA ProtectedInModels ==
  ASSUME NEW A, NEW R, NEW M, IsModel(M, A, R)
  PROVE  Protected(A, R) \subseteq M
  BY DEF IsModel, Protected, Implied

(* It is closed under mirroring, and its terms are in the domain.           *)
LEMMA ProtectedClosed ==
  ASSUME NEW A \in SUBSET Assertable, NEW R \in SUBSET Rules, NEW a \in Protected(A, R)
  PROVE  /\ a \in Atoms
         /\ Mirror[a] \in Protected(A, R)
         /\ AtomTops[a] \subseteq Domain(A, R)
  <1>1. CASE a \in A
    BY <1>1, AtomsAssumption, DomainCovers DEF Protected
  <1>2. ASSUME NEW b \in A, a = Mirror[b]
        PROVE  /\ a \in Atoms
               /\ Mirror[a] \in Protected(A, R)
               /\ AtomTops[a] \subseteq Domain(A, R)
    <2>1. b \in Atoms /\ a \in Atoms
      BY <1>2, AtomsAssumption
    <2>2. Mirror[a] = b /\ AtomTops[a] = AtomTops[b]
      BY <1>2, <2>1, MirrorAssumption
    <2> QED
      BY <2>1, <2>2, DomainCovers DEF Protected
  <1>3. CASE a \in Domain(A, R)
    <2>1. a \in Tops /\ a \in Atoms
      BY <1>3, DomainTops, AtomsAssumption
    <2> QED
      BY <1>3, <2>1, DomainTops, MirrorAssumption DEF Protected
  <1> QED
    BY <1>1, <1>2, <1>3 DEF Protected

(* What a certificate proves holds in every model of the current program:   *)
(* the part of a model that unary rules conclude is closed under them.      *)
LEMMA ProvableInModels ==
  ASSUME NEW A, NEW R, NEW M, IsModel(M, A, R)
  PROVE  Provable(A, R) \subseteq M
  <1> DEFINE base  == A \cup Domain(A, R)
             heads == Heads({i \in Instances : i.rule \in R \cap UnaryRules})
             S     == M \cap heads
  <1>1. base \subseteq M
    BY DEF IsModel
  <1>2. ASSUME NEW i \in Instances, i.rule \in R \cap UnaryRules,
               i.body \subseteq base \cup S, i.head # NoHead
        PROVE  i.head \in base \cup S
    <2>1. i.head \in heads
      BY <1>2 DEF Heads
    <2>2. i.head \in M
      BY <1>1, <1>2, HeadsOfMatching DEF IsModel
    <2> QED
      BY <2>1, <2>2
  <1>3. Heads(Matching(R \cap UnaryRules, base \cup S)) \subseteq base \cup S
    BY <1>2 DEF Heads, Matching
  <1>4. S \in SUBSET heads
    OBVIOUS
  <1> QED
    BY <1>1, <1>3, <1>4 DEF Provable

(* Its terms are in the domain, and it is its own mirror: a proof begins    *)
(* with assertions or with the domain, and speaks of one term.              *)
LEMMA ProvableClosed ==
  ASSUME NEW A \in SUBSET Assertable, NEW R \in SUBSET Rules, NEW a \in Provable(A, R)
  PROVE  /\ Mirror[a] = a
         /\ AtomTops[a] \subseteq Domain(A, R)
  <1> DEFINE base  == A \cup Domain(A, R)
             heads == Heads({i \in Instances : i.rule \in R \cap UnaryRules})
             S     == {h \in heads : AtomTops[h] \subseteq Domain(A, R)}
  <1>1. \A b \in base : AtomTops[b] \subseteq Domain(A, R)
    BY DomainCovers, DomainTops
  <1>2. ASSUME NEW i \in Instances, i.rule \in R \cap UnaryRules,
               i.body \subseteq base \cup S, i.head # NoHead
        PROVE  i.head \in base \cup S
    <2>1. i.head \in heads
      BY <1>2 DEF Heads
    <2>2. PICK b \in i.body : AtomTops[i.head] = AtomTops[b]
      BY <1>2, UnaryAssumption
    <2>3. AtomTops[i.head] \subseteq Domain(A, R)
      BY <1>1, <1>2, <2>2
    <2> QED
      BY <2>1, <2>3
  <1>3. Heads(Matching(R \cap UnaryRules, base \cup S)) \subseteq base \cup S
    BY <1>2 DEF Heads, Matching
  <1>4. S \in SUBSET heads
    OBVIOUS
  <1>5. a \in base \cup S /\ a \in heads
    BY <1>3, <1>4 DEF Provable
  <1>6. Mirror[a] = a
    BY <1>5, UnaryAssumption DEF Heads
  <1> QED
    BY <1>1, <1>5, <1>6

(* What the new program states or proves by itself.                         *)
Supported(A, R) == Protected(A, R) \cup Provable(A, R)

(* D holds every fact of the least model F of the program (B, P) that has   *)
(* lost a proof now that the program is (A, R), unless (A, R) supports it.  *)
Overdeleted(F, D, B, P, A, R) ==
  LET gone == D \cup Supported(A, R)
  IN  /\ IsLeastModel(F, B, P)
      /\ D \subseteq F \ Protected(A, R)
      /\ B \subseteq A \cup gone
      /\ F \cap Tops \subseteq gone
      /\ \A i \in Instances :
           /\ i.rule \in P /\ i.body \subseteq F /\ i.head # NoHead
           /\ i.rule \notin R \/ i.body \cap D # {}
           => i.head \in gone
      /\ \A a \in D : Mirror[a] \in gone
      /\ P \cap FunctionRules = {}

(* The facts that survive overdeletion follow from the new program: with    *)
(* the deleted facts added, every model of the new program satisfies the    *)
(* old one.                                                                 *)
LEMMA SurvivorsEntailed ==
  ASSUME NEW F \in SUBSET Atoms, NEW D,
         NEW A \in SUBSET Assertable, NEW R \in SUBSET Rules,
         NEW B \in SUBSET Assertable, NEW P \in SUBSET Rules,
         Overdeleted(F, D, B, P, A, R)
  PROVE  Entailed(F \ D, A, R)
  <1> SUFFICES ASSUME NEW M \in SUBSET Atoms, IsModel(M, A, R)
               PROVE  F \ D \subseteq M
    BY DEF Entailed
  <1> DEFINE S == {a \in F : a \in D \/ a \in M}
  <1>1. Supported(A, R) \subseteq M
    BY ProtectedInModels, ProvableInModels DEF Supported
  <1>2. IsModel(F, B, P) /\ Entailed(F, B, P)
    BY DEF Overdeleted, IsLeastModel
  <1>3. F \cap (D \cup Supported(A, R)) \subseteq S
    BY <1>1
  <1>4. B \subseteq S
    BY <1>2, <1>3 DEF Overdeleted, IsModel
  <1>5. Domain(B, P) \subseteq S
    BY <1>2, <1>3, DomainTops DEF Overdeleted, IsModel
  <1>6. ASSUME NEW a \in S
        PROVE  Implied(a) \subseteq S
    <2>1. Implied(a) \subseteq F
      BY <1>2 DEF IsModel
    <2>2. AtomTops[a] \subseteq S
      BY <2>1, <1>3, AtomsAssumption DEF Implied, Overdeleted
    <2>3. Mirror[a] \in S
      BY <2>1, <1>3 DEF Implied, Overdeleted, IsModel
    <2> QED
      BY <2>2, <2>3 DEF Implied
  <1>7. ASSUME NEW i \in Instances, i.rule \in P, i.body \subseteq S, i.head # NoHead
        PROVE  i.head \in S
    <2>1. i.body \subseteq F
      BY <1>7
    <2>2. i.head \in F
      BY <1>2, <1>7, <2>1, HeadsOfMatching DEF IsModel
    <2>3. CASE i.rule \notin R \/ i.body \cap D # {}
      BY <1>7, <2>1, <2>2, <2>3, <1>3 DEF Overdeleted
    <2>4. CASE i.rule \in R /\ i.body \cap D = {}
      <3>1. i.body \subseteq M
        BY <1>7, <2>4
      <3>2. i.head \in M
        BY <1>7, <2>4, <3>1, HeadsOfMatching DEF IsModel
      <3> QED
        BY <2>2, <3>2
    <2> QED
      BY <2>3, <2>4
  <1>8. Heads(Matching(P, S)) \subseteq S
    BY <1>7 DEF Heads, Matching
  <1>9. IsModel(S, B, P)
    BY <1>4, <1>5, <1>6, <1>8 DEF IsModel
  <1>10. F \subseteq S
    BY <1>2, <1>9 DEF Entailed
  <1> QED
    BY <1>10

(* No survivor mentions a constant that left the program, and survivors are *)
(* closed under ingestion.                                                  *)
LEMMA SurvivorsClosed ==
  ASSUME NEW F \in SUBSET Atoms, NEW D,
         NEW A \in SUBSET Assertable, NEW R \in SUBSET Rules,
         NEW B \in SUBSET Assertable, NEW P \in SUBSET Rules,
         Overdeleted(F, D, B, P, A, R)
  PROVE  \A a \in F \ D : Implied(a) \subseteq F \ D
  <1> DEFINE S == {a \in F : a \in D \/ AtomTops[a] \subseteq Domain(A, R)}
  <1>1. \A a \in Supported(A, R) : AtomTops[a] \subseteq Domain(A, R)
    BY ProtectedClosed, ProvableClosed DEF Supported
  <1>2. IsModel(F, B, P) /\ Entailed(F, B, P)
    BY DEF Overdeleted, IsLeastModel
  <1>3. F \cap (D \cup Supported(A, R)) \subseteq S
    BY <1>1
  <1>4. B \subseteq S
    <2>1. A \subseteq Supported(A, R)
      BY DEF Supported, Protected
    <2> QED
      BY <1>2, <1>3, <2>1 DEF Overdeleted, IsModel
  <1>5. Domain(B, P) \subseteq S
    BY <1>2, <1>3, DomainTops DEF Overdeleted, IsModel
  <1>6. ASSUME NEW a \in S
        PROVE  Implied(a) \subseteq S
    <2>1. Implied(a) \subseteq F
      BY <1>2 DEF IsModel
    <2>2. AtomTops[a] \subseteq S
      BY <2>1, <1>3, AtomsAssumption DEF Implied, Overdeleted
    <2>3. Mirror[a] \in F
      BY <2>1 DEF Implied
    <2>4. Mirror[a] \in S
      <3>1. CASE a \in D
        BY <3>1, <2>3, <1>3 DEF Overdeleted
      <3>2. CASE AtomTops[a] \subseteq Domain(A, R)
        BY <3>2, <2>3, MirrorAssumption
      <3> QED
        BY <3>1, <3>2
    <2> QED
      BY <2>2, <2>4 DEF Implied
  <1>7. ASSUME NEW i \in Instances, i.rule \in P, i.body \subseteq S, i.head # NoHead
        PROVE  i.head \in S
    <2>1. i.body \subseteq F
      BY <1>7
    <2>2. i.head \in F
      BY <1>2, <1>7, <2>1, HeadsOfMatching DEF IsModel
    <2>3. CASE i.rule \notin R \/ i.body \cap D # {}
      BY <1>7, <2>1, <2>2, <2>3, <1>3 DEF Overdeleted
    <2>4. CASE i.rule \in R /\ i.body \cap D = {}
      <3>1. \A b \in i.body : AtomTops[b] \subseteq Domain(A, R)
        BY <1>7, <2>4
      <3>2. RuleTops[i.rule] \subseteq Domain(A, R)
        BY <2>4, DomainCovers
      <3>3. i.rule \notin FunctionRules
        BY <1>7 DEF Overdeleted
      <3>4. AtomTops[i.head] \subseteq RuleTops[i.rule] \cup (UNION {AtomTops[b] : b \in i.body})
        BY <1>7, <3>3, RangeRestriction
      <3>5. AtomTops[i.head] \subseteq Domain(A, R)
        BY <3>1, <3>2, <3>4
      <3> QED
        BY <2>2, <3>5
    <2> QED
      BY <2>3, <2>4
  <1>8. Heads(Matching(P, S)) \subseteq S
    BY <1>7 DEF Heads, Matching
  <1>9. IsModel(S, B, P)
    BY <1>4, <1>5, <1>6, <1>8 DEF IsModel
  <1>10. F \subseteq S
    BY <1>2, <1>9 DEF Entailed
  <1>11. ASSUME NEW a \in F \ D
         PROVE  Implied(a) \subseteq F \ D
    <2>1. Implied(a) \subseteq F
      BY <1>2 DEF IsModel
    <2>2. AtomTops[a] \subseteq Protected(A, R)
      BY <1>10 DEF Protected
    <2>3. Mirror[a] \notin D
      <3> SUFFICES ASSUME Mirror[a] \in D PROVE FALSE
        OBVIOUS
      <3>1. Mirror[Mirror[a]] = a
        BY MirrorAssumption
      <3>2. a \in Supported(A, R)
        BY <3>1 DEF Overdeleted
      <3>3. CASE a \in Protected(A, R)
        <4>1. Mirror[a] \in Protected(A, R)
          BY <3>3, ProtectedClosed
        <4> QED
          BY <4>1 DEF Overdeleted
      <3>4. CASE a \in Provable(A, R)
        BY <3>4, ProvableClosed
      <3> QED
        BY <3>2, <3>3, <3>4 DEF Supported
    <2> QED
      BY <2>1, <2>2, <2>3 DEF Implied, Overdeleted
  <1> QED
    BY <1>11

-----------------------------------------------------------------------------
(* Types                                                                    *)

(* An ingestion stores atoms only, keeps what was stored, and stores all of *)
(* it unless a limit clears complete.                                       *)
LEMMA IngestStores ==
  ASSUME NEW B \in SUBSET Atoms, facts \in SUBSET Atoms, Ingest(B)
  PROVE  /\ facts' \in SUBSET Atoms
         /\ facts \subseteq facts'
         /\ facts' \subseteq facts \cup ImpliedBy(B)
         /\ complete' \in BOOLEAN
         /\ complete' => facts' = facts \cup ImpliedBy(B)
  <1>1. complete' = Fits(B) /\ Fits(B) \in BOOLEAN
    BY DEF Ingest, Fits
  <1>2. facts \cup ImpliedBy(B) \in SUBSET Atoms
    BY ImpliedAtoms DEF ImpliedBy
  <1>3. CASE Fits(B)
    BY <1>1, <1>2, <1>3 DEF Ingest, Ingested
  <1>4. CASE ~Fits(B)
    BY <1>1, <1>2, <1>4 DEF Ingest, Ingested
  <1> QED
    BY <1>1, <1>3, <1>4

(* What firing instances of the stored facts does.                          *)
LEMMA FireStores ==
  ASSUME NEW I \in SUBSET Instances, facts \in SUBSET Atoms, Fire(I)
  PROVE  /\ facts' \in SUBSET Atoms
         /\ facts \subseteq facts'
         /\ facts' \subseteq facts \cup ImpliedBy(Heads(I))
         /\ complete' \in BOOLEAN
         /\ complete' => facts' = facts \cup ImpliedBy(Heads(I))
         /\ violations' \subseteq violations \cup Denials(I) \cup Differences(facts')
         /\ violations \cup Differences(facts') \subseteq violations'
         /\ complete' => Denials(I) \subseteq violations'
  <1>1. Heads(I) \in SUBSET Atoms
    BY InstanceParts DEF Heads
  <1>2. Ingest(Heads(I))
    BY DEF Fire
  <1>3. PICK reported \in SUBSET Denials(I) :
          /\ complete' => reported = Denials(I)
          /\ violations' = violations \cup reported \cup Differences(facts')
    BY DEF Fire
  <1>4. /\ violations' \subseteq violations \cup Denials(I) \cup Differences(facts')
        /\ violations \cup Differences(facts') \subseteq violations'
        /\ complete' => Denials(I) \subseteq violations'
    BY <1>3
  <1> QED
    BY <1>1, <1>2, <1>4, IngestStores

(* Matching instances belong to the given rules and matched the facts.      *)
LEMMA MatchingInstances ==
  ASSUME NEW R, NEW F
  PROVE  /\ Matching(R, F) \subseteq Instances
         /\ Denials(Matching(R, F)) \subseteq Instances
         /\ Differences(F) \subseteq Instances
  BY DEF Matching, Denials, Differences

(* Assertions of typed programs are atoms.                                  *)
LEMMA AssertableAtoms ==
  ASSUME NEW A \in SUBSET Assertable
  PROVE  A \in SUBSET Atoms
  BY AtomsAssumption

(* The atoms ingested as domain are TOP atoms, of the current program.      *)
LEMMA DomainsAtoms ==
  ASSUME TypeOK, NEW D \in DomainsToIngest
  PROVE  D \in SUBSET Atoms
  <1>1. Domain(asserted, rules) \in SUBSET Atoms
    BY DomainTops DEF TypeOK
  <1>2. UNION {RuleTops[r] : r \in boundary} \in SUBSET Atoms
    BY RulesAssumption, AtomsAssumption DEF TypeOK
  <1> QED
    BY <1>1, <1>2 DEF DomainsToIngest

(* The atoms ingested as domain belong to the domain of the program.        *)
LEMMA DomainsInDomain ==
  ASSUME boundary \subseteq rules, NEW D \in DomainsToIngest
  PROVE  D \subseteq Domain(asserted, rules)
  <1>1. UNION {RuleTops[r] : r \in boundary} \subseteq Domain(asserted, rules)
    BY DomainCovers
  <1> QED
    BY <1>1 DEF DomainsToIngest

(* A round evaluates only matching instances of current rules.              *)
LEMMA ScheduledMatching ==
  Scheduled \in SUBSET Matching(rules, facts) /\ Scheduled \in SUBSET Instances
  BY DEF Scheduled, Matching

(* The variables of a call when it starts over.                             *)
LEMMA MaterializeTypes ==
  ASSUME NEW A \in SUBSET Assertable, BeginMaterialize(A),
         asserted' \in SUBSET Assertable, rules' \in SUBSET Rules, prepared' \in SUBSET Rules
  PROVE  TypeOK'
  <1>1. complete' \in BOOLEAN /\ failed' \in BOOLEAN
    BY DEF BeginMaterialize
  <1>2. rounds' \in 0 .. MaxRounds
    BY LimitsAssumption DEF BeginMaterialize
  <1>3. pc' \in Phases /\ mode' \in Modes
    BY DEF BeginMaterialize, Phases, Modes
  <1> QED
    BY <1>1, <1>2, <1>3 DEF BeginMaterialize, TypeOK

(* The variables of a call when it returns.                                 *)
LEMMA ReturnTypes ==
  ASSUME TypeOK, Return, UNCHANGED <<asserted, rules, prepared, facts>>,
         complete' \in BOOLEAN, failed' \in BOOLEAN, violations' \in SUBSET Instances
  PROVE  TypeOK'
  <1>1. rounds' \in 0 .. MaxRounds
    BY LimitsAssumption DEF Return
  <1>2. pc' \in Phases /\ mode' \in Modes
    BY DEF Return, Phases, Modes
  <1> QED
    BY <1>1, <1>2 DEF Return, TypeOK

(* A request leads to a program.                                            *)
LEMMA RequestTypes ==
  ASSUME TypeOK, NEW q \in Requests
  PROVE  /\ NextAsserted(q) \in SUBSET Assertable
         /\ NextRules(q) \in SUBSET Rules
         /\ Added(q) \in SUBSET Assertable
         /\ Removed(q) \in SUBSET Assertable
         /\ InsertedRules(q) \in SUBSET Rules
         /\ Seeds(q) \in SUBSET Atoms
  BY InputsAssumption DEF TypeOK, NextAsserted, NextRules, Added, Removed, InsertedRules, Seeds

(* Every step keeps the types.                                              *)
LEMMA TypeStep ==
  ASSUME TypeOK, [Next]_vars
  PROVE  TypeOK'
  <1> USE DEF program, locals
  <1>1. CASE Materialize
    BY <1>1, MaterializeTypes DEF Materialize, TypeOK
  <1>2. ASSUME NEW q \in Requests, Update(q)
        PROVE  TypeOK'
    <2>1. /\ asserted' \in SUBSET Assertable
          /\ rules' \in SUBSET Rules
          /\ prepared' \in SUBSET Rules
      BY <1>2, RequestTypes DEF Update, TypeOK
    <2>2. CASE BeginMaterialize(NextAsserted(q))
      BY <2>1, <2>2, RequestTypes, MaterializeTypes
    <2>3. CASE BeginDred(q)
      <3>1. failed' \in BOOLEAN /\ complete' \in BOOLEAN
        BY <2>3 DEF BeginDred, TypeOK
      <3>2. rounds' \in 0 .. MaxRounds
        BY <2>3, LimitsAssumption DEF BeginDred
      <3>3. pc' \in Phases /\ mode' \in Modes
        BY <2>3 DEF BeginDred, Phases, Modes
      <3>4. /\ certified' \in SUBSET Atoms
            /\ delta' \in SUBSET Atoms /\ deleted' \in SUBSET Atoms
        BY <2>3, RequestTypes DEF BeginDred, Certified
      <3> QED
        BY <2>1, <2>3, <3>1, <3>2, <3>3, <3>4, RequestTypes DEF BeginDred, TypeOK
    <2>4. CASE BeginInsert(q)
      <3>1. failed' \in BOOLEAN /\ complete' \in BOOLEAN
        BY <2>4 DEF BeginInsert, TypeOK
      <3>2. rounds' \in 0 .. MaxRounds
        BY <2>4, LimitsAssumption DEF BeginInsert
      <3>3. pc' \in Phases /\ mode' \in Modes
        BY <2>4 DEF BeginInsert, Phases, Modes
      <3> QED
        BY <2>1, <2>4, <3>1, <3>2, <3>3, RequestTypes DEF BeginInsert, TypeOK
    <2> QED
      BY <1>2, <2>2, <2>3, <2>4 DEF Update
  <1>3. ASSUME NEW q \in Requests, InterruptPrepare(q)
        PROVE  TypeOK'
    <2>1. complete' \in BOOLEAN /\ failed' \in BOOLEAN
      BY <1>3 DEF InterruptPrepare
    <2> QED
      BY <1>3, <2>1, RequestTypes DEF InterruptPrepare, TypeOK
  <1>4. CASE OverdeleteRound
    <2>1. Heads({i \in Matching(previous, facts) : i.body \cap delta # {}}) \subseteq Atoms
      BY InstanceParts DEF Heads, Matching
    <2>2. Losing(Protected(asserted, rules) \cup certified \cup deleted) \in SUBSET Atoms
      BY <2>1, AtomsAssumption DEF Losing, TypeOK
    <2>3. delta' \in SUBSET Atoms /\ certified' \in SUBSET Atoms
      BY <1>4, <2>2 DEF OverdeleteRound, Certified, TypeOK
    <2>4. rounds' \in 0 .. MaxRounds
      BY <1>4, LimitsAssumption DEF OverdeleteRound, TypeOK
    <2> QED
      BY <1>4, <2>3, <2>4 DEF OverdeleteRound, TypeOK
  <1>5. CASE OverdeleteLimit
    BY <1>5, MaterializeTypes DEF OverdeleteLimit, TypeOK
  <1>6. CASE Withdraw
    <2>1. pc' \in Phases
      BY <1>6 DEF Withdraw, Phases
    <2> QED
      BY <1>6, <2>1 DEF Withdraw, TypeOK
  <1>7. CASE IngestDomain
    <2>1. PICK D \in DomainsToIngest : Ingest(D)
      BY <1>7 DEF IngestDomain
    <2>2. facts' \in SUBSET Atoms /\ complete' \in BOOLEAN
      BY <2>1, DomainsAtoms, IngestStores DEF TypeOK
    <2>3. pc' \in Phases
      BY <1>7 DEF IngestDomain, Phases
    <2>4. Differences(facts') \in SUBSET Instances
      BY DEF Differences, Matching
    <2> QED
      BY <1>7, <2>2, <2>3, <2>4 DEF IngestDomain, TypeOK
  <1>8. CASE IngestAssertions
    <2>1. facts' \in SUBSET Atoms /\ complete' \in BOOLEAN
      BY <1>8, AssertableAtoms, IngestStores DEF IngestAssertions, TypeOK
    <2>2. pc' \in Phases
      BY <1>8 DEF IngestAssertions, Phases
    <2>3. Differences(facts') \in SUBSET Instances
      BY DEF Differences, Matching
    <2> QED
      BY <1>8, <2>1, <2>2, <2>3 DEF IngestAssertions, TypeOK
  <1>9. CASE DeriveOnce
    <2>1. /\ facts' \in SUBSET Atoms /\ complete' \in BOOLEAN
          /\ violations' \in SUBSET Instances
      <3>1. Matching(boundary, facts) \in SUBSET Instances
        BY MatchingInstances
      <3>2. Differences(facts') \in SUBSET Instances
        BY DEF Differences, Matching
      <3> QED
        BY <1>9, <3>1, <3>2, FireStores DEF DeriveOnce, TypeOK, Denials
    <2>2. pc' \in Phases
      BY <1>9 DEF DeriveOnce, Phases
    <2> QED
      BY <1>9, <2>1, <2>2 DEF DeriveOnce, TypeOK
  <1>10. CASE RunRound
    <2>1. /\ facts' \in SUBSET Atoms /\ complete' \in BOOLEAN
          /\ violations' \in SUBSET Instances
      <3>1. Differences(facts') \in SUBSET Instances
        BY DEF Differences, Matching
      <3> QED
        BY <1>10, <3>1, ScheduledMatching, FireStores DEF RunRound, TypeOK, Denials
    <2>2. pc' \in Phases
      BY <1>10 DEF RunRound, Phases
    <2>3. rounds' \in 0 .. MaxRounds
      BY <1>10, LimitsAssumption DEF RunRound, TypeOK
    <2> QED
      BY <1>10, <2>1, <2>2, <2>3 DEF RunRound, TypeOK
  <1>11. CASE RunLimit
    <2>1. pc' \in Phases /\ complete' \in BOOLEAN
      BY <1>11 DEF RunLimit, Phases
    <2> QED
      BY <1>11, <2>1 DEF RunLimit, TypeOK
  <1>12. CASE FixedPoint
    <2>1. pc' \in Phases
      BY <1>12 DEF FixedPoint, Phases
    <2> QED
      BY <1>12, <2>1 DEF FixedPoint, TypeOK
  <1>13. CASE Finish
    <2>1. violations' \in SUBSET Instances
      BY <1>13, MatchingInstances DEF Finish, TypeOK
    <2> QED
      BY <1>13, <2>1, ReturnTypes DEF Finish, TypeOK
  <1>14. CASE Fail
    <2>1. complete' \in BOOLEAN /\ failed' \in BOOLEAN
      BY <1>14 DEF Fail
    <2> QED
      BY <1>14, <2>1, ReturnTypes DEF Fail, TypeOK
  <1>15. CASE UNCHANGED vars
    BY <1>15 DEF vars, TypeOK
  <1> QED
    BY <1>1, <1>2, <1>3, <1>4, <1>5, <1>6, <1>7, <1>8, <1>9, <1>10, <1>11, <1>12,
       <1>13, <1>14, <1>15 DEF Next, Step

(* The empty engine is well typed.                                          *)
LEMMA InitTypes == ASSUME Init PROVE TypeOK
  <1> USE DEF Init
  <1>1. asserted \in SUBSET Assertable /\ rules \in SUBSET Rules /\ prepared \in SUBSET Rules
    BY InputsAssumption
  <1>2. complete \in BOOLEAN /\ failed \in BOOLEAN
    OBVIOUS
  <1>3. rounds \in 0 .. MaxRounds
    BY LimitsAssumption
  <1>4. pc \in Phases /\ mode \in Modes
    BY DEF Phases, Modes
  <1> QED
    BY <1>1, <1>2, <1>3, <1>4 DEF TypeOK

(* Every variable always has its type, whatever the program, the limits and *)
(* the transactions are.                                                    *)
THEOREM TypeCorrect == Spec => []TypeOK
  <1>1. Init => TypeOK
    BY InitTypes
  <1>2. TypeOK /\ [Next]_vars => TypeOK'
    BY TypeStep
  <1> QED
    BY <1>1, <1>2, PTL DEF Spec

-----------------------------------------------------------------------------
(* Steps that only add facts                                                *)

(* Ingesting atoms that hold in every model that has the stored facts keeps *)
(* the facts entailed, and closed unless a limit was met.                   *)
LEMMA GrowthIsSound ==
  ASSUME NEW B \in SUBSET Atoms, facts \in SUBSET Atoms, Ingest(B),
         UNCHANGED <<asserted, rules>>,
         Entailed(facts, asserted, rules),
         \A a \in facts : Implied(a) \subseteq facts,
         \A M \in SUBSET Atoms :
           IsModel(M, asserted, rules) /\ facts \subseteq M => B \subseteq M
  PROVE  /\ Entailed(facts, asserted, rules)'
         /\ complete' => \A a \in facts' : Implied(a) \subseteq facts'
  <1>1. /\ facts' \subseteq facts \cup ImpliedBy(B)
        /\ complete' => facts' = facts \cup ImpliedBy(B)
    BY IngestStores
  <1>2. \A M \in SUBSET Atoms : IsModel(M, asserted, rules) => B \subseteq M
    BY DEF Entailed
  <1>3. Entailed(facts', asserted, rules)
    BY <1>1, <1>2, EntailedIngestion
  <1>4. ASSUME NEW a \in ImpliedBy(B)
        PROVE  Implied(a) \subseteq ImpliedBy(B)
    <2>1. PICK b \in B : a \in Implied(b)
      BY DEF ImpliedBy
    <2>2. Implied(a) \subseteq Implied(b)
      BY <2>1, ImpliedClosed
    <2> QED
      BY <2>2 DEF ImpliedBy
  <1>5. complete' => \A a \in facts' : Implied(a) \subseteq facts'
    BY <1>1, <1>4
  <1> QED
    BY <1>3, <1>5

(* An instance that is owed after facts grew was owed before, or needs a    *)
(* new fact.                                                                *)
LEMMA OwedAfterGrowth ==
  ASSUME facts \subseteq facts', violations \subseteq violations',
         UNCHANGED <<rules, mode>>, NEW i \in Owed'
  PROVE  /\ i \in Instances /\ i.rule \in rules /\ i.body \subseteq facts'
         /\ i \in Owed \/ i.body \cap (facts' \ facts) # {}
  BY DEF Owed, Settled, Matching

(* A fired instance is settled.                                             *)
LEMMA FiredIsSettled ==
  ASSUME NEW I \in SUBSET Instances, facts \in SUBSET Atoms, Fire(I), complete',
         NEW i \in I
  PROVE  i \notin Owed'
  <1>1. facts' = facts \cup ImpliedBy(Heads(I)) /\ Denials(I) \subseteq violations'
    BY FireStores
  <1>2. i.head # NoHead => i.head \in Heads(I)
    BY DEF Heads
  <1>3. i.head # NoHead => i.head \in facts'
    BY <1>1, <1>2 DEF ImpliedBy, Implied
  <1>4. i.head = NoHead => i \in violations'
    BY <1>1 DEF Denials
  <1> QED
    BY <1>3, <1>4 DEF Owed, Settled

(* The heads of matching instances hold in every model with the facts.      *)
LEMMA HeadsInModels ==
  ASSUME NEW I \in SUBSET Matching(rules, facts),
         NEW M, IsModel(M, asserted, rules), facts \subseteq M
  PROVE  Heads(I) \subseteq M
  <1>1. Heads(I) \subseteq Heads(Matching(rules, facts))
    BY DEF Heads
  <1> QED
    BY <1>1, HeadsMonotone DEF IsModel

(* Violations of the built-in constraint are violations.                    *)
LEMMA DifferencesAreDenials ==
  ASSUME NEW R, NEW F
  PROVE  Differences(F) \subseteq Denials(Matching(R \cup {DifferenceRule}, F))
  BY RulesAssumption DEF Differences, Matching, Denials

(* More facts violate no fewer constraints.                                 *)
LEMMA DenialsMonotone ==
  ASSUME NEW R, NEW S, NEW F, NEW G, R \subseteq S, F \subseteq G
  PROVE  Denials(Matching(R, F)) \subseteq Denials(Matching(S, G))
  BY DEF Denials, Matching

-----------------------------------------------------------------------------
(* The invariant, action by action                                          *)

(* A call that starts over owes everything and reports nothing.             *)
LEMMA StartOver ==
  ASSUME BeginMaterialize(asserted'), TypeOK', ~MayInterruptPrepare => prepared' = rules'
  PROVE  Inductive'
  <1> USE DEF BeginMaterialize
  <1>1. PhaseInv'
    BY DEF PhaseInv, Growing
  <1>2. OverdeleteInv'
    BY DEF OverdeleteInv
  <1>3. SoundInv'
    BY DEF SoundInv, Entailed
  <1>4. IngestedInv'
    BY DEF IngestedInv, Growing
  <1>5. OwedInv'
    BY DEF OwedInv, Owed, Matching
  <1>6. FinishInv'
    BY DEF FinishInv
  <1>7. ReportInv'
    BY DEF ReportInv, Growing
  <1>8. CompleteIsLeastModel' /\ ViolationsAreCurrent'
    BY DEF CompleteIsLeastModel, ViolationsAreCurrent
  <1> QED
    BY <1>1, <1>2, <1>3, <1>4, <1>5, <1>6, <1>7, <1>8 DEF Inductive

(* An insertion keeps the old closure: it is entailed by the larger         *)
(* program, and only the new rules owe anything.                            *)
LEMMA InsertStep ==
  ASSUME Inductive, TypeOK', NEW q \in Requests, Update(q), BeginInsert(q), complete, ~Retracting(q)
  PROVE  Inductive'
  <1> USE DEF BeginInsert
  <1>1. /\ pc = "Idle"
        /\ asserted \subseteq asserted' /\ rules \subseteq rules'
        /\ added' = asserted' \ asserted /\ boundary' = rules' \ rules
        /\ IsModel(facts, asserted, rules) /\ Entailed(facts, asserted, rules)
        /\ violations = Denials(Matching(rules \cup {DifferenceRule}, facts))
    BY DEF Update, Retracting, Removed, DeletedRules, Added, InsertedRules, Inductive,
           CompleteIsLeastModel, ViolationsAreCurrent, IsLeastModel
  <1>2. PhaseInv'
    BY <1>1 DEF PhaseInv, Growing, Inductive, Update, Prepares, NextRules, InsertedRules
  <1>3. OverdeleteInv'
    BY DEF OverdeleteInv
  <1>4. SoundInv'
    BY <1>1, EntailedByMore DEF SoundInv
  <1>5. IngestedInv'
    <2>1. \A a \in facts : Implied(a) \subseteq facts
      BY <1>1 DEF IsModel
    <2>2. asserted' \ added' \subseteq facts
      BY <1>1 DEF IsModel
    <2>3. Domain({}, rules' \ boundary') \subseteq facts
      BY <1>1, DomainMonotone DEF IsModel
    <2> QED
      BY <2>1, <2>2, <2>3 DEF IngestedInv
  <1>6. OwedInv'
    <2>1. ASSUME NEW i \in Owed'
          PROVE  i.rule \in boundary'
      <3> SUFFICES ASSUME i.rule \in rules PROVE FALSE
        BY <1>1 DEF Owed, Matching
      <3>1. i \in Instances /\ i.body \subseteq facts /\ ~Settled(i)'
        BY DEF Owed, Matching
      <3>2. i.head # NoHead => i.head \in facts
        BY <1>1, <3>1, HeadsOfMatching DEF IsModel
      <3>3. i.head = NoHead => i \in violations
        BY <1>1, <3>1 DEF Denials, Matching
      <3> QED
        BY <3>1, <3>2, <3>3 DEF Settled
    <2> QED
      BY <2>1 DEF OwedInv
  <1>7. FinishInv'
    BY DEF FinishInv
  <1>8. ReportInv'
    <2>1. violations \subseteq Denials(Matching(rules' \cup {DifferenceRule}, facts))
      BY <1>1, DenialsMonotone
    <2>2. Differences(facts) \subseteq violations
      BY <1>1, DifferencesAreDenials
    <2> QED
      BY <2>1, <2>2 DEF ReportInv, Growing
  <1>9. CompleteIsLeastModel' /\ ViolationsAreCurrent'
    BY DEF CompleteIsLeastModel, ViolationsAreCurrent
  <1> QED
    BY <1>2, <1>3, <1>4, <1>5, <1>6, <1>7, <1>8, <1>9 DEF Inductive

(* DRed starts from the facts that lost a proof at once: a removed          *)
(* assertion, a conclusion of a removed rule, or a departed constant.       *)
LEMMA DredStep ==
  ASSUME Inductive, TypeOK', NEW q \in Requests, Update(q), BeginDred(q), complete, CanDred(q)
  PROVE  Inductive'
  <1> USE DEF BeginDred
  <1>1. /\ pc = "Idle"
        /\ OldAsserted' = asserted /\ previous' = rules
        /\ added' \subseteq asserted' /\ removed' = asserted \ asserted'
        /\ boundary' = rules' \ rules
        /\ IsLeastModel(facts, asserted, rules)
    BY DEF Update, OldAsserted, Removed, Added, InsertedRules, Inductive, CompleteIsLeastModel
  <1>2. PhaseInv'
    BY <1>1 DEF PhaseInv, Growing, Inductive, Update, Prepares, NextRules, InsertedRules
  <1>3. OverdeleteInv'
    <2> DEFINE gone == Protected(asserted', rules') \cup certified' \cup deleted'
               lost == Removed(q) \cup Heads(Matching(DeletedRules(q), facts))
    <2>1. IsModel(facts, asserted, rules) /\ facts \in SUBSET Atoms
      BY <1>1 DEF IsLeastModel, Inductive, TypeOK
    <2>2. /\ certified' \cup deleted' = (facts \cap (lost \cup {Mirror[a] : a \in lost} \cup Tops))
                                          \ Protected(asserted', rules')
          /\ certified' \cap deleted' = {} /\ delta' = deleted'
          /\ certified' \subseteq Provable(asserted', rules')
      BY DEF Seeds, Update, Certified
    <2>3. facts \cap (removed' \cup Tops) \subseteq gone
      BY <2>2
    <2>4. Heads(Matching(previous' \ rules', facts)) \subseteq gone
      <3>1. previous' \ rules' = DeletedRules(q)
        BY DEF DeletedRules, Update
      <3>2. Heads(Matching(previous' \ rules', facts)) \subseteq facts
        BY <2>1, HeadsMonotone DEF IsModel
      <3> QED
        BY <3>1, <3>2, <2>2
    <2>5. \A a \in deleted' : Mirror[a] \in gone
      <3> SUFFICES ASSUME NEW a \in deleted' PROVE Mirror[a] \in gone
        OBVIOUS
      <3>1. a \in facts /\ a \in Atoms /\ Mirror[a] \in facts
        BY <2>1, <2>2 DEF IsModel, Implied
      <3>2. CASE a \in lost
        BY <3>1, <3>2, <2>2
      <3>3. ASSUME NEW b \in lost, a = Mirror[b]
            PROVE  Mirror[a] \in gone
        <4>1. b \in Atoms
          BY InstanceParts, AtomsAssumption DEF Inductive, TypeOK, Removed, Heads, Matching
        <4>2. Mirror[a] = b
          BY <3>3, <4>1, MirrorAssumption
        <4> QED
          BY <3>1, <3>3, <4>2, <2>2
      <3>4. CASE a \in Tops
        BY <3>1, <3>4, MirrorAssumption
      <3> QED
        BY <2>2, <3>2, <3>3, <3>4
    <2>6. Heads({i \in Matching(previous', facts) : i.body \cap (deleted' \ delta') # {}}) \subseteq gone
      BY DEF Heads
    <2>7. previous' \cap FunctionRules = {}
      BY <1>1 DEF CanDred
    <2> QED
      BY <1>1, <2>2, <2>3, <2>4, <2>5, <2>6, <2>7 DEF OverdeleteInv
  <1>4. SoundInv'
    BY DEF SoundInv, Growing
  <1>5. IngestedInv'
    BY DEF IngestedInv, Growing
  <1>6. OwedInv'
    BY DEF OwedInv, Seeds
  <1>7. FinishInv'
    BY DEF FinishInv
  <1>8. ReportInv'
    BY DEF ReportInv, Growing
  <1>9. CompleteIsLeastModel' /\ ViolationsAreCurrent'
    BY DEF CompleteIsLeastModel, ViolationsAreCurrent
  <1> QED
    BY <1>2, <1>3, <1>4, <1>5, <1>6, <1>7, <1>8, <1>9 DEF Inductive

(* A round of overdeletion follows the facts of delta and nothing else.     *)
LEMMA OverdeleteRoundStep ==
  ASSUME Inductive, TypeOK', OverdeleteRound
  PROVE  Inductive'
  <1>0. /\ pc = "Overdelete"
        /\ UNCHANGED <<asserted, rules, prepared, facts, complete, violations, failed, pc,
                       mode, added, removed, previous, boundary>>
        /\ deleted' = deleted \cup delta'
    BY DEF OverdeleteRound, program
  <1>1. PhaseInv'
    BY <1>0 DEF PhaseInv, Inductive
  <1>2. OverdeleteInv'
    <2> DEFINE protected == Protected(asserted, rules) \cup certified
               held      == Protected(asserted, rules) \cup certified'
               fired == {i \in Matching(previous, facts) : i.body \cap delta # {}}
               lost  == (facts \cap Heads(fired)) \ (protected \cup deleted)
    <2>1. /\ IsLeastModel(facts, OldAsserted, previous)
          /\ certified \subseteq Provable(asserted, rules)
          /\ delta \subseteq deleted
          /\ deleted \subseteq facts \ protected
          /\ facts \cap (removed \cup Tops) \subseteq deleted \cup protected
          /\ Heads(Matching(previous \ rules, facts)) \subseteq deleted \cup protected
          /\ Heads({i \in Matching(previous, facts) : i.body \cap (deleted \ delta) # {}})
               \subseteq deleted \cup protected
          /\ {Mirror[a] : a \in deleted} \subseteq deleted \cup protected
          /\ boundary = rules \ previous
          /\ previous \cap FunctionRules = {}
      BY <1>0 DEF Inductive, OverdeleteInv
    <2>2. IsModel(facts, OldAsserted, previous) /\ facts \in SUBSET Atoms
      BY <2>1 DEF IsLeastModel, Inductive, TypeOK
    <2> DEFINE losing == Losing(protected \cup deleted)
    <2>4. losing = lost \cup ({Mirror[a] : a \in lost} \ (protected \cup deleted))
      BY DEF Losing
    <2>5. losing \subseteq facts \ (protected \cup deleted)
      BY <2>2, <2>4 DEF IsModel, Implied
    <2>6. \A a \in lost : Mirror[Mirror[a]] = a
      BY <2>2, MirrorAssumption
    <2>7. PICK found \in SUBSET (losing \cap Provable(asserted, rules)) :
             certified' = certified \cup found /\ delta' = losing \ found
      BY DEF OverdeleteRound, Certified
    <2>12. held = protected \cup certified'
      BY <2>7
    <2> HIDE DEF losing, lost, fired, protected, held
    <2>8. /\ certified' \subseteq Provable(asserted, rules)
          /\ delta' \subseteq facts \ (held \cup deleted)
          /\ deleted' \subseteq facts \ held
          /\ deleted' \ delta' = deleted
          /\ protected \cup deleted \cup losing \subseteq held \cup deleted'
      BY <1>0, <2>1, <2>5, <2>7, <2>12 DEF protected
    <2>9. \A a \in deleted' : Mirror[a] \in deleted' \cup held
      <3>1. \A a \in deleted : Mirror[a] \in deleted \cup protected
        BY <2>1
      <3>2. \A a \in losing : Mirror[a] \in protected \cup deleted \cup losing
        BY <2>4, <2>6
      <3>3. \A a \in deleted' : a \in deleted \/ a \in losing
        BY <1>0, <2>7
      <3> QED
        BY <2>8, <3>1, <3>2, <3>3
    <2>10. Heads({i \in Matching(previous, facts) : i.body \cap deleted # {}})
            \subseteq deleted' \cup held
      <3> SUFFICES ASSUME NEW i \in Matching(previous, facts),
                          i.body \cap deleted # {}, i.head # NoHead
                   PROVE  i.head \in deleted' \cup held
        BY DEF Heads
      <3>1. CASE i.body \cap (deleted \ delta) # {}
        BY <2>1, <2>8, <3>1 DEF Heads
      <3>2. CASE i.body \cap delta # {}
        <4>1. i.head \in facts
          <5>1. i \in Instances /\ i.rule \in previous /\ i.body \subseteq facts
            BY DEF Matching
          <5> QED
            BY <2>2, <5>1, HeadsOfMatching DEF IsModel
        <4>2. i.head \in Heads(fired)
          BY <3>2 DEF Heads, fired
        <4>3. i.head \in protected \cup deleted \cup losing
          BY <4>1, <4>2, <2>4 DEF lost
        <4> QED
          BY <4>3, <2>8
      <3> QED
        BY <2>1, <3>1, <3>2
    <2>11. /\ facts \cap (removed \cup Tops) \subseteq deleted' \cup held
           /\ Heads(Matching(previous \ rules, facts)) \subseteq deleted' \cup held
           /\ Heads({i \in Matching(previous, facts) : i.body \cap (deleted' \ delta') # {}})
                \subseteq deleted' \cup held
      <3>1. deleted \cup protected \subseteq deleted' \cup held
        BY <2>8
      <3> QED
        BY <2>1, <2>8, <2>10, <3>1
    <2>13. {Mirror[a] : a \in deleted'} \subseteq deleted' \cup held
      BY <2>9
    <2>14. held = Protected(asserted', rules') \cup certified'
      BY <1>0 DEF held
    <2>15. OldAsserted' = OldAsserted
      BY <1>0 DEF OldAsserted
    <2>16. delta' \subseteq deleted'
      BY <1>0
    <2> QED
      BY <1>0, <2>1, <2>8, <2>11, <2>13, <2>14, <2>15, <2>16 DEF OverdeleteInv
  <1>3. OwedInv'
    BY <1>0, <1>2 DEF OwedInv, OverdeleteInv
  <1>4. SoundInv' /\ IngestedInv'
    BY <1>0 DEF SoundInv, IngestedInv, Growing
  <1>5. FinishInv' /\ ReportInv'
    BY <1>0 DEF FinishInv, ReportInv, Growing
  <1>6. CompleteIsLeastModel' /\ ViolationsAreCurrent'
    BY <1>0 DEF CompleteIsLeastModel, ViolationsAreCurrent
  <1> QED
    BY <1>1, <1>2, <1>3, <1>4, <1>5, <1>6 DEF Inductive

(* When delta is empty, the deleted facts are all that lost a proof.        *)
LEMMA AllOverdeleted ==
  ASSUME TypeOK, OverdeleteInv, pc = "Overdelete", delta = {}
  PROVE  Overdeleted(facts, deleted, OldAsserted, previous, asserted, rules)
  <1> DEFINE gone == deleted \cup Protected(asserted, rules) \cup certified
  <1>1. IsModel(facts, OldAsserted, previous) /\ IsLeastModel(facts, OldAsserted, previous)
    BY DEF OverdeleteInv, IsLeastModel
  <1>2. OldAsserted \subseteq asserted \cup gone
    BY <1>1 DEF OldAsserted, OverdeleteInv, IsModel
  <1>3. ASSUME NEW i \in Instances,
               i.rule \in previous, i.body \subseteq facts, i.head # NoHead,
               i.rule \notin rules \/ i.body \cap deleted # {}
        PROVE  i.head \in gone
    <2>1. CASE i.rule \notin rules
      BY <1>3, <2>1, HeadsOfMatching DEF OverdeleteInv
    <2>2. CASE i.body \cap deleted # {}
      <3>1. i \in {j \in Matching(previous, facts) : j.body \cap (deleted \ delta) # {}}
        BY <1>3, <2>2 DEF Matching
      <3> QED
        BY <1>3, <3>1 DEF OverdeleteInv, Heads
    <2> QED
      BY <1>3, <2>1, <2>2
  <1>4. gone \subseteq deleted \cup Supported(asserted, rules)
    BY DEF OverdeleteInv, Supported
  <1> QED
    BY <1>1, <1>2, <1>3, <1>4 DEF OverdeleteInv, Overdeleted

(* Withdrawal leaves facts the new program entails; what it withdrew in     *)
(* excess is owed by the rules that define the withdrawn predicates.        *)
LEMMA WithdrawStep ==
  ASSUME Inductive, TypeOK', Withdraw
  PROVE  Inductive'
  <1> USE DEF Withdraw, program
  <1>1. /\ TypeOK /\ OverdeleteInv /\ mode = "dred" /\ complete
        /\ added \subseteq asserted
        /\ boundary = rules \ previous /\ deleted \subseteq facts \ Protected(asserted, rules)
        /\ IsModel(facts, OldAsserted, previous)
    BY DEF Inductive, PhaseInv, OverdeleteInv, IsLeastModel
  <1>2. Overdeleted(facts, deleted, OldAsserted, previous, asserted, rules)
    BY <1>1, AllOverdeleted
  <1>3. OldAsserted \in SUBSET Assertable
    BY <1>1 DEF OldAsserted, TypeOK
  <1>4. Entailed(facts', asserted', rules')
    BY <1>1, <1>2, <1>3, SurvivorsEntailed DEF TypeOK
  <1>5. \A a \in facts' : Implied(a) \subseteq facts'
    BY <1>1, <1>2, <1>3, SurvivorsClosed DEF TypeOK
  <1>6. PhaseInv'
    BY <1>1 DEF PhaseInv, Growing, Inductive
  <1>7. OverdeleteInv'
    BY DEF OverdeleteInv
  <1>8. SoundInv'
    BY <1>4 DEF SoundInv
  <1>9. IngestedInv'
    <2>1. asserted \ added \subseteq facts
      BY <1>1 DEF OldAsserted, IsModel
    <2>2. asserted \subseteq Protected(asserted, rules)
      BY DEF Protected
    <2>3. asserted' \ added' \subseteq facts'
      BY <1>1, <2>1, <2>2
    <2> QED
      BY <1>1, <1>5, <2>3 DEF IngestedInv
  <1>10. OwedInv'
    <2>1. ASSUME NEW i \in Owed'
          PROVE  i.rule \in boundary'
      <3>1. i \in Instances /\ i.rule \in rules /\ i.body \subseteq facts \ deleted
        BY DEF Owed, Matching
      <3>2. i.head # NoHead /\ i.head \notin facts \ deleted
        BY <1>1 DEF Owed, Settled
      <3>3. CASE i.rule \in previous
        <4>1. i.head \in facts
          BY <1>1, <3>1, <3>2, <3>3, HeadsOfMatching DEF IsModel
        <4>2. Defines(i.rule, deleted)
          BY <3>1, <3>2, <4>1 DEF Defines
        <4> QED
          BY <3>1, <4>2
      <3>4. CASE i.rule \notin previous
        BY <1>1, <3>1, <3>4
      <3> QED
        BY <3>3, <3>4
    <2> QED
      BY <2>1 DEF OwedInv
  <1>11. FinishInv' /\ ReportInv'
    BY <1>1 DEF FinishInv, ReportInv
  <1>12. CompleteIsLeastModel' /\ ViolationsAreCurrent'
    BY DEF CompleteIsLeastModel, ViolationsAreCurrent
  <1> QED
    BY <1>6, <1>7, <1>8, <1>9, <1>10, <1>11, <1>12 DEF Inductive

(* Ingesting the domain keeps the invariant and owes only new facts.        *)
LEMMA IngestDomainStep ==
  ASSUME Inductive, TypeOK', IngestDomain
  PROVE  Inductive'
  <1> USE DEF IngestDomain, program, locals
  <1>1. PICK D \in DomainsToIngest : Ingest(D)
    OBVIOUS
  <1>2. /\ TypeOK /\ complete /\ boundary \subseteq rules /\ added \subseteq asserted
        /\ mode \in {"materialize", "insert", "dred"}
        /\ Entailed(facts, asserted, rules)
        /\ \A a \in facts : Implied(a) \subseteq facts
    BY DEF Inductive, PhaseInv, Growing, SoundInv, IngestedInv
  <1>3. D \in SUBSET Atoms /\ D \subseteq Domain(asserted, rules)
    BY <1>2, DomainsAtoms, DomainsInDomain
  <1>4. /\ facts \subseteq facts' /\ facts' \subseteq Atoms
        /\ complete' \in BOOLEAN
        /\ complete' => facts' = facts \cup ImpliedBy(D)
    BY <1>1, <1>2, <1>3, IngestStores DEF TypeOK
  <1>5. /\ Entailed(facts', asserted', rules')
        /\ complete' => \A a \in facts' : Implied(a) \subseteq facts'
    <2>1. \A M \in SUBSET Atoms : IsModel(M, asserted, rules) => D \subseteq M
      BY <1>3 DEF IsModel
    <2> QED
      BY <1>1, <1>2, <1>3, <2>1, GrowthIsSound DEF TypeOK
  <1>6. complete' => Domain({}, rules) \subseteq facts'
    <2> SUFFICES ASSUME complete' PROVE Domain({}, rules) \subseteq facts'
      OBVIOUS
    <2>1. D \subseteq facts'
      BY <1>4 DEF ImpliedBy, Implied
    <2>2. CASE D = Domain(asserted, rules)
      BY <2>1, <2>2, DomainMonotone
    <2>3. CASE mode = "insert" /\ D = UNION {RuleTops[r] : r \in boundary}
      <3>1. Domain({}, rules \ boundary) \subseteq facts
        BY <2>3 DEF Inductive, IngestedInv
      <3>2. Domain({}, rules) \subseteq Domain({}, rules \ boundary) \cup D
        BY <2>3 DEF Domain
      <3> QED
        BY <1>4, <2>1, <3>1, <3>2
    <2> QED
      BY <2>2, <2>3 DEF DomainsToIngest
  <1>7. /\ complete' => pc' = "Assert"
        /\ ~complete' => pc' = "Finish"
    OBVIOUS
  <1>8. PhaseInv'
    BY <1>2, <1>7 DEF PhaseInv, Growing, Inductive
  <1>9. OverdeleteInv'
    BY <1>7 DEF OverdeleteInv
  <1>10. SoundInv'
    BY <1>5 DEF SoundInv
  <1>11. IngestedInv'
    <2>1. mode # "materialize" => asserted \ added \subseteq facts'
      BY <1>4 DEF Inductive, IngestedInv
    <2>2. mode = "materialize" => added = asserted /\ delta' = facts' /\ boundary = {}
      BY <1>4 DEF Inductive, IngestedInv
    <2> QED
      BY <1>5, <1>6, <1>7, <2>1, <2>2 DEF IngestedInv, Growing
  <1>12. OwedInv'
    <2>1. violations \subseteq violations' /\ mode' = mode /\ rules' = rules
      OBVIOUS
    <2>2. ASSUME NEW i \in Owed'
          PROVE  \/ i.rule \in boundary
                 \/ i.body \cap delta' # {}
                 \/ mode = "materialize" /\ i.body = {}
      <3>1. i \in Owed \/ i.body \cap (facts' \ facts) # {}
        BY <1>4, <2>1, OwedAfterGrowth
      <3> QED
        BY <3>1 DEF Inductive, OwedInv
    <2>3. delta' \subseteq facts'
      BY <1>4 DEF Inductive, OwedInv
    <2> QED
      BY <1>7, <2>2, <2>3 DEF OwedInv
  <1>13. FinishInv'
    BY <1>7 DEF FinishInv
  <1>14. ReportInv'
    <2>1. violations' \subseteq Denials(Matching(rules \cup {DifferenceRule}, facts'))
      BY <1>4, DenialsMonotone, DifferencesAreDenials DEF Inductive, ReportInv, Growing
    <2> QED
      BY <1>7, <2>1 DEF ReportInv
  <1>15. CompleteIsLeastModel' /\ ViolationsAreCurrent'
    BY <1>7 DEF CompleteIsLeastModel, ViolationsAreCurrent
  <1> QED
    BY <1>8, <1>9, <1>10, <1>11, <1>12, <1>13, <1>14, <1>15 DEF Inductive

(* Ingesting the assertions keeps the invariant and owes only new facts.    *)
LEMMA IngestAssertionsStep ==
  ASSUME Inductive, TypeOK', IngestAssertions
  PROVE  Inductive'
  <1> USE DEF IngestAssertions, program, locals
  <1>1. /\ TypeOK /\ complete /\ boundary \subseteq rules /\ added \subseteq asserted
        /\ mode \in {"materialize", "insert", "dred"}
        /\ Entailed(facts, asserted, rules)
        /\ \A a \in facts : Implied(a) \subseteq facts
        /\ Domain({}, rules) \subseteq facts
    BY DEF Inductive, PhaseInv, Growing, SoundInv, IngestedInv
  <1>2. added \in SUBSET Atoms
    BY <1>1, AssertableAtoms DEF TypeOK
  <1>3. /\ facts \subseteq facts' /\ facts' \subseteq Atoms
        /\ complete' \in BOOLEAN
        /\ complete' => facts' = facts \cup ImpliedBy(added)
    BY <1>1, <1>2, IngestStores DEF TypeOK
  <1>4. /\ Entailed(facts', asserted', rules')
        /\ complete' => \A a \in facts' : Implied(a) \subseteq facts'
    <2>1. \A M \in SUBSET Atoms : IsModel(M, asserted, rules) => added \subseteq M
      BY <1>1 DEF IsModel
    <2> QED
      BY <1>1, <1>2, <2>1, GrowthIsSound DEF TypeOK
  <1>5. complete' => asserted \cup Domain(asserted, rules) \subseteq facts'
    <2> SUFFICES ASSUME complete' PROVE asserted \cup Domain(asserted, rules) \subseteq facts'
      OBVIOUS
    <2>1. added \subseteq facts'
      BY <1>3 DEF ImpliedBy, Implied
    <2>2. asserted \subseteq facts'
      BY <1>3, <2>1 DEF Inductive, IngestedInv
    <2>3. \A a \in asserted : AtomTops[a] \subseteq facts'
      BY <1>4, <2>2 DEF Implied
    <2>4. Domain({}, rules) \subseteq facts'
      BY <1>1, <1>3
    <2> QED
      BY <2>2, <2>3, <2>4 DEF Domain
  <1>6. /\ ~complete' => pc' = "Finish"
        /\ complete' /\ mode = "materialize" => pc' = "Run"
        /\ complete' /\ mode # "materialize" => pc' = "Derive"
        /\ pc' \in {"Finish", "Run", "Derive"}
    OBVIOUS
  <1>7. PhaseInv'
    BY <1>1, <1>6 DEF PhaseInv, Growing, Inductive
  <1>8. OverdeleteInv'
    BY <1>6 DEF OverdeleteInv
  <1>9. SoundInv'
    BY <1>4 DEF SoundInv
  <1>10. IngestedInv'
    BY <1>4, <1>5, <1>6 DEF IngestedInv, Growing
  <1>11. OwedInv'
    <2>1. violations \subseteq violations' /\ mode' = mode /\ rules' = rules
      OBVIOUS
    <2>2. ASSUME NEW i \in Owed'
          PROVE  \/ i.rule \in boundary
                 \/ i.body \cap delta' # {}
                 \/ mode = "materialize" /\ i.body = {}
      <3>1. i \in Owed \/ i.body \cap (facts' \ facts) # {}
        BY <1>3, <2>1, OwedAfterGrowth
      <3> QED
        BY <3>1 DEF Inductive, OwedInv
    <2>3. delta' \subseteq facts'
      BY <1>3 DEF Inductive, OwedInv
    <2>4. mode = "materialize" => boundary = {} /\ SeedTop \in delta'
      BY <1>1 DEF Inductive, IngestedInv, Domain
    <2> QED
      BY <1>6, <2>2, <2>3, <2>4 DEF OwedInv
  <1>12. FinishInv'
    BY <1>6 DEF FinishInv
  <1>13. ReportInv'
    <2>1. violations' \subseteq Denials(Matching(rules \cup {DifferenceRule}, facts'))
      BY <1>3, DenialsMonotone, DifferencesAreDenials DEF Inductive, ReportInv, Growing
    <2> QED
      BY <1>6, <2>1 DEF ReportInv
  <1>14. CompleteIsLeastModel' /\ ViolationsAreCurrent'
    BY <1>6 DEF CompleteIsLeastModel, ViolationsAreCurrent
  <1> QED
    BY <1>7, <1>8, <1>9, <1>10, <1>11, <1>12, <1>13, <1>14 DEF Inductive

(* What evaluating any matching instances of the current rules keeps.       *)
LEMMA FiringKeeps ==
  ASSUME Inductive, pc \in {"Derive", "Run"},
         NEW I \in SUBSET Matching(rules, facts), Fire(I), UNCHANGED <<asserted, rules>>
  PROVE  /\ facts \subseteq facts' /\ facts' \subseteq Atoms
         /\ complete' \in BOOLEAN
         /\ violations \subseteq violations'
         /\ Entailed(facts', asserted', rules')
         /\ complete' => \A a \in facts' : Implied(a) \subseteq facts'
         /\ asserted \cup Domain(asserted, rules) \subseteq facts'
         /\ violations' \subseteq Denials(Matching(rules \cup {DifferenceRule}, facts'))
         /\ Differences(facts') \subseteq violations'
  <1>1. /\ TypeOK
        /\ Entailed(facts, asserted, rules)
        /\ \A a \in facts : Implied(a) \subseteq facts
        /\ asserted \cup Domain(asserted, rules) \subseteq facts
        /\ violations \subseteq Denials(Matching(rules \cup {DifferenceRule}, facts))
    BY DEF Inductive, SoundInv, IngestedInv, ReportInv, Growing
  <1>2. I \in SUBSET Instances
    BY DEF Matching
  <1>3. Heads(I) \in SUBSET Atoms
    BY <1>2, InstanceParts DEF Heads
  <1>4. Ingest(Heads(I))
    BY DEF Fire
  <1>5. /\ facts \subseteq facts' /\ facts' \subseteq Atoms
        /\ complete' \in BOOLEAN
        /\ violations' \subseteq violations \cup Denials(I) \cup Differences(facts')
        /\ violations \cup Differences(facts') \subseteq violations'
    BY <1>1, <1>2, FireStores DEF TypeOK
  <1>6. \A M \in SUBSET Atoms : IsModel(M, asserted, rules) /\ facts \subseteq M => Heads(I) \subseteq M
    BY HeadsInModels
  <1>7. /\ Entailed(facts', asserted', rules')
        /\ complete' => \A a \in facts' : Implied(a) \subseteq facts'
    BY <1>1, <1>3, <1>4, <1>6, GrowthIsSound DEF TypeOK
  <1>8. violations' \subseteq Denials(Matching(rules \cup {DifferenceRule}, facts'))
    <2>1. Denials(I) \subseteq Denials(Matching(rules \cup {DifferenceRule}, facts))
      BY DEF Denials, Matching
    <2> QED
      BY <1>1, <1>5, <2>1, DenialsMonotone, DifferencesAreDenials
  <1> QED
    BY <1>1, <1>5, <1>7, <1>8

(* After the boundary rules have been evaluated once, every instance owed   *)
(* has a premise in delta.                                                  *)
LEMMA DeriveOnceStep ==
  ASSUME Inductive, TypeOK', DeriveOnce
  PROVE  Inductive'
  <1> USE DEF DeriveOnce, program, locals
  <1>1. /\ TypeOK /\ boundary \subseteq rules /\ mode \in {"insert", "dred"}
    BY DEF Inductive, PhaseInv, Growing
  <1>2. /\ Matching(boundary, facts) \in SUBSET Matching(rules, facts)
        /\ Matching(boundary, facts) \in SUBSET Instances
    BY <1>1 DEF Matching
  <1>3. /\ facts \subseteq facts' /\ facts' \subseteq Atoms
        /\ complete' \in BOOLEAN
        /\ violations \subseteq violations'
        /\ Entailed(facts', asserted', rules')
        /\ complete' => \A a \in facts' : Implied(a) \subseteq facts'
        /\ asserted \cup Domain(asserted, rules) \subseteq facts'
        /\ violations' \subseteq Denials(Matching(rules \cup {DifferenceRule}, facts'))
        /\ Differences(facts') \subseteq violations'
    BY <1>2, FiringKeeps
  <1>4. /\ complete' => pc' = "Run"
        /\ ~complete' => pc' = "Finish"
    OBVIOUS
  <1>5. PhaseInv'
    BY <1>1, <1>4 DEF PhaseInv, Growing, Inductive
  <1>6. OverdeleteInv'
    BY <1>4 DEF OverdeleteInv
  <1>7. SoundInv'
    BY <1>3 DEF SoundInv
  <1>8. IngestedInv'
    BY <1>3, <1>4 DEF IngestedInv, Growing
  <1>9. OwedInv'
    <2>1. ASSUME NEW i \in Owed', complete'
          PROVE  i.body \cap delta' # {}
      <3>1. i \in Owed \/ i.body \cap (facts' \ facts) # {}
        BY <1>3, OwedAfterGrowth
      <3>2. CASE i \in Owed
        <4>1. i.rule \in boundary \/ i.body \cap delta # {}
          BY <1>1, <3>2 DEF Inductive, OwedInv
        <4>2. i.rule \notin boundary
          <5>1. i \notin Matching(boundary, facts)
            BY <1>1, <1>2, <2>1, FiredIsSettled DEF TypeOK
          <5> QED
            BY <3>2, <5>1 DEF Owed, Matching
        <4> QED
          BY <4>1, <4>2
      <3> QED
        BY <3>1, <3>2
    <2>2. delta' \subseteq facts'
      BY <1>3 DEF Inductive, OwedInv
    <2> QED
      BY <1>4, <2>1, <2>2 DEF OwedInv
  <1>10. FinishInv'
    BY <1>4 DEF FinishInv
  <1>11. ReportInv'
    BY <1>3, <1>4 DEF ReportInv
  <1>12. CompleteIsLeastModel' /\ ViolationsAreCurrent'
    BY <1>4 DEF CompleteIsLeastModel, ViolationsAreCurrent
  <1> QED
    BY <1>5, <1>6, <1>7, <1>8, <1>9, <1>10, <1>11, <1>12 DEF Inductive

(* A round schedules everything that is owed.                               *)
LEMMA OwedIsScheduled ==
  ASSUME Schedulable, Inductive, pc = "Run", NEW i \in Owed
  PROVE  i \in Scheduled
  <1>1. i \in Matching(rules, facts) /\ i \in Instances /\ i.rule \in rules
    BY DEF Owed, Matching
  <1>2. CASE Strategy = "naive"
    BY <1>1, <1>2 DEF Scheduled
  <1>3. CASE Strategy # "naive"
    <2>1. prepared = rules
      BY <1>3 DEF Schedulable, Inductive, PhaseInv
    <2>2. i.body \cap delta # {} \/ i.body = {}
      BY DEF Inductive, OwedInv
    <2>3. i.body = {} => i.rule \in GlobalRules
      BY <1>1, <1>3 DEF Schedulable, Inductive, TypeOK
    <2> QED
      BY <1>1, <1>3, <2>1, <2>2, <2>3 DEF Scheduled, Matching
  <1> QED
    BY <1>2, <1>3

(* A semi-naive round pays what was owed and owes only its new facts.       *)
LEMMA RunRoundStep ==
  ASSUME Schedulable, Inductive, TypeOK', RunRound
  PROVE  Inductive'
  <1> USE DEF RunRound, program, locals
  <1>1. TypeOK /\ mode \in {"materialize", "insert", "dred"}
    BY DEF Inductive, PhaseInv, Growing
  <1>2. Scheduled \in SUBSET Matching(rules, facts) /\ Scheduled \in SUBSET Instances
    BY ScheduledMatching
  <1>3. /\ facts \subseteq facts' /\ facts' \subseteq Atoms
        /\ complete' \in BOOLEAN
        /\ violations \subseteq violations'
        /\ Entailed(facts', asserted', rules')
        /\ complete' => \A a \in facts' : Implied(a) \subseteq facts'
        /\ asserted \cup Domain(asserted, rules) \subseteq facts'
        /\ violations' \subseteq Denials(Matching(rules \cup {DifferenceRule}, facts'))
        /\ Differences(facts') \subseteq violations'
    BY <1>2, FiringKeeps
  <1>4. /\ complete' => pc' = "Run"
        /\ ~complete' => pc' = "Finish"
    OBVIOUS
  <1>5. PhaseInv'
    BY <1>1, <1>4 DEF PhaseInv, Growing, Inductive
  <1>6. OverdeleteInv'
    BY <1>4 DEF OverdeleteInv
  <1>7. SoundInv'
    BY <1>3 DEF SoundInv
  <1>8. IngestedInv'
    BY <1>3, <1>4 DEF IngestedInv, Growing
  <1>9. OwedInv'
    <2>1. ASSUME NEW i \in Owed', complete'
          PROVE  i.body \cap delta' # {}
      <3>1. i \in Owed \/ i.body \cap (facts' \ facts) # {}
        BY <1>3, OwedAfterGrowth
      <3>2. i \notin Scheduled
        BY <1>1, <1>2, <2>1, FiredIsSettled DEF TypeOK
      <3>3. i \notin Owed
        BY <3>2, OwedIsScheduled
      <3> QED
        BY <3>1, <3>3
    <2> QED
      BY <1>3, <1>4, <2>1 DEF OwedInv
  <1>10. FinishInv'
    BY <1>4 DEF FinishInv
  <1>11. ReportInv'
    BY <1>3, <1>4 DEF ReportInv
  <1>12. CompleteIsLeastModel' /\ ViolationsAreCurrent'
    BY <1>4 DEF CompleteIsLeastModel, ViolationsAreCurrent
  <1> QED
    BY <1>5, <1>6, <1>7, <1>8, <1>9, <1>10, <1>11, <1>12 DEF Inductive

(* A call that meets the round limit keeps entailed facts, not complete.    *)
LEMMA RunLimitStep ==
  ASSUME Inductive, TypeOK', RunLimit
  PROVE  Inductive'
  <1> USE DEF RunLimit, program, locals
  <1>1. PhaseInv' /\ OverdeleteInv' /\ IngestedInv'
    BY DEF Inductive, PhaseInv, OverdeleteInv, IngestedInv, Growing
  <1>2. SoundInv' /\ OwedInv' /\ FinishInv'
    BY DEF Inductive, SoundInv, OwedInv, FinishInv, Growing
  <1>3. ReportInv'
    BY DEF Inductive, ReportInv, Growing
  <1>4. CompleteIsLeastModel' /\ ViolationsAreCurrent'
    BY DEF CompleteIsLeastModel, ViolationsAreCurrent
  <1> QED
    BY <1>1, <1>2, <1>3, <1>4 DEF Inductive

(* With delta empty nothing is owed, so the facts are a model.              *)
LEMMA FixedPointStep ==
  ASSUME Inductive, TypeOK', FixedPoint
  PROVE  Inductive'
  <1> USE DEF FixedPoint, program, locals
  <1>1. PhaseInv' /\ OverdeleteInv' /\ IngestedInv'
    BY DEF Inductive, PhaseInv, OverdeleteInv, IngestedInv, Growing
  <1>2. SoundInv' /\ OwedInv'
    BY DEF Inductive, SoundInv, OwedInv, Growing
  <1>3. FinishInv'
    <2>1. Owed = {}
      BY DEF Inductive, OwedInv
    <2>2. Heads(Matching(rules, facts)) \subseteq facts
      BY <2>1 DEF Owed, Settled, Heads
    <2>3. IsModel(facts, asserted, rules)
      BY <2>2 DEF IsModel, Inductive, IngestedInv, Growing
    <2> QED
      BY <2>1, <2>3 DEF FinishInv, Owed, Settled
  <1>4. ReportInv'
    BY DEF Inductive, ReportInv, Growing
  <1>5. CompleteIsLeastModel' /\ ViolationsAreCurrent'
    BY DEF CompleteIsLeastModel, ViolationsAreCurrent
  <1> QED
    BY <1>1, <1>2, <1>3, <1>4, <1>5 DEF Inductive

(* Between calls only the advertised properties remain to be shown.         *)
LEMMA IdleInductive ==
  ASSUME TypeOK', pc' = "Idle", delta' = {},
         ~MayInterruptPrepare => prepared' = rules',
         SoundInv', CompleteIsLeastModel', ViolationsAreCurrent'
  PROVE  Inductive'
  <1>1. PhaseInv' /\ OverdeleteInv' /\ IngestedInv' /\ OwedInv'
    BY DEF PhaseInv, OverdeleteInv, IngestedInv, OwedInv, Growing
  <1>2. FinishInv' /\ ReportInv'
    BY DEF FinishInv, ReportInv, Growing
  <1> QED
    BY <1>1, <1>2 DEF Inductive

(* Only a model whose violations are reported is published.                 *)
LEMMA FinishStep ==
  ASSUME Inductive, TypeOK', Finish
  PROVE  Inductive'
  <1> USE DEF Finish, Return, program
  <1>1. SoundInv'
    BY DEF Inductive, SoundInv
  <1>2. CompleteIsLeastModel'
    BY DEF Inductive, FinishInv, SoundInv, CompleteIsLeastModel, IsLeastModel
  <1>3. ViolationsAreCurrent'
    <2> SUFFICES ASSUME complete
                 PROVE  violations' = Denials(Matching(rules \cup {DifferenceRule}, facts))
      BY DEF ViolationsAreCurrent
    <2>1. /\ violations \subseteq Denials(Matching(rules \cup {DifferenceRule}, facts))
          /\ Differences(facts) \subseteq violations
          /\ Owed = {}
      BY DEF Inductive, ReportInv, FinishInv
    <2>2. Denials(Matching(rules \cup {DifferenceRule}, facts))
            = Differences(facts) \cup Denials(Matching(rules, facts))
      BY RulesAssumption DEF Differences, Denials, Matching
    <2>3. CASE mode = "dred"
      BY <2>1, <2>2, <2>3
    <2>4. CASE mode # "dred"
      <3>1. Denials(Matching(rules, facts)) \subseteq violations
        BY <2>1, <2>4 DEF Owed, Settled, Denials
      <3> QED
        BY <2>1, <2>2, <2>4, <3>1
    <2> QED
      BY <2>3, <2>4
  <1> QED
    BY <1>1, <1>2, <1>3, IdleInductive DEF Inductive, PhaseInv

(* An exception leaves nothing advertised.                                  *)
LEMMA FailStep ==
  ASSUME Inductive, TypeOK', Fail
  PROVE  Inductive'
  <1> USE DEF Fail, Return, program
  <1>1. SoundInv' /\ CompleteIsLeastModel' /\ ViolationsAreCurrent'
    BY DEF SoundInv, CompleteIsLeastModel, ViolationsAreCurrent, Growing
  <1> QED
    BY <1>1, IdleInductive DEF Inductive, PhaseInv

(* An exception before the preparation leaves nothing advertised.           *)
LEMMA InterruptPrepareStep ==
  ASSUME Inductive, TypeOK', NEW q \in Requests, InterruptPrepare(q)
  PROVE  Inductive'
  <1> USE DEF InterruptPrepare, locals
  <1>1. PhaseInv' /\ OverdeleteInv' /\ IngestedInv' /\ OwedInv'
    BY DEF Inductive, PhaseInv, OverdeleteInv, IngestedInv, OwedInv, Growing
  <1>2. SoundInv' /\ FinishInv' /\ ReportInv'
    BY DEF SoundInv, FinishInv, ReportInv, Growing
  <1>3. CompleteIsLeastModel' /\ ViolationsAreCurrent'
    BY DEF CompleteIsLeastModel, ViolationsAreCurrent
  <1> QED
    BY <1>1, <1>2, <1>3 DEF Inductive

-----------------------------------------------------------------------------
(* The theorems                                                             *)

(* The invariant holds initially and every step keeps it.                   *)
LEMMA InductiveInit == ASSUME Init, TypeOK PROVE Inductive
  <1> USE DEF Init
  <1>1. PhaseInv /\ OverdeleteInv /\ SoundInv /\ IngestedInv
    BY DEF PhaseInv, OverdeleteInv, SoundInv, IngestedInv, Growing, Entailed
  <1>2. OwedInv /\ FinishInv /\ ReportInv
    BY DEF OwedInv, FinishInv, ReportInv, Growing
  <1>3. CompleteIsLeastModel /\ ViolationsAreCurrent
    BY DEF CompleteIsLeastModel, ViolationsAreCurrent
  <1> QED
    BY <1>1, <1>2, <1>3 DEF Inductive

(* Every step of a call keeps every part of the invariant.                  *)
LEMMA InductiveStep ==
  ASSUME Schedulable, Inductive, [Next]_vars
  PROVE  Inductive'
  <1>1. TypeOK'
    BY TypeStep DEF Inductive
  <1>2. ~MayInterruptPrepare => prepared = rules
    BY DEF Inductive, PhaseInv
  <1>3. CASE Materialize
    BY <1>1, <1>2, <1>3, StartOver DEF Materialize, program
  <1>4. ASSUME NEW q \in Requests, Update(q)
        PROVE  Inductive'
    <2>1. asserted' = NextAsserted(q) /\ (~MayInterruptPrepare => prepared' = rules')
      BY <1>2, <1>4 DEF Update, Prepares, NextRules, InsertedRules
    <2>2. CASE BeginMaterialize(NextAsserted(q))
      BY <1>1, <2>1, <2>2, StartOver
    <2>3. CASE complete /\ Retracting(q) /\ CanDred(q) /\ BeginDred(q)
      BY <1>1, <1>4, <2>3, DredStep
    <2>4. CASE complete /\ ~Retracting(q) /\ BeginInsert(q)
      BY <1>1, <1>4, <2>4, InsertStep
    <2> QED
      BY <1>4, <2>2, <2>3, <2>4 DEF Update
  <1>5. ASSUME NEW q \in Requests, InterruptPrepare(q)
        PROVE  Inductive'
    BY <1>1, <1>5, InterruptPrepareStep
  <1>6. CASE OverdeleteLimit
    BY <1>1, <1>2, <1>6, StartOver DEF OverdeleteLimit, program
  <1>7. CASE Step /\ ~OverdeleteLimit
    BY <1>1, <1>7, OverdeleteRoundStep, WithdrawStep, IngestDomainStep, IngestAssertionsStep,
       DeriveOnceStep, RunRoundStep, RunLimitStep, FixedPointStep, FinishStep DEF Step
  <1>8. CASE Fail
    BY <1>1, <1>8, FailStep
  <1>9. CASE UNCHANGED vars
    <2>1. OverdeleteInv' /\ SoundInv' /\ IngestedInv'
      BY <1>9 DEF vars, Inductive, OverdeleteInv, OldAsserted, SoundInv, IngestedInv
    <2>2. PhaseInv' /\ OwedInv' /\ FinishInv' /\ ReportInv'
      BY <1>9 DEF vars, Inductive, PhaseInv, OwedInv, Owed, Settled, FinishInv, ReportInv
    <2>3. CompleteIsLeastModel' /\ ViolationsAreCurrent'
      BY <1>9 DEF vars, Inductive, CompleteIsLeastModel, ViolationsAreCurrent
    <2> QED
      BY <1>1, <2>1, <2>2, <2>3 DEF Inductive
  <1> QED
    BY <1>3, <1>4, <1>5, <1>6, <1>7, <1>8, <1>9 DEF Next

(* The invariant of every run in which rounds schedule what they should.    *)
THEOREM InductiveInvariant ==
  ASSUME Schedulable
  PROVE  Spec => []Inductive
  <1>1. Init => Inductive
    BY InductiveInit, InitTypes
  <1>2. Inductive /\ [Next]_vars => Inductive'
    BY InductiveStep
  <1> QED
    BY <1>1, <1>2, PTL DEF Spec

(* Facts advertised as complete are the least model of the current program, *)
(* whatever transactions led there and by whichever update method.          *)
THEOREM CompleteCorrect ==
  ASSUME Schedulable
  PROVE  Spec => []CompleteIsLeastModel
  <1>1. Inductive => CompleteIsLeastModel
    BY DEF Inductive
  <1> QED
    BY <1>1, InductiveInvariant, PTL

(* A call that met a limit leaves only facts that the program entails.      *)
THEOREM PartialCorrect ==
  ASSUME Schedulable
  PROVE  Spec => []PartialIsEntailed
  <1>1. Inductive => PartialIsEntailed
    BY DEF Inductive, SoundInv, PartialIsEntailed
  <1> QED
    BY <1>1, InductiveInvariant, PTL

(* Complete facts come with exactly the violations they contain.            *)
THEOREM ViolationsCorrect ==
  ASSUME Schedulable
  PROVE  Spec => []ViolationsAreCurrent
  <1>1. Inductive => ViolationsAreCurrent
    BY DEF Inductive
  <1> QED
    BY <1>1, InductiveInvariant, PTL

(* Withdrawal never removes an assertion or the domain from the facts.      *)
THEOREM WithdrawCorrect ==
  ASSUME Schedulable
  PROVE  Spec => WithdrawKeepsSupport
  <1>1. Inductive => (Withdraw => facts \cap Protected(asserted, rules) \subseteq facts')
    BY DEF Inductive, OverdeleteInv, Withdraw
  <1>2. Inductive /\ [Next]_vars
          => [Withdraw => facts \cap Protected(asserted, rules) \subseteq facts']_vars
    BY <1>1
  <1> QED
    BY <1>2, InductiveInvariant, PTL DEF Spec, WithdrawKeepsSupport

-----------------------------------------------------------------------------
(* The engine implements MaterializedView                                   *)

(* Only Finish publishes, and what it publishes is the least model.         *)
LEMMA ViewStep ==
  ASSUME Inductive, Inductive', [Next]_vars
  PROVE  [View!Next]_(View!vars)
  <1> DEFINE Visible == pc = "Idle" /\ complete
  <1> USE DEF program, locals
  <1>1. TypeOK /\ TypeOK'
    BY DEF Inductive
  <1>2. ASSUME ~Visible', UNCHANGED <<asserted, rules>>, ~Visible
        PROVE  UNCHANGED View!vars
    BY <1>2 DEF View!vars
  <1>3. ASSUME ~Visible'
        PROVE  View!Transact
    BY <1>1, <1>3 DEF View!Transact, TypeOK
  <1>4. CASE Materialize
    BY <1>4, <1>3 DEF Materialize, BeginMaterialize, View!Next
  <1>5. ASSUME NEW q \in Requests, Update(q)
        PROVE  View!Next
    BY <1>5, <1>3 DEF Update, BeginMaterialize, BeginInsert, BeginDred, View!Next
  <1>6. ASSUME NEW q \in Requests, InterruptPrepare(q)
        PROVE  View!Next
    BY <1>6, <1>3 DEF InterruptPrepare, View!Next
  <1>7. CASE Finish
    <2>1. pc = "Finish" /\ UNCHANGED <<asserted, rules, facts, complete>> /\ pc' = "Idle"
      BY <1>7 DEF Finish, Return
    <2>2. CASE complete
      <3>1. IsLeastModel(facts, asserted, rules)
        BY <2>1, <2>2 DEF Inductive, CompleteIsLeastModel
      <3>2. View!IsLeastModel(facts, asserted, rules)
        BY <3>1 DEF IsLeastModel, IsModel, Entailed, Domain, Implied, Heads, Matching,
                    View!IsLeastModel, View!IsModel, View!Entailed, View!Domain,
                    View!Implied, View!Heads, View!Matching
      <3>3. View!Publish
        BY <1>1, <2>1, <2>2, <3>2 DEF View!Publish, TypeOK
      <3> QED
        BY <3>3 DEF View!Next
    <2>3. CASE ~complete
      BY <1>2, <2>1, <2>3
    <2> QED
      BY <2>2, <2>3
  <1>8. CASE Step /\ ~Finish
    <2>1. pc # "Idle" /\ pc' # "Idle" /\ UNCHANGED <<asserted, rules>>
      BY <1>8 DEF Step, OverdeleteRound, OverdeleteLimit, BeginMaterialize, Withdraw, IngestDomain,
                  IngestAssertions, DeriveOnce, RunRound, RunLimit, FixedPoint
    <2> QED
      BY <1>2, <2>1
  <1>9. CASE Fail
    <2>1. pc # "Idle" /\ ~complete' /\ UNCHANGED <<asserted, rules>>
      BY <1>9 DEF Fail
    <2> QED
      BY <1>2, <2>1
  <1>10. CASE UNCHANGED vars
    BY <1>10 DEF vars, View!vars
  <1> QED
    BY <1>4, <1>5, <1>6, <1>7, <1>8, <1>9, <1>10 DEF Next

(* Between calls the engine is a MaterializedView: how it computes and what *)
(* it reuses cannot be observed.                                            *)
THEOREM EngineImplementsView ==
  ASSUME Schedulable
  PROVE  Spec => ViewSpec
  <1>1. ASSUME Init, Inductive PROVE View!Init
    BY <1>1 DEF Init, View!Init, Inductive, TypeOK
  <1>2. Inductive /\ Inductive' /\ [Next]_vars => [View!Next]_(View!vars)
    BY ViewStep
  <1>3. Spec => []Inductive
    BY InductiveInvariant
  <1> QED
    BY <1>1, <1>2, <1>3, PTL DEF Spec, ViewSpec, View!Spec

=============================================================================
