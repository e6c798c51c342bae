----------------------- MODULE GoProxyResolverProofs -----------------------
(***************************************************************************)
(* Theorems about GoProxyResolver for every set of versions, constraints   *)
(* and listings, any cooldown and any limit on candidates.                 *)
(***************************************************************************)
EXTENDS GoProxyResolver, FiniteSetTheorems, SequenceTheorems, TLAPS

---------------------------------------------------------------------------
(* The inductive invariant.                                                *)

\* Outside of "idle" a method was called; "list" to "candidates" is a search.
Called ==
    /\ pc # "idle" => op \in {"update", "resolve"} /\ intent \in VersionIntent
    /\ pc \in {"list", "filter", "candidates"} => Searched
    /\ pc \in {"filter", "candidates"} => IsFiniteSet(versions) /\ Constrained # Invalid
    /\ pc = "check" => op = "resolve" /\ answer.kind = "ok"

\* The candidates are admitted; those looked at so far were too new or not answered.
Candidates ==
    /\ \A k \in DOMAIN candidates : Satisfies(candidates[k], Constrained)
    /\ pc \in {"idle", "list", "filter"} => i = 0 /\ latestDate = None /\ candidates = <<>>
    /\ pc = "candidates" =>
          /\ intent.cooldown > 0 /\ i <= CheckedCount
          /\ \A k \in 1..i : published[candidates[k]] > cutoff \/ candidates[k] \in failed
          /\ i > 0 => latestDate \in {None, published[candidates[1]]}
          /\ i = 0 => latestDate = None

\* What an answer is worth before tool.ResolveVersion looks at it.
Answered ==
    (pc \in {"check", "done"} /\ answer.kind = "ok") =>
        /\ Searched /\ intent.cooldown > 0 =>
              IsSemver(answer.version) /\ published[answer.version] <= cutoff
        /\ IsSemver(answer.version) /\ (op = "update" \/ pc = "done") =>
              Satisfies(answer.version, intent.constraint)
        /\ op = "resolve" /\ IsSemver(intent.want) => answer.version = intent.want

\* The candidates are all that the constraint admits, greatest first.
Sorted ==
    pc = "candidates" =>
        /\ \A v \in Admitted : \E k \in DOMAIN candidates : candidates[k] = v
        /\ \A j, k \in DOMAIN candidates : j < k => candidates[j] > candidates[k]

\* What GreatestIsFound says, from the moment there is an answer.
Greatest ==
    (pc \in {"check", "done"} /\ answer.kind = "ok" /\ Searched /\ IsSemver(answer.version)) =>
        \A v \in Admitted :
            v > answer.version => intent.cooldown > 0 /\ (published[v] > cutoff \/ v \in failed)

IInv ==
    TypeOK /\ Called /\ Candidates /\ Answered /\ CooldownErrorIsTrue /\ Sorted /\ Greatest

---------------------------------------------------------------------------
(* The operators.                                                          *)

LEMMA CutoffType ==
    ASSUME intent \in VersionIntent  PROVE cutoff \in Int /\ intent.cooldown \in Nat
  <1>1. intent.cooldown \in Cooldown
    BY DEF VersionIntent
  <1>2. Cooldown \subseteq Nat /\ Today \in Nat
    BY GoProxyTypes, ResolutionTypes
  <1>3. intent.cooldown \in Nat
    BY <1>1, <1>2
  <1> QED  BY <1>2, <1>3 DEF cutoff

\* The admitted versions are finitely many numbers.
LEMMA AdmittedType ==
    ASSUME IsFiniteSet(versions)
    PROVE  Admitted \subseteq Number /\ IsFiniteSet(Admitted) /\ Cardinality(Admitted) \in Nat
  <1>1. Admitted \subseteq versions /\ Admitted \subseteq Number  BY DEF Admitted
  <1> QED  BY <1>1, FS_Subset, FS_CardinalityType

\* As many values as there are admitted versions, each less than the one before, are all
\* of them.
LEMMA DecreasingIsAll ==
    ASSUME NEW S \in SUBSET Number, IsFiniteSet(S),
           NEW s \in [1..Cardinality(S) -> S],
           \A j, k \in DOMAIN s : j < k => s[j] > s[k]
    PROVE  \A v \in S : \E k \in DOMAIN s : s[k] = v
  <1>1. Cardinality(S) \in Nat
    BY FS_CardinalityType
  <1>2. \A k \in 1..Cardinality(S) : s[k] \in Nat
    BY ResolutionTypes
  <1>3. ASSUME NEW j \in DOMAIN s, NEW k \in DOMAIN s, s[j] = s[k]
        PROVE  j = k
    <2>1. j \in Int /\ k \in Int /\ s[j] \in Nat /\ s[k] \in Nat
      BY <1>1, <1>2, <1>3
    <2>2. ~(j < k) /\ ~(k < j)
      BY <1>3, <2>1
    <2> QED  BY <2>1, <2>2
  <1>4. s \in Injection(1..Cardinality(S), S)
    BY <1>3 DEF Injection, IsInjective
  <1>5. Cardinality(1..Cardinality(S)) = Cardinality(S)
    BY <1>1, FS_Interval
  <1>6. s \in Surjection(1..Cardinality(S), S)
    BY <1>4, <1>5, FS_Injection
  <1> QED  BY <1>6 DEF Surjection

LEMMA CheckedCountType ==
    ASSUME candidates \in Seq(Number)
    PROVE  CheckedCount \in 0..Len(candidates)
  BY GoProxyTypes DEF CheckedCount

---------------------------------------------------------------------------
(* The invariant is inductive.                                             *)

LEMMA Initially == Init => IInv
  BY DEF Init, IInv, TypeOK, Called, Candidates, Answered, CooldownErrorIsTrue, Kinds, Sorted, Greatest

LEMMA StepResolveVersion ==
    ASSUME IInv, NEW in \in VersionIntent, ResolveVersion(in)  PROVE IInv'
  <1> USE ResolutionTypes DEF VersionIntent, Tag
  <1>1. TypeOK'  BY DEF IInv, TypeOK, ResolveVersion, Answer, call, check, Kinds
  <1>2. Called'
    BY DEF IInv, TypeOK, Called, ResolveVersion, Answer, call, check, Searched
  <1>3. Candidates'
    BY DEF IInv, TypeOK, Candidates, ResolveVersion, Answer, check, Satisfies, Constrained
  <1>4. Answered'
    BY DEF IInv, TypeOK, Answered, ResolveVersion, Answer, check, Searched, IsSemver, call
  <1>5. CooldownErrorIsTrue'
    BY DEF IInv, TypeOK, CooldownErrorIsTrue, ResolveVersion, Answer
  <1>6. Sorted'  BY DEF IInv, TypeOK, Sorted, ResolveVersion, Answer
  <1>7. Greatest'  BY DEF IInv, TypeOK, Greatest, ResolveVersion, Answer, Searched, IsSemver
  <1> QED  BY <1>1, <1>2, <1>3, <1>4, <1>5, <1>6, <1>7 DEF IInv

LEMMA StepUpdateVersion ==
    ASSUME IInv, NEW in \in VersionIntent, UpdateVersion(in)  PROVE IInv'
  <1> USE ResolutionTypes DEF VersionIntent, Tag, IsSemver
  <1>1. TypeOK'  BY DEF IInv, TypeOK, UpdateVersion, Answer, Return, call, check, Kinds
  <1>2. Called'
    BY DEF IInv, TypeOK, Called, UpdateVersion, Answer, Return, call, check, Searched
  <1>3. Candidates'
    BY DEF IInv, TypeOK, Candidates, UpdateVersion, Answer, Return, check, Satisfies,
           Constrained
  <1>4. Answered'
    BY DEF IInv, TypeOK, Answered, UpdateVersion, Answer, Return, check, Searched, call
  <1>5. CooldownErrorIsTrue'
    BY DEF IInv, TypeOK, CooldownErrorIsTrue, UpdateVersion, Answer, Return
  <1>6. Sorted'  BY DEF IInv, TypeOK, Sorted, UpdateVersion, Answer, Return
  <1>7. Greatest'  BY DEF IInv, TypeOK, Greatest, UpdateVersion, Answer, Return, Searched
  <1> QED  BY <1>1, <1>2, <1>3, <1>4, <1>5, <1>6, <1>7 DEF IInv

LEMMA StepListVersions == ASSUME IInv, ListVersions  PROVE IInv'
  <1>1. TypeOK' /\ (pc' = "filter" => IsFiniteSet(versions'))
    BY GoProxyTypes DEF IInv, TypeOK, ListVersions, Return, call, check, Kinds
  <1>2. Called'
    BY <1>1 DEF IInv, TypeOK, Called, ListVersions, Return, call, check, Searched, Constrained
  <1>3. Candidates'
    BY DEF IInv, TypeOK, Candidates, ListVersions, Return, check, call, Satisfies, Constrained
  <1>4. Answered'
    BY DEF IInv, TypeOK, Answered, ListVersions, Return, check, call
  <1>5. CooldownErrorIsTrue'
    BY DEF IInv, TypeOK, CooldownErrorIsTrue, ListVersions, Return
  <1>6. Sorted'  BY DEF Sorted, ListVersions, Return
  <1>7. Greatest'  BY DEF IInv, TypeOK, Greatest, ListVersions, Return
  <1> QED  BY <1>1, <1>2, <1>3, <1>4, <1>5, <1>6, <1>7 DEF IInv

LEMMA StepFilterToLatestVersion == ASSUME IInv, FilterToLatestVersion  PROVE IInv'
  <1> USE DEF FilterToLatestVersion, Return, Answer, call, check
  <1>0. /\ Admitted \subseteq Number
        /\ \A v \in Admitted : Satisfies(v, Constrained)
        /\ op \in {"update", "resolve"} /\ intent \in VersionIntent /\ Searched
    BY DEF IInv, Called, Admitted
  <1>1. TypeOK'  BY <1>0 DEF IInv, TypeOK, Kinds, Tag
  <1>2. Called'  BY <1>0 DEF IInv, TypeOK, Called, Searched
  <1>3. Candidates'  BY DEF IInv, TypeOK, Candidates, Satisfies, Constrained
  <1>4. Answered'
    BY <1>0, ResolutionTypes DEF Answered, Searched, IsSemver, Tag, Constrained, Satisfies
  <1>5. CooldownErrorIsTrue'  BY DEF IInv, CooldownErrorIsTrue
  <1>6. Sorted'  BY DEF Sorted
  <1>7. Greatest'
    <2>1. Admitted' = Admitted  BY DEF Admitted, Constrained, Satisfies
    <2>2. Admitted \subseteq Nat  BY <1>0, ResolutionTypes
    <2>3. Latest \notin Number  BY ResolutionTypes DEF Tag
    <2> QED  BY <2>1, <2>2, <2>3 DEF Greatest, IsSemver
  <1> QED  BY <1>1, <1>2, <1>3, <1>4, <1>5, <1>6, <1>7 DEF IInv

LEMMA StepSortCandidates == ASSUME IInv, SortCandidates  PROVE IInv'
  <1> USE DEF SortCandidates, call
  <1>0. /\ Admitted \subseteq Number /\ Cardinality(Admitted) \in Nat
        /\ \A v \in Admitted : Satisfies(v, Constrained)
    BY AdmittedType DEF IInv, Called, Admitted
  <1>1. candidates' \in [1..Cardinality(Admitted) -> Admitted]
    OBVIOUS
  <1>2. candidates' \in Seq(Number) /\ DOMAIN candidates' = 1..Cardinality(Admitted)
    BY <1>0, <1>1, SeqDef
  <1>3. TypeOK'  BY <1>2 DEF IInv, TypeOK
  <1>4. Called'  BY DEF IInv, TypeOK, Called, Searched, Constrained
  <1>5. CheckedCount' \in Nat  BY <1>2, GoProxyTypes, LenProperties DEF CheckedCount
  <1>6. Candidates'
    BY <1>0, <1>1, <1>2, <1>5 DEF IInv, Candidates, Satisfies, Constrained
  <1>7. Answered'  BY DEF Answered
  <1>8. CooldownErrorIsTrue'  BY DEF CooldownErrorIsTrue
  <1>9. Sorted'
    <2>1. Admitted' = Admitted  BY DEF Admitted, Constrained, Satisfies
    <2>2. \A j, k \in DOMAIN candidates' : j < k => candidates'[j] > candidates'[k]
      OBVIOUS
    <2>3. IsFiniteSet(Admitted)  BY AdmittedType DEF IInv, Called
    <2>4. \A v \in Admitted : \E k \in DOMAIN candidates' : candidates'[k] = v
      BY <1>0, <1>1, <2>2, <2>3, DecreasingIsAll
    <2> QED  BY <2>1, <2>2, <2>4 DEF Sorted
  <1>10. Greatest'  BY DEF Greatest
  <1> QED  BY <1>3, <1>4, <1>6, <1>7, <1>8, <1>9, <1>10 DEF IInv

LEMMA StepFetchVersionInfo == ASSUME IInv, FetchVersionInfo  PROVE IInv'
  <1> DEFINE c == candidates[i + 1]
  <1> USE DEF FetchVersionInfo, call
  <1>0. /\ CheckedCount \in 0..Len(candidates) /\ CheckedCount' = CheckedCount
        /\ i + 1 \in DOMAIN candidates /\ i \in Nat /\ i + 1 <= CheckedCount
    BY CheckedCountType, LenProperties DEF IInv, TypeOK, CheckedCount
  <1>1. c \in Number /\ Satisfies(c, Constrained)
    BY <1>0, ElementOfSeq, LenProperties DEF IInv, TypeOK, Candidates
  <1>2. published[c] \in Day /\ published[candidates[1]] \in Day
    BY <1>0, <1>1, ElementOfSeq, LenProperties DEF IInv, TypeOK
  <1>3. cutoff \in Int /\ cutoff' = cutoff /\ intent.cooldown > 0
    BY CutoffType DEF IInv, Called, Candidates, cutoff
  <1>4. TypeOK'
    BY <1>1, <1>2 DEF IInv, TypeOK, Answer, Kinds, Tag
  <1>5. Called'
    BY DEF IInv, TypeOK, Called, Answer, Searched, Constrained
  <1>6. Candidates'
    <2>1. \A k \in DOMAIN candidates' : Satisfies(candidates'[k], Constrained')
      BY DEF IInv, Candidates, Constrained, Satisfies
    <2>2. ASSUME pc' = "candidates"
          PROVE  published[c] > cutoff \/ c \in failed'
      <3>1. published[c] \in Nat  BY <1>2, GoProxyTypes
      <3>2. c \in failed' \/ ~(published[c] <= cutoff)  BY <2>2 DEF Answer
      <3> QED  BY <1>3, <3>1, <3>2
    <2>3. ASSUME pc' = "candidates", NEW k \in 1..i'
          PROVE  published[candidates[k]] > cutoff \/ candidates[k] \in failed'
      <3>1. CASE k = i + 1  BY <2>2, <2>3, <3>1
      <3>2. CASE k # i + 1
        <4>1. k \in 1..i  BY <1>0, <3>2
        <4> QED  BY <4>1 DEF IInv, Candidates
      <3> QED  BY <3>1, <3>2
    <2>4. latestDate' \in {None, published[candidates[1]]}
      BY <1>0 DEF IInv, TypeOK, Candidates
    <2>5. pc' # "idle" /\ pc' # "list" /\ pc' # "filter"
      BY DEF Answer
    <2> QED
      BY <1>0, <1>3, <2>1, <2>3, <2>4, <2>5 DEF Candidates
  <1>7. Answered'
    BY <1>1, <1>3, ResolutionTypes
       DEF IInv, Called, Answered, Answer, Searched, Constrained, IsSemver, Tag, Satisfies
  <1>8. CooldownErrorIsTrue'
    BY DEF IInv, TypeOK, CooldownErrorIsTrue, Answer
  <1>9. Sorted'
    BY DEF IInv, Sorted, Admitted, Constrained, Satisfies
  <1>10. Greatest'
    <2>1. Admitted' = Admitted  BY DEF Admitted, Constrained, Satisfies
    <2>2. SUFFICES ASSUME pc' # "candidates", NEW v \in Admitted, v > c
                   PROVE  published[v] > cutoff \/ v \in failed
      BY <1>3, <2>1 DEF Greatest, Answer
    <2>3. PICK k \in DOMAIN candidates : candidates[k] = v
      BY DEF IInv, Sorted
    <2>4. k \in 1..Len(candidates) /\ Len(candidates) \in Nat /\ v \in Nat /\ c \in Nat
      BY <1>1, <2>3, LenProperties, ResolutionTypes DEF IInv, TypeOK, Admitted
    <2>5. ~(i + 1 < k) /\ k # i + 1
      BY <1>0, <2>2, <2>3, <2>4 DEF IInv, Sorted
    <2>6. k \in 1..i
      BY <1>0, <2>4, <2>5
    <2> QED  BY <2>3, <2>6 DEF IInv, Candidates
  <1> QED  BY <1>4, <1>5, <1>6, <1>7, <1>8, <1>9, <1>10 DEF IInv

LEMMA StepNoCandidatePassed == ASSUME IInv, NoCandidatePassed  PROVE IInv'
  <1> USE DEF NoCandidatePassed, Return, call, check
  <1>0. /\ CheckedCount \in 0..Len(candidates) /\ CheckedCount' = CheckedCount /\ cutoff' = cutoff
        /\ candidates # <<>> => candidates[1] \in Number /\ CheckedCount > 0
    <2>1. CheckedCount \in 0..Len(candidates) /\ CheckedCount' = CheckedCount
      BY CheckedCountType DEF IInv, TypeOK, CheckedCount
    <2>2. candidates # <<>> => Len(candidates) > 0 /\ candidates[1] \in Number
      BY EmptySeq, ElementOfSeq, LenProperties DEF IInv, TypeOK
    <2> QED  BY <2>1, <2>2, GoProxyTypes, LenProperties DEF IInv, TypeOK, CheckedCount, cutoff
  <1>1. TypeOK'  BY <1>0 DEF IInv, TypeOK, Kinds, Tag
  <1>2. Called'  BY DEF IInv, TypeOK, Called
  <1>3. Candidates'  BY DEF IInv, Candidates, Satisfies, Constrained
  <1>4. Answered'  BY DEF Answered
  <1>5. CooldownErrorIsTrue'
    BY <1>0 DEF IInv, TypeOK, CooldownErrorIsTrue, Candidates
  <1>6. Sorted'  BY DEF Sorted
  <1>7. Greatest'  BY DEF Greatest
  <1> QED  BY <1>1, <1>2, <1>3, <1>4, <1>5, <1>6, <1>7 DEF IInv

LEMMA StepCheckAnswer == ASSUME IInv, CheckAnswer  PROVE IInv'
  <1> USE DEF CheckAnswer, call, check
  <1>1. TypeOK'  BY DEF IInv, TypeOK, Kinds
  <1>2. Called'  BY DEF IInv, TypeOK, Called
  <1>3. Candidates'  BY DEF IInv, TypeOK, Candidates, Satisfies, Constrained
  <1>4. Answered'
    BY DEF IInv, TypeOK, Called, Answered, CheckResolved, Satisfies, Searched, IsSemver, cutoff
  <1>5. CooldownErrorIsTrue'
    BY DEF IInv, TypeOK, Called, CooldownErrorIsTrue
  <1>6. Sorted'  BY DEF Sorted
  <1>7. Greatest'
    BY DEF IInv, TypeOK, Called, Greatest, Searched, IsSemver, cutoff, Admitted, Constrained,
           Satisfies
  <1> QED  BY <1>1, <1>2, <1>3, <1>4, <1>5, <1>6, <1>7 DEF IInv

LEMMA Inductive == IInv /\ [Next]_vars => IInv'
  <1> SUFFICES ASSUME IInv, [Next]_vars  PROVE IInv'
    OBVIOUS
  <1>1. CASE \E in \in VersionIntent : UpdateVersion(in) \/ ResolveVersion(in)
    BY <1>1, StepUpdateVersion, StepResolveVersion
  <1>2. CASE ListVersions  BY <1>2, StepListVersions
  <1>3. CASE FilterToLatestVersion  BY <1>3, StepFilterToLatestVersion
  <1>4. CASE SortCandidates  BY <1>4, StepSortCandidates
  <1>5. CASE FetchVersionInfo  BY <1>5, StepFetchVersionInfo
  <1>6. CASE NoCandidatePassed  BY <1>6, StepNoCandidatePassed
  <1>7. CASE CheckAnswer  BY <1>7, StepCheckAnswer
  <1>8. CASE UNCHANGED vars
    BY <1>8 DEF IInv, TypeOK, Called, Candidates, Answered, CooldownErrorIsTrue, Sorted,
                Greatest, vars, call, check, Searched, Constrained, Admitted, CheckedCount,
                cutoff, Satisfies, IsSemver
  <1> QED
    BY <1>1, <1>2, <1>3, <1>4, <1>5, <1>6, <1>7, <1>8 DEF Next

---------------------------------------------------------------------------
(* The theorems.                                                           *)

\* The inductive invariant holds in every reachable state.
THEOREM Invariance == Spec => []IInv
  BY Initially, Inductive, PTL DEF Spec

\* The variables have their types (go-proxy version resolver).
THEOREM TypeCorrectness == Spec => []TypeOK
  <1>1. IInv => TypeOK  BY DEF IInv
  <1> QED  BY <1>1, Invariance, PTL

\* Whichever of the requests for publish dates fail, an answer under a cooldown is as old
\* as the cooldown asks (checkCandidatesForCooldown).
THEOREM CooldownKept == Spec => []CooldownIsKept
  <1>1. IInv => CooldownIsKept  BY DEF IInv, Answered, CooldownIsKept
  <1> QED  BY <1>1, Invariance, PTL

\* Nothing greater than the answer would have done: a greater version that is admitted
\* was too new, or the proxy did not tell its date (findLatestVersion).
THEOREM GreatestFound == Spec => []GreatestIsFound
  <1>1. IInv => GreatestIsFound  BY DEF IInv, Greatest, GreatestIsFound
  <1> QED  BY <1>1, Invariance, PTL

\* An answer that is a version number is admitted by the constraint, and is the pin where
\* a number was pinned (tool.ResolveVersion, UpdateVersion).
THEOREM AnswerAdmitted == Spec => []AnswerIsAdmitted
  <1>1. IInv => AnswerIsAdmitted  BY DEF IInv, Called, Answered, AnswerIsAdmitted
  <1> QED  BY <1>1, Invariance, PTL

\* A CooldownError comes only after each candidate within the limit was too new or not
\* answered, and the version and the date it names go together (buildCooldownError).
THEOREM CooldownErrorTrue == Spec => []CooldownErrorIsTrue
  <1>1. IInv => CooldownErrorIsTrue  BY DEF IInv
  <1> QED  BY <1>1, Invariance, PTL
=============================================================================
