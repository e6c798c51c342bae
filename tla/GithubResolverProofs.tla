------------------------ MODULE GithubResolverProofs ------------------------
(***************************************************************************)
(* Theorems about GithubResolver for any releases, published at any time,  *)
(* any tags and constraints, any cooldown and any page size.               *)
(***************************************************************************)
EXTENDS GithubResolver, SequenceTheorems, TLAPS

---------------------------------------------------------------------------
(* The inductive invariant.                                                *)

\* What is known of the call at each of its places.
Called ==
    /\ pc = "idle" => source = "none" /\ op = "none"
    /\ pc # "idle" => op \in {"update", "resolve"} /\ intent \in VersionIntent
    /\ pc \in {"facade", "fetch", "filter"} => Searched
    /\ pc = "facade" => source = "none" /\ intent.cooldown = 0
    /\ pc = "fetch" => source \in {"none", "facade"}
    /\ pc = "filter" => source # "none"
    /\ i >= 1
    /\ pc = "check" => op = "resolve" /\ answer.kind = "ok"
    /\ source = "facade" => intent.cooldown = 0
    /\ source = "absolute" => intent.cooldown > 0
    /\ source \in {"list", "absolute"} => ~Unread /\ Searched

\* The list has releases of the repository, which no longer matters once they are read.
FromReleases ==
    source \in {"list", "absolute"} =>
        \A k \in DOMAIN list : \E j \in DOMAIN releases : releases[j] = list[k]

\* What filterToLatestVersion keeps is a release it has passed, that would do.
Kept ==
    (pc = "filter" /\ latest # <<>>) =>
        \E k \in DOMAIN list :
            /\ list[k] = latest[1] /\ Admits(list[k]) /\ intent.constraint # Invalid
            /\ source # "facade" => ~list[k].draft
            /\ source = "list" => Eligible(list[k])

Good(k) == Eligible(list[k]) /\ Satisfies(list[k].tag, intent.constraint)

\* The loop of filterToLatestVersion over the list: it has stopped at a release marked as
\* latest, or has passed none, and keeps a version no less than those it has passed.
Newest ==
    (/\ pc = "filter" /\ source = "list"
     /\ \A k \in DOMAIN list : IsSemver(list[k].tag)) =>
        \/ /\ i > Len(list) /\ latest # <<>>
           /\ \E m \in DOMAIN list : Good(m) /\ list[m].latest /\ latest[1] = list[m]
        \/ \A k \in DOMAIN list : k < i /\ Good(k) =>
              ~list[k].latest /\ latest # <<>> /\ list[k].tag <= latest[1].tag

\* Where it keeps none, none of those it has passed would do.
NoneWouldDo(k) ==
    Eligible(list[k]) => IsSemver(list[k].tag) /\ ~Satisfies(list[k].tag, intent.constraint)
Blame ==
    /\ (pc = "filter" /\ source = "list" /\ latest = <<>>) =>
          \A k \in DOMAIN list : k < i => NoneWouldDo(k)
    /\ source = "absolute" => \A k \in DOMAIN list : NoneWouldDo(k)

\* What an answer is worth before tool.ResolveVersion looks at it.
Answered ==
    (pc \in {"check", "done"} /\ answer.kind = "ok") =>
        /\ Searched /\ intent.cooldown > 0 =>
              \E k \in DOMAIN releases : releases[k].tag = answer.version
                                          /\ Eligible(releases[k])
        /\ IsSemver(answer.version) /\ (op = "update" \/ pc = "done") =>
              Satisfies(answer.version, intent.constraint)
        /\ (/\ Searched /\ source = "list"
            /\ \A k \in DOMAIN list : IsSemver(list[k].tag)) =>
              \/ \E m \in DOMAIN list : Good(m) /\ list[m].latest /\ answer.version = list[m].tag
              \/ \A k \in DOMAIN list : Good(k) =>
                    ~list[k].latest /\ list[k].tag <= answer.version

IInv ==
    /\ TypeOK /\ Called /\ FromReleases /\ Kept /\ Newest /\ Blame /\ Answered
    /\ CooldownIsToBlame

---------------------------------------------------------------------------
(* The operators.                                                          *)

\* The page is a part of the releases.
LEMMA PageIsPart ==
    ASSUME releases \in Seq(Release),
           NEW m \in 1..(Len(releases) + 1)
    PROVE  LET page == SubSeq(releases, m, Len(releases))
           IN  /\ page \in Seq(Release)
               /\ \A k \in DOMAIN page : \E j \in DOMAIN releases : page[k] = releases[j]
  <1> DEFINE n == Len(releases)
  <1> DEFINE page == SubSeq(releases, m, n)
  <1>1. n \in Nat /\ m \in Nat /\ m <= n + 1 /\ DOMAIN releases = 1..n
    BY LenProperties
  <1>2. \A k \in m..n : releases[k] \in Release
    BY <1>1, ElementOfSeq
  <1>3. /\ page \in Seq(Release) /\ Len(page) = (IF m <= n THEN n - m + 1 ELSE 0)
        /\ \A k \in 1..(n - m + 1) : page[k] = releases[m + k - 1]
    BY <1>1, <1>2, SubSeqProperties
  <1>4. DOMAIN page = 1..Len(page)
    BY <1>3, LenProperties
  <1>5. ASSUME NEW k \in DOMAIN page
        PROVE  \E j \in DOMAIN releases : page[k] = releases[j]
    <2>1. m <= n /\ k \in 1..(n - m + 1)
      BY <1>1, <1>3, <1>4
    <2>2. m + k - 1 \in DOMAIN releases
      BY <1>1, <2>1
    <2> QED  BY <1>3, <2>1, <2>2
  <1> QED  BY <1>3, <1>5

\* A sorted list has releases of the list it was made of.
LEMMA SortedIsPart ==
    ASSUME NEW rs \in Seq(Release), NEW sorted \in SortedByDate(rs)
    PROVE  /\ sorted \in Seq(Release)
           /\ \A k \in DOMAIN sorted : \E j \in DOMAIN rs : sorted[k] = rs[j]
  <1>1. PICK p \in [DOMAIN rs -> DOMAIN rs] : sorted = [k \in DOMAIN rs |-> rs[p[k]]]
    BY DEF SortedByDate
  <1>2. DOMAIN rs = 1..Len(rs) /\ Len(rs) \in Nat /\ \A k \in DOMAIN rs : rs[k] \in Release
    BY LenProperties
  <1>3. sorted \in [1..Len(rs) -> Release]
    BY <1>1, <1>2
  <1>4. sorted \in Seq(Release)
    BY <1>2, <1>3, SeqDef
  <1> QED  BY <1>1, <1>4

---------------------------------------------------------------------------
(* The invariant is inductive.                                             *)

LEMMA Initially == Init => IInv
  <1>1. ASSUME Init PROVE TypeOK
    <2>1. <<>> \in Seq(Release) /\ Len(<<>>) = 0
      BY EmptySeq
    <2> QED  BY <1>1, <2>1 DEF Init, TypeOK, Kinds
  <1> QED
    BY <1>1 DEF Init, IInv, Called, FromReleases, Kept, Newest, Blame, Answered,
                CooldownIsToBlame, Unread

LEMMA StepPublish ==
    ASSUME IInv, NEW tag \in Tag, NEW draft \in BOOLEAN, NEW mark \in BOOLEAN,
           Publish(tag, draft, mark)
    PROVE  IInv'
  <1> USE DEF Publish, call
  <1>1. TypeOK'
    <2> DEFINE old == [k \in DOMAIN releases |-> [releases[k] EXCEPT !.latest = @ /\ ~mark]]
    <2> DEFINE new == [tag |-> tag, draft |-> draft, latest |-> mark,
                       date |-> IF draft THEN 0 ELSE today]
    <2>1. new \in Release
      BY DEF Release, IInv, TypeOK
    <2>2. DOMAIN releases = 1..Len(releases) /\ Len(releases) \in Nat
          /\ \A k \in DOMAIN releases : releases[k] \in Release
      BY LenProperties DEF IInv, TypeOK
    <2>3. \A k \in DOMAIN releases : [releases[k] EXCEPT !.latest = @ /\ ~mark] \in Release
      BY <2>2 DEF Release
    <2>4. old \in Seq(Release)
      BY <2>2, <2>3, SeqDef
    <2>5. Append(old, new) \in Seq(Release)
      BY <2>1, <2>4, AppendProperties
    <2> QED  BY <2>5 DEF IInv, TypeOK
  <1>2. Called'  BY DEF IInv, Called, Searched, Unread
  <1>3. source \notin {"list", "absolute"} /\ pc \notin {"filter", "check", "done"}
    BY DEF IInv, Called, Unread
  <1>4. FromReleases'  BY <1>3 DEF FromReleases
  <1>5. Kept' /\ Newest' /\ Blame' /\ Answered' /\ CooldownIsToBlame'
    BY <1>3 DEF Kept, Newest, Blame, Answered, CooldownIsToBlame
  <1> QED  BY <1>1, <1>2, <1>4, <1>5 DEF IInv

LEMMA StepPassDay == ASSUME IInv, PassDay  PROVE IInv'
  <1> USE DEF PassDay, call
  <1>1. TypeOK'  BY DEF IInv, TypeOK
  <1>2. Called'  BY DEF IInv, Called, Searched, Unread
  <1>3. FromReleases'  BY DEF IInv, FromReleases
  <1>4. source \notin {"list", "absolute"} /\ pc \notin {"filter", "check", "done"}
    BY DEF IInv, Called, Unread
  <1>5. Kept' /\ Newest' /\ Blame' /\ Answered' /\ CooldownIsToBlame'
    BY <1>4 DEF Kept, Newest, Blame, Answered, CooldownIsToBlame
  <1> QED  BY <1>1, <1>2, <1>3, <1>5 DEF IInv

\* A call that begins and is not a search answers what was wanted.
LEMMA StepBegins ==
    ASSUME IInv, NEW in \in VersionIntent, UpdateVersion(in) \/ ResolveVersion(in)
    PROVE  IInv'
  <1> USE DEF UpdateVersion, ResolveVersion, FindLatestVersion, Answer, world
  <1>0. /\ in.want \in Tag \cup {Latest} /\ in.cooldown \in Cooldown
        /\ Cooldown \subseteq Nat /\ Latest \notin Tag
    BY ResolutionTypes DEF VersionIntent
  <1>1. in.cooldown \in Nat
    BY <1>0
  <1>2. today - in.cooldown \in Int
    BY <1>1 DEF IInv, TypeOK
  <1>3. TypeOK'
    BY <1>0, <1>2 DEF IInv, TypeOK, Kinds
  <1>4. Called'
    BY <1>0 DEF IInv, Called, Searched, Unread, IsSemver, Tag
  <1>5. source' = "none" /\ pc' # "filter"
    BY DEF IInv, Called
  <1>6. FromReleases' /\ Kept' /\ Newest' /\ Blame'
    BY <1>5 DEF FromReleases, Kept, Newest, Blame
  <1>7. Answered'
    BY <1>0, <1>5 DEF IInv, Called, Answered, Searched, IsSemver, Tag
  <1>8. CooldownIsToBlame'
    BY DEF IInv, Called, CooldownIsToBlame, TypeOK
  <1> QED  BY <1>3, <1>4, <1>6, <1>7, <1>8 DEF IInv

LEMMA StepFetchLatestRelease == ASSUME IInv, FetchLatestRelease  PROVE IInv'
  <1> USE DEF world, call
  <1>1. CASE pc' # "filter"
    <2>0. /\ UNCHANGED <<releases, today, op, intent, cutoff, source, list, i, latest>>
          /\ \/ pc' = "fetch" /\ UNCHANGED answer
             \/ pc' = "done" /\ answer' = [kind |-> "error", version |-> None]
      BY <1>1 DEF FetchLatestRelease, Return, Filter
    <2>1. TypeOK'
      BY <2>0 DEF IInv, TypeOK, Kinds
    <2>2. Called' /\ source' = "none"
      BY <1>1, <2>0 DEF IInv, Called, Searched, Unread, FetchLatestRelease
    <2>3. FromReleases' /\ Kept' /\ Newest' /\ Blame'
      BY <1>1, <2>2 DEF FromReleases, Kept, Newest, Blame
    <2>4. Answered' /\ CooldownIsToBlame'
      BY <2>0 DEF Answered, CooldownIsToBlame
    <2> QED  BY <2>1, <2>2, <2>3, <2>4 DEF IInv
  <1>2. CASE pc' = "filter"
    <2>0. /\ UNCHANGED <<releases, today, op, intent, cutoff, answer>>
          /\ source' = "facade" /\ i' = 1 /\ latest' = <<>>
      BY <1>2 DEF FetchLatestRelease, Return, Filter
    <2>1. PICK k \in DOMAIN releases :
            list' = <<[tag |-> releases[k].tag, draft |-> FALSE, latest |-> FALSE, date |-> 0]>>
      BY <1>2 DEF FetchLatestRelease, Return, Filter
    <2>2. releases[k] \in Release
      BY LenProperties DEF IInv, TypeOK
    <2>3. list' \in Seq(Release)
      BY <2>1, <2>2 DEF Release
    <2>4. TypeOK'
      BY <1>2, <2>0, <2>3 DEF IInv, TypeOK
    <2>5. Called' /\ source' = "facade" /\ latest' = <<>>
      BY <1>2, <2>0 DEF IInv, Called, Searched, Unread, FetchLatestRelease
    <2>6. FromReleases' /\ Kept' /\ Newest' /\ Blame' /\ Answered' /\ CooldownIsToBlame'
      BY <1>2, <2>5 DEF FromReleases, Kept, Newest, Blame, Answered, CooldownIsToBlame
    <2> QED  BY <2>4, <2>5, <2>6 DEF IInv
  <1> QED  BY <1>1, <1>2

LEMMA StepFetchAllReleases == ASSUME IInv, FetchAllReleases  PROVE IInv'
  <1> USE DEF FetchAllReleases, Return, Filter, world, call
  <1>1. CASE pc' # "filter"
    <2>1. TypeOK'
      BY <1>1 DEF IInv, TypeOK, Kinds
    <2>2. Called' /\ source' \in {"none", "facade"}
      BY <1>1 DEF IInv, Called, Searched, Unread
    <2>3. FromReleases' /\ Kept' /\ Newest' /\ Blame'
      BY <1>1, <2>2 DEF FromReleases, Kept, Newest, Blame
    <2>4. Answered' /\ CooldownIsToBlame'
      BY <1>1 DEF Answered, CooldownIsToBlame
    <2> QED  BY <2>1, <2>2, <2>3, <2>4 DEF IInv
  <1>2. CASE pc' = "filter"
    <2> DEFINE m == IF Len(releases) <= PageSize THEN 1 ELSE Len(releases) - PageSize + 1
    <2> DEFINE page == SubSeq(releases, m, Len(releases))
    <2>1. PICK sorted \in SortedByDate(page) : Filter("list", sorted)
      BY <1>2
    <2>2. releases \in Seq(Release) /\ Len(releases) \in Nat /\ PageSize \in Nat
      BY LenProperties, GithubTypes DEF IInv, TypeOK
    <2>3. m \in 1..(Len(releases) + 1)
      BY <2>2
    <2> HIDE DEF m
    <2>4. /\ page \in Seq(Release)
          /\ \A k \in DOMAIN page : \E j \in DOMAIN releases : page[k] = releases[j]
      BY <2>2, <2>3, PageIsPart
    <2>5. /\ sorted \in Seq(Release)
          /\ \A k \in DOMAIN sorted : \E j \in DOMAIN page : sorted[k] = page[j]
      BY <2>1, <2>4, SortedIsPart
    <2>6. TypeOK'
      BY <2>1, <2>5 DEF IInv, TypeOK
    <2>7. Called' /\ source' = "list" /\ latest' = <<>> /\ i' = 1
      BY <2>1 DEF IInv, Called, Searched, Unread
    <2>8. FromReleases'
      BY <2>1, <2>4, <2>5 DEF FromReleases
    <2>9. \A k \in DOMAIN list' : ~(k < i')
      <3>1. \A k \in DOMAIN list' : k \in Nat /\ 1 <= k
        BY <2>1, <2>5, LenProperties
      <3> QED  BY <2>7, <3>1
    <2>10. Kept' /\ Newest' /\ Blame' /\ Answered' /\ CooldownIsToBlame'
      BY <1>2, <2>7, <2>9 DEF Kept, Newest, Blame, Answered, CooldownIsToBlame
    <2> QED  BY <2>6, <2>7, <2>8, <2>10 DEF IInv
  <1> QED  BY <1>1, <1>2

\* One turn of the loop.
LEMMA StepConsider == ASSUME IInv, Consider  PROVE IInv'
  <1> DEFINE r == list[i]
  <1> USE DEF Consider, world, call
  <1>0. /\ i \in DOMAIN list /\ i \in Nat /\ Len(list) \in Nat /\ DOMAIN list = 1..Len(list)
        /\ r \in Release /\ pc = "filter" /\ intent.constraint # Invalid
        /\ \A k \in DOMAIN list : list[k] \in Release
    <2>1. Len(list) \in Nat /\ DOMAIN list = 1..Len(list) /\ \A k \in DOMAIN list : list[k] \in Release
      BY LenProperties DEF IInv, TypeOK
    <2> QED  BY <2>1 DEF IInv, TypeOK, Called
  <1>1. /\ r.tag \in Tag /\ r.draft \in BOOLEAN /\ r.latest \in BOOLEAN /\ r.date \in Nat
        /\ cutoff \in Int
    BY <1>0 DEF Release, IInv, TypeOK
  <1>2. source = "list" => (~(r.draft \/ TooNew(r)) <=> Eligible(r))
    BY <1>1 DEF TooNew, Eligible
  <1>3. /\ latest' = latest \/ (latest' = <<r>> /\ ~r.draft /\ ~TooNew(r) /\ Admits(r))
        /\ i' \in Nat /\ i' > i
    BY <1>0
  <1>4. TypeOK'
    <2>1. <<r>> \in Seq(Release) /\ Len(<<r>>) = 1
      BY <1>0
    <2>2. latest' \in Seq(Release) /\ Len(latest') <= 1
      <3>1. CASE latest' = latest  BY <3>1 DEF IInv, TypeOK
      <3>2. CASE latest' = <<r>>  BY <2>1, <3>2
      <3> QED  BY <1>3, <3>1, <3>2
    <2> QED  BY <1>3, <2>2 DEF IInv, TypeOK
  <1>5. Called'
    BY <1>0, <1>3 DEF IInv, Called, Searched, Unread
  <1>6. FromReleases'
    BY DEF IInv, FromReleases
  <1>7. Kept'
    BY <1>0, <1>2, <1>3 DEF IInv, Kept, Admits, Satisfies, Eligible
  <1>8. Newest'
    <2> SUFFICES ASSUME source = "list", \A k \in DOMAIN list : IsSemver(list[k].tag)
                 PROVE  Newest'
      BY DEF Newest
    <2>1. \A k \in DOMAIN list : k < i /\ Good(k) =>
              ~list[k].latest /\ latest # <<>> /\ list[k].tag <= latest[1].tag
      BY <1>0 DEF IInv, Newest
    <2>2. \A k \in DOMAIN list : Good(k)' <=> Good(k)
      BY DEF Good, Eligible, Satisfies
    <2>3. \A k \in DOMAIN list : list[k].tag \in Nat
      BY ResolutionTypes DEF IsSemver
    <2>4. Good(i) <=> ~r.draft /\ ~TooNew(r) /\ Admits(r)
      BY <1>0, <1>2 DEF Good, Admits, IsSemver
    <2>5. CASE ~Good(i)
      BY <1>0, <2>1, <2>2, <2>3, <2>4, <2>5 DEF Newest
    <2>6. CASE Good(i) /\ r.latest
      BY <1>0, <2>2, <2>4, <2>6 DEF Newest
    <2>7. CASE Good(i) /\ ~r.latest
      <3>1. i' = i + 1 /\ latest' = IF ~NotBetter(r) THEN <<r>> ELSE latest
        BY <1>0, <2>4, <2>7
      <3>2. latest # <<>> => IsSemver(latest[1].tag) /\ latest[1].tag \in Nat
        BY <1>0, <2>3 DEF IInv, Kept
      <3>3. CASE NotBetter(r)
        <4>1. latest # <<>> /\ r.tag <= latest[1].tag
          BY <3>2, <3>3 DEF NotBetter
        <4> QED
          BY <1>0, <2>1, <2>2, <2>3, <2>7, <3>1, <3>3, <4>1 DEF Newest
      <3>4. CASE ~NotBetter(r)
        <4>1. latest # <<>> => latest[1].tag < r.tag
          BY <1>0, <2>3, <3>2, <3>4 DEF NotBetter
        <4>2. latest' # <<>> /\ latest'[1] = r
          BY <3>1, <3>4
        <4> QED
          BY <1>0, <2>1, <2>2, <2>3, <2>7, <3>1, <3>2, <4>1, <4>2 DEF Newest
      <3> QED  BY <3>3, <3>4
    <2> QED  BY <2>5, <2>6, <2>7
  <1>9. Blame'
    <2>1. \A k \in DOMAIN list : NoneWouldDo(k)' <=> NoneWouldDo(k)
      BY DEF NoneWouldDo, Eligible, Satisfies
    <2>2. CASE source = "list" /\ latest' = <<>>
      <3>1. latest = <<>> /\ i' = i + 1
        BY <1>0, <2>2
      <3>2. NoneWouldDo(i)
        BY <1>0, <1>2, <2>2, <3>1 DEF NoneWouldDo, NotBetter, Admits
      <3>3. \A k \in DOMAIN list : k < i + 1 => NoneWouldDo(k)
        BY <1>0, <2>2, <3>1, <3>2 DEF IInv, Blame
      <3> QED  BY <2>1, <2>2, <3>1, <3>3 DEF Blame
    <2>3. CASE ~(source = "list" /\ latest' = <<>>)
      BY <2>1, <2>3 DEF IInv, Blame
    <2> QED  BY <2>2, <2>3
  <1>10. Answered' /\ CooldownIsToBlame'
    BY <1>0 DEF Answered, CooldownIsToBlame
  <1> QED  BY <1>4, <1>5, <1>6, <1>7, <1>8, <1>9, <1>10 DEF IInv

LEMMA StepFilterReturns == ASSUME IInv, FilterReturns  PROVE IInv'
  <1> USE DEF FilterReturns, Return, Answer, Filter, world, call
  <1>0. pc = "filter" /\ i \in Nat /\ Len(list) \in Nat /\ DOMAIN list = 1..Len(list)
        /\ list \in Seq(Release) /\ source \in {"none", "facade", "list", "absolute"}
        /\ \A k \in DOMAIN list : list[k] \in Release
    BY LenProperties DEF IInv, TypeOK
  <1>1. intent \in VersionIntent /\ op \in {"update", "resolve"} /\ Searched
    BY DEF IInv, Called
  <1>2. intent.cooldown \in Nat
    <2>1. intent.cooldown \in Cooldown
      BY <1>1 DEF VersionIntent
    <2> QED  BY <2>1, ResolutionTypes
  <1>3. latest # <<>> => \E k \in DOMAIN list :
            /\ list[k] = latest[1] /\ Admits(list[k]) /\ intent.constraint # Invalid
            /\ source # "facade" => ~list[k].draft
            /\ source = "list" => Eligible(list[k])
    BY DEF IInv, Kept
  <1>4. latest # <<>> => latest[1] \in Release /\ latest[1].tag \in Tag
    BY <1>0, <1>3 DEF Release
  <1>5. TypeOK'
    BY <1>0, <1>4 DEF IInv, TypeOK, Kinds
  <1>6. Called'
    BY <1>1, <1>2 DEF IInv, Called, Searched, Unread
  <1>7. FromReleases'
    BY <1>0, <1>1 DEF IInv, Called, FromReleases
  <1>7a. UNCHANGED list
    OBVIOUS
  <1>8. Kept' /\ Newest'
    BY DEF Kept, Newest
  <1>9. Blame'
    <2>1. \A k \in DOMAIN list : NoneWouldDo(k)' <=> NoneWouldDo(k)
      BY <1>0, <1>7a DEF NoneWouldDo, Eligible, Satisfies
    <2>2. CASE source' = source
      BY <1>7a, <2>1, <2>2 DEF IInv, Blame
    <2>3. CASE source' # source
      <3>1. source = "list" /\ latest = <<>> /\ i > Len(list) /\ source' = "absolute" /\ latest' = <<>> /\ i' = 1
        BY <2>3
      <3>2. \A k \in DOMAIN list : NoneWouldDo(k)
        BY <1>0, <3>1 DEF IInv, Blame
      <3> QED  BY <1>7a, <2>1, <3>1, <3>2 DEF Blame
    <2> QED  BY <2>2, <2>3
  <1>10. Answered'
    <2> SUFFICES ASSUME pc' \in {"check", "done"}, answer'.kind = "ok"
                 PROVE  Answered'
      BY DEF Answered
    <2>1. /\ latest # <<>> /\ source \in {"facade", "list"} /\ answer'.version = latest[1].tag
          /\ i > Len(list) /\ UNCHANGED <<source, list>>
      BY <1>0 DEF IInv, Called
    <2>2. PICK m \in DOMAIN list :
            /\ list[m] = latest[1] /\ Admits(list[m]) /\ intent.constraint # Invalid
            /\ source # "facade" => ~list[m].draft
            /\ source = "list" => Eligible(list[m])
      BY <1>3, <2>1
    <2>3. Searched' /\ intent'.cooldown > 0 =>
              \E k \in DOMAIN releases' : releases'[k].tag = answer'.version
                                          /\ Eligible(releases[k])'
      BY <2>1, <2>2 DEF IInv, Called, FromReleases, Eligible
    <2>4. IsSemver(answer'.version) => Satisfies(answer'.version, intent'.constraint)
      BY <2>1, <2>2 DEF Admits
    <2>5. ASSUME source = "list", \A k \in DOMAIN list : IsSemver(list[k].tag)
          PROVE  \/ \E k \in DOMAIN list : Good(k) /\ list[k].latest /\ latest[1].tag = list[k].tag
                 \/ \A k \in DOMAIN list : Good(k) =>
                       ~list[k].latest /\ list[k].tag <= latest[1].tag
      BY <1>0, <2>1, <2>5 DEF IInv, Newest
    <2>6. \A k \in DOMAIN list : Good(k)' <=> Good(k)
      BY <2>1 DEF Good, Eligible, Satisfies
    <2> QED  BY <2>1, <2>3, <2>4, <2>5, <2>6 DEF Answered, IsSemver
  <1>11. CooldownIsToBlame'
    <2> SUFFICES ASSUME pc' = "done", answer'.kind = "cooldown"
                 PROVE  CooldownIsToBlame'
      BY DEF CooldownIsToBlame
    <2>1. /\ source = "absolute" /\ UNCHANGED <<source, list>>
          /\ answer'.version = IF latest = <<>> THEN None ELSE latest[1].tag
      OBVIOUS
    <2>2. \A k \in DOMAIN list : NoneWouldDo(k)
      BY <2>1 DEF IInv, Blame
    <2>3. ASSUME latest # <<>>
          PROVE  \E k \in DOMAIN list : /\ list[k].tag = latest[1].tag
                                         /\ ~list[k].draft /\ list[k].date > cutoff
      <3>1. PICK k \in DOMAIN list : list[k] = latest[1] /\ Admits(list[k]) /\ ~list[k].draft
        BY <1>3, <2>1, <2>3
      <3>2. ~Eligible(list[k])
        BY <2>2, <3>1 DEF NoneWouldDo, Admits
      <3>3. list[k].date \in Nat /\ cutoff \in Int
        BY <1>0 DEF IInv, TypeOK, Release
      <3>4. list[k].date > cutoff
        BY <3>1, <3>2, <3>3 DEF Eligible
      <3> QED  BY <3>1, <3>4
    <2> QED
      BY <2>1, <2>2, <2>3 DEF CooldownIsToBlame, NoneWouldDo, Eligible, Satisfies
  <1> QED  BY <1>5, <1>6, <1>7, <1>8, <1>9, <1>10, <1>11 DEF IInv

LEMMA StepCheckAnswer == ASSUME IInv, CheckAnswer  PROVE IInv'
  <1> USE DEF CheckAnswer, world, call
  <1>1. TypeOK'  BY DEF IInv, TypeOK, Kinds
  <1>2. Called'  BY DEF IInv, TypeOK, Called, Unread, Searched
  <1>3. FromReleases'  BY DEF IInv, FromReleases
  <1>4. Kept' /\ Newest'  BY DEF Kept, Newest
  <1>5. Blame'  BY DEF IInv, Blame, NoneWouldDo, Eligible, Satisfies
  <1>6. Answered'
    BY DEF IInv, TypeOK, Called, Answered, CheckResolved, Satisfies, Searched, IsSemver,
           Eligible, Good
  <1>7. CooldownIsToBlame'
    BY DEF IInv, TypeOK, Called, CooldownIsToBlame
  <1> QED  BY <1>1, <1>2, <1>3, <1>4, <1>5, <1>6, <1>7 DEF IInv

LEMMA Inductive == IInv /\ [Next]_vars => IInv'
  <1> SUFFICES ASSUME IInv, [Next]_vars  PROVE IInv'
    OBVIOUS
  <1>1. CASE PassDay  BY <1>1, StepPassDay
  <1>2. CASE \E tag \in Tag, draft, mark \in BOOLEAN : Publish(tag, draft, mark)
    BY <1>2, StepPublish
  <1>3. CASE \E in \in VersionIntent : UpdateVersion(in) \/ ResolveVersion(in)
    BY <1>3, StepBegins
  <1>4. CASE FetchLatestRelease  BY <1>4, StepFetchLatestRelease
  <1>5. CASE FetchAllReleases  BY <1>5, StepFetchAllReleases
  <1>6. CASE Consider  BY <1>6, StepConsider
  <1>7. CASE FilterReturns  BY <1>7, StepFilterReturns
  <1>8. CASE CheckAnswer  BY <1>8, StepCheckAnswer
  <1>9. CASE UNCHANGED vars
    BY <1>9 DEF IInv, TypeOK, Called, FromReleases, Kept, Newest, Blame, Answered,
                CooldownIsToBlame, vars, world, call, Unread, Searched, Eligible, Admits, Good,
                NoneWouldDo, Satisfies
  <1> QED
    BY <1>1, <1>2, <1>3, <1>4, <1>5, <1>6, <1>7, <1>8, <1>9 DEF Next, Resolver

---------------------------------------------------------------------------
(* The theorems.                                                           *)

\* The inductive invariant holds in every reachable state.
THEOREM Invariance == Spec => []IInv
  BY Initially, Inductive, PTL DEF Spec

\* The variables have their types (github-release version resolver).
THEOREM TypeCorrectness == Spec => []TypeOK
  <1>1. IInv => TypeOK  BY DEF IInv
  <1> QED  BY <1>1, Invariance, PTL

\* Whatever is published while the call runs, an answer under a cooldown is a release that
\* was out for that long when it began, and no draft (findLatestVersion).
THEOREM CooldownKept == Spec => []CooldownIsKept
  <1>1. IInv => CooldownIsKept  BY DEF IInv, Answered, CooldownIsKept
  <1> QED  BY <1>1, Invariance, PTL

\* A version number that is answered is admitted by the constraint (filterToLatestVersion,
\* tool.ResolveVersion).
THEOREM AnswerAdmitted == Spec => []AnswerIsAdmitted
  <1>1. IInv => AnswerIsAdmitted  BY DEF IInv, Called, Answered, AnswerIsAdmitted
  <1> QED  BY <1>1, Invariance, PTL

\* Where the list has version numbers alone, the answer is the eligible one marked as
\* latest, or the greatest, however many releases it has (filterToLatestVersion).
THEOREM NewestFound == Spec => []NewestIsFound
  <1>1. IInv => NewestIsFound
    <2> SUFFICES ASSUME IInv, pc = "done", answer.kind = "ok", Searched, source = "list",
                        \A k \in DOMAIN list : IsSemver(list[k].tag)
                 PROVE  LET good == {k \in DOMAIN list :
                                       Eligible(list[k]) /\ Satisfies(list[k].tag, intent.constraint)}
                            marked == {k \in good : list[k].latest}
                        IN  IF marked # {} THEN \E k \in marked : answer.version = list[k].tag
                            ELSE \A k \in good : list[k].tag <= answer.version
      BY DEF NewestIsFound
    <2>1. \/ \E m \in DOMAIN list : Good(m) /\ list[m].latest /\ answer.version = list[m].tag
          \/ \A k \in DOMAIN list : Good(k) => ~list[k].latest /\ list[k].tag <= answer.version
      BY DEF IInv, Answered
    <2> QED  BY <2>1 DEF Good
  <1> QED  BY <1>1, Invariance, PTL

\* A CooldownError means that no release of the list would have done, and names one that
\* the cooldown alone kept back (findLatestVersion).
THEOREM CooldownToBlame == Spec => []CooldownIsToBlame
  <1>1. IInv => CooldownIsToBlame  BY DEF IInv
  <1> QED  BY <1>1, Invariance, PTL
=============================================================================
