--------------------------- MODULE GithubResolver ---------------------------
(***************************************************************************)
(* The github-release version resolver                                     *)
(* (tool/githubrelease/version_resolver.go): UpdateVersion of `binny       *)
(* update`, and tool.ResolveVersion with ResolveVersion of the other       *)
(* commands, while releases are published.  The loop of                    *)
(* filterToLatestVersion is one step for each release.                     *)
(***************************************************************************)
EXTENDS Resolution

CONSTANTS
    PageSize,     \* releases of one query; no other page is asked for
    MaxReleases,  \* bound on the releases of the repository
    MaxDay        \* bound on time

ASSUME GithubTypes == PageSize \in Nat /\ MaxReleases \in Nat /\ MaxDay \in Nat

VARIABLES
    releases,  \* the repository's releases in the order they were created
    today,
    pc,        \* where in the call the resolver is
    op,        \* which method was called
    intent,
    cutoff,    \* the day of the call less the cooldown
    source,    \* which of the three calls of filterToLatestVersion runs
    list,      \* its releases argument
    i,         \* its loop index
    latest,    \* its latest: <<>>, or the release
    answer     \* what the call returned: [kind, version]

call == <<op, intent, cutoff>>
world == <<releases, today>>
vars == <<world, pc, call, source, list, i, latest, answer>>

Release == [tag : Tag, draft : BOOLEAN, latest : BOOLEAN, date : Nat]
Kinds == {"none", "ok", "error", "cooldown", "unsatisfied"}

TypeOK ==
    /\ releases \in Seq(Release) /\ today \in Nat
    /\ pc \in {"idle", "facade", "fetch", "filter", "check", "done"}
    /\ op \in {"none", "update", "resolve"}
    /\ intent \in {None} \cup VersionIntent
    /\ cutoff \in Int
    /\ source \in {"none", "facade", "list", "absolute"}
    /\ list \in Seq(Release)
    /\ i \in Nat
    /\ latest \in Seq(Release) /\ Len(latest) <= 1
    /\ answer \in [kind : Kinds, version : Tag \cup {Latest, None}]

Init ==
    /\ releases = <<>> /\ today = 1
    /\ pc = "idle" /\ op = "none" /\ intent = None /\ cutoff = 0
    /\ source = "none" /\ list = <<>> /\ i = 1 /\ latest = <<>>
    /\ answer = [kind |-> "none", version |-> None]

---------------------------------------------------------------------------
(* The repository, until the call has its list: a release published later  *)
(* changes nothing the call reads.                                         *)

Unread == pc \in {"idle", "facade", "fetch"}

\* Somebody publishes a release, or drafts one; GitHub marks one as the latest.
Publish(tag, draft, mark) ==
    /\ Unread /\ Len(releases) < MaxReleases
    /\ \A k \in DOMAIN releases : releases[k].tag # tag
    /\ draft => ~mark
    /\ releases' = Append([k \in DOMAIN releases |->
                              [releases[k] EXCEPT !.latest = @ /\ ~mark]],
                          [tag |-> tag, draft |-> draft, latest |-> mark,
                           date |-> IF draft THEN 0 ELSE today])
    /\ UNCHANGED <<today, pc, call, source, list, i, latest, answer>>

PassDay ==
    /\ Unread /\ today < MaxDay /\ today' = today + 1
    /\ UNCHANGED <<releases, pc, call, source, list, i, latest, answer>>

---------------------------------------------------------------------------
(* The call.                                                               *)

Return(kind, version) == pc' = "done" /\ answer' = [kind |-> kind, version |-> version]
\* a version: tool.ResolveVersion looks at it, UpdateVersion's caller does not
Answer(method, version) ==
    /\ pc' = IF method = "resolve" THEN "check" ELSE "done"
    /\ answer' = [kind |-> "ok", version |-> version]

\* filterToLatestVersion(rs, intent.Constraint, ...)
Filter(src, rs) ==
    /\ pc' = "filter" /\ source' = src /\ list' = rs /\ i' = 1 /\ latest' = <<>>

\* findLatestVersion: the facade gives no dates, so a cooldown bypasses it
FindLatestVersion(cooldown) == pc' = IF cooldown = 0 THEN "facade" ELSE "fetch"

\* UpdateVersion: only a version number is moved
UpdateVersion(in) ==
    /\ pc = "idle" /\ op' = "update" /\ intent' = in /\ cutoff' = today - in.cooldown
    /\ \/ IsSemver(in.want) /\ FindLatestVersion(in.cooldown) /\ UNCHANGED answer
       \/ ~IsSemver(in.want) /\ Answer("update", in.want)
    /\ UNCHANGED <<world, source, list, i, latest>>

\* ResolveVersion: only "latest" is looked up
ResolveVersion(in) ==
    /\ pc = "idle" /\ op' = "resolve" /\ intent' = in /\ cutoff' = today - in.cooldown
    /\ \/ in.want = Latest /\ FindLatestVersion(in.cooldown) /\ UNCHANGED answer
       \/ in.want # Latest /\ Answer("resolve", in.want)
    /\ UNCHANGED <<world, source, list, i, latest>>

\* fetchLatestReleaseFromGithubFacade: an error, no release, or a tag and no more
FetchLatestRelease ==
    /\ pc = "facade"
    /\ \/ Return("error", None) /\ UNCHANGED <<source, list, i, latest>>
       \/ pc' = "fetch" /\ UNCHANGED <<source, list, i, latest, answer>>
       \/ \E k \in DOMAIN releases :
             /\ releases[k].latest
             /\ Filter("facade", <<[tag |-> releases[k].tag, draft |-> FALSE,
                                    latest |-> FALSE, date |-> 0]>>)
             /\ UNCHANGED answer
    /\ UNCHANGED <<world, call>>

\* what sort.Slice, which is not stable, may make of rs: latest to earliest
SortedByDate(rs) ==
    LET orders == {p \in [DOMAIN rs -> DOMAIN rs] :
                     \A a, b \in DOMAIN rs : a < b =>
                        p[a] # p[b] /\ rs[p[a]].date >= rs[p[b]].date}
    IN  {[k \in DOMAIN rs |-> rs[p[k]]] : p \in orders}

\* fetchAllReleasesFromGithubV4API: an error (no token, no answer), or the first page,
\* newest release first, sorted by date; a draft has the zero date
FetchAllReleases ==
    /\ pc = "fetch"
    /\ \/ Return("error", None) /\ UNCHANGED <<source, list, i, latest>>
       \/ LET page == SubSeq(releases, IF Len(releases) <= PageSize THEN 1
                                       ELSE Len(releases) - PageSize + 1, Len(releases))
          IN  \E sorted \in SortedByDate(page) : Filter("list", sorted) /\ UNCHANGED answer
    /\ UNCHANGED <<world, call>>

---------------------------------------------------------------------------
(* filterToLatestVersion.                                                  *)

\* A bug: a release is old enough on the day after the call.
TooNewButForADay(r) ==
    source = "list" /\ intent.cooldown > 0 /\ r.date > cutoff + 1

\* A bug: a release of the day of the cutoff is too new.
TooNewAtCutoff(r) == source = "list" /\ intent.cooldown > 0 /\ r.date >= cutoff

\* published after the cutoff, where there is one
TooNew(r) == source = "list" /\ intent.cooldown > 0 /\ r.date > cutoff

\* A tag that is no version number is not held against the constraint.
Admits(r) == IsSemver(r.tag) => Satisfies(r.tag, intent.constraint)

\* A bug: the order of the versions is not looked at.
NotBetterNever(r) == FALSE

\* latest stays in preference to r
NotBetter(r) ==
    /\ latest # <<>>
    /\ IsSemver(latest[1].tag) =>
          IsSemver(r.tag) /\ r.tag <= latest[1].tag

\* One turn of the loop.
Consider ==
    /\ pc = "filter" /\ i <= Len(list) /\ intent.constraint # Invalid
    /\ LET r == list[i]
       IN  IF r.draft \/ TooNew(r)
           THEN i' = i + 1 /\ UNCHANGED latest
           ELSE IF r.latest /\ Admits(r)
           THEN latest' = <<r>> /\ i' = Len(list) + 1
           ELSE /\ latest' = IF ~NotBetter(r) /\ Admits(r) THEN <<r>> ELSE latest
                /\ i' = i + 1
    /\ UNCHANGED <<world, pc, call, source, list, answer>>

\* filterToLatestVersion has returned to findLatestVersion
FilterReturns ==
    /\ pc = "filter" /\ (i > Len(list) \/ intent.constraint = Invalid)
    /\ UNCHANGED <<world, call>>
    /\ \/ intent.constraint = Invalid /\ Return("error", None)
          /\ UNCHANGED <<source, list, i, latest>>
       \/ /\ intent.constraint # Invalid /\ source # "absolute" /\ latest # <<>>
          /\ Answer(op, latest[1].tag)
          /\ UNCHANGED <<source, list, i, latest>>
       \/ /\ intent.constraint # Invalid /\ source = "facade" /\ latest = <<>>
          /\ pc' = "fetch" /\ UNCHANGED <<source, list, i, latest, answer>>
       \/ /\ intent.constraint # Invalid /\ source = "list" /\ latest = <<>>
          /\ IF intent.cooldown > 0 THEN Filter("absolute", list) /\ UNCHANGED answer
             ELSE Return("error", None) /\ UNCHANGED <<source, list, i, latest>>
       \/ /\ intent.constraint # Invalid /\ source = "absolute"
          /\ Return("cooldown", IF latest = <<>> THEN None ELSE latest[1].tag)
          /\ UNCHANGED <<source, list, i, latest>>

\* tool.ResolveVersion's look at the answer
CheckAnswer ==
    /\ pc = "check" /\ pc' = "done"
    /\ answer' = IF CheckResolved(answer.version, intent.constraint) THEN answer
                 ELSE [answer EXCEPT !.kind = "unsatisfied"]
    /\ UNCHANGED <<world, call, source, list, i, latest>>

Resolver ==
    \/ \E in \in VersionIntent : UpdateVersion(in) \/ ResolveVersion(in)
    \/ FetchLatestRelease \/ FetchAllReleases \/ Consider \/ FilterReturns \/ CheckAnswer

Next ==
    \/ PassDay \/ Resolver
    \/ \E tag \in Tag, draft, mark \in BOOLEAN : Publish(tag, draft, mark)

Spec == Init /\ [][Next]_vars

---------------------------------------------------------------------------
(* Properties.                                                             *)

Searched == IF op = "update" THEN IsSemver(intent.want) ELSE intent.want = Latest
Eligible(r) == ~r.draft /\ (intent.cooldown > 0 => r.date <= cutoff)

\* Whatever is published meanwhile, a version that was looked up under a cooldown was
\* out for that long when the call began, and is no draft (findLatestVersion).
CooldownIsKept ==
    (pc = "done" /\ answer.kind = "ok" /\ Searched /\ intent.cooldown > 0) =>
        \E k \in DOMAIN releases : releases[k].tag = answer.version /\ Eligible(releases[k])

\* A version number that is answered to a command other than for a bare pin of
\* `binny update` is admitted by the constraint (filterToLatestVersion for a search,
\* tool.ResolveVersion for a pin).
AnswerIsAdmitted ==
    (pc = "done" /\ answer.kind = "ok" /\ IsSemver(answer.version)) =>
        Satisfies(answer.version, intent.constraint)

\* Where every release of the list is a version number, the answer is the one marked
\* as latest if that is eligible and admitted, and the greatest such one otherwise.
NewestIsFound ==
    (pc = "done" /\ answer.kind = "ok" /\ Searched /\ source = "list"
        /\ \A k \in DOMAIN list : IsSemver(list[k].tag)) =>
        LET good == {k \in DOMAIN list : Eligible(list[k])
                                          /\ Satisfies(list[k].tag, intent.constraint)}
            marked == {k \in good : list[k].latest}
        IN  IF marked # {} THEN \E k \in marked : answer.version = list[k].tag
            ELSE \A k \in good : list[k].tag <= answer.version

\* The cooldown is blamed only when no release of the list would do, and the version
\* the error names is one the cooldown kept back (CooldownError).
CooldownIsToBlame ==
    (pc = "done" /\ answer.kind = "cooldown") =>
        /\ \A k \in DOMAIN list :
              Eligible(list[k]) => ~Satisfies(list[k].tag, intent.constraint)
        /\ answer.version # None =>
              \E k \in DOMAIN list : /\ list[k].tag = answer.version
                                     /\ ~list[k].draft /\ list[k].date > cutoff

\* "finds the latest release that satisfies the version constraint and cooldown cutoff"
\* (version_resolver.go:144): with a constraint, where the list has an eligible version
\* number that it admits and marks no other tag as latest, a version number is answered.
ConstraintIsSatisfied ==
    (   /\ pc = "done" /\ answer.kind = "ok" /\ source = "list"
        /\ intent.constraint # NoConstraint
        /\ \A k \in DOMAIN list : list[k].latest => IsSemver(list[k].tag)
        /\ \E k \in DOMAIN list : Eligible(list[k]) /\ IsSemver(list[k].tag)
                                   /\ Satisfies(list[k].tag, intent.constraint)) =>
        IsSemver(answer.version)

=============================================================================
