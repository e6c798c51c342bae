-------------------------- MODULE GoProxyResolver --------------------------
(***************************************************************************)
(* The go-proxy version resolver (tool/goproxy/version_resolver.go): one   *)
(* call of UpdateVersion or, through tool.ResolveVersion, of               *)
(* ResolveVersion.  Under a cooldown it asks the proxy for the publish     *)
(* date of one candidate after another, each of which may fail.            *)
(***************************************************************************)
EXTENDS Resolution

CONSTANTS
    Listings,  \* what /@v/list may return: sets of tags
    Day,       \* publish days
    Today,     \* the day of the call
    MaxCooldownCandidates

ASSUME GoProxyTypes ==
    /\ Listings \subseteq SUBSET Tag /\ \A l \in Listings : IsFiniteSet(l)
    /\ Day \subseteq Nat /\ Today \in Nat
    /\ MaxCooldownCandidates \in Nat \ {0}

VARIABLES
    published,   \* the publish day of each version
    allow,       \* AllowUnresolvedVersion
    pc,          \* where in the call the resolver is
    op,          \* which method was called
    intent,
    versions,    \* what the proxy listed
    candidates,  \* the admitted version numbers, greatest first
    i,           \* how many candidates were looked at
    failed,      \* those of them whose info could not be fetched
    latestDate,  \* cooldownCheckResult.latestDate
    answer       \* what the call returned: [kind, version]

call == <<published, allow, op, intent>>
check == <<candidates, i, failed, latestDate>>
vars == <<call, pc, versions, check, answer>>

Kinds == {"none", "ok", "error", "cooldown", "unsatisfied"}

TypeOK ==
    /\ published \in [Number -> Day] /\ allow \in BOOLEAN
    /\ pc \in {"idle", "list", "filter", "candidates", "check", "done"}
    /\ op \in {"none", "update", "resolve"}
    /\ intent \in {None} \cup VersionIntent
    /\ versions \subseteq Tag
    /\ candidates \in Seq(Number) /\ i \in Nat /\ failed \subseteq Number
    /\ latestDate \in Day \cup {None}
    /\ answer \in [kind : Kinds, version : Tag \cup {Latest, None}]

Init ==
    /\ published \in [Number -> Day] /\ allow \in BOOLEAN
    /\ pc = "idle" /\ op = "none" /\ intent = None /\ versions = {}
    /\ candidates = <<>> /\ i = 0 /\ failed = {} /\ latestDate = None
    /\ answer = [kind |-> "none", version |-> None]

---------------------------------------------------------------------------
(* The call.                                                               *)

Return(kind, version) == pc' = "done" /\ answer' = [kind |-> kind, version |-> version]
Answer(method, version) ==
    /\ pc' = IF method = "resolve" THEN "check" ELSE "done"
    /\ answer' = [kind |-> "ok", version |-> version]

\* findLatestVersion's constraint: ResolveVersion passes none
Constrained == IF op = "update" THEN intent.constraint ELSE NoConstraint

ResolveVersion(in) ==
    /\ pc = "idle" /\ op' = "resolve" /\ intent' = in
    /\ IF in.want = Latest /\ ~allow THEN pc' = "list" /\ UNCHANGED answer
       ELSE Answer("resolve", in.want)
    /\ UNCHANGED <<published, allow, versions, check>>

UpdateVersion(in) ==
    /\ pc = "idle" /\ op' = "update" /\ intent' = in
    /\ \/ in.want = Latest /\ in.constraint # NoConstraint /\ Return("error", None)
       \/ in.want = Latest /\ in.constraint = NoConstraint /\ Answer("update", Latest)
       \/ IsSemver(in.want) /\ pc' = "list" /\ UNCHANGED answer
       \/ in.want \in Odd /\ Answer("update", in.want)
    /\ UNCHANGED <<published, allow, versions, check>>

\* availableVersionsFetcher, and the constraint that does not parse
ListVersions ==
    /\ pc = "list"
    /\ \/ Return("error", None) /\ UNCHANGED versions
       \/ /\ versions' \in Listings
          /\ IF Constrained = Invalid THEN Return("error", None)
             ELSE pc' = "filter" /\ UNCHANGED answer
    /\ UNCHANGED <<call, check>>

\* the version numbers the constraint admits
Admitted == {v \in versions \cap Number : Satisfies(v, Constrained)}

\* no cooldown: internal.FilterToLatestVersion, and what becomes of no version at all
FilterToLatestVersion ==
    /\ pc = "filter" /\ intent.cooldown = 0
    /\ \/ \E v \in Admitted : /\ \A u \in Admitted : u <= v
                              /\ Answer(op, v)
       \/ Admitted = {} /\ allow /\ Answer(op, Latest)
       \/ Admitted = {} /\ ~allow /\ Return("error", None)
    /\ UNCHANGED <<call, versions, check>>

\* A bug: the candidates are sorted with the least first.
SortCandidatesUp ==
    /\ pc = "filter" /\ intent.cooldown > 0
    /\ \E s \in [1..Cardinality(Admitted) -> Admitted] :
          /\ \A j, k \in DOMAIN s : j < k => s[j] < s[k]
          /\ candidates' = s
    /\ pc' = "candidates"
    /\ UNCHANGED <<call, versions, i, failed, latestDate, answer>>

\* a cooldown: parseAndSortCandidates
SortCandidates ==
    /\ pc = "filter" /\ intent.cooldown > 0
    /\ \E s \in [1..Cardinality(Admitted) -> Admitted] :
          /\ \A j, k \in DOMAIN s : j < k => s[j] > s[k]
          /\ candidates' = s
    /\ pc' = "candidates"
    /\ UNCHANGED <<call, versions, i, failed, latestDate, answer>>

CheckedCount ==
    IF Len(candidates) < MaxCooldownCandidates THEN Len(candidates)
    ELSE MaxCooldownCandidates

cutoff == Today - intent.cooldown

\* A bug: the date is that of the last candidate whose info came.
FetchVersionInfoLast ==
    /\ pc = "candidates" /\ i < CheckedCount
    /\ i' = i + 1
    /\ LET c == candidates[i + 1]
       IN  \/ failed' = failed \cup {c} /\ UNCHANGED <<pc, latestDate, answer>>
           \/ /\ latestDate' = published[c]
              /\ IF published[c] <= cutoff THEN Answer(op, c) ELSE UNCHANGED <<pc, answer>>
              /\ UNCHANGED failed
    /\ UNCHANGED <<call, versions, candidates>>

\* A bug: a candidate whose info cannot be fetched passes.
FetchVersionInfoOrPass ==
    /\ pc = "candidates" /\ i < CheckedCount
    /\ i' = i + 1
    /\ LET c == candidates[i + 1]
       IN  \/ Answer(op, c) /\ UNCHANGED latestDate
           \/ /\ latestDate' = IF i = 0 THEN published[c] ELSE latestDate
              /\ IF published[c] <= cutoff THEN Answer(op, c) ELSE UNCHANGED <<pc, answer>>
    /\ UNCHANGED <<call, versions, candidates, failed>>

\* One turn of checkCandidatesForCooldown; a failure passes on to the next candidate.
FetchVersionInfo ==
    /\ pc = "candidates" /\ i < CheckedCount
    /\ i' = i + 1
    /\ LET c == candidates[i + 1]
       IN  \/ failed' = failed \cup {c} /\ UNCHANGED <<pc, latestDate, answer>>
           \/ /\ latestDate' = IF i = 0 THEN published[c] ELSE latestDate
              /\ IF published[c] <= cutoff THEN Answer(op, c) ELSE UNCHANGED <<pc, answer>>
              /\ UNCHANGED failed
    /\ UNCHANGED <<call, versions, candidates>>

\* buildCooldownError: it names the greatest candidate
NoCandidatePassed ==
    /\ pc = "candidates" /\ i = CheckedCount
    /\ Return("cooldown", IF candidates = <<>> THEN None ELSE candidates[1])
    /\ UNCHANGED <<call, versions, check>>

\* tool.ResolveVersion's look at the answer
CheckAnswer ==
    /\ pc = "check" /\ pc' = "done"
    /\ answer' = IF CheckResolved(answer.version, intent.constraint) THEN answer
                 ELSE [answer EXCEPT !.kind = "unsatisfied"]
    /\ UNCHANGED <<call, versions, check>>

Next ==
    \/ \E in \in VersionIntent : UpdateVersion(in) \/ ResolveVersion(in)
    \/ ListVersions \/ FilterToLatestVersion \/ SortCandidates
    \/ FetchVersionInfo \/ NoCandidatePassed \/ CheckAnswer

Spec == Init /\ [][Next]_vars

---------------------------------------------------------------------------
(* Properties.                                                             *)

Searched == IF op = "update" THEN IsSemver(intent.want) ELSE intent.want = Latest /\ ~allow

\* A version that was looked up under a cooldown is as old as the cooldown asks,
\* whichever requests failed (checkCandidatesForCooldown).
CooldownIsKept ==
    (pc = "done" /\ answer.kind = "ok" /\ Searched /\ intent.cooldown > 0) =>
        IsSemver(answer.version) /\ published[answer.version] <= cutoff

\* The greatest version wins: one that is greater, admitted and old enough is passed
\* over only because its info could not be fetched.
GreatestIsFound ==
    (pc = "done" /\ answer.kind = "ok" /\ Searched /\ IsSemver(answer.version)) =>
        \A v \in Admitted :
            v > answer.version => intent.cooldown > 0 /\ (published[v] > cutoff \/ v \in failed)

\* The version and the age a CooldownError tells go together, and it is raised only
\* after each candidate within the limit was too new or could not be asked about.
CooldownErrorIsTrue ==
    (pc = "done" /\ answer.kind = "cooldown") =>
        /\ answer.version # None => latestDate \in {None, published[answer.version]}
        /\ \A k \in 1..CheckedCount :
              published[candidates[k]] > cutoff \/ candidates[k] \in failed

\* A version number that tool.ResolveVersion or UpdateVersion's search gives is one the
\* constraint admits, and a pinned number is given as it is.
AnswerIsAdmitted ==
    (pc = "done" /\ answer.kind = "ok" /\ IsSemver(answer.version)) =>
        /\ Satisfies(answer.version, intent.constraint)
        /\ op = "resolve" /\ IsSemver(intent.want) => answer.version = intent.want
=============================================================================
