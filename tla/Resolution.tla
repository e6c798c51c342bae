----------------------------- MODULE Resolution -----------------------------
(***************************************************************************)
(* What the version resolvers share: tags, constraints and the check that  *)
(* tool.ResolveVersion makes of what a resolver answered.                  *)
(***************************************************************************)
EXTENDS Integers, Sequences, FiniteSets

CONSTANTS
    Number,        \* the tags that parse as semver, in the order of precedence
    Odd,           \* the tags that do not, other than "latest"
    Latest,        \* the tag "latest"
    Constraint,    \* each constraint as the set of numbers it admits
    NoConstraint,  \* the empty constraint
    Invalid,       \* a constraint that does not parse
    Cooldown,      \* cooldowns in days, 0 for none
    None           \* no version

Tag == Number \cup Odd
IsSemver(tag) == tag \in Number

VersionIntent ==
    [want : Tag \cup {Latest},
     constraint : Constraint \cup {NoConstraint, Invalid}, cooldown : Cooldown]

ASSUME ResolutionTypes ==
    /\ Number \subseteq Nat /\ Cooldown \subseteq Nat
    /\ Constraint \subseteq SUBSET Number
    /\ Latest \notin Tag /\ None \notin Tag \cup {Latest}
    /\ Odd \cap Number = {} /\ NoConstraint # Invalid
    /\ {NoConstraint, Invalid} \cap Constraint = {}

\* constraint == nil || constraint.Check(ver), of a constraint that parses
Satisfies(tag, constraint) ==
    constraint = NoConstraint \/ (constraint # Invalid /\ tag \in constraint)

\* A bug: the constraint is not looked at again.
CheckResolvedNothing(version, constraint) == TRUE

\* tool.ResolveVersion: it refuses a semver answer that the constraint does not admit
CheckResolved(version, constraint) ==
    IsSemver(version) => Satisfies(version, constraint)
=============================================================================
