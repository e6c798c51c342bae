-------------------------- MODULE ToolConfigProofs --------------------------
(***************************************************************************)
(* Theorems about ToolConfig for a time.Duration of any width, and any     *)
(* cooldowns that are configured.                                          *)
(***************************************************************************)
EXTENDS ToolConfig, TLAPS

---------------------------------------------------------------------------
(* The inductive invariant.                                                *)

\* What PostLoad left behind.
Loaded ==
    /\ ~Refused(own) /\ ~Refused(global)
    /\ perTool = ParseFrom(own) /\ core = ParseFrom(global)

\* What ToTool gave to a command that it did not fail for.
Accepted(cmd) ==
    /\ stage = "loaded"
    /\ DeriveInstallParameters /\ DeriveVersionResolveParameters
    /\ built[cmd].installer = IF tool.method = "" THEN Nil ELSE tool.method
    /\ built[cmd].resolver \in Resolvers
    /\ built[cmd].cooldown = ResolveEffectiveCooldown(ToolOptions(cmd))

IInv ==
    /\ TypeOK
    /\ stage = "loaded" => Loaded
    /\ \A cmd \in Command : built[cmd].status = "ok" => Accepted(cmd)

---------------------------------------------------------------------------
(* The operators.                                                          *)

LEMMA ZeroIsDuration == 0 \in Duration
  BY ToolConfigTypes DEF Duration

\* Multiplication by a day wraps around into a time.Duration, and is exact when the
\* result fits.
LEMMA WrapIsDuration ==
    ASSUME NEW n \in Int
    PROVE  /\ Wrap(n) \in Duration
           /\ n \in Duration => Wrap(n) = n
  <1> DEFINE m == 2 * Limit
  <1>0. m \in Nat \ {0} /\ n + Limit \in Int /\ Limit \in Nat /\ m = Limit + Limit
    BY ToolConfigTypes
  <1> HIDE DEF m
  <1>1. (n + Limit) % m \in Int /\ 0 <= (n + Limit) % m /\ (n + Limit) % m < m
    BY <1>0
  <1>2. ASSUME n \in Duration
        PROVE  (n + Limit) % m = n + Limit
    <2>1. n + Limit \in 0..(m - 1)
      BY <1>0, <1>2 DEF Duration
    <2> QED  BY <1>0, <2>1
  <1>3. Wrap(n) = ((n + Limit) % m) - Limit
    BY DEF Wrap, m
  <1>4. n \in Duration => Wrap(n) = n
    BY <1>0, <1>2, <1>3
  <1>5. Wrap(n) \in Duration
    <2> DEFINE x == (n + Limit) % m
    <2>1. x \in Int /\ 0 <= x /\ x < m
      BY <1>1
    <2> HIDE DEF x
    <2>2. x - Limit \in Duration
      BY <1>0, <2>1 DEF Duration
    <2> QED  BY <1>3, <2>2 DEF x
  <1> QED  BY <1>4, <1>5

\* ParseFrom gives a duration, and a positive one to a cooldown that was asked for.
LEMMA Parsed ==
    ASSUME NEW raw \in Raw, ~Refused(raw)
    PROVE  /\ ParseFrom(raw) \in JSONDuration
           /\ ParseFrom(raw).IsSet = (raw.kind # "unset")
           /\ AskedFor(raw) => ParseFrom(raw).Duration > 0
  <1>0. /\ raw.kind \in {"unset", "days", "time", "number", "bad"} /\ raw.n \in Int
        /\ raw.kind # "days" => -Limit <= raw.n /\ raw.n < Limit
        /\ Day \in Nat \ {0} /\ Limit \in Nat \ {0}
    <2>1. raw.kind \in {"unset", "days", "time", "number", "bad"}
      BY ToolConfigTypes
    <2>2. raw.n \in Int /\ Day \in Nat \ {0} /\ Limit \in Nat \ {0}
      BY ToolConfigTypes
    <2>3. raw.kind # "days" => -Limit <= raw.n /\ raw.n < Limit
      BY ToolConfigTypes
    <2> QED  BY <2>1, <2>2, <2>3
  <1>1. CASE raw.kind = "unset"
    <2> QED  BY <1>1, ZeroIsDuration DEF ParseFrom, Unset, JSONDuration, AskedFor
  <1>2. CASE raw.kind = "days"
    <2> DEFINE p == raw.n * Day
    <2>1. p \in Int
      BY <1>0
    <2>2. raw.n > 0 => p > 0
      BY <1>0
    <2>3. raw.n >= 0
      BY <1>0, <1>2 DEF Refused
    <2>4. ParseFrom(raw) = [IsSet |-> TRUE, Duration |-> Wrap(p)]
      BY <1>2 DEF ParseFrom
    <2>5. AskedFor(raw) => raw.n # 0 /\ p \in Duration
      BY <1>2 DEF AskedFor
    <2> HIDE DEF p
    <2>6. Wrap(p) \in Duration /\ (p \in Duration => Wrap(p) = p)
      BY <2>1, WrapIsDuration
    <2>7. AskedFor(raw) => Wrap(p) > 0
      BY <1>0, <2>1, <2>2, <2>3, <2>5, <2>6
    <2>8. ParseFrom(raw) \in JSONDuration
      BY <2>4, <2>6 DEF JSONDuration
    <2>9. ParseFrom(raw).IsSet /\ ParseFrom(raw).Duration = Wrap(p)
      BY <2>4
    <2> QED  BY <1>2, <2>7, <2>8, <2>9
  <1>3. CASE raw.kind \notin {"unset", "days"}
    <2>1. raw.n >= 0 /\ raw.n \in Duration
      BY <1>0, <1>3 DEF Refused, Duration
    <2>2. ParseFrom(raw) = [IsSet |-> TRUE, Duration |-> raw.n]
      BY <1>3 DEF ParseFrom
    <2>3. AskedFor(raw) => raw.n > 0
      BY <1>0, <2>1 DEF AskedFor
    <2>4. ParseFrom(raw) \in JSONDuration
      BY <2>1, <2>2 DEF JSONDuration
    <2>5. ParseFrom(raw).IsSet /\ ParseFrom(raw).Duration = raw.n
      BY <2>2
    <2> QED  BY <1>3, <2>3, <2>4, <2>5
  <1> QED  BY <1>0, <1>1, <1>2, <1>3

\* A method that is decoded has a resolver of its own, or the one that is configured.
LEMMA ResolverGiven ==
    ASSUME tool \in ToolOption, tool.method \in InstallMethods, DeriveVersionResolveParameters
    PROVE  Resolvers \subseteq ResolveMethods
  BY DEF ToolOption, InstallMethods, ResolveMethods, DeriveVersionResolveParameters,
         Resolvers, DefaultVersionResolverConfig

LEMMA CooldownGiven ==
    ASSUME TypeOK, NEW cmd \in Command
    PROVE  ResolveEffectiveCooldown(ToolOptions(cmd)) \in Duration
  <1>1. 0 \in Duration
    BY ZeroIsDuration
  <1>2. perTool.Duration \in Duration /\ core.Duration \in Duration
    BY DEF TypeOK, JSONDuration
  <1> QED  BY <1>1, <1>2 DEF ResolveEffectiveCooldown, ToolOptions

---------------------------------------------------------------------------
(* The invariant is inductive.                                             *)

LEMMA NothingTyped == ASSUME NEW status \in {"not run", "ok", "error"}  PROVE Nothing(status) \in Built
  BY ZeroIsDuration DEF Nothing, Built

LEMMA Initially == Init => IInv
  <1> SUFFICES ASSUME Init  PROVE IInv
    OBVIOUS
  <1>2. TypeOK
    BY ZeroIsDuration, NothingTyped DEF Init, TypeOK, Unset, JSONDuration
  <1>3. \A cmd \in Command : built[cmd].status = "not run"
    BY DEF Init, Nothing
  <1> QED  BY <1>2, <1>3 DEF Init, IInv

LEMMA StepPostLoad == ASSUME IInv, PostLoad  PROVE IInv'
  <1>0. TypeOK /\ stage = "read" /\ UNCHANGED <<tool, own, global, flag, built>>
    BY DEF IInv, PostLoad, written
  <1>1. \A cmd \in Command : built[cmd].status # "ok"
    BY <1>0 DEF IInv, Accepted
  <1>2. CASE Refused(own) \/ Refused(global)
    <2>1. stage' = "refused" /\ UNCHANGED <<perTool, core>>
      BY <1>2 DEF PostLoad
    <2> QED  BY <1>0, <1>1, <2>1 DEF IInv, TypeOK
  <1>3. CASE ~Refused(own) /\ ~Refused(global)
    <2>1. stage' = "loaded" /\ perTool' = ParseFrom(own) /\ core' = ParseFrom(global)
      BY <1>3 DEF PostLoad
    <2>2. perTool' \in JSONDuration /\ core' \in JSONDuration
      BY <1>0, <1>3, <2>1, Parsed DEF TypeOK
    <2>3. TypeOK'
      BY <1>0, <2>1, <2>2 DEF TypeOK
    <2>4. Loaded'
      BY <1>0, <1>3, <2>1 DEF Loaded, Refused, ParseFrom
    <2> QED  BY <1>0, <1>1, <2>3, <2>4 DEF IInv
  <1> QED  BY <1>2, <1>3

LEMMA StepToTool == ASSUME IInv, NEW cmd \in Command, ToTool(cmd)  PROVE IInv'
  <1>0. /\ TypeOK /\ stage = "loaded"
        /\ UNCHANGED <<tool, own, global, flag, stage, perTool, core>>
    BY DEF IInv, ToTool, written
  <1>1. Loaded'
    BY <1>0 DEF IInv, Loaded, Refused, ParseFrom
  <1>2. ASSUME NEW c \in Command, built'[c] = built[c], built[c].status = "ok"
        PROVE  Accepted(c)'
    BY <1>0, <1>2 DEF IInv, Accepted, DeriveInstallParameters, DeriveVersionResolveParameters,
       Resolvers, DefaultVersionResolverConfig, ResolveEffectiveCooldown, ToolOptions
  <1>3. ASSUME NEW b \in Built, built' = [built EXCEPT ![cmd] = b],
               b.status = "ok" => Accepted(cmd)'
        PROVE  IInv'
    <2>1. built' \in [Command -> Built] /\ built'[cmd] = b
          /\ \A c \in Command : c # cmd => built'[c] = built[c]
      BY <1>0, <1>3 DEF TypeOK
    <2>2. TypeOK'
      BY <1>0, <2>1 DEF TypeOK
    <2>3. \A c \in Command : built'[c].status = "ok" => Accepted(c)'
      BY <1>2, <1>3, <2>1
    <2> QED  BY <1>1, <2>2, <2>3 DEF IInv
  <1>4. CASE /\ DeriveInstallParameters /\ DeriveVersionResolveParameters
             /\ \E resolver \in Resolvers :
                   built' = [built EXCEPT ![cmd] =
                       [status |-> "ok", resolver |-> resolver,
                        installer |-> IF tool.method = "" THEN Nil ELSE tool.method,
                        cooldown |-> ResolveEffectiveCooldown(ToolOptions(cmd))]]
    <2>1. PICK resolver \in Resolvers :
             built' = [built EXCEPT ![cmd] =
                 [status |-> "ok", resolver |-> resolver,
                  installer |-> IF tool.method = "" THEN Nil ELSE tool.method,
                  cooldown |-> ResolveEffectiveCooldown(ToolOptions(cmd))]]
      BY <1>4
    <2> DEFINE method == IF tool.method = "" THEN Nil ELSE tool.method
    <2> DEFINE cooldown == ResolveEffectiveCooldown(ToolOptions(cmd))
    <2> DEFINE b == [status |-> "ok", resolver |-> resolver, installer |-> method,
                     cooldown |-> cooldown]
    <2>2. method \in InstallMethods \cup {Nil}
      BY <1>4 DEF DeriveInstallParameters
    <2>3. resolver \in ResolveMethods \cup {Nil}
      <3>1. tool \in ToolOption
        BY <1>0 DEF TypeOK
      <3> QED  BY <3>1, <2>1 DEF Resolvers, DefaultVersionResolverConfig, ResolveMethods, ToolOption
    <2>4. cooldown \in Duration
      BY <1>0, CooldownGiven
    <2>5. b \in Built
      BY <2>2, <2>3, <2>4 DEF Built
    <2>6. built' = [built EXCEPT ![cmd] = b]
      BY <2>1
    <2>7. built'[cmd] = b
      BY <1>0, <2>6 DEF TypeOK
    <2>8. /\ built'[cmd].installer = method /\ built'[cmd].resolver \in Resolvers
          /\ built'[cmd].cooldown = cooldown
      <3>1. b.installer = method /\ b.resolver = resolver /\ b.cooldown = cooldown
        OBVIOUS
      <3>2. b.resolver \in Resolvers
        BY <2>1, <3>1
      <3> HIDE DEF b, method, cooldown
      <3> QED  BY <2>7, <3>1, <3>2
    <2>9. Accepted(cmd)'
      BY <1>0, <1>4, <2>8 DEF Accepted, DeriveInstallParameters, DeriveVersionResolveParameters,
         Resolvers, DefaultVersionResolverConfig, ResolveEffectiveCooldown, ToolOptions
    <2> HIDE DEF b
    <2> QED  BY <1>3, <2>5, <2>6, <2>9
  <1>5. CASE built' = [built EXCEPT ![cmd] = Nothing("error")]
    <2>1. Nothing("error").status # "ok"
      BY DEF Nothing
    <2> QED  BY <1>3, <1>5, <2>1, NothingTyped
  <1> QED  BY <1>4, <1>5 DEF ToTool

LEMMA Inductive == IInv /\ [Next]_vars => IInv'
  <1> SUFFICES ASSUME IInv, [Next]_vars  PROVE IInv'
    OBVIOUS
  <1>1. CASE Next
    BY <1>1, StepPostLoad, StepToTool DEF Next
  <1>2. CASE UNCHANGED vars
    BY <1>2 DEF vars, written, IInv, TypeOK, Loaded, Refused, ParseFrom, Accepted,
       DeriveInstallParameters, DeriveVersionResolveParameters, Resolvers,
       DefaultVersionResolverConfig, ResolveEffectiveCooldown, ToolOptions
  <1> QED  BY <1>1, <1>2

---------------------------------------------------------------------------
(* The theorems.                                                           *)

\* The inductive invariant holds of every behaviour.
THEOREM Invariance == Spec => []IInv
  BY Initially, Inductive, PTL DEF Spec

\* Every cooldown is a time.Duration, whatever wraps around, and a command that ToTool
\* accepts gets methods that exist (duration.go, Tool.ToTool).
THEOREM TypeCorrectness == Spec => []TypeOK
  <1>1. IInv => TypeOK
    BY DEF IInv
  <1> QED  BY Invariance, <1>1, PTL

\* No command gets a nil installer or resolver for a tool that names its method (getInstaller,
\* getResolver).
THEOREM ToolWhole == Spec => []ToolIsWhole
  <1>1. IInv => ToolIsWhole
    <2> SUFFICES ASSUME IInv, NEW cmd \in Command, built[cmd].status = "ok", tool.method # ""
                 PROVE  built[cmd].installer # Nil /\ built[cmd].resolver # Nil
      BY DEF ToolIsWhole
    <2>1. Accepted(cmd) /\ tool \in ToolOption
      BY DEF IInv, TypeOK
    <2>2. tool.method \in InstallMethods /\ built[cmd].installer = tool.method
      BY <2>1 DEF Accepted, DeriveInstallParameters
    <2>3. built[cmd].resolver \in ResolveMethods
      BY <2>1, <2>2, ResolverGiven DEF Accepted
    <2> QED  BY <2>2, <2>3, NilIsNoMethod
  <1> QED  BY Invariance, <1>1, PTL

\* A cooldown that was asked for within the range of a time.Duration is in force for every
\* `binny install` and `binny update` that does not ignore it, for durations of any width (ParseFrom,
\* resolveEffectiveCooldown).
THEOREM CooldownInForce == Spec => []CooldownIsInForce
  <1>1. IInv => CooldownIsInForce
    <2> SUFFICES ASSUME IInv, NEW cmd \in {"install", "update"},
                        built[cmd].status = "ok", ~flag,
                        IF own.kind # "unset" THEN AskedFor(own) ELSE AskedFor(global)
                 PROVE  built[cmd].cooldown > 0
      BY DEF CooldownIsInForce
    <2>0. cmd \in Command
      BY DEF Command
    <2>1. Accepted(cmd) /\ Loaded /\ own \in Raw /\ global \in Raw /\ flag \in BOOLEAN
      BY <2>0 DEF IInv, TypeOK, Accepted
    <2>2. ~ToolOptions(cmd).ignoreCooldown /\ ToolOptions(cmd).globalCooldown = core
      BY <2>1 DEF ToolOptions
    <2>3. built[cmd].cooldown = IF perTool.IsSet THEN perTool.Duration
                                ELSE IF core.IsSet THEN core.Duration ELSE 0
      BY <2>1, <2>2 DEF Accepted, ResolveEffectiveCooldown
    <2>4. CASE own.kind # "unset"
      BY <2>1, <2>3, <2>4, Parsed DEF Loaded
    <2>5. CASE own.kind = "unset"
      <3>1. global.kind # "unset" /\ AskedFor(global)
        BY <2>5 DEF AskedFor
      <3> QED  BY <2>1, <2>3, <2>5, <3>1, Parsed DEF Loaded
    <2> QED  BY <2>4, <2>5
  <1> QED  BY Invariance, <1>1, PTL
=============================================================================
