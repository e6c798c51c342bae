----------------------------- MODULE ToolConfig -----------------------------
(***************************************************************************)
(* From one tool's configuration to the installer, the version resolver    *)
(* and the cooldown a command uses: PostLoad and Tool.ToTool of            *)
(* cli/option, tool.New of tool/config.go, and the DefaultVersionResolver- *)
(* Config of each install method.  Method names are written one way.       *)
(***************************************************************************)
EXTENDS Integers

CONSTANTS
    Limit,  \* 2^63 nanoseconds, just beyond what a time.Duration holds
    Day,    \* 24 * time.Hour
    Raw,    \* cooldowns as configured: [kind, n]
    Nil     \* no installer, or no resolver

ASSUME ToolConfigTypes ==
    /\ Limit \in Nat \ {0} /\ Day \in Nat \ {0}
    /\ \A r \in Raw : r.kind \in {"unset", "days", "time", "number", "bad"} /\ r.n \in Int
    /\ \A r \in Raw : r.kind # "days" => -Limit <= r.n /\ r.n < Limit

InstallMethods == {"go-install", "go-build", "hosted-shell", "github-release"}
ResolveMethods == {"git", "go-proxy", "github-release"}
ASSUME NilIsNoMethod == Nil \notin InstallMethods \cup ResolveMethods
Command == {"install", "update", "check", "list"}

\* time.Duration, an int64
Duration == -Limit..(Limit - 1)
Wrap(n) == ((n + Limit) % (2 * Limit)) - Limit

\* JSONDuration, and Fails for a value that is refused
JSONDuration == [IsSet : BOOLEAN, Duration : Duration]
Unset == [IsSet |-> FALSE, Duration |-> 0]

\* option.Tool.  source: the go module is a path, the module or URL names a repository of
\* github.com, it names github.com alone, or another host.  The last two fields: the
\* parameters can be decoded.
ToolOption ==
    [method : InstallMethods \cup {"", "unknown"},
     source : {"local", "github", "short", "other"},
     resolve : ResolveMethods \cup {"", "unknown"},
     with : BOOLEAN, versionWith : BOOLEAN]

\* what ToTool returned to a command
Built ==
    [status : {"not run", "ok", "error"}, installer : InstallMethods \cup {Nil},
     resolver : ResolveMethods \cup {Nil}, cooldown : Duration]

VARIABLES
    tool,          \* the tool's configuration
    own, global,   \* version.cooldown and cooldown, as written
    flag,          \* --ignore-cooldown
    stage,         \* "read", "loaded" or "refused"
    perTool, core, \* the two, parsed
    built          \* what ToTool gave each command that ran

written == <<tool, own, global, flag>>
vars == <<written, stage, perTool, core, built>>

Nothing(status) == [status |-> status, installer |-> Nil, resolver |-> Nil, cooldown |-> 0]

TypeOK ==
    /\ tool \in ToolOption /\ own \in Raw /\ global \in Raw /\ flag \in BOOLEAN
    /\ stage \in {"read", "loaded", "refused"}
    /\ perTool \in JSONDuration /\ core \in JSONDuration
    /\ built \in [Command -> Built]

Init ==
    /\ tool \in ToolOption /\ own \in Raw /\ global \in Raw /\ flag \in BOOLEAN
    /\ stage = "read" /\ perTool = Unset /\ core = Unset
    /\ built = [c \in Command |-> Nothing("not run")]

---------------------------------------------------------------------------
(* Cooldowns.                                                              *)

Refused(raw) == raw.kind = "bad" \/ (raw.kind # "unset" /\ raw.n < 0)

\* ParseFrom and UnmarshalText of a value that is not refused
ParseFrom(raw) ==
    IF raw.kind = "unset" THEN Unset
    ELSE [IsSet |-> TRUE, Duration |-> IF raw.kind = "days" THEN Wrap(raw.n * Day) ELSE raw.n]

\* PostLoad of ToolVersionConfig and of Core
PostLoad ==
    /\ stage = "read"
    /\ IF Refused(own) \/ Refused(global)
       THEN stage' = "refused" /\ UNCHANGED <<perTool, core>>
       ELSE /\ stage' = "loaded"
            /\ perTool' = ParseFrom(own) /\ core' = ParseFrom(global)
    /\ UNCHANGED <<written, built>>

\* each command's toolOptions
ToolOptions(cmd) ==
    [globalCooldown |-> core,
     ignoreCooldown |-> cmd \in {"install", "update"} /\ flag]

\* A bug: a tool's own cooldown of any length hides a global one.
ResolveEffectiveCooldownOwn(opts) ==
    IF opts.ignoreCooldown \/ ~perTool.IsSet THEN 0 ELSE perTool.Duration

ResolveEffectiveCooldown(opts) ==
    CASE opts.ignoreCooldown -> 0
      [] ~opts.ignoreCooldown /\ perTool.IsSet -> perTool.Duration
      [] OTHER -> IF opts.globalCooldown.IsSet THEN opts.globalCooldown.Duration ELSE 0

---------------------------------------------------------------------------
(* Methods.                                                                *)

\* deriveInstallParameters returns no error; without a method nothing is decoded
DeriveInstallParameters == tool.method = "" \/ (tool.method \in InstallMethods /\ tool.with)

\* A bug: an unknown version method is let through.
DeriveVersionResolveParametersAny ==
    \/ tool.resolve \in {"", "unknown"}
    \/ tool.resolve \in {"github-release", "go-proxy"} /\ tool.versionWith

\* deriveVersionResolveParameters returns no error
DeriveVersionResolveParameters ==
    \/ tool.resolve = ""
    \/ tool.resolve \in {"github-release", "go-proxy"} /\ tool.versionWith

\* defaultVersionResolverConfig: the methods it may give, {} for an error
DefaultVersionResolverConfig ==
    CASE tool.method = "go-install" -> {IF tool.source = "local" THEN "git" ELSE "go-proxy"}
      [] tool.method = "go-build" ->
            {IF tool.source = "local" THEN "git"
             ELSE IF tool.source = "github" THEN "github-release" ELSE "go-proxy"}
      [] tool.method = "hosted-shell" ->
            IF tool.source = "github" THEN {"github-release"} ELSE {}
      [] tool.method = "github-release" -> {"github-release"}
      [] OTHER -> {Nil}

\* Config.normalize, and getResolver, which gives no resolver for a method it does not know
Resolvers ==
    IF tool.resolve = "" THEN DefaultVersionResolverConfig
    ELSE IF tool.resolve \in ResolveMethods THEN {tool.resolve} ELSE {Nil}

\* ToTool: ToConfig and tool.New
ToTool(cmd) ==
    /\ stage = "loaded" /\ built[cmd].status = "not run"
    /\ \/ /\ DeriveInstallParameters /\ DeriveVersionResolveParameters
          /\ \E resolver \in Resolvers :
                built' = [built EXCEPT ![cmd] =
                    [status |-> "ok", resolver |-> resolver,
                     installer |-> IF tool.method = "" THEN Nil ELSE tool.method,
                     cooldown |-> ResolveEffectiveCooldown(ToolOptions(cmd))]]
       \/ /\ \/ ~DeriveInstallParameters \/ ~DeriveVersionResolveParameters
             \/ Resolvers = {}
          /\ built' = [built EXCEPT ![cmd] = Nothing("error")]
    /\ UNCHANGED <<written, stage, perTool, core>>

Next == PostLoad \/ \E cmd \in Command : ToTool(cmd)

Spec == Init /\ [][Next]_vars

---------------------------------------------------------------------------
(* Properties.                                                             *)

\* A tool that names an install method and that ToTool accepts has both an installer and
\* a version resolver: no later call meets a nil one (getInstaller and getResolver give
\* nil without an error for a method they do not know).
ToolIsWhole ==
    \A cmd \in Command : (built[cmd].status = "ok" /\ tool.method # "") =>
        built[cmd].installer # Nil /\ built[cmd].resolver # Nil

AskedFor(raw) ==
    raw.kind # "unset" /\ raw.n # 0 /\ (raw.kind = "days" => raw.n * Day \in Duration)

\* A cooldown that was asked for, and not with zero or more days than a time.Duration
\* holds, is in force for `binny install` and `binny update`, unless they are told to
\* ignore it: ToTool gives them no other than a positive one, which is what the resolvers
\* look at (duration.go, cooldown.go).  Beyond that range it may be off.
CooldownIsInForce ==
    \A cmd \in {"install", "update"} :
        (   /\ built[cmd].status = "ok" /\ ~flag
            /\ IF own.kind # "unset" THEN AskedFor(own) ELSE AskedFor(global)) =>
            built[cmd].cooldown > 0
=============================================================================
