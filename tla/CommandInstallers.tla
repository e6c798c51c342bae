------------------------- MODULE CommandInstallers -------------------------
(***************************************************************************)
(* The installers that have other programs do the work: go-build           *)
(* (tool/gobuild), go-install (tool/goinstall) and hosted-shell            *)
(* (tool/hostedshell).  One call: for a module in the file system the git  *)
(* version resolver, its default one, says which version it is; InstallTo  *)
(* then fetches the source, renders the templates, runs git, go or sh, and *)
(* returns the path of what they left in the staging directory.  The       *)
(* repository changes between the commands, and each may fail or be        *)
(* killed.                                                                 *)
(***************************************************************************)
EXTENDS Integers, Sequences, SequencesExt

CONSTANTS
    Tool,          \* configurations to install, records of ToolType
    Commit,        \* commits of the repository; a hash is its commit
    Tag, Branch,   \* names of refs
    Current,       \* the wanted version "current"
    Changed,       \* a work tree with changes that are in no commit
    None,          \* no commit, no version, no file
    Proxied,       \* what the module proxy has under a version
    Stray,         \* what else a script may leave: sets of file names
    Segment,       \* the segments of module paths
    MaxPushes      \* bound on changes of the repository

\* module and entrypoint as their segments; templates: ldflags, args and env all render
ToolType == [kind : {"go-install", "go-build", "hosted-shell"}, local : BOOLEAN,
             github : BOOLEAN, repoURL : BOOLEAN,
             source : {"git", "go-proxy", "goproxy", "proxy", "svn"},
             module : Seq(Segment), entrypoint : Seq(Segment), templates : BOOLEAN]

FullName(t) == <<"refs/tags", t>>
Version == Tag \cup Branch \cup Commit \cup {FullName(t) : t \in Tag}

ASSUME CommandTypes ==
    /\ Tool \subseteq ToolType /\ MaxPushes \in Nat
    /\ \A t \in Tool : t.kind # "hosted-shell" => t.module # <<>>
    /\ Tag \cap Branch = {} /\ (Tag \cup Branch) \cap Commit = {}
    /\ \A t \in Tag : FullName(t) \notin Tag \cup Branch \cup Commit
    /\ Proxied \in [Version -> SUBSET Commit]
    /\ Current \notin Version \cup {None} /\ None \notin Version
    /\ Changed \notin Commit /\ Changed # None

VARIABLES
    refs, head, worktree,  \* the repository: refs, and HEAD and work tree of a local one
    named,             \* history: the commits each ref has named since the call began
    pushes,            \* how often it was changed
    tool, want,        \* the tool, and its version.want
    at,                \* where in the call the process is
    version,           \* the resolved version
    clone,             \* the temporary directory: None, or what is in it
    warned,            \* "failed to clean up temp directory" was logged
    staged,            \* the files in the staging directory: [name, of]
    result             \* what InstallTo returned: [kind, name]

repository == <<refs, head, worktree, named, pushes>>
request == <<tool, want>>
commandVars == <<repository, request, at, version, clone, warned, staged, result>>

Empty == [left |-> FALSE, refs |-> <<>>, of |-> None]
Leftover == [left |-> TRUE, refs |-> <<>>, of |-> None]

CommandInit ==
    /\ refs \in [Tag \cup Branch -> Commit \cup {None}]
    /\ head \in Commit /\ worktree \in {head, Changed}
    /\ named = [r \in Tag \cup Branch |-> {refs[r]}] /\ pushes = 0
    /\ tool \in Tool
    /\ want \in Tag \cup Branch \cup Commit \cup {Current}
    /\ \/ tool.local /\ at = "resolve" /\ version = None
       \/ ~tool.local /\ want # Current /\ at = "start" /\ version = want
    /\ clone = None /\ warned = FALSE /\ staged = {}
    /\ result = [kind |-> "none", name |-> None]

\* somebody moves a ref, or works in a local module
Push ==
    /\ pushes < MaxPushes /\ at \notin {"idle", "done", "killed"} /\ pushes' = pushes + 1
    /\ \/ \E r \in Tag \cup Branch, c \in Commit \cup {None} :
             /\ refs' = [refs EXCEPT ![r] = c]
             /\ named' = [named EXCEPT ![r] = @ \cup {c}]
             /\ UNCHANGED <<head, worktree>>
       \/ /\ tool.local /\ head' \in Commit /\ worktree' \in {head', Changed}
          /\ UNCHANGED <<refs, named>>
    /\ UNCHANGED <<request, at, version, clone, warned, staged, result>>

\* A return from InstallTo runs the deferred cleanup, which only warns when it fails.
Cleanup ==
    \/ clone' = None /\ UNCHANGED warned
    \/ clone # None /\ warned' = TRUE /\ UNCHANGED clone

Returns(kind, name) ==
    /\ at' = "done" /\ result' = [kind |-> kind, name |-> name] /\ Cleanup

Fails(kind) == Returns(kind, None)

---------------------------------------------------------------------------
(* git.VersionResolver.ResolveVersion, for a module in the file system.    *)

\* headCommit and byReference: {} for an error.  A name that is no tag is taken for a
\* hash; none is found for a branch, and go-git's error for that is not the one that
\* byReference lets pass.
GitVersions ==
    IF want = Current THEN {head}
    ELSE IF want \in Tag /\ refs[want] # None THEN {FullName(want)}
    ELSE {want} \cap Commit

Resolve ==
    /\ at = "resolve"
    /\ \/ version' \in GitVersions /\ at' = "start" /\ UNCHANGED <<clone, warned, result>>
       \/ Fails("version") /\ UNCHANGED version
    /\ UNCHANGED <<repository, request, staged>>

---------------------------------------------------------------------------
(* getSource: cloneSource and downloadFromProxy.                           *)

NormalizeSourceMode(mode) == IF mode \in {"goproxy", "proxy"} THEN "go-proxy" ELSE mode

\* Installer.InstallTo of go-build up to its first command
GetSource ==
    /\ at = "start" /\ tool.kind = "go-build"
    /\ \/ tool.local /\ at' = "template" /\ UNCHANGED <<clone, warned, result>>
       \/ ~tool.local /\ Fails("source")
       \/ /\ ~tool.local /\ clone' = Empty /\ UNCHANGED <<warned, result>>
          /\ \/ /\ NormalizeSourceMode(tool.source) = "git" /\ at' = "shallow"
                /\ tool.github \/ tool.repoURL
             \/ NormalizeSourceMode(tool.source) = "go-proxy" /\ at' = "copy"
    /\ UNCHANGED <<repository, request, version, staged>>

\* git clone --depth 1 --branch: a tag or a branch, by its short name
ShallowClone ==
    /\ at = "shallow"
    /\ \/ /\ version \in DOMAIN refs /\ refs[version] # None
          /\ clone' = [Empty EXCEPT !.of = refs[version]] /\ at' = "template"
       \/ clone' \in {Empty, Leftover} /\ at' = "full"
    /\ UNCHANGED <<repository, request, version, warned, staged, result>>

\* A bug: a failed clone returns before the directory is removed.
FullCloneLeaves ==
    /\ at = "full"
    /\ \/ /\ clone = Empty /\ clone' = [left |-> TRUE, refs |-> refs, of |-> head]
          /\ at' = "checkout" /\ UNCHANGED <<warned, result>>
       \/ /\ at' = "done" /\ result' = [kind |-> "source", name |-> None]
          /\ clone' \in {clone, Leftover} /\ UNCHANGED warned
    /\ UNCHANGED <<repository, request, version, staged>>

\* fullCloneAndCheckout: git clones into an empty directory only
FullClone ==
    /\ at = "full"
    /\ \/ /\ clone = Empty /\ clone' = [left |-> TRUE, refs |-> refs, of |-> head]
          /\ at' = "checkout" /\ UNCHANGED <<warned, result>>
       \/ Fails("source")
    /\ UNCHANGED <<repository, request, version, staged>>

\* the commit a version names in a clone, of which some commits may be missing
Revision(names) ==
    IF version \in DOMAIN names THEN {names[version]} \ {None}
    ELSE (({version} \cap Commit) \cup {names[t] : t \in {t \in Tag : version = FullName(t)}}) \ {None}

\* A bug: what the clone has checked out by itself is built.
CheckoutNothing ==
    /\ at = "checkout" /\ at' = "template"
    /\ UNCHANGED <<repository, request, version, clone, warned, staged, result>>

Checkout ==
    /\ at = "checkout"
    /\ \/ \E c \in Revision(clone.refs) :
             /\ clone' = [clone EXCEPT !.of = c] /\ at' = "template"
             /\ UNCHANGED <<warned, result>>
       \/ Fails("source")
    /\ UNCHANGED <<repository, request, version, staged>>

\* copyDir of what `go mod download` returned
CopyDir ==
    /\ at = "copy"
    /\ \/ \E c \in Proxied[version] :
             /\ clone' = [Leftover EXCEPT !.of = c] /\ at' = "template"
             /\ UNCHANGED <<warned, result>>
       \/ Fails("source")
    /\ UNCHANGED <<repository, request, version, staged>>

---------------------------------------------------------------------------
(* The templates, and the commands.                                        *)

\* TemplateFlags, TemplateSlice and ValidateEnvSlice.  go-install renders first of all.
Template ==
    /\ \/ at = "template"
       \/ at = "start" /\ tool.kind = "go-install"
    /\ \/ tool.templates /\ at' = "build" /\ UNCHANGED <<clone, warned, result>>
       \/ ~tool.templates /\ Fails("template")
    /\ UNCHANGED <<repository, request, version, staged>>

Path == tool.module \o tool.entrypoint
MajorVersion == {"v2"}
StripVersionSuffix(path) == IF Last(path) \in MajorVersion THEN Front(path) ELSE path

\* deriveBinaryName of go-build
DeriveBinaryName == IF tool.entrypoint = <<>> THEN Last(StripVersionSuffix(Path)) ELSE Last(Path)

BinName == IF tool.kind = "go-build" THEN DeriveBinaryName ELSE Last(Path)

\* The file go writes: -o names it, unless that is a directory; go install leaves the
\* major version out.  The module is not called by its directory's name.
Written ==
    IF BinName = "." THEN "module"
    ELSE IF tool.kind = "go-install" /\ ~tool.local THEN Last(StripVersionSuffix(Path))
    ELSE BinName

\* what is compiled: the work tree as it is, a clone, or what the proxy has
Compiled ==
    IF tool.local THEN {worktree}
    ELSE IF tool.kind = "go-build" THEN {clone.of} ELSE Proxied[version]

\* runGoBuild, runGoInstall
RunGo ==
    /\ at = "build"
    /\ \/ \E c \in Compiled : /\ staged' = {[name |-> Written, of |-> c]}
                              /\ Returns("ok", BinName)
       \/ Fails("build") /\ UNCHANGED staged
    /\ UNCHANGED <<repository, request, version>>

ScriptNames == {"install.sh", "INSTALL.SH"}

\* hosted-shell: DownloadFile of the script into the staging directory
DownloadScript ==
    /\ at = "start" /\ tool.kind = "hosted-shell"
    /\ \/ Fails("network") /\ staged' \in {{}, {[name |-> "install.sh", of |-> None]}}
       \/ /\ staged' = {[name |-> "install.sh", of |-> None]}
          /\ \/ ~tool.templates /\ Fails("template")
             \/ tool.templates /\ at' = "script" /\ UNCHANGED <<clone, warned, result>>
    /\ UNCHANGED <<repository, request, version>>

\* A bug: the first file there is.
ResultAny(names) == names

\* the switch on the files that are not the script: {} for an error
Result(names) ==
    LET files == names \ ScriptNames
    IN  IF \A f, g \in files : f = g THEN files ELSE {}

\* runScript, and what it left; the script may remove itself
RunScript ==
    /\ at = "script"
    /\ \/ Fails("build") /\ UNCHANGED staged
       \/ \E names \in Stray :
            /\ staged' = {[name |-> n, of |-> None] : n \in names}
            /\ \/ \E n \in Result(names) : Returns("ok", n)
               \/ Result(names) = {} /\ Fails("files")
    /\ UNCHANGED <<repository, request, version>>

\* the process is killed
KillCommand ==
    /\ at \notin {"idle", "done", "killed"} /\ at' = "killed"
    /\ UNCHANGED <<repository, request, version, clone, warned, staged, result>>

Command == \/ Resolve \/ GetSource \/ ShallowClone \/ FullClone \/ Checkout \/ CopyDir
           \/ Template \/ RunGo \/ DownloadScript \/ RunScript

CommandNext == Command \/ Push \/ KillCommand

---------------------------------------------------------------------------
(* Properties.                                                             *)

States == {"idle", "resolve", "start", "shallow", "full", "checkout", "copy", "template", "build",
           "script", "done", "killed"}
Failures == {"version", "source", "template", "build", "network", "files"}

CommandTypeOK ==
    /\ refs \in [Tag \cup Branch -> Commit \cup {None}]
    /\ head \in Commit /\ worktree \in Commit \cup {Changed}
    /\ named \in [Tag \cup Branch -> SUBSET (Commit \cup {None})] /\ pushes \in Nat
    /\ tool \in Tool /\ want \in Tag \cup Branch \cup Commit \cup {Current}
    /\ at \in States /\ version \in Version \cup {None} /\ warned \in BOOLEAN
    /\ clone \in {None} \cup
         [left : BOOLEAN, refs : {<<>>} \cup [Tag \cup Branch -> Commit \cup {None}],
          of : Commit \cup {None}]
    /\ \A f \in staged : f.of \in Commit \cup {Changed, None}
    /\ result.kind \in Failures \cup {"none", "ok"}

\* the commits a version has named since the call began
Names(v) ==
    IF v \in Commit THEN {v}
    ELSE IF v \in DOMAIN named THEN named[v]
    ELSE UNION {named[t] : t \in {t \in Tag : v = FullName(t)}}

FromGit == tool.kind = "go-build" /\ ~tool.local /\ tool.source = "git"
Untouched == tool.local /\ want = Current /\ pushes = 0 /\ worktree = head

\* A tool built from a clone is built from a commit that its version has named during the
\* call, however the shallow clone failed and wherever the refs moved meanwhile; one
\* that is built where it lies, as "current", from the commit that is recorded, if nobody
\* worked there (cloneSource, fullCloneAndCheckout, git.ResolveVersion).
BuiltFromVersion ==
    result.kind = "ok" =>
        /\ FromGit => \A f \in staged : f.of \in Names(version) \ {None}
        /\ Untouched /\ tool.kind # "hosted-shell" => \A f \in staged : f.of = version

\* A call that has returned, well or not, leaves no temporary clone, except one the log
\* warns of (the deferred cleanup of InstallTo, and those of the failures before it).
CloneIsRemoved == at = "done" /\ clone # None => warned

\* What go itself names otherwise: go install of a module that ends in its major version,
\* and a module that is given as a directory.
NamedByGo ==
    \/ tool.kind = "go-install" /\ ~tool.local /\ Last(Path) \in MajorVersion
    \/ tool.kind # "hosted-shell" /\ BinName = "."

\* The path that is returned is one of a file that the command made, and not the script:
\* AddTool digests and moves it next (deriveBinaryName, the switch of hosted-shell).
ReturnedFileIsThere ==
    result.kind = "ok" =>
        /\ NamedByGo \/ result.name \in {f.name : f \in staged}
        /\ tool.kind = "hosted-shell" => result.name \notin ScriptNames

=============================================================================
