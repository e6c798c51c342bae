------------------------------- MODULE Update -------------------------------
(***************************************************************************)
(* `binny update` of cmd/binny/cli/command/update.go: getUpdatedConfig     *)
(* asks for the newest version of every selected tool in goroutines that   *)
(* collect their answers under a mutex, and runUpdate then patches the     *)
(* pins in the configuration file (yamlpatch.Write), which others may have *)
(* changed since the command read its configuration: an editor, or the     *)
(* `binny add` of AddCommand.                                              *)
(***************************************************************************)
EXTENDS Integers, Sequences, FiniteSets

CONSTANTS
    Worker,       \* one goroutine for each selected tool
    Name,         \* names of tools
    Version,      \* versions a pin may have
    NoPin,        \* version.want of a node that has none
    Nil,          \* getUpdatedToolVersion's nil
    NoOne,        \* the holder of a lock that is free
    OptOf,        \* the position in the configuration of the tool a worker updates
    ToolOpts,     \* the workers in the order of the configuration
    Configured,   \* the tools of the configuration file when the command starts
    Limit,        \* errgroup.SetLimit
    StopOnError,  \* the values of UpdateConfig.StopOnError to consider
    EditorFile,   \* what an editor may save in place of the file
    MaxEdits      \* bound on changes of the file by an editor

Tool == [name : Name, want : Version \cup {NoPin}]
First(tools, name) ==
    {i \in DOMAIN tools : tools[i].name = name /\ \A j \in 1..(i - 1) : tools[j].name # name}

ASSUME UpdateSpecialValues ==
    NoPin \notin Version /\ Nil \notin Version \cup {NoPin} /\ NoOne \notin Worker
ASSUME UpdateParameterTypes ==
    /\ Configured \in Seq(Tool) /\ EditorFile \subseteq Seq(Tool)
    /\ OptOf \in [Worker -> DOMAIN Configured] /\ ToolOpts \in Seq(Worker)
    /\ Limit \in Nat \ {0} /\ StopOnError \subseteq BOOLEAN /\ MaxEdits \in Nat
ASSUME EachToolOptOnce ==
    \A w \in Worker : \E i \in DOMAIN ToolOpts :
        ToolOpts[i] = w /\ \A j \in DOMAIN ToolOpts : ToolOpts[j] = w => j = i

VARIABLES
    stopOnError, \* UpdateConfig.StopOnError
    cmd,       \* how far runUpdate is
    next,      \* the loop's index i
    stage,     \* where in its closure a goroutine is
    version,   \* the newVersion of a goroutine
    err,       \* whether its getUpdatedToolVersion failed
    lock,      \* the goroutine that holds getUpdatedConfig's mutex
    errs,      \* the multierror: the workers that failed
    newCfgs,   \* the tool configurations to write, as [name, want] records
    config,    \* the configuration file
    contents,  \* what yamlpatch.Write read
    edits      \* changes of the file by an editor so far

fetching == <<stopOnError, next, stage, version, err, lock, errs, newCfgs>>
patching == <<config, contents, edits>>
vars == <<cmd, fetching, patching>>

\* the toolCfg of a worker's closure
NameOf(w) == Configured[OptOf[w]].name
Want(w) == Configured[OptOf[w]].want

Stages == {"queued", "fetch", "lock", "locked", "done", "failed"}
Ended == {"written", "unwritten", "failed", "panic", "killed"}
Commands == {"loop", "wait", "read", "patch", "write"} \cup Ended

TypeOK ==
    /\ stopOnError \in BOOLEAN /\ cmd \in Commands /\ next \in Nat
    /\ stage \in [Worker -> Stages]
    /\ version \in [Worker -> Version \cup {NoPin, Nil}]
    /\ err \in [Worker -> BOOLEAN]
    /\ lock \in Worker \cup {NoOne}
    /\ errs \subseteq Worker
    /\ newCfgs \in Seq([name : Name, want : Version \cup {NoPin}])
    /\ config \in [status : {"whole", "empty", "broken", "absent"}, tools : Seq(Tool)]
    /\ contents \in Seq(Tool)
    /\ edits \in Nat

\* the configuration file without a document, and with one
File(status) == [status |-> status, tools |-> <<>>]
Whole(tools) == [status |-> "whole", tools |-> tools]

Init ==
    /\ stopOnError \in StopOnError
    /\ cmd = "loop" /\ next = 1
    /\ stage = [w \in Worker |-> "queued"]
    /\ version = [w \in Worker |-> Nil]
    /\ err = [w \in Worker |-> FALSE]
    /\ lock = NoOne /\ errs = {} /\ newCfgs = <<>>
    /\ config = Whole(Configured)
    /\ contents = <<>> /\ edits = 0

Live == cmd \in {"loop", "wait"}
To(w, s) == stage' = [stage EXCEPT ![w] = s]
Running == {w \in Worker : stage[w] \notin {"queued", "done", "failed"}}

---------------------------------------------------------------------------
(* The goroutines.                                                         *)

\* g.Go blocks while Limit goroutines run
Go ==
    /\ cmd = "loop" /\ next <= Len(ToolOpts) /\ Cardinality(Running) < Limit
    /\ To(ToolOpts[next], "fetch")
    /\ next' = next + 1
    /\ UNCHANGED <<stopOnError, cmd, version, err, lock, errs, newCfgs, patching>>

\* getUpdatedToolVersion: ToTool or UpdateVersion may fail, the same version is nil
GetUpdatedToolVersion(w) ==
    /\ Live /\ stage[w] = "fetch"
    /\ \/ \E v \in Version \cup {NoPin} :
             /\ (v = NoPin) = (Want(w) = NoPin)
             /\ version' = [version EXCEPT ![w] = IF v = Want(w) THEN Nil ELSE v]
             /\ UNCHANGED err
       \/ err' = [err EXCEPT ![w] = TRUE] /\ UNCHANGED version
    /\ To(w, "lock")
    /\ UNCHANGED <<stopOnError, cmd, next, lock, errs, newCfgs, patching>>

LockLists(w) ==
    /\ Live /\ stage[w] = "lock" /\ lock = NoOne
    /\ lock' = w
    /\ To(w, "locked")
    /\ UNCHANGED <<stopOnError, cmd, next, version, err, errs, newCfgs, patching>>

\* An error with StopOnError: the goroutine returns from inside the critical section
\* and never calls Unlock.
StopInside(w) ==
    /\ Live /\ stage[w] = "locked" /\ err[w] /\ stopOnError
    /\ errs' = errs \cup {w}
    /\ To(w, "failed")
    /\ UNCHANGED <<stopOnError, cmd, next, version, err, lock, newCfgs, patching>>

\* A bug: the old pin is collected, never the new one.
CollectOldPin(w) ==
    /\ Live /\ stage[w] = "locked" /\ ~(err[w] /\ stopOnError)
    /\ errs' = IF err[w] THEN errs \cup {w} ELSE errs
    /\ newCfgs' = Append(newCfgs, [name |-> NameOf(w), want |-> Want(w)])
    /\ lock' = NoOne
    /\ To(w, "done")
    /\ UNCHANGED <<stopOnError, cmd, next, version, err, patching>>

\* A bug: the lock is not given back.
CollectKeepsLock(w) ==
    /\ Live /\ stage[w] = "locked" /\ ~(err[w] /\ stopOnError)
    /\ errs' = IF err[w] THEN errs \cup {w} ELSE errs
    /\ To(w, "done")
    /\ UNCHANGED <<stopOnError, cmd, next, version, err, lock, newCfgs, patching>>

\* Otherwise the tool's configuration is collected, with the old pin if there is no
\* new one, and the lock is given back.
Collect(w) ==
    /\ Live /\ stage[w] = "locked" /\ ~(err[w] /\ stopOnError)
    /\ errs' = IF err[w] THEN errs \cup {w} ELSE errs
    /\ newCfgs' = Append(newCfgs,
                    [name |-> NameOf(w),
                     want |-> IF version[w] = Nil THEN Want(w) ELSE version[w]])
    /\ lock' = NoOne
    /\ To(w, "done")
    /\ UNCHANGED <<stopOnError, cmd, next, version, err, patching>>

---------------------------------------------------------------------------
(* runUpdate.                                                              *)

LoopEnds ==
    /\ cmd = "loop" /\ next > Len(ToolOpts)
    /\ cmd' = "wait"
    /\ UNCHANGED <<fetching, patching>>

\* A bug: what the workers that succeeded found is written.
WaitReturnsPartly ==
    /\ cmd = "wait" /\ Running = {}
    /\ cmd' = IF newCfgs # <<>> THEN "read" ELSE "failed"
    /\ UNCHANGED <<fetching, patching>>

\* g.Wait returns; any error discards the new versions of every tool
WaitReturns ==
    /\ cmd = "wait" /\ Running = {}
    /\ cmd' = IF errs = {} THEN "read" ELSE "failed"
    /\ UNCHANGED <<fetching, patching>>

\* the index of the want node FindToolVersionWantNode returns; {} for nil
WantNode(tools, name) == {i \in First(tools, name) : tools[i].want # NoPin}

\* A bug: the configuration the command started with is written back.
PatchYamlFromStart(tools, cfgs) ==
    [i \in DOMAIN Configured |->
        LET mine == {k \in DOMAIN cfgs : i \in WantNode(Configured, cfgs[k].name)}
        IN  IF mine = {} THEN Configured[i]
            ELSE [Configured[i] EXCEPT !.want =
                    cfgs[CHOOSE k \in mine : \A j \in mine : j <= k].want]]

\* updateLockYamlPatcher: each collected pin, in turn, to the first node of that name
PatchYaml(tools, cfgs) ==
    [i \in DOMAIN tools |->
        LET mine == {k \in DOMAIN cfgs : i \in WantNode(tools, cfgs[k].name)}
        IN  IF mine = {} THEN tools[i]
            ELSE [tools[i] EXCEPT !.want =
                    cfgs[CHOOSE k \in mine : \A j \in mine : j <= k].want]]

\* yamlpatch.Write: read and decode the file as it is now, if it is one document; Open or
\* the reading may fail
ReadConfig ==
    /\ cmd = "read"
    /\ \/ config.status = "whole" /\ contents' = config.tools /\ cmd' = "patch"
       \/ cmd' = "failed" /\ UNCHANGED contents
    /\ UNCHANGED <<fetching, config, edits>>

\* A bug: the file is opened for writing before it is patched.
PatchAfterTruncate ==
    /\ cmd = "patch" /\ config' = File("empty")
    /\ \/ /\ \A k \in DOMAIN newCfgs : WantNode(contents, newCfgs[k].name) # {}
          /\ contents' = PatchYaml(contents, newCfgs)
          /\ cmd' = "write"
       \/ /\ \E k \in DOMAIN newCfgs : WantNode(contents, newCfgs[k].name) = {}
          /\ cmd' = "panic" /\ UNCHANGED contents
    /\ UNCHANGED <<fetching, edits>>

\* PatchYaml, formatYaml, and OpenFile with O_TRUNC; any of these may fail and leave the
\* file alone, and a nil node is dereferenced in the first
PatchAndTruncate ==
    /\ cmd = "patch"
    /\ \/ /\ \A k \in DOMAIN newCfgs : WantNode(contents, newCfgs[k].name) # {}
          /\ contents' = PatchYaml(contents, newCfgs)
          /\ config' = File("empty")
          /\ cmd' = "write"
       \/ /\ \E k \in DOMAIN newCfgs : WantNode(contents, newCfgs[k].name) = {}
          /\ cmd' = "panic" /\ UNCHANGED <<contents, config>>
       \/ cmd' = "failed" /\ UNCHANGED <<contents, config>>
    /\ UNCHANGED <<fetching, edits>>

\* The file after a write from its start: what another command has written there since
\* it was opened is overwritten as far as the new text goes, and what was removed stays
\* removed.
Overwritten(tools) ==
    IF config.status = "absent" THEN {config}
    ELSE IF config.status = "empty" THEN {Whole(tools)}
    ELSE {Whole(tools), File("broken")}

\* And after one that failed: nothing of the text is there, or a first part of it, which
\* is a document of fewer tools if the cut falls between two, and otherwise none.
CutOff(tools) ==
    IF config.status = "absent" THEN {config}
    ELSE {config, File("broken")} \cup {Whole(SubSeq(tools, 1, k)) : k \in 0..Len(tools)}

\* WriteString
WriteConfig ==
    /\ cmd = "write"
    /\ \/ config' \in Overwritten(contents) /\ cmd' = "written"
       \/ config' \in CutOff(contents) /\ cmd' = "unwritten"
    /\ UNCHANGED <<fetching, contents, edits>>

\* The process is killed, and what it remembered is gone.
Kill ==
    /\ cmd \in {"loop", "wait", "read", "patch", "write"}
    /\ cmd' = "killed"
    /\ next' = 1 /\ stage' = [w \in Worker |-> "queued"]
    /\ version' = [w \in Worker |-> Nil] /\ err' = [w \in Worker |-> FALSE]
    /\ lock' = NoOne /\ errs' = {} /\ newCfgs' = <<>> /\ contents' = <<>>
    /\ UNCHANGED <<stopOnError, config, edits>>

\* Somebody saves the file from an editor, or removes it.
Edit ==
    /\ edits < MaxEdits /\ config.status = "whole"
    /\ edits' = edits + 1
    /\ config' \in {Whole(tools) : tools \in EditorFile} \cup {File("absent")}
    /\ UNCHANGED <<cmd, fetching, contents>>

OwnStep(w) == LockLists(w) \/ StopInside(w) \/ Collect(w)
Goroutine(w) == GetUpdatedToolVersion(w) \/ OwnStep(w)
Main == Go \/ LoopEnds \/ WaitReturns \/ ReadConfig \/ PatchAndTruncate \/ WriteConfig

Next == Main \/ Kill \/ Edit \/ \E w \in Worker : Goroutine(w)

\* The scheduler runs the command and its goroutines; a resolver's request has no deadline
\* and may never return.
Fairness == WF_vars(Main) /\ \A w \in Worker : WF_vars(OwnStep(w))

Spec == Init /\ [][Next]_vars /\ Fairness

---------------------------------------------------------------------------
(* Properties.                                                             *)

\* One tool that fails keeps the whole file as it was: the command writes only when
\* every worker is done and none failed (runUpdate's return before yamlpatch.Write).
WritesOnlyWhenAllSucceeded ==
    [][ (config' # config /\ cmd' # cmd) =>
            errs = {} /\ \A w \in Worker : stage[w] = "done" /\ ~err[w] ]_vars

OnlyRequestsAreLeft == Running # {} /\ \A w \in Running : stage[w] = "fetch"

\* "note: we can ignore the error here because we are tracking the error through the
\* multierror object" (update.go:169): g.Wait returns, and the command ends, unless from
\* some time on it only waits for requests that never return.
UpdateEnds == <>(cmd \in Ended) \/ <>[]OnlyRequestsAreLeft

\* Without stop-on-error it does: the limit of the errgroup and the mutex do not wait on
\* each other, whatever fails, and a request that hangs holds up itself alone.
EndsWithoutStopOnError == ~stopOnError => UpdateEnds

=============================================================================
