----------------------------- MODULE AddCommand -----------------------------
(***************************************************************************)
(* `binny add`: runAddGoBuildConfig, runAddGoInstallConfig and             *)
(* runGithubReleaseConfig end in updateConfiguration                       *)
(* (cmd/binny/cli/command/utils.go), which makes the configuration file or *)
(* appends a tool to it.  Several of them, an `update` and an editor share *)
(* the file, and no command locks it.                                      *)
(***************************************************************************)
EXTENDS Update

CONSTANTS
    Adder,    \* `binny add` commands
    ToolOfAdd \* the tool each was asked to add

ASSUME AddTypes == ToolOfAdd \in [Adder -> Tool]

VARIABLES
    step,    \* where each command is
    doc,     \* the tools that its document has
    overlap, \* history: the file was changed under a command that had read it
    prior    \* history: the tools of the last document that the file held

adding == <<step, doc>>
addVars == <<vars, adding, overlap, prior>>

Steps == {"load", "stat", "create", "append", "patch", "write", "added", "unwritten",
          "refused", "failed", "killed"}

AddInit ==
    /\ Init
    /\ step = [a \in Adder |-> "load"] /\ doc = [a \in Adder |-> <<>>]
    /\ overlap = FALSE /\ prior = Configured

NamesIn(tools) == {tools[i].name : i \in DOMAIN tools}
Goes(a, s) == step' = [step EXCEPT ![a] = s]
Keeps(a, tools) == doc' = [doc EXCEPT ![a] = tools]

\* The command line library has loaded the file; a name that is there is no error.  The
\* arguments may be refused.
Load(a) ==
    /\ step[a] = "load" /\ UNCHANGED <<config, doc>>
    /\ \/ config.status = "broken" /\ Goes(a, "failed")
       \/ /\ config.status # "broken"
          /\ Goes(a, IF ToolOfAdd[a].name \in NamesIn(config.tools) THEN "refused" ELSE "stat")
       \/ Goes(a, "refused")

\* os.Stat: a file that is empty counts as none
Stat(a) ==
    /\ step[a] = "stat" /\ UNCHANGED <<config, doc>>
    /\ \/ Goes(a, IF config.status \in {"absent", "empty"} THEN "create" ELSE "append")
       \/ Goes(a, "failed")

\* what a command does to the file and to what it knows of it when a call fails
FailsBefore(a) == Goes(a, "failed") /\ UNCHANGED <<config, doc>>

\* OpenFile with O_TRUNC and O_CREATE
Create(a) ==
    /\ step[a] = "create"
    /\ \/ config' = File("empty") /\ Keeps(a, <<ToolOfAdd[a]>>) /\ Goes(a, "write")
       \/ FailsBefore(a)

\* yamlpatch.Write reads the file
ReadToAppend(a) ==
    /\ step[a] = "append"
    /\ \/ /\ config.status = "whole" /\ UNCHANGED config
          /\ Keeps(a, config.tools) /\ Goes(a, "patch")
       \/ FailsBefore(a)

\* A bug: the first tool of the file is replaced.
AppendAndTruncateFirst(a) ==
    /\ step[a] = "patch" /\ config' = File("empty")
    /\ Keeps(a, Append(SubSeq(doc[a], 2, Len(doc[a])), ToolOfAdd[a])) /\ Goes(a, "write")

\* yamlToolAppender.PatchYaml, formatYaml, and OpenFile with O_TRUNC; a `tools` that is no
\* sequence, or a call that fails, leaves the file alone
AppendAndTruncate(a) ==
    /\ step[a] = "patch"
    /\ \/ /\ config' = File("empty")
          /\ Keeps(a, Append(doc[a], ToolOfAdd[a])) /\ Goes(a, "write")
       \/ FailsBefore(a)

\* fh.Write of a new file, WriteString of an old one
WriteAdded(a) ==
    /\ step[a] = "write" /\ UNCHANGED doc
    /\ \/ config' \in Overwritten(doc[a]) /\ Goes(a, "added")
       \/ config' \in CutOff(doc[a]) /\ Goes(a, "unwritten")

\* Killed before it looked at the file, it is as if its arguments had been refused.
KillAdd(a) ==
    /\ step[a] \in {"create", "append", "patch", "write"}
    /\ Goes(a, "killed") /\ Keeps(a, <<>>) /\ UNCHANGED config

AddStep(a) == \/ Load(a) \/ Stat(a) \/ Create(a) \/ ReadToAppend(a) \/ AppendAndTruncate(a)
              \/ WriteAdded(a) \/ KillAdd(a)

\* the commands that will write what they know of the file
Windows == {a \in Adder : step[a] \in {"create", "patch", "write"}}
UpdateWindow == cmd \in {"patch", "write"}

\* the update, or a command, opens the file for writing or writes it
UpdateTouches == config' # config \/ (cmd = "patch" /\ cmd' = "write")
AddTouches(a) == config' # config \/ (step[a] # "write" /\ step'[a] = "write")

AddNext ==
    /\ \/ /\ Next /\ UNCHANGED adding
          /\ overlap' = (overlap \/ (UpdateTouches /\
                           (Windows # {} \/ (UpdateWindow /\ edits' # edits))))
       \/ \E a \in Adder :
             /\ AddStep(a) /\ UNCHANGED <<cmd, fetching, contents, edits>>
             /\ overlap' = (overlap \/ (AddTouches(a) /\ (Windows \ {a} # {} \/ UpdateWindow)))
    /\ prior' = CASE config'.status = "whole" -> config'.tools
                  [] config'.status = "absent" -> <<>>
                  [] OTHER -> prior

AddSpec == AddInit /\ [][AddNext]_addVars /\ Fairness

---------------------------------------------------------------------------
(* Properties.                                                             *)

\* Pins, tools and commands have their types.
AddTypeOK ==
    /\ TypeOK
    /\ step \in [Adder -> Steps] /\ doc \in [Adder -> Seq(Tool)]
    /\ overlap \in BOOLEAN /\ prior \in Seq(Tool)

Killed == cmd = "killed" \/ \E a \in Adder : step[a] = "killed"
WriteFailed == cmd = "unwritten" \/ \E a \in Adder : step[a] = "unwritten"
CutShort == Killed \/ WriteFailed

\* When the update wrote the file, nobody changed it in between and no `add` was cut short
\* in its write, every tool selected by a name of its own is pinned to the version found for
\* it, and no other pin moved.
PinsAreTheVersionsFound ==
    (cmd = "written" /\ edits = 0 /\ ~overlap /\ ~CutShort /\ config.status = "whole") =>
        \A i \in DOMAIN Configured :
            LET mine == {w \in Worker : i \in First(Configured, NameOf(w))}
            IN  /\ i \in DOMAIN config.tools /\ config.tools[i].name = Configured[i].name
                /\ mine = {} => config.tools[i] = Configured[i]
                /\ \A w \in mine : mine = {w} =>
                      config.tools[i].want = IF version[w] = Nil THEN Want(w)
                                             ELSE version[w]

\* The tools that the file has, or will have when the command that emptied it has written.
Intended ==
    IF config.status = "empty"
    THEN IF cmd = "write" THEN contents
         ELSE IF \E a \in Adder : step[a] = "write"
              THEN doc[CHOOSE a \in Adder : step[a] = "write"]
              ELSE <<>>
    ELSE config.tools

\* Commands that nobody interrupts, and whose writes do not fail, lose no tool: neither those the
\* file had nor the one that an `add` that has ended was asked for (updateConfiguration,
\* yamlpatch.Write).
ToolsAreKept ==
    [][ (~overlap' /\ edits' = edits /\ ~CutShort') =>
            /\ NamesIn(Intended) \subseteq NamesIn(Intended')
            /\ \A a \in Adder : step[a] = "write" /\ step'[a] = "added" =>
                  ToolOfAdd[a].name \in NamesIn(Intended') ]_addVars

\* What somebody wrote before a command read the file is in what the command writes: an
\* update changes nothing but the pins of the tools it was asked for, wherever they are
\* now, and an `add` nothing at all (yamlpatch.Write, which reads the file again).
EditsOfOthersSurvive ==
    [][ (~overlap' /\ ~CutShort') =>
          \A i \in DOMAIN prior :
            /\ (/\ cmd = "write" /\ cmd' = "written"
                /\ \A w \in Worker : NameOf(w) # prior[i].name) =>
                  i \in DOMAIN config'.tools /\ config'.tools[i] = prior[i]
            /\ \A a \in Adder : (step[a] = "write" /\ step'[a] = "added") =>
                  i \in DOMAIN config'.tools /\ config'.tools[i] = prior[i] ]_addVars

\* The file is empty only while a command writes it, or after one was killed or failed to
\* write; and it is no document only if a write failed, or one command changed it while
\* another had it open (patcher.go:70, utils.go:83).
DamageHasCause ==
    /\ config.status = "empty" =>
          CutShort \/ cmd = "write" \/ \E a \in Adder : step[a] = "write"
    /\ config.status = "broken" => overlap \/ WriteFailed

=============================================================================
