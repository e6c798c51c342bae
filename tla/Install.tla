------------------------------ MODULE Install ------------------------------
(***************************************************************************)
(* `binny install`: runInstall of cmd/binny/cli/command/install.go starts  *)
(* one goroutine per tool, at most Limit at once, and each runs Install of *)
(* tool/install.go against the one Store.  Workers report under a mutex.   *)
(***************************************************************************)
EXTENDS Store

CONSTANT ToolOpts   \* the loop's tool options, as workers in configuration order

ASSUME EachToolOptIsAWorker ==
    /\ ToolOpts \in Seq(Worker)
    /\ \A w \in Worker : \E i \in DOMAIN ToolOpts :
          ToolOpts[i] = w /\ \A j \in DOMAIN ToolOpts : ToolOpts[j] = w => j = i

VARIABLES
    cmd,       \* runInstall: "none" running, in its "loop", at g.Wait, or "done"
    next,      \* the loop's index i
    stage,     \* where in its goroutine a worker is
    want,      \* the version ResolveVersion gave
    found,     \* the index Check's Get returned the entry of, with that entry
    result,    \* what installTool returned
    mutex,     \* the goroutine that holds runInstall's lock
    read,      \* the slice a goroutine read before it appends to it
    failedTools, alreadyInstalledTools,
    staging,   \* how many staging directories of a worker are in the store root
    warnings,  \* the removals of one that failed with only a warning, within MaxFaults
    report     \* what runInstall returned and said

area == <<staging, warnings>>
pool == <<cmd, next, stage, want, found, result, mutex, read, failedTools,
          alreadyInstalledTools, area, report>>
installVars == <<vars, pool>>

Stages == {"queued", "start", "resolve", "check", "verify", "fetch", "store",
           "lock", "append", "done"}
Results == {"none", "ok", "already", "failed"}

InstallTypeOK ==
    /\ TypeOK
    /\ cmd \in {"none", "loop", "wait", "done"}
    /\ next \in Nat
    /\ stage \in [Worker -> Stages]
    /\ want \in [Worker -> Version \cup {NoVersion}]
    /\ found \in [Worker -> Seq(Entry)] /\ \A w \in Worker : Len(found[w]) <= 1
    /\ result \in [Worker -> Results]
    /\ mutex \in Worker \cup {NoOne}
    /\ read \in [Worker -> Seq(Worker)]
    /\ failedTools \in Seq(Worker) /\ alreadyInstalledTools \in Seq(Worker)
    /\ staging \in [Worker -> Nat] /\ warnings \in Nat
    /\ report \in {"none", "error", "installed", "alreadyInstalled"}

To(w, s) == stage' = [stage EXCEPT ![w] = s]

\* the cleanup makeStagingArea returns: when os.RemoveAll fails it only warns
Cleanup(w) ==
    \/ staging' = [staging EXCEPT ![w] = @ - 1] /\ UNCHANGED warnings
    \/ warnings < MaxFaults /\ warnings' = warnings + 1 /\ UNCHANGED staging

\* A bug: the staging area is removed on success only.
FinishLeavesStaging(w, res) ==
    /\ result' = [result EXCEPT ![w] = res]
    /\ To(w, IF res = "ok" THEN "done" ELSE "lock")
    /\ IF res = "ok" THEN Cleanup(w) ELSE UNCHANGED area

\* installTool returns, with Install's deferred cleanup; only an error takes the
\* goroutine through the lock
Finish(w, res) ==
    /\ result' = [result EXCEPT ![w] = res]
    /\ To(w, IF res = "ok" THEN "done" ELSE "lock")
    /\ Cleanup(w)

command == <<cmd, next, report>>
lists == <<mutex, read, failedTools, alreadyInstalledTools>>

---------------------------------------------------------------------------
(* Install of tool/install.go.                                             *)

\* opt.ToTool and makeStagingArea
StageArea(w) ==
    /\ stage[w] = "start"
    /\ \/ To(w, "resolve") /\ staging' = [staging EXCEPT ![w] = @ + 1]
          /\ UNCHANGED <<result, warnings>>
       \/ To(w, "lock") /\ result' = [result EXCEPT ![w] = "failed"]
          /\ UNCHANGED area
    /\ UNCHANGED <<vars, command, lists, want, found>>

ResolveVersion(w) ==
    /\ stage[w] = "resolve"
    /\ \/ /\ \E v \in VersionsOf[w] : want' = [want EXCEPT ![w] = v]
          /\ To(w, "check") /\ UNCHANGED <<result, area>>
       \/ Finish(w, "failed") /\ UNCHANGED want
    /\ UNCHANGED <<vars, command, lists, found>>

\* Check, first half: Get reads s.entries without the lock
LookUp(w) ==
    /\ stage[w] = "check"
    /\ LET got == GetResult(mem, ToolOf[w], want[w])
       IN  \/ /\ got = "multiple"
              /\ Finish(w, "failed") /\ UNCHANGED found
           \/ /\ got = "entry"
              /\ \E i \in NamedAt(mem, ToolOf[w], want[w]) :
                    found' = [found EXCEPT ![w] = <<mem[i]>>]
              /\ To(w, "verify") /\ UNCHANGED <<result, area>>
           \/ /\ got \in {"different", "missing"}
              /\ To(w, "fetch") /\ UNCHANGED <<found, result, area>>
    /\ UNCHANGED <<vars, command, lists, want>>

\* Check, second half: Verify reads the binary
VerifyEntry(w) ==
    /\ stage[w] = "verify"
    /\ \/ Verify(found[w][1], bin) /\ Finish(w, "already")
       \/ ~Verify(found[w][1], bin) /\ To(w, "fetch") /\ UNCHANGED <<result, area>>
    /\ found' = [found EXCEPT ![w] = <<>>]
    /\ UNCHANGED <<vars, command, lists, want>>

\* InstallTo leaves the binary in the staging area, then AddTool is called
InstallTo(w) ==
    /\ stage[w] = "fetch"
    /\ \/ AddTool(w, want[w]) /\ To(w, "store") /\ UNCHANGED <<result, area>>
       \/ Finish(w, "failed") /\ UNCHANGED vars
    /\ UNCHANGED <<command, lists, want, found>>

RunAddTool(w) == stage[w] = "store" /\ AddToolStep(w) /\ UNCHANGED pool

AddToolReturned(w) ==
    /\ stage[w] = "store" /\ ~InAddTool(w)
    /\ Finish(w, IF outcome[w] = "ok" THEN "ok" ELSE "failed")
    /\ UNCHANGED <<vars, command, lists, want, found>>

---------------------------------------------------------------------------
(* The goroutine's report in runInstall.                                   *)

\* A bug: the lists are not locked.
LockListsUnguarded(w) ==
    /\ stage[w] = "lock"
    /\ mutex' = w
    /\ read' = [read EXCEPT ![w] =
                  IF result[w] = "already" THEN alreadyInstalledTools ELSE failedTools]
    /\ To(w, "append")
    /\ UNCHANGED <<vars, command, want, found, result, failedTools,
                   alreadyInstalledTools, area>>

\* lock.Lock, and append's reading of the slice
LockLists(w) ==
    /\ stage[w] = "lock" /\ mutex = NoOne
    /\ mutex' = w
    /\ read' = [read EXCEPT ![w] =
                  IF result[w] = "already" THEN alreadyInstalledTools ELSE failedTools]
    /\ To(w, "append")
    /\ UNCHANGED <<vars, command, want, found, result, failedTools,
                   alreadyInstalledTools, area>>

\* A bug: with an error the goroutine returns before it unlocks.
AppendAndKeepLock(w) ==
    /\ stage[w] = "append"
    /\ \/ /\ result[w] = "already" /\ mutex' = NoOne
          /\ alreadyInstalledTools' = Append(read[w], w) /\ UNCHANGED failedTools
       \/ /\ result[w] = "failed" /\ UNCHANGED mutex
          /\ failedTools' = Append(read[w], w) /\ UNCHANGED alreadyInstalledTools
    /\ read' = [read EXCEPT ![w] = <<>>]
    /\ To(w, "done")
    /\ UNCHANGED <<vars, command, want, found, result, area>>

\* append's writing of it, lock.Unlock; with StopOnError the goroutine returns the
\* error, which nothing reads: errgroup was given no context to cancel
AppendAndUnlock(w) ==
    /\ stage[w] = "append"
    /\ \/ /\ result[w] = "already"
          /\ alreadyInstalledTools' = Append(read[w], w) /\ UNCHANGED failedTools
       \/ /\ result[w] = "failed"
          /\ failedTools' = Append(read[w], w) /\ UNCHANGED alreadyInstalledTools
    /\ read' = [read EXCEPT ![w] = <<>>]
    /\ mutex' = NoOne
    /\ To(w, "done")
    /\ UNCHANGED <<vars, command, want, found, result, area>>

---------------------------------------------------------------------------
(* runInstall.                                                             *)

Forget ==
    /\ next' = 1 /\ mutex' = NoOne
    /\ failedTools' = <<>> /\ alreadyInstalledTools' = <<>>
    /\ stage' = [w \in Worker |-> "queued"]
    /\ want' = [w \in Worker |-> NoVersion]
    /\ found' = [w \in Worker |-> <<>>]
    /\ result' = [w \in Worker |-> "none"]
    /\ read' = [w \in Worker |-> <<>>]

\* a command starts; when NewStore fails that is all it does
StartCommand ==
    /\ cmd = "none"
    /\ \/ NewStore /\ cmd' = "loop" /\ report' = "none"
       \/ file.status = "torn" /\ report' = "error" /\ UNCHANGED <<vars, cmd>>
    /\ UNCHANGED <<next, stage, want, found, result, lists, area>>

Running == {w \in Worker : stage[w] \notin {"queued", "done"}}

\* g.Go blocks while Limit goroutines run
Go ==
    /\ cmd = "loop" /\ next <= Len(ToolOpts) /\ Cardinality(Running) < Limit
    /\ To(ToolOpts[next], "start")
    /\ next' = next + 1
    /\ UNCHANGED <<vars, cmd, want, found, result, lists, area, report>>

LoopEnds ==
    /\ cmd = "loop" /\ next > Len(ToolOpts)
    /\ cmd' = "wait"
    /\ UNCHANGED <<vars, next, stage, want, found, result, lists, area, report>>

\* g.Wait returns and runInstall reports
WaitReturns ==
    /\ cmd = "wait" /\ Running = {}
    /\ cmd' = "done"
    /\ report' = IF failedTools # <<>> THEN "error"
                 ELSE IF /\ Len(alreadyInstalledTools) > 0
                         /\ Len(alreadyInstalledTools) = Len(ToolOpts)
                      THEN "alreadyInstalled" ELSE "installed"
    /\ UNCHANGED <<vars, next, stage, want, found, result, lists, area>>

ExitCommand ==
    cmd = "done" /\ Exit /\ cmd' = "none" /\ Forget /\ UNCHANGED <<area, report>>
CrashCommand == Crash /\ cmd' = "none" /\ Forget /\ report' = "none" /\ UNCHANGED area
\* the panicking goroutine still runs its own deferred cleanup, nobody else's
PanicInWorker(w) ==
    /\ stage[w] = "store" /\ Panic(w)
    /\ cmd' = "none" /\ Forget /\ report' = "none" /\ Cleanup(w)

InstallInit ==
    /\ Init
    /\ cmd = "none" /\ next = 1 /\ mutex = NoOne /\ report = "none"
    /\ failedTools = <<>> /\ alreadyInstalledTools = <<>>
    /\ stage = [w \in Worker |-> "queued"]
    /\ want = [w \in Worker |-> NoVersion]
    /\ found = [w \in Worker |-> <<>>]
    /\ result = [w \in Worker |-> "none"]
    /\ read = [w \in Worker |-> <<>>]
    /\ staging = [w \in Worker |-> 0] /\ warnings = 0

\* what a resolver and an installer do: requests and commands without a deadline
Request(w) == ResolveVersion(w) \/ InstallTo(w)

OwnStep(w) ==
    \/ StageArea(w) \/ LookUp(w) \/ VerifyEntry(w) \/ RunAddTool(w) \/ AddToolReturned(w)
    \/ LockLists(w) \/ AppendAndUnlock(w) \/ PanicInWorker(w)

Goroutine(w) == Request(w) \/ OwnStep(w)

Main == Go \/ LoopEnds \/ WaitReturns

InstallNext ==
    \/ StartCommand \/ Main \/ ExitCommand \/ CrashCommand
    \/ \E w \in Worker : Goroutine(w)

\* Goroutines and runInstall are scheduled; a request may never return.
InstallFairness == WF_installVars(Main) /\ \A w \in Worker : WF_installVars(OwnStep(w))

InstallSpec == InstallInit /\ [][InstallNext]_installVars /\ InstallFairness

---------------------------------------------------------------------------
(* Properties.                                                             *)

\* runInstall's lists name every worker once, under the list its result calls for:
\* no append is lost to a concurrent one (lock of runInstall).
EveryResultIsListed ==
    cmd = "done" =>
        /\ \A w \in Worker :
              Cardinality({i \in DOMAIN failedTools : failedTools[i] = w})
                  = IF result[w] = "failed" THEN 1 ELSE 0
        /\ \A w \in Worker :
              Cardinality({i \in DOMAIN alreadyInstalledTools :
                              alreadyInstalledTools[i] = w})
                  = IF result[w] = "already" THEN 1 ELSE 0

\* When the command reports no error every tool's binary is in place at the version
\* that was resolved, found there or put there (for tools configured once).
SuccessMeansInPlace ==
    cmd = "done" /\ report # "error" =>
        \A w \in Worker :
            (\A x \in Worker \ {w} : ToolOf[x] # ToolOf[w]) => bin[ToolOf[w]] = want[w]

\* A staging directory outlives its worker only if the process died on it, or its removal
\* failed with a warning: no way out of Install leaves one behind silently.
StagingIsTidied ==
    \A w \in Worker :
        staging[w] <= faults + warnings
                      + (IF stage[w] \in {"queued", "start", "lock", "append", "done"}
                         THEN 0 ELSE 1)

OnlyRequestsAreLeft ==
    Running # {} /\ \A w \in Running : stage[w] \in {"resolve", "fetch"}

\* A command comes to an end, or to a time from which on it only waits for requests that
\* never return: the store's lock and runInstall's are given back on every path, errors
\* included, and none is held over a request, so whatever hangs holds up itself alone.
CommandEnds == []<>(cmd \in {"done", "none"}) \/ <>[]OnlyRequestsAreLeft

=============================================================================
