--------------------------- MODULE InstallProofs ---------------------------
(***************************************************************************)
(* Theorems about Install: `binny install` uses the store through NewStore *)
(* and AddTool alone, so what StoreProofs shows of the store holds of it,  *)
(* for any configuration and any limit.                                    *)
(***************************************************************************)
EXTENDS Install, StoreProofs

\* A step of the command, of a goroutine or of a fault is one of the store or none.
LEMMA StoreStep == [InstallNext]_installVars => [Next]_vars
<1> SUFFICES ASSUME InstallNext PROVE Next \/ UNCHANGED vars
  BY DEF installVars
<1>1. ASSUME NEW w \in Worker, Goroutine(w) PROVE Next \/ UNCHANGED vars
  <2>1. CASE StageArea(w)
    BY <2>1 DEF StageArea
  <2>2. CASE ResolveVersion(w)
    BY <2>2 DEF ResolveVersion
  <2>3. CASE LookUp(w)
    BY <2>3 DEF LookUp
  <2>4. CASE VerifyEntry(w)
    BY <2>4 DEF VerifyEntry
  <2>5. CASE InstallTo(w)
    <3>1. CASE UNCHANGED vars
      BY <3>1
    <3>2. CASE AddTool(w, want[w])
      <4>1. want[w] \in Version
        BY <3>2, ParameterTypes DEF AddTool
      <4> QED  BY <3>2, <4>1 DEF Next
    <3> QED  BY <2>5, <3>1, <3>2 DEF InstallTo
  <2>6. CASE RunAddTool(w)
    BY <2>6 DEF RunAddTool, Next
  <2>7. CASE AddToolReturned(w)
    BY <2>7 DEF AddToolReturned
  <2>8. CASE LockLists(w)
    BY <2>8 DEF LockLists
  <2>9. CASE AppendAndUnlock(w)
    BY <2>9 DEF AppendAndUnlock
  <2>10. CASE PanicInWorker(w)
    BY <2>10 DEF PanicInWorker, Next
  <2> QED  BY <1>1, <2>1, <2>2, <2>3, <2>4, <2>5, <2>6, <2>7, <2>8, <2>9, <2>10
           DEF Goroutine, Request, OwnStep
<1>2. CASE StartCommand
  BY <1>2 DEF StartCommand, Next
<1>3. CASE Main
  BY <1>3 DEF Main, Go, LoopEnds, WaitReturns
<1>4. CASE ExitCommand \/ CrashCommand
  BY <1>4 DEF ExitCommand, CrashCommand, Next
<1> QED  BY <1>1, <1>2, <1>3, <1>4 DEF InstallNext

\* `binny install` implements the store it shares between its goroutines.
THEOREM UsesStore == InstallSpec => Spec
<1>1. InstallInit => Init
  BY DEF InstallInit
<1>2. [InstallNext]_installVars => [Next]_vars
  BY StoreStep
<1> QED  BY <1>1, <1>2, PTL DEF InstallSpec, Spec

\* Whatever its goroutines, faults and earlier commands did: when an installation
\* finds a tool in place already (tool.Check), the binary is of the version resolved.
THEOREM AlreadyInstalledIsTrue == InstallSpec => []CheckIsSound
BY UsesStore, SoundnessOfCheck, PTL

\* `binny install name` of one tool implements the abstract store, and `binny run` finds
\* what it has installed, through crashes and failures and however often it is repeated.
THEOREM OneToolIsRegistered ==
    ASSUME \A w, x \in Worker : w = x, \A p \in Prior : NamedOnce(p.file.entries)
    PROVE  InstallSpec => ImplementsAbs /\ []RunFindsTheTool
<1>1. OneAtATime
  BY DEF OneAtATime
<1>2. Spec => SequentialSpec
  BY <1>1, NoPanicAlone, PTL
<1>3. SequentialSpec => ImplementsAbs
  BY <1>1, Refinement
<1>4. SequentialSpec => []RunFindsTheTool
  BY <1>1, RunFinds
<1> QED  BY <1>2, <1>3, <1>4, UsesStore, PTL

---------------------------------------------------------------------------
(* The inductive invariant of the command.                                 *)

\* The loop has started the workers before next, in order, and knows when all are done.
Queue ==
    /\ next \in 1..(Len(ToolOpts) + 1)
    /\ \A i \in DOMAIN ToolOpts : stage[ToolOpts[i]] = "queued" <=> i >= next
    /\ cmd = "none" => next = 1
    /\ cmd \in {"wait", "done"} => next > Len(ToolOpts)
    /\ cmd = "done" => Running = {} /\ (report = "error" <=> failedTools # <<>>)

\* Who is between Lock and Unlock holds the mutex and has read the list as it is.
Exclusion ==
    \A w \in Worker :
        /\ stage[w] = "append" <=> mutex = w
        /\ stage[w] = "append" =>
              read[w] = IF result[w] = "already" THEN alreadyInstalledTools ELSE failedTools

At(w, list) == {i \in DOMAIN list : list[i] = w}
ListedIn(w, list, res) ==
    IF stage[w] = "done" /\ result[w] = res THEN \E i \in DOMAIN list : At(w, list) = {i}
    ELSE At(w, list) = {}

\* A worker is on the list its result calls for from the moment it is done.
Listed ==
    \A w \in Worker : /\ ListedIn(w, failedTools, "failed")
                      /\ ListedIn(w, alreadyInstalledTools, "already")

Reported == {"lock", "append", "done"}
Inside == {"resolve", "check", "verify", "fetch", "store"}

\* What a worker holds at each stage of its goroutine.
Own(w) ==
    /\ stage[w] \in {"lock", "append"} => result[w] \in {"already", "failed"}
    /\ stage[w] \in Reported <=> result[w] # "none"
    /\ staging[w] <= faults + warnings + (IF stage[w] \in Inside THEN 1 ELSE 0)
    /\ stage[w] \in Inside => staging[w] >= 1
    /\ stage[w] \in Inside \ {"resolve"} => want[w] \in Version
    /\ stage[w] = "verify" =>
          Len(found[w]) = 1 /\ found[w][1] = [name |-> ToolOf[w], version |-> want[w],
                                              digest |-> want[w]]
    /\ stage[w] = "store" => req[w] = want[w]
    /\ result[w] \in {"ok", "already"} /\ OnlyFor(w) => bin[ToolOf[w]] = want[w]

CommandIInv == InstallTypeOK /\ Queue /\ Exclusion /\ Listed /\ \A w \in Worker : Own(w)
\* The variables of the command that only runInstall and its reports touch.
Outside == <<cmd, next, report, mutex, read, failedTools, alreadyInstalledTools>>

\* Another worker's step leaves what a worker holds as it is.
LEMMA OthersKeepOwn ==
    ASSUME InstallTypeOK, NEW x \in Worker, Own(x),
           stage'[x] = stage[x], result'[x] = result[x], staging'[x] = staging[x],
           want'[x] = want[x], found'[x] = found[x],
           stage[x] = "store" => req'[x] = req[x],
           faults' \in Nat, faults <= faults', warnings' \in Nat, warnings <= warnings',
           OnlyFor(x) => bin'[ToolOf[x]] = bin[ToolOf[x]]
    PROVE  Own(x)'
<1>1. faults \in Nat /\ warnings \in Nat /\ staging[x] \in Nat
  BY DEF InstallTypeOK, TypeOK
<1>2. staging[x] <= faults + warnings + (IF stage[x] \in Inside THEN 1 ELSE 0)
  BY DEF Own
<1>3. staging'[x] <= faults' + warnings' + (IF stage'[x] \in Inside THEN 1 ELSE 0)
  BY <1>1, <1>2
<1> QED  BY <1>3 DEF Own, OnlyFor

\* A step inside tool.Install: the queue, the mutex and the lists stay as they are.
LEMMA InsideKeeps ==
    ASSUME CommandIInv, InstallTypeOK', NEW w \in Worker,
           NEW s \in Stages \ {"queued", "append"},
           stage[w] \in Inside \cup {"start"}, To(w, s), UNCHANGED Outside, Own(w)',
           s = "done" => result'[w] = "ok",
           \A x \in Worker \ {w} : result'[x] = result[x],
           \A x \in Worker \ {w} : Own(x)'
    PROVE  CommandIInv'
<1>1. /\ stage' = [stage EXCEPT ![w] = s] /\ stage \in [Worker -> Stages]
      /\ UNCHANGED <<cmd, next, report, mutex, read, failedTools, alreadyInstalledTools>>
  BY DEF To, Outside, CommandIInv, InstallTypeOK
<1>2. stage'[w] = s /\ \A x \in Worker \ {w} : stage'[x] = stage[x]
  BY <1>1
<1>3. stage[w] \notin {"queued", "append", "done"} /\ s \notin {"queued", "append"}
  BY DEF Inside
<1>4. Queue'
  <2>1. w \in Running
    BY <1>3 DEF Running
  <2>2. cmd # "done"
    BY <2>1 DEF CommandIInv, Queue
  <2>3. \A i \in DOMAIN ToolOpts : ToolOpts[i] \in Worker
    BY EachToolOptIsAWorker, ElementOfSeq, LenProperties
  <2>4. \A i \in DOMAIN ToolOpts :
           stage'[ToolOpts[i]] = "queued" <=> stage[ToolOpts[i]] = "queued"
    BY <1>2, <1>3, <2>3
  <2> QED  BY <1>1, <2>2, <2>4 DEF CommandIInv, Queue
<1>5. Exclusion'
  <2> SUFFICES ASSUME NEW x \in Worker
               PROVE  /\ stage'[x] = "append" <=> mutex' = x
                      /\ stage'[x] = "append" =>
                            read'[x] = IF result'[x] = "already" THEN alreadyInstalledTools'
                                       ELSE failedTools'
    BY DEF Exclusion
  <2>1. /\ stage[x] = "append" <=> mutex = x
        /\ stage[x] = "append" =>
              read[x] = IF result[x] = "already" THEN alreadyInstalledTools ELSE failedTools
    BY DEF CommandIInv, Exclusion
  <2>2. CASE x = w
    BY <1>1, <1>2, <1>3, <2>1, <2>2
  <2>3. CASE x # w
    <3>1. result'[x] = result[x] /\ stage'[x] = stage[x]
      BY <1>2, <2>3
    <3> QED  BY <1>1, <2>1, <3>1
  <2> QED  BY <2>2, <2>3
<1>6. Listed'
  <2> SUFFICES ASSUME NEW x \in Worker
               PROVE  /\ ListedIn(x, failedTools, "failed")'
                      /\ ListedIn(x, alreadyInstalledTools, "already")'
    BY DEF Listed
  <2>1. /\ ListedIn(x, failedTools, "failed")
        /\ ListedIn(x, alreadyInstalledTools, "already")
    BY DEF CommandIInv, Listed
  <2>2. CASE x = w
    BY <1>1, <1>2, <1>3, <2>1, <2>2 DEF ListedIn, At
  <2>3. CASE x # w
    <3>1. result'[x] = result[x] /\ stage'[x] = stage[x]
      BY <1>2, <2>3
    <3> QED  BY <1>1, <2>1, <3>1 DEF ListedIn, At
  <2> QED  BY <2>2, <2>3
<1>7. \A x \in Worker : Own(x)'
  OBVIOUS
<1> QED  BY <1>4, <1>5, <1>6, <1>7 DEF CommandIInv
\* What a step inside tool.Install may write of the command's variables.
LEMMA InsideTypes ==
    ASSUME InstallTypeOK, TypeOK', NEW w \in Worker, NEW s \in Stages,
           To(w, s), UNCHANGED Outside,
           want' \in [Worker -> Version \cup {NoVersion}],
           found' \in [Worker -> Seq(Entry)], \A x \in Worker : Len(found'[x]) <= 1,
           result' \in [Worker -> Results], staging' \in [Worker -> Nat],
           warnings' \in Nat
    PROVE  InstallTypeOK'
<1>1. stage' \in [Worker -> Stages]
  BY DEF To, InstallTypeOK
<1> QED  BY <1>1 DEF InstallTypeOK, Outside

\* A staging area that is there is removed, or a warning says that it was not.
LEMMA CleanupCounts ==
    ASSUME InstallTypeOK, NEW w \in Worker, staging[w] >= 1, Cleanup(w)
    PROVE  /\ staging' \in [Worker -> Nat] /\ warnings' \in Nat /\ warnings <= warnings'
           /\ staging'[w] <= (staging[w] - 1) + (warnings' - warnings)
           /\ staging'[w] \in Nat
           /\ \A x \in Worker \ {w} : staging'[x] = staging[x]
<1>1. /\ staging \in [Worker -> Nat] /\ warnings \in Nat /\ staging[w] \in Nat
  BY DEF InstallTypeOK
<1>2. CASE staging' = [staging EXCEPT ![w] = staging[w] - 1] /\ UNCHANGED warnings
  <2>1. staging[w] - 1 \in Nat
    BY <1>1
  <2>2. /\ staging' \in [Worker -> Nat] /\ staging'[w] = staging[w] - 1
        /\ \A x \in Worker \ {w} : staging'[x] = staging[x]
    BY <1>1, <1>2, <2>1
  <2> QED  BY <1>1, <1>2, <2>1, <2>2
<1>3. CASE warnings' = warnings + 1 /\ UNCHANGED staging
  BY <1>1, <1>3
<1> QED  BY <1>2, <1>3 DEF Cleanup

\* Install returns: its staging area, which is there, is removed, or warned about.
LEMMA FinishTypes ==
    ASSUME InstallTypeOK, NEW w \in Worker, Own(w), stage[w] \in Inside,
           NEW res \in Results, Finish(w, res)
    PROVE  /\ result' \in [Worker -> Results] /\ staging' \in [Worker -> Nat]
           /\ result'[w] = res /\ warnings' \in Nat /\ warnings <= warnings'
           /\ staging'[w] <= faults + warnings'
           /\ \A x \in Worker \ {w} : result'[x] = result[x] /\ staging'[x] = staging[x]
<1>1. /\ result \in [Worker -> Results] /\ faults \in Nat /\ warnings \in Nat
      /\ staging[w] \in Nat
  BY DEF InstallTypeOK, TypeOK
<1>2. staging[w] >= 1 /\ staging[w] <= faults + warnings + 1
  BY DEF Own
<1>3. result' = [result EXCEPT ![w] = res] /\ Cleanup(w)
  BY DEF Finish
<1>4. /\ staging' \in [Worker -> Nat] /\ warnings' \in Nat /\ warnings <= warnings'
      /\ staging'[w] <= (staging[w] - 1) + (warnings' - warnings) /\ staging'[w] \in Nat
      /\ \A x \in Worker \ {w} : staging'[x] = staging[x]
  BY <1>2, <1>3, CleanupCounts
<1>5. staging'[w] <= faults + warnings'
  BY <1>1, <1>2, <1>4
<1>6. result' \in [Worker -> Results] /\ result'[w] = res
      /\ \A x \in Worker \ {w} : result'[x] = result[x]
  BY <1>1, <1>3
<1> QED  BY <1>4, <1>5, <1>6

\* What the steps of tool.Install keep, given what the store keeps.
Before == CommandIInv /\ IInv /\ PlacedIsOnDisk

\* A worker inside tool.Install has nothing reported yet.
LEMMA InsideUnreported ==
    ASSUME CommandIInv, NEW w \in Worker, stage[w] \in Inside \cup {"start"}
    PROVE  /\ InstallTypeOK /\ Own(w) /\ result[w] = "none"
           /\ stage \in [Worker -> Stages] /\ staging[w] \in Nat
           /\ faults \in Nat /\ warnings \in Nat
           /\ \A x \in Worker : Own(x)
BY DEF CommandIInv, InstallTypeOK, TypeOK, Own, Inside, Reported

LEMMA StepStageArea ==
    ASSUME Before, TypeOK', NEW w \in Worker, StageArea(w)  PROVE CommandIInv'
<1>1. /\ CommandIInv /\ stage[w] = "start" /\ InstallTypeOK /\ Own(w) /\ result[w] = "none"
      /\ stage \in [Worker -> Stages] /\ staging[w] \in Nat
      /\ faults \in Nat /\ warnings \in Nat
      /\ \A x \in Worker : Own(x)
  BY InsideUnreported DEF Before, StageArea
<1>2. UNCHANGED <<vars, want, found>> /\ UNCHANGED Outside
  BY DEF StageArea, command, lists, Outside
<1>3. PICK s \in {"resolve", "lock"} :
         /\ To(w, s) /\ UNCHANGED warnings
         /\ s = "resolve" => staging' = [staging EXCEPT ![w] = @ + 1] /\ UNCHANGED result
         /\ s = "lock" => result' = [result EXCEPT ![w] = "failed"] /\ UNCHANGED staging
  BY DEF StageArea, area
<1>4. s \in Stages \ {"queued", "append"} /\ s # "done"
  BY <1>3 DEF Stages
<1>5. result' \in [Worker -> Results] /\ staging' \in [Worker -> Nat]
  <2>1. /\ result \in [Worker -> Results] /\ staging \in [Worker -> Nat]
        /\ staging[w] + 1 \in Nat /\ "failed" \in Results
    BY <1>1 DEF InstallTypeOK, Results
  <2>2. CASE s = "resolve"
    BY <1>3, <2>1, <2>2
  <2>3. CASE s = "lock"
    BY <1>3, <2>1, <2>3
  <2> QED  BY <2>2, <2>3
<1>6. InstallTypeOK'
  BY <1>1, <1>2, <1>3, <1>4, <1>5, InsideTypes DEF InstallTypeOK
<1>7. \A x \in Worker \ {w} : /\ stage'[x] = stage[x] /\ result'[x] = result[x]
                              /\ staging'[x] = staging[x]
  BY <1>1, <1>3 DEF To, InstallTypeOK
<1>8. ASSUME NEW x \in Worker \ {w} PROVE Own(x)'
  <2>1. faults' \in Nat /\ faults <= faults' /\ warnings' \in Nat /\ warnings <= warnings'
    BY <1>1, <1>2, <1>3 DEF vars
  <2> QED  BY <1>1, <1>2, <1>7, <2>1, OthersKeepOwn DEF vars, disk
<1>9. Own(w)'
  <2>1. staging[w] <= faults + warnings
    BY <1>1 DEF Own, Inside
  <2>2. stage'[w] = s
    BY <1>1, <1>3 DEF To
  <2>3. CASE s = "resolve"
    <3>1. staging'[w] = staging[w] + 1 /\ result'[w] = "none"
      BY <1>1, <1>3, <2>3 DEF InstallTypeOK
    <3>2. staging'[w] <= faults + warnings + 1 /\ staging'[w] >= 1
      BY <1>1, <2>1, <3>1
    <3> QED  BY <1>2, <1>3, <2>2, <2>3, <3>1, <3>2 DEF Own, Inside, Reported, vars
  <2>4. CASE s = "lock"
    <3>1. staging'[w] = staging[w] /\ result'[w] = "failed"
      BY <1>1, <1>3, <2>4 DEF InstallTypeOK
    <3>2. staging'[w] <= faults + warnings + 0
      BY <1>1, <2>1, <3>1
    <3> QED  BY <1>2, <1>3, <2>2, <2>4, <3>1, <3>2 DEF Own, Inside, Reported, vars
  <2> QED  BY <1>3, <2>3, <2>4
<1> QED  BY <1>1, <1>2, <1>3, <1>4, <1>6, <1>7, <1>8, <1>9, InsideKeeps

\* A worker whose installation ended has something in place, or an error.
LEMMA FinishedOwn ==
    ASSUME InstallTypeOK, NEW w \in Worker, Own(w), stage[w] \in Inside,
           NEW res \in {"failed", "already", "ok"}, Finish(w, res),
           res # "failed" /\ OnlyFor(w) => bin'[ToolOf[w]] = want'[w],
           UNCHANGED faults
    PROVE  Own(w)'
<1>1. result'[w] = res /\ staging'[w] <= faults + warnings' /\ warnings' \in Nat
      /\ staging'[w] \in Nat
  BY FinishTypes DEF Results
<1>2. stage'[w] = IF res = "ok" THEN "done" ELSE "lock"
  BY DEF Finish, To, InstallTypeOK
<1>3. staging'[w] <= faults' + warnings' + 0
  BY <1>1 DEF InstallTypeOK, TypeOK
<1> QED  BY <1>1, <1>2, <1>3 DEF Own, Inside, Reported, OnlyFor

\* tool.Install returns from any of its stages.
LEMMA FinishKeeps ==
    ASSUME CommandIInv, TypeOK', NEW w \in Worker, stage[w] \in Inside,
           NEW res \in {"failed", "already", "ok"}, Finish(w, res),
           res # "failed" /\ OnlyFor(w) => bin[ToolOf[w]] = want[w],
           UNCHANGED <<vars, want>>, UNCHANGED Outside,
           found' \in [Worker -> Seq(Entry)], \A x \in Worker : Len(found'[x]) <= 1,
           \A x \in Worker \ {w} : found'[x] = found[x]
    PROVE  CommandIInv'
<1>1. /\ InstallTypeOK /\ Own(w) /\ stage \in [Worker -> Stages] /\ faults \in Nat
      /\ warnings \in Nat /\ \A x \in Worker : Own(x)
  BY InsideUnreported
<1>2. /\ result' \in [Worker -> Results] /\ staging' \in [Worker -> Nat]
      /\ result'[w] = res /\ warnings' \in Nat /\ warnings <= warnings'
      /\ \A x \in Worker \ {w} : result'[x] = result[x] /\ staging'[x] = staging[x]
  BY <1>1, FinishTypes DEF Results
<1>3. PICK s \in {"lock", "done"} : To(w, s) /\ (s = "done" => res = "ok")
  BY DEF Finish
<1>4. s \in Stages \ {"queued", "append"} /\ \A x \in Worker \ {w} : stage'[x] = stage[x]
  BY <1>1, <1>3 DEF To, Stages
<1>5. InstallTypeOK'
  BY <1>1, <1>2, <1>3, <1>4, InsideTypes DEF InstallTypeOK
<1>6. ASSUME NEW x \in Worker \ {w} PROVE Own(x)'
  BY <1>1, <1>2, <1>4, OthersKeepOwn DEF vars, disk
<1>7. Own(w)'
  BY <1>1, FinishedOwn DEF vars, disk
<1> QED  BY <1>2, <1>3, <1>4, <1>5, <1>6, <1>7, InsideKeeps

LEMMA StepResolveVersion ==
    ASSUME Before, TypeOK', NEW w \in Worker, ResolveVersion(w)  PROVE CommandIInv'
<1>1. /\ CommandIInv /\ stage[w] = "resolve" /\ InstallTypeOK /\ Own(w) /\ result[w] = "none"
      /\ stage \in [Worker -> Stages] /\ staging[w] \in Nat
      /\ faults \in Nat /\ warnings \in Nat
      /\ \A x \in Worker : Own(x)
  BY InsideUnreported DEF Before, ResolveVersion, Inside
<1>2. UNCHANGED <<vars, found>> /\ UNCHANGED Outside
  BY DEF ResolveVersion, command, lists, Outside
<1>3. ASSUME NEW v \in VersionsOf[w], want' = [want EXCEPT ![w] = v],
             To(w, "check"), UNCHANGED <<result, staging, warnings>>
      PROVE  CommandIInv'
  <2>1. v \in Version
    BY ParameterTypes
  <2>2. want' \in [Worker -> Version \cup {NoVersion}] /\ want'[w] = v
        /\ \A x \in Worker \ {w} : want'[x] = want[x]
    BY <1>1, <1>3, <2>1 DEF InstallTypeOK
  <2>3. stage'[w] = "check" /\ \A x \in Worker \ {w} : stage'[x] = stage[x]
    BY <1>1, <1>3 DEF To
  <2>4. InstallTypeOK'
    BY <1>1, <1>2, <1>3, <2>2, InsideTypes DEF InstallTypeOK, Stages
  <2>5. ASSUME NEW x \in Worker \ {w} PROVE Own(x)'
    BY <1>1, <1>2, <1>3, <2>2, <2>3, OthersKeepOwn DEF vars, disk
  <2>6. Own(w)'
    BY <1>1, <1>2, <1>3, <2>1, <2>2, <2>3 DEF Own, Inside, Reported, vars
  <2> QED  BY <1>1, <1>2, <1>3, <2>4, <2>5, <2>6, InsideKeeps DEF Stages, Inside
<1>4. ASSUME Finish(w, "failed"), UNCHANGED want PROVE CommandIInv'
  BY <1>1, <1>2, <1>4, FinishKeeps DEF Before, InstallTypeOK, Inside
<1> QED  BY <1>3, <1>4 DEF ResolveVersion, area
\* What is found of a tool's entry tells of its version.
LEMMA StepLookUp ==
    ASSUME Before, TypeOK', NEW w \in Worker, LookUp(w)  PROVE CommandIInv'
<1>1. /\ CommandIInv /\ stage[w] = "check" /\ InstallTypeOK /\ Own(w) /\ result[w] = "none"
      /\ stage \in [Worker -> Stages] /\ staging[w] \in Nat
      /\ faults \in Nat /\ warnings \in Nat
      /\ \A x \in Worker : Own(x)
  BY InsideUnreported DEF Before, LookUp, Inside
<1>2. UNCHANGED <<vars, want>> /\ UNCHANGED Outside
  BY DEF LookUp, command, lists, Outside
<1>3. ASSUME Finish(w, "failed"), UNCHANGED found PROVE CommandIInv'
  BY <1>1, <1>2, <1>3, FinishKeeps DEF Before, InstallTypeOK, Inside
<1>4. ASSUME NEW i \in NamedAt(mem, ToolOf[w], want[w]),
             found' = [found EXCEPT ![w] = <<mem[i]>>],
             To(w, "verify"), UNCHANGED <<result, staging, warnings>>
      PROVE  CommandIInv'
  <2>1. mem \in Seq(Entry) /\ Honest(mem)
    BY DEF Before, IInv, Safe, TypeOK, EntriesHonest
  <2>2. /\ i \in DOMAIN mem /\ mem[i].name = ToolOf[w] /\ mem[i].version = want[w]
    BY DEF NamedAt, Named
  <2>3. mem[i] \in Entry /\ mem[i].digest = want[w]
    BY <2>1, <2>2, ElementOfSeq, LenProperties DEF Honest
  <2>4. mem[i] = [name |-> ToolOf[w], version |-> want[w], digest |-> want[w]]
    BY <2>2, <2>3 DEF Entry
  <2>5. <<mem[i]>> \in Seq(Entry) /\ Len(<<mem[i]>>) = 1 /\ <<mem[i]>>[1] = mem[i]
    BY <2>3
  <2>6. /\ found' \in [Worker -> Seq(Entry)] /\ found'[w] = <<mem[i]>>
        /\ \A x \in Worker \ {w} : found'[x] = found[x]
    BY <1>1, <1>4, <2>5 DEF InstallTypeOK
  <2>7. ASSUME NEW x \in Worker PROVE Len(found'[x]) <= 1
    <3>1. Len(found[x]) <= 1
      BY <1>1 DEF InstallTypeOK
    <3>2. CASE x = w
      <4>1. Len(found'[x]) = 1
        BY <2>5, <2>6, <3>2, Zenon
      <4> QED  BY <4>1
    <3>3. CASE x # w
      BY <2>6, <3>1, <3>3
    <3> QED  BY <3>2, <3>3
  <2>8. stage'[w] = "verify" /\ \A x \in Worker \ {w} : stage'[x] = stage[x]
    BY <1>1, <1>4 DEF To
  <2>9. InstallTypeOK'
    BY <1>1, <1>2, <1>4, <2>6, <2>7, InsideTypes DEF InstallTypeOK, Stages
  <2>10. ASSUME NEW x \in Worker \ {w} PROVE Own(x)'
    BY <1>1, <1>2, <1>4, <2>6, <2>8, OthersKeepOwn DEF vars, disk
  <2>11. Own(w)'
    BY <1>1, <1>2, <1>4, <2>4, <2>5, <2>6, <2>8 DEF Own, Inside, Reported, vars
  <2> QED  BY <1>1, <1>2, <1>4, <2>9, <2>10, <2>11, InsideKeeps DEF Stages, Inside
<1>5. ASSUME To(w, "fetch"), UNCHANGED <<found, result, staging, warnings>> PROVE CommandIInv'
  <2>1. stage'[w] = "fetch" /\ \A x \in Worker \ {w} : stage'[x] = stage[x]
    BY <1>1, <1>5 DEF To
  <2>2. InstallTypeOK'
    BY <1>1, <1>2, <1>5, InsideTypes DEF InstallTypeOK, Stages
  <2>3. ASSUME NEW x \in Worker \ {w} PROVE Own(x)'
    BY <1>1, <1>2, <1>5, <2>1, OthersKeepOwn DEF vars, disk
  <2>4. Own(w)'
    BY <1>1, <1>2, <1>5, <2>1 DEF Own, Inside, Reported, vars
  <2> QED  BY <1>1, <1>2, <1>5, <2>2, <2>3, <2>4, InsideKeeps DEF Stages, Inside
<1> QED  BY <1>3, <1>4, <1>5 DEF LookUp, area

\* A binary with the digest of an honest entry is of the version the entry names.
LEMMA StepVerifyEntry ==
    ASSUME Before, TypeOK', NEW w \in Worker, VerifyEntry(w)  PROVE CommandIInv'
<1>1. /\ CommandIInv /\ stage[w] = "verify" /\ InstallTypeOK /\ Own(w) /\ result[w] = "none"
      /\ stage \in [Worker -> Stages] /\ staging[w] \in Nat
      /\ faults \in Nat /\ warnings \in Nat
      /\ \A x \in Worker : Own(x)
  BY InsideUnreported DEF Before, VerifyEntry, Inside
<1>2. UNCHANGED <<vars, want>> /\ UNCHANGED Outside
  BY DEF VerifyEntry, command, lists, Outside
<1>3. /\ found' \in [Worker -> Seq(Entry)] /\ \A x \in Worker : Len(found'[x]) <= 1
      /\ \A x \in Worker \ {w} : found'[x] = found[x]
  <2>1. <<>> \in Seq(Entry) /\ Len(<<>>) = 0
    BY EmptySeq
  <2>2. found' = [found EXCEPT ![w] = <<>>]
    BY DEF VerifyEntry
  <2> QED  BY <1>1, <2>1, <2>2 DEF InstallTypeOK
<1>4. ASSUME Verify(found[w][1], bin), Finish(w, "already") PROVE CommandIInv'
  <2>1. found[w][1] = [name |-> ToolOf[w], version |-> want[w], digest |-> want[w]]
    BY <1>1 DEF Own
  <2>2. bin[ToolOf[w]] = want[w]
    BY <1>4, <2>1 DEF Verify
  <2> QED  BY <1>1, <1>2, <1>3, <1>4, <2>2, FinishKeeps DEF Inside
<1>5. ASSUME To(w, "fetch"), UNCHANGED <<result, staging, warnings>> PROVE CommandIInv'
  <2>1. stage'[w] = "fetch" /\ \A x \in Worker \ {w} : stage'[x] = stage[x]
    BY <1>1, <1>5 DEF To
  <2>2. InstallTypeOK'
    BY <1>1, <1>2, <1>3, <1>5, InsideTypes DEF InstallTypeOK, Stages
  <2>3. ASSUME NEW x \in Worker \ {w} PROVE Own(x)'
    BY <1>1, <1>2, <1>3, <1>5, <2>1, OthersKeepOwn DEF vars, disk
  <2>4. Own(w)'
    BY <1>1, <1>2, <1>5, <2>1 DEF Own, Inside, Reported, vars
  <2> QED  BY <1>1, <1>2, <1>5, <2>2, <2>3, <2>4, InsideKeeps DEF Stages, Inside
<1> QED  BY <1>4, <1>5 DEF VerifyEntry, area
LEMMA StepInstallTo ==
    ASSUME Before, TypeOK', NEW w \in Worker, InstallTo(w)  PROVE CommandIInv'
<1>1. /\ CommandIInv /\ stage[w] = "fetch" /\ InstallTypeOK /\ Own(w) /\ result[w] = "none"
      /\ stage \in [Worker -> Stages] /\ staging[w] \in Nat
      /\ faults \in Nat /\ warnings \in Nat
      /\ \A x \in Worker : Own(x)
  BY InsideUnreported DEF Before, InstallTo, Inside
<1>2. UNCHANGED <<want, found>> /\ UNCHANGED Outside
  BY DEF InstallTo, command, lists, Outside
<1>3. ASSUME AddTool(w, want[w]), To(w, "store"), UNCHANGED <<result, staging, warnings>>
      PROVE  CommandIInv'
  <2>1. /\ req' = [req EXCEPT ![w] = want[w]] /\ UNCHANGED <<bin, faults>>
        /\ req \in [Worker -> Version \cup {NoVersion}]
    BY <1>1, <1>3 DEF AddTool, disk, InstallTypeOK, TypeOK
  <2>2. stage'[w] = "store" /\ \A x \in Worker \ {w} : stage'[x] = stage[x]
    BY <1>1, <1>3 DEF To
  <2>3. req'[w] = want[w] /\ \A x \in Worker \ {w} : req'[x] = req[x]
    BY <2>1
  <2>4. InstallTypeOK'
    BY <1>1, <1>2, <1>3, InsideTypes DEF InstallTypeOK, Stages
  <2>5. ASSUME NEW x \in Worker \ {w} PROVE Own(x)'
    BY <1>1, <1>2, <1>3, <2>1, <2>2, <2>3, OthersKeepOwn
  <2>6. Own(w)'
    BY <1>1, <1>2, <1>3, <2>1, <2>2, <2>3 DEF Own, Inside, Reported
  <2> QED  BY <1>1, <1>2, <1>3, <2>4, <2>5, <2>6, InsideKeeps DEF Stages, Inside
<1>4. ASSUME Finish(w, "failed"), UNCHANGED vars PROVE CommandIInv'
  BY <1>1, <1>2, <1>4, FinishKeeps DEF Before, InstallTypeOK, Inside
<1> QED  BY <1>3, <1>4 DEF InstallTo, area

\* A call of AddTool touches the binary of its own tool only.
LEMMA AddToolFrame ==
    ASSUME TypeOK, NEW w \in Worker, AddToolStep(w)
    PROVE  /\ req' = req /\ (faults' = faults \/ faults' = faults + 1)
           /\ bin' = bin \/ bin' = [bin EXCEPT ![ToolOf[w]] = req[w]]
BY DEF AddToolStep, LoadState, MoveBinary, ScanEntries, AppendEntry, ReplaceEntry,
       CopyReceiver, OpenStateFile, WriteStateFile, Fault, disk

LEMMA StepRunAddTool ==
    ASSUME Before, TypeOK', NEW w \in Worker, RunAddTool(w)  PROVE CommandIInv'
<1>1. /\ CommandIInv /\ stage[w] = "store" /\ InstallTypeOK /\ Own(w) /\ result[w] = "none"
      /\ stage \in [Worker -> Stages] /\ staging[w] \in Nat
      /\ faults \in Nat /\ warnings \in Nat
      /\ \A x \in Worker : Own(x)
  BY InsideUnreported DEF Before, RunAddTool, Inside
<1>2. UNCHANGED <<cmd, next, report, mutex, read, failedTools, alreadyInstalledTools,
                  stage, want, found, result, staging, warnings>>
  BY DEF RunAddTool, pool, area
<1>3. /\ req' = req /\ (faults' = faults \/ faults' = faults + 1)
      /\ bin' = bin \/ bin' = [bin EXCEPT ![ToolOf[w]] = req[w]]
  BY <1>1, AddToolFrame DEF RunAddTool, InstallTypeOK
<1>4. faults' \in Nat /\ faults <= faults'
  BY <1>1, <1>3
<1>5. ASSUME NEW x \in Worker PROVE Own(x)'
  <2>1. CASE x = w
    <3>1. /\ staging[w] <= faults + warnings + 1 /\ staging[w] >= 1 /\ want[w] \in Version
          /\ req[w] = want[w]
      BY <1>1 DEF Own, Inside
    <3>2. staging'[w] <= faults' + warnings' + 1 /\ staging'[w] >= 1
      BY <1>1, <1>2, <1>4, <3>1
    <3> QED  BY <1>1, <1>2, <1>3, <2>1, <3>1, <3>2 DEF Own, Inside, Reported
  <2>2. CASE x # w
    <3>1. OnlyFor(x) => bin'[ToolOf[x]] = bin[ToolOf[x]]
      <4>1. ToolOf[x] \in Tool /\ ToolOf[w] \in Tool /\ DOMAIN bin = Tool
        BY <1>1, ParameterTypes DEF InstallTypeOK, TypeOK
      <4> QED  BY <1>3, <2>2, <4>1 DEF OnlyFor
    <3> QED  BY <1>1, <1>2, <1>3, <1>4, <3>1, OthersKeepOwn
  <2> QED  BY <2>1, <2>2
<1>6. InstallTypeOK'
  BY <1>1, <1>2 DEF InstallTypeOK
<1> QED  BY <1>1, <1>2, <1>5, <1>6
         DEF CommandIInv, Queue, Running, Exclusion, Listed, ListedIn, At

\* AddTool returned nil: the binary is in place, unless another worker has the same tool.
LEMMA StepAddToolReturned ==
    ASSUME Before, TypeOK', NEW w \in Worker, AddToolReturned(w)  PROVE CommandIInv'
<1>1. /\ CommandIInv /\ stage[w] = "store" /\ InstallTypeOK /\ Own(w) /\ result[w] = "none"
      /\ stage \in [Worker -> Stages] /\ staging[w] \in Nat
      /\ faults \in Nat /\ warnings \in Nat
      /\ \A x \in Worker : Own(x)
  BY InsideUnreported DEF Before, AddToolReturned, Inside
<1>2. UNCHANGED <<vars, want, found>> /\ UNCHANGED Outside
  BY DEF AddToolReturned, command, lists, Outside
<1>3. PICK res \in {"ok", "failed"} : Finish(w, res) /\ (res = "ok" <=> outcome[w] = "ok")
  BY DEF AddToolReturned
<1>4. res # "failed" /\ OnlyFor(w) => bin[ToolOf[w]] = want[w]
  BY <1>1, <1>3 DEF Before, PlacedIsOnDisk, Placed, Own
<1> QED  BY <1>1, <1>2, <1>3, <1>4, FinishKeeps DEF InstallTypeOK, Inside
---------------------------------------------------------------------------
(* The report.                                                             *)

\* Where a worker is on a list to which another is appended.
LEMMA AtAppend ==
    ASSUME NEW list \in Seq(Worker), NEW w \in Worker, NEW x \in Worker
    PROVE  /\ Append(list, w) \in Seq(Worker)
           /\ x # w => At(x, Append(list, w)) = At(x, list)
           /\ At(w, list) = {} => At(w, Append(list, w)) = {Len(list) + 1}
           /\ Len(list) + 1 \in DOMAIN Append(list, w)
           /\ \A i \in DOMAIN list : i \in DOMAIN Append(list, w)
<1>1. /\ Append(list, w) \in Seq(Worker) /\ Len(list) \in Nat
      /\ DOMAIN list = 1..Len(list) /\ DOMAIN Append(list, w) = 1..(Len(list) + 1)
      /\ \A i \in 1..Len(list) : Append(list, w)[i] = list[i]
      /\ Append(list, w)[Len(list) + 1] = w
  BY AppendProperties, LenProperties
<1>2. ASSUME NEW i PROVE i \in 1..(Len(list) + 1) <=> i \in 1..Len(list) \/ i = Len(list) + 1
  BY <1>1
<1>3. x # w => At(x, Append(list, w)) = At(x, list)
  BY <1>1, <1>2 DEF At
<1>4. At(w, list) = {} => At(w, Append(list, w)) = {Len(list) + 1}
  BY <1>1, <1>2 DEF At
<1> QED  BY <1>1, <1>2, <1>3, <1>4

LEMMA StepLockLists ==
    ASSUME Before, TypeOK', NEW w \in Worker, LockLists(w)  PROVE CommandIInv'
<1>1. /\ CommandIInv /\ InstallTypeOK /\ stage \in [Worker -> Stages]
      /\ read \in [Worker -> Seq(Worker)] /\ stage[w] = "lock" /\ mutex = NoOne
      /\ faults \in Nat /\ warnings \in Nat /\ \A x \in Worker : Own(x)
  BY DEF Before, CommandIInv, InstallTypeOK, TypeOK, LockLists
<1>2. /\ mutex' = w /\ stage' = [stage EXCEPT ![w] = "append"]
      /\ read' = [read EXCEPT ![w] = IF result[w] = "already" THEN alreadyInstalledTools
                                     ELSE failedTools]
      /\ UNCHANGED <<vars, cmd, next, report, want, found, result, failedTools,
                     alreadyInstalledTools, staging, warnings>>
  BY DEF LockLists, To, command, area
<1>3. stage'[w] = "append" /\ \A x \in Worker \ {w} : stage'[x] = stage[x]
  BY <1>1, <1>2
<1>4. read' \in [Worker -> Seq(Worker)] /\ stage' \in [Worker -> Stages]
  BY <1>1, <1>2 DEF InstallTypeOK, Stages
<1>5. InstallTypeOK'
  BY <1>1, <1>2, <1>4 DEF InstallTypeOK
<1>6. Queue'
  <2>1. w \in Running
    BY <1>1 DEF Running
  <2>2. cmd # "done"
    BY <2>1 DEF Before, CommandIInv, Queue
  <2>3. \A i \in DOMAIN ToolOpts : ToolOpts[i] \in Worker
    BY EachToolOptIsAWorker, ElementOfSeq, LenProperties
  <2>4. \A i \in DOMAIN ToolOpts :
           stage'[ToolOpts[i]] = "queued" <=> stage[ToolOpts[i]] = "queued"
    BY <1>1, <1>3, <2>3
  <2> QED  BY <1>2, <2>2, <2>4 DEF Before, CommandIInv, Queue
<1>7. Exclusion'
  <2> SUFFICES ASSUME NEW x \in Worker
               PROVE  /\ stage'[x] = "append" <=> mutex' = x
                      /\ stage'[x] = "append" =>
                            read'[x] = IF result'[x] = "already" THEN alreadyInstalledTools'
                                       ELSE failedTools'
    BY DEF Exclusion
  <2>1. CASE x = w
    BY <1>1, <1>2, <1>3, <2>1
  <2>2. CASE x # w
    <3>1. stage[x] # "append"
      BY <1>1, SpecialValues DEF CommandIInv, Exclusion
    <3> QED  BY <1>2, <1>3, <2>2, <3>1
  <2> QED  BY <2>1, <2>2
<1>8. Listed'
  <2> SUFFICES ASSUME NEW x \in Worker
               PROVE  /\ ListedIn(x, failedTools, "failed")'
                      /\ ListedIn(x, alreadyInstalledTools, "already")'
    BY DEF Listed
  <2>1. stage'[x] = "done" <=> stage[x] = "done"
    BY <1>1, <1>3
  <2>2. ListedIn(x, failedTools, "failed") /\ ListedIn(x, alreadyInstalledTools, "already")
    BY <1>1 DEF CommandIInv, Listed
  <2>3. /\ failedTools' = failedTools /\ alreadyInstalledTools' = alreadyInstalledTools
        /\ result' = result
    BY <1>2
  <2> QED  BY <2>1, <2>2, <2>3 DEF ListedIn, At
<1>9. ASSUME NEW x \in Worker PROVE Own(x)'
  <2>1. CASE x = w
    BY <1>1, <1>2, <1>3, <2>1 DEF Own, Inside, Reported, OnlyFor, vars, disk
  <2>2. CASE x # w
    BY <1>1, <1>2, <1>3, <2>2, OthersKeepOwn DEF vars, disk
  <2> QED  BY <2>1, <2>2
<1> QED  BY <1>5, <1>6, <1>7, <1>8, <1>9 DEF CommandIInv

LEMMA StepAppendAndUnlock ==
    ASSUME Before, TypeOK', NEW w \in Worker, AppendAndUnlock(w)  PROVE CommandIInv'
<1>1. /\ CommandIInv /\ InstallTypeOK /\ stage \in [Worker -> Stages]
      /\ read \in [Worker -> Seq(Worker)] /\ stage[w] = "append"
      /\ failedTools \in Seq(Worker) /\ alreadyInstalledTools \in Seq(Worker)
      /\ faults \in Nat /\ warnings \in Nat /\ \A x \in Worker : Own(x)
  BY DEF Before, CommandIInv, InstallTypeOK, TypeOK, AppendAndUnlock
<1>2. /\ mutex' = NoOne /\ stage' = [stage EXCEPT ![w] = "done"]
      /\ read' = [read EXCEPT ![w] = <<>>]
      /\ UNCHANGED <<vars, cmd, next, report, want, found, result, staging, warnings>>
  BY DEF AppendAndUnlock, To, command, area
<1>3. stage'[w] = "done" /\ \A x \in Worker \ {w} : stage'[x] = stage[x]
  BY <1>1, <1>2
<1>4. mutex = w /\ read[w] = IF result[w] = "already" THEN alreadyInstalledTools
                             ELSE failedTools
  BY <1>1 DEF CommandIInv, Exclusion
<1>5. \/ /\ result[w] = "already" /\ failedTools' = failedTools
         /\ alreadyInstalledTools' = Append(alreadyInstalledTools, w)
      \/ /\ result[w] = "failed" /\ alreadyInstalledTools' = alreadyInstalledTools
         /\ failedTools' = Append(failedTools, w)
  BY <1>4 DEF AppendAndUnlock
<1>6. failedTools' \in Seq(Worker) /\ alreadyInstalledTools' \in Seq(Worker)
  BY <1>1, <1>5, AtAppend
<1>7. read' \in [Worker -> Seq(Worker)] /\ stage' \in [Worker -> Stages]
  BY <1>1, <1>2, EmptySeq DEF Stages
<1>8. InstallTypeOK'
  BY <1>1, <1>2, <1>6, <1>7 DEF InstallTypeOK
<1>9. Queue'
  <2>1. w \in Running
    BY <1>1 DEF Running
  <2>2. cmd # "done"
    BY <1>1, <2>1 DEF CommandIInv, Queue
  <2>3. \A i \in DOMAIN ToolOpts : ToolOpts[i] \in Worker
    BY EachToolOptIsAWorker, ElementOfSeq, LenProperties
  <2>4. \A i \in DOMAIN ToolOpts :
           stage'[ToolOpts[i]] = "queued" <=> stage[ToolOpts[i]] = "queued"
    BY <1>1, <1>3, <2>3
  <2> QED  BY <1>1, <1>2, <2>2, <2>4 DEF CommandIInv, Queue
<1>10. Exclusion'
  <2> SUFFICES ASSUME NEW x \in Worker PROVE stage'[x] # "append" /\ mutex' # x
    BY DEF Exclusion
  <2>1. x # w => stage[x] # "append"
    BY <1>1, <1>4 DEF CommandIInv, Exclusion
  <2> QED  BY <1>2, <1>3, <2>1, SpecialValues
<1>11. Listed'
  <2> SUFFICES ASSUME NEW x \in Worker
               PROVE  /\ ListedIn(x, failedTools, "failed")'
                      /\ ListedIn(x, alreadyInstalledTools, "already")'
    BY DEF Listed
  <2>1. /\ ListedIn(x, failedTools, "failed")
        /\ ListedIn(x, alreadyInstalledTools, "already")
    BY <1>1 DEF CommandIInv, Listed
  <2>2. CASE x = w
    <3>1. At(w, failedTools) = {} /\ At(w, alreadyInstalledTools) = {}
      BY <1>1, <2>1, <2>2 DEF ListedIn
    <3>2. CASE result[w] = "already"
      <4>1. /\ At(w, alreadyInstalledTools') = {Len(alreadyInstalledTools) + 1}
            /\ Len(alreadyInstalledTools) + 1 \in DOMAIN alreadyInstalledTools'
            /\ At(w, failedTools') = {}
        BY <1>1, <1>5, <3>1, <3>2, AtAppend
      <4> QED  BY <1>2, <1>3, <2>2, <3>2, <4>1 DEF ListedIn, At
    <3>3. CASE result[w] = "failed"
      <4>1. /\ At(w, failedTools') = {Len(failedTools) + 1}
            /\ Len(failedTools) + 1 \in DOMAIN failedTools'
            /\ At(w, alreadyInstalledTools') = {}
        BY <1>1, <1>5, <3>1, <3>3, AtAppend
      <4> QED  BY <1>2, <1>3, <2>2, <3>3, <4>1 DEF ListedIn, At
    <3> QED  BY <1>5, <3>2, <3>3
  <2>3. CASE x # w
    <3>1. /\ At(x, failedTools') = At(x, failedTools)
          /\ At(x, alreadyInstalledTools') = At(x, alreadyInstalledTools)
          /\ \A i \in DOMAIN failedTools : i \in DOMAIN failedTools'
          /\ \A i \in DOMAIN alreadyInstalledTools : i \in DOMAIN alreadyInstalledTools'
      <4>1. CASE /\ failedTools' = failedTools
                 /\ alreadyInstalledTools' = Append(alreadyInstalledTools, w)
        BY <1>1, <2>3, <4>1, AtAppend
      <4>2. CASE /\ alreadyInstalledTools' = alreadyInstalledTools
                 /\ failedTools' = Append(failedTools, w)
        BY <1>1, <2>3, <4>2, AtAppend
      <4> QED  BY <1>5, <4>1, <4>2
    <3>2. stage'[x] = stage[x] /\ result' = result
      BY <1>2, <1>3, <2>3
    <3> QED  BY <2>1, <3>1, <3>2 DEF ListedIn, At
  <2> QED  BY <2>2, <2>3
<1>12. ASSUME NEW x \in Worker PROVE Own(x)'
  <2>1. CASE x = w
    BY <1>1, <1>2, <1>3, <2>1 DEF Own, Inside, Reported, OnlyFor, vars, disk
  <2>2. CASE x # w
    BY <1>1, <1>2, <1>3, <2>2, OthersKeepOwn DEF vars, disk
  <2> QED  BY <2>1, <2>2
<1> QED  BY <1>8, <1>9, <1>10, <1>11, <1>12 DEF CommandIInv
---------------------------------------------------------------------------
(* runInstall.                                                             *)

\* The loop's tool options name every worker at one place.
LEMMA ToolOptsOnce ==
    /\ Len(ToolOpts) \in Nat /\ DOMAIN ToolOpts = 1..Len(ToolOpts)
    /\ \A i \in DOMAIN ToolOpts : ToolOpts[i] \in Worker
    /\ \A i, j \in DOMAIN ToolOpts : ToolOpts[i] = ToolOpts[j] => i = j
    /\ \A w \in Worker : \E i \in DOMAIN ToolOpts : ToolOpts[i] = w
<1>1. /\ Len(ToolOpts) \in Nat /\ DOMAIN ToolOpts = 1..Len(ToolOpts)
      /\ \A i \in DOMAIN ToolOpts : ToolOpts[i] \in Worker
  BY EachToolOptIsAWorker, ElementOfSeq, LenProperties
<1>2. ASSUME NEW i \in DOMAIN ToolOpts, NEW j \in DOMAIN ToolOpts,
             ToolOpts[i] = ToolOpts[j]
      PROVE  i = j
  <2>1. PICK k \in DOMAIN ToolOpts :
           ToolOpts[k] = ToolOpts[i]
           /\ \A l \in DOMAIN ToolOpts : ToolOpts[l] = ToolOpts[i] => l = k
    BY <1>1, EachToolOptIsAWorker
  <2> QED  BY <1>2, <2>1
<1> QED  BY <1>1, <1>2, EachToolOptIsAWorker

LEMMA StepGo == ASSUME Before, TypeOK', Go  PROVE CommandIInv'
<1>1. /\ CommandIInv /\ InstallTypeOK /\ stage \in [Worker -> Stages] /\ faults \in Nat
      /\ warnings \in Nat /\ cmd = "loop" /\ next \in Nat /\ next <= Len(ToolOpts) /\ 1 <= next
      /\ \A x \in Worker : Own(x)
  <2>1. CommandIInv /\ InstallTypeOK /\ Queue /\ \A x \in Worker : Own(x)
    BY DEF Before, CommandIInv
  <2>2. cmd = "loop" /\ next <= Len(ToolOpts)
    BY DEF Go
  <2>3. stage \in [Worker -> Stages] /\ faults \in Nat /\ warnings \in Nat /\ next \in Nat
    BY <2>1 DEF InstallTypeOK, TypeOK
  <2>4. 1 <= next
    BY <2>1, ToolOptsOnce DEF Queue
  <2> QED  BY <2>1, <2>2, <2>3, <2>4
<1>2. next \in DOMAIN ToolOpts
  BY <1>1, ToolOptsOnce
<1>3. PICK w \in Worker : w = ToolOpts[next]
  BY <1>2, ToolOptsOnce
<1>4. /\ stage[w] = "queued" /\ stage' = [stage EXCEPT ![w] = "start"] /\ next' = next + 1
      /\ UNCHANGED <<vars, cmd, want, found, result, lists, staging, warnings, report>>
  <2>1. stage[ToolOpts[next]] = "queued"
    BY <1>1, <1>2 DEF CommandIInv, Queue
  <2> QED  BY <1>3, <2>1 DEF Go, To, area
<1>5. stage'[w] = "start" /\ \A x \in Worker \ {w} : stage'[x] = stage[x]
  BY <1>1, <1>4
<1>6. InstallTypeOK'
  BY <1>1, <1>4 DEF InstallTypeOK, Stages, lists
<1>7. Queue'
  <2>1. ASSUME NEW i \in DOMAIN ToolOpts
        PROVE  stage'[ToolOpts[i]] = "queued" <=> i >= next'
    <3>1. i \in Nat /\ (stage[ToolOpts[i]] = "queued" <=> i >= next)
      BY <1>1, ToolOptsOnce DEF CommandIInv, Queue
    <3>2. CASE i = next
      BY <1>1, <1>3, <1>4, <1>5, <3>2
    <3>3. CASE i # next
      <4>1. ToolOpts[i] \in Worker \ {w}
        BY <1>2, <1>3, <3>3, ToolOptsOnce
      <4> QED  BY <1>1, <1>4, <1>5, <3>1, <3>3, <4>1
    <3> QED  BY <3>2, <3>3
  <2>2. next' \in 1..(Len(ToolOpts) + 1)
    BY <1>1, <1>4, ToolOptsOnce
  <2> QED  BY <1>1, <1>4, <2>1, <2>2 DEF Queue
<1>8. Exclusion' /\ Listed'
  <2> SUFFICES ASSUME NEW x \in Worker
               PROVE  /\ stage'[x] = "append" <=> mutex' = x
                      /\ stage'[x] = "append" =>
                            read'[x] = IF result'[x] = "already" THEN alreadyInstalledTools'
                                       ELSE failedTools'
                      /\ ListedIn(x, failedTools, "failed")'
                      /\ ListedIn(x, alreadyInstalledTools, "already")'
    BY DEF Exclusion, Listed
  <2>1. /\ stage[x] = "append" <=> mutex = x
        /\ stage[x] = "append" =>
              read[x] = IF result[x] = "already" THEN alreadyInstalledTools ELSE failedTools
        /\ ListedIn(x, failedTools, "failed")
        /\ ListedIn(x, alreadyInstalledTools, "already")
    BY <1>1 DEF CommandIInv, Exclusion, Listed
  <2>2. /\ stage'[x] = "append" <=> stage[x] = "append"
        /\ stage'[x] = "done" <=> stage[x] = "done"
    BY <1>1, <1>4, <1>5
  <2>3. UNCHANGED <<mutex, read, failedTools, alreadyInstalledTools, result>>
    BY <1>4 DEF lists
  <2> QED  BY <2>1, <2>2, <2>3 DEF ListedIn, At
<1>9. ASSUME NEW x \in Worker PROVE Own(x)'
  <2>1. CASE x = w
    BY <1>1, <1>4, <1>5, <2>1 DEF Own, Inside, Reported, OnlyFor, vars, disk
  <2>2. CASE x # w
    BY <1>1, <1>4, <1>5, <2>2, OthersKeepOwn DEF vars, disk
  <2> QED  BY <2>1, <2>2
<1> QED  BY <1>6, <1>7, <1>8, <1>9 DEF CommandIInv

\* The command's own steps leave its goroutines alone.
LEMMA MainKeeps ==
    ASSUME CommandIInv, TypeOK', Queue', cmd' \in {"none", "loop", "wait", "done"},
           report' \in {"none", "error", "installed", "alreadyInstalled"},
           UNCHANGED <<bin, req, faults, next, stage, want, found, result, lists, staging, warnings>>
    PROVE  CommandIInv'
<1>1. InstallTypeOK'
  BY DEF CommandIInv, InstallTypeOK, lists
<1>2. Exclusion' /\ Listed'
  BY DEF CommandIInv, Exclusion, Listed, ListedIn, At, lists
<1>3. ASSUME NEW x \in Worker PROVE Own(x)'
  BY DEF CommandIInv, Own, OnlyFor
<1> QED  BY <1>1, <1>2, <1>3 DEF CommandIInv

LEMMA StepMain ==
    ASSUME Before, TypeOK', LoopEnds \/ WaitReturns \/ StartCommand  PROVE CommandIInv'
<1>1. CommandIInv /\ InstallTypeOK /\ Queue
  BY DEF Before, CommandIInv
<1>2. CASE LoopEnds
  <2>1. Queue'
    BY <1>1, <1>2 DEF LoopEnds, Queue
  <2> QED  BY <1>1, <1>2, <2>1, MainKeeps DEF LoopEnds, InstallTypeOK, area, vars, disk
<1>3. CASE WaitReturns
  <2>1. report' = "error" <=> failedTools # <<>>
    BY <1>3 DEF WaitReturns
  <2>2. Queue'
    BY <1>1, <1>3, <2>1 DEF WaitReturns, Queue, Running, lists
  <2>3. report' \in {"none", "error", "installed", "alreadyInstalled"}
    BY <1>3 DEF WaitReturns
  <2> QED  BY <1>1, <1>3, <2>2, <2>3, MainKeeps DEF WaitReturns, area, vars, disk
<1>4. CASE StartCommand
  <2>1. Queue'
    BY <1>1, <1>4 DEF StartCommand, Queue
  <2>2. UNCHANGED <<bin, req, faults>>
    BY <1>4 DEF StartCommand, NewStore, vars, disk
  <2> QED  BY <1>1, <1>4, <2>1, <2>2, MainKeeps DEF StartCommand, InstallTypeOK, area
<1> QED  BY <1>2, <1>3, <1>4

\* A new command finds nothing of the last one but its staging areas.
LEMMA ForgetKeeps ==
    ASSUME CommandIInv, TypeOK', Forget, cmd' = "none",
           report' \in {"none", "error", "installed", "alreadyInstalled"},
           staging' \in [Worker -> Nat], warnings' \in Nat,
           \A w \in Worker : staging'[w] <= faults' + warnings'
    PROVE  CommandIInv'
<1>1. /\ next' = 1 /\ mutex' = NoOne
      /\ failedTools' = <<>> /\ alreadyInstalledTools' = <<>>
      /\ stage' = [w \in Worker |-> "queued"] /\ want' = [w \in Worker |-> NoVersion]
      /\ found' = [w \in Worker |-> <<>>] /\ result' = [w \in Worker |-> "none"]
      /\ read' = [w \in Worker |-> <<>>]
  BY DEF Forget
<1>2. <<>> \in Seq(Entry) /\ <<>> \in Seq(Worker) /\ Len(<<>>) = 0
  BY EmptySeq
<1>3. InstallTypeOK'
  BY <1>1, <1>2 DEF CommandIInv, InstallTypeOK, Stages, Results
<1>4. Queue'
  BY <1>1, ToolOptsOnce DEF Queue
<1>5. Exclusion'
  BY <1>1, SpecialValues DEF Exclusion
<1>6. Listed'
  <2>1. \A w : At(w, <<>>) = {}
    BY DEF At
  <2> QED  BY <1>1, <2>1 DEF Listed, ListedIn, At
<1>7. ASSUME NEW w \in Worker PROVE Own(w)'
  <2>1. staging'[w] <= faults' + warnings' + 0
    BY DEF TypeOK
  <2> QED  BY <1>1, <2>1 DEF Own, Inside, Reported
<1> QED  BY <1>3, <1>4, <1>5, <1>6, <1>7 DEF CommandIInv

\* A crash or a panic leaves one staging area of each worker at most, an exit none but
\* those it warned about.
LEMMA StepEnds ==
    ASSUME Before, TypeOK',
           ExitCommand \/ CrashCommand \/ \E w \in Worker : PanicInWorker(w)
    PROVE  CommandIInv'
<1>1. /\ CommandIInv /\ InstallTypeOK /\ faults \in Nat /\ warnings \in Nat
      /\ staging \in [Worker -> Nat]
      /\ \A w \in Worker : Own(w) /\ staging[w] \in Nat
  BY DEF Before, CommandIInv, InstallTypeOK, TypeOK
<1>2. CASE ExitCommand
  <2>1. /\ Forget /\ cmd' = "none" /\ report' = report /\ faults' = faults /\ cmd = "done"
        /\ staging' = staging /\ warnings' = warnings
    BY <1>2 DEF ExitCommand, Exit, area
  <2>2. ASSUME NEW w \in Worker PROVE staging'[w] <= faults' + warnings'
    <3>1. Running = {}
      BY <1>1, <2>1 DEF CommandIInv, Queue
    <3>2. stage[w] \notin Inside
      BY <3>1 DEF Running, Inside
    <3>3. staging[w] <= faults + warnings + 0
      BY <1>1, <3>2 DEF Own
    <3> QED  BY <1>1, <2>1, <3>3
  <2> QED  BY <1>1, <2>1, <2>2, ForgetKeeps DEF InstallTypeOK
<1>3. ASSUME NEW w \in Worker PROVE staging[w] <= faults + warnings + 1
  <2>1. staging[w] <= faults + warnings + (IF stage[w] \in Inside THEN 1 ELSE 0)
    BY <1>1 DEF Own
  <2> QED  BY <1>1, <2>1
<1>4. CASE CrashCommand
  <2>1. /\ Forget /\ cmd' = "none" /\ report' = "none" /\ faults' = faults + 1
        /\ staging' = staging /\ warnings' = warnings
    BY <1>4 DEF CrashCommand, Crash, Fault, area
  <2>2. ASSUME NEW w \in Worker PROVE staging'[w] <= faults' + warnings'
    BY <1>1, <1>3, <2>1
  <2> QED  BY <1>1, <2>1, <2>2, ForgetKeeps
<1>5. ASSUME NEW x \in Worker, PanicInWorker(x) PROVE CommandIInv'
  <2>1. /\ Forget /\ cmd' = "none" /\ report' = "none" /\ faults' = faults + 1
        /\ Cleanup(x) /\ stage[x] = "store"
    BY <1>5 DEF PanicInWorker, Panic
  <2>2. staging[x] >= 1
    BY <1>1, <2>1 DEF Own, Inside
  <2>3. /\ staging' \in [Worker -> Nat] /\ warnings' \in Nat /\ warnings <= warnings'
        /\ staging'[x] <= (staging[x] - 1) + (warnings' - warnings) /\ staging'[x] \in Nat
        /\ \A w \in Worker \ {x} : staging'[w] = staging[w]
    BY <1>1, <2>1, <2>2, CleanupCounts
  <2>4. ASSUME NEW w \in Worker PROVE staging'[w] <= faults' + warnings'
    <3>1. CASE w = x
      BY <1>1, <1>3, <2>1, <2>3, <3>1
    <3>2. CASE w # x
      BY <1>1, <1>3, <2>1, <2>3, <3>2
    <3> QED  BY <3>1, <3>2
  <2> QED  BY <1>1, <2>1, <2>3, <2>4, ForgetKeeps
<1> QED  BY <1>2, <1>4, <1>5

LEMMA InitCommandIInv == InstallInit => CommandIInv
<1> SUFFICES ASSUME InstallInit PROVE CommandIInv
  OBVIOUS
<1>1. <<>> \in Seq(Entry) /\ <<>> \in Seq(Worker) /\ Len(<<>>) = 0
  BY EmptySeq
<1>2. TypeOK /\ faults = 0
  BY InitIInv DEF InstallInit, IInv, Safe, Init
<1>3. InstallTypeOK
  BY <1>1, <1>2 DEF InstallInit, InstallTypeOK, Stages, Results
<1>4. Queue
  BY ToolOptsOnce DEF InstallInit, Queue
<1>5. Exclusion
  BY SpecialValues DEF InstallInit, Exclusion
<1>6. Listed
  <2>1. \A w : At(w, <<>>) = {}
    BY DEF At
  <2> QED  BY <2>1 DEF InstallInit, Listed, ListedIn
<1>7. ASSUME NEW w \in Worker PROVE Own(w)
  BY <1>2 DEF InstallInit, Own, Inside, Reported
<1> QED  BY <1>3, <1>4, <1>5, <1>6, <1>7 DEF CommandIInv

LEMMA NextCommandIInv ==
    CommandIInv /\ IInv /\ PlacedIsOnDisk /\ TypeOK' /\ [InstallNext]_installVars
        => CommandIInv'
<1> SUFFICES ASSUME Before, TypeOK', [InstallNext]_installVars PROVE CommandIInv'
  BY DEF Before
<1>1. CASE UNCHANGED installVars
  <2>1. /\ UNCHANGED <<bin, req, faults, next, stage, want, found, result, lists, staging, warnings>>
        /\ UNCHANGED <<cmd, report>>
    BY <1>1 DEF installVars, pool, area, vars, disk, lists
  <2>2. Queue'
    BY <2>1 DEF Before, CommandIInv, Queue, Running, lists
  <2> QED  BY <2>1, <2>2, MainKeeps DEF Before, CommandIInv, InstallTypeOK
<1>2. ASSUME NEW w \in Worker, Goroutine(w) PROVE CommandIInv'
  BY <1>2, StepStageArea, StepResolveVersion, StepLookUp, StepVerifyEntry, StepInstallTo,
     StepRunAddTool, StepAddToolReturned, StepLockLists, StepAppendAndUnlock, StepEnds
  DEF Goroutine, Request, OwnStep
<1>3. CASE Main \/ StartCommand
  BY <1>3, StepGo, StepMain DEF Main
<1>4. CASE ExitCommand \/ CrashCommand
  BY <1>4, StepEnds
<1> QED  BY <1>1, <1>2, <1>3, <1>4 DEF InstallNext

\* The invariant of the command holds in every reachable state, with the store's.
THEOREM CommandInvariance == InstallSpec => [](IInv /\ CommandIInv)
<1>1. InstallSpec => []IInv
  BY UsesStore, Invariance, PTL
<1>2. Spec => []PlacedIsOnDisk
  <2>1. Init => PlacedIsOnDisk
    BY DEF Init, PlacedIsOnDisk, Placed
  <2> QED  BY <2>1, NextPlaced, TypeCorrectness, PTL DEF Spec
<1>3. InstallSpec => []PlacedIsOnDisk
  BY <1>2, UsesStore, PTL
<1>4. InstallSpec => []TypeOK
  BY UsesStore, TypeCorrectness, PTL
<1> QED  BY <1>1, <1>3, <1>4, InitCommandIInv, NextCommandIInv, PTL DEF InstallSpec

\* The command's variables keep their types.
THEOREM InstallTypeCorrectness == InstallSpec => []InstallTypeOK
<1>1. CommandIInv => InstallTypeOK
  BY DEF CommandIInv
<1> QED  BY <1>1, CommandInvariance, PTL

\* A command that is done has no worker left.
LEMMA DoneMeansDone ==
    ASSUME CommandIInv, cmd = "done", NEW w \in Worker
    PROVE  stage[w] = "done"
<1>1. PICK i \in DOMAIN ToolOpts : ToolOpts[i] = w
  BY ToolOptsOnce
<1>2. /\ Running = {} /\ next > Len(ToolOpts) /\ next \in Nat
      /\ stage[w] = "queued" <=> i >= next
  BY <1>1, ToolOptsOnce DEF CommandIInv, Queue
<1>3. stage[w] # "queued"
  BY <1>1, <1>2, ToolOptsOnce
<1> QED  BY <1>2, <1>3 DEF Running

\* No append to runInstall's lists is lost to a concurrent one, for any number of
\* goroutines and any limit.
THEOREM ResultsListed == InstallSpec => []EveryResultIsListed
<1>1. CommandIInv => EveryResultIsListed
  <2> SUFFICES ASSUME CommandIInv, cmd = "done", NEW w \in Worker
               PROVE  /\ Cardinality({i \in DOMAIN failedTools : failedTools[i] = w})
                           = IF result[w] = "failed" THEN 1 ELSE 0
                      /\ Cardinality({i \in DOMAIN alreadyInstalledTools :
                                        alreadyInstalledTools[i] = w})
                           = IF result[w] = "already" THEN 1 ELSE 0
    BY DEF EveryResultIsListed
  <2>1. stage[w] = "done"
    BY DoneMeansDone
  <2>2. /\ ListedIn(w, failedTools, "failed")
        /\ ListedIn(w, alreadyInstalledTools, "already")
    BY DEF CommandIInv, Listed
  <2>3. Cardinality(At(w, failedTools)) = IF result[w] = "failed" THEN 1 ELSE 0
    <3>1. CASE result[w] = "failed"
      <4>1. PICK i : At(w, failedTools) = {i}
        BY <2>1, <2>2, <3>1 DEF ListedIn
      <4> QED  BY <3>1, <4>1, FS_Singleton
    <3>2. CASE result[w] # "failed"
      BY <2>1, <2>2, <3>2, FS_EmptySet DEF ListedIn
    <3> QED  BY <3>1, <3>2
  <2>4. Cardinality(At(w, alreadyInstalledTools)) = IF result[w] = "already" THEN 1 ELSE 0
    <3>1. CASE result[w] = "already"
      <4>1. PICK i : At(w, alreadyInstalledTools) = {i}
        BY <2>1, <2>2, <3>1 DEF ListedIn
      <4> QED  BY <3>1, <4>1, FS_Singleton
    <3>2. CASE result[w] # "already"
      BY <2>1, <2>2, <3>2, FS_EmptySet DEF ListedIn
    <3> QED  BY <3>1, <3>2
  <2> QED  BY <2>3, <2>4 DEF At
<1> QED  BY <1>1, CommandInvariance, PTL

\* When `binny install` reports no error, the binary of each tool configured once is of
\* the version that was resolved for it.
THEOREM SuccessInPlace == InstallSpec => []SuccessMeansInPlace
<1>1. CommandIInv => SuccessMeansInPlace
  <2> SUFFICES ASSUME CommandIInv, cmd = "done", report # "error", NEW w \in Worker,
                      OnlyFor(w)
               PROVE  bin[ToolOf[w]] = want[w]
    BY DEF SuccessMeansInPlace, OnlyFor
  <2>1. stage[w] = "done" /\ Own(w) /\ result[w] \in Results
    BY DoneMeansDone DEF CommandIInv, InstallTypeOK
  <2>2. failedTools = <<>>
    BY DEF CommandIInv, Queue
  <2>3. result[w] # "failed"
    <3>1. DOMAIN failedTools = {}
      BY <2>2
    <3> QED  BY <2>1, <3>1 DEF CommandIInv, Listed, ListedIn
  <2> QED  BY <2>1, <2>3 DEF Own, Reported, Results
<1> QED  BY <1>1, CommandInvariance, PTL

\* Install's deferred cleanup: but for crashes and the removals that fail with a warning, a
\* staging area ends with its worker, whichever way it leaves Install.
THEOREM StagingTidied == InstallSpec => []StagingIsTidied
<1>1. CommandIInv => StagingIsTidied
  <2> SUFFICES ASSUME CommandIInv, NEW w \in Worker
               PROVE  staging[w] <= faults + warnings +
                        (IF stage[w] \in {"queued", "start", "lock", "append", "done"}
                         THEN 0 ELSE 1)
    BY DEF StagingIsTidied
  <2>1. staging[w] <= faults + warnings + (IF stage[w] \in Inside THEN 1 ELSE 0)
        /\ stage[w] \in Stages
    BY DEF CommandIInv, InstallTypeOK, Own
  <2> QED  BY <2>1 DEF Inside, Stages
<1> QED  BY <1>1, CommandInvariance, PTL
=============================================================================
