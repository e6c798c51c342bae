---------------------------- MODULE UpdateProofs ----------------------------
(***************************************************************************)
(* Theorems about `binny update` and `binny add` for any number of         *)
(* workers, commands, tools and edits.                                     *)
(***************************************************************************)
EXTENDS AddCommand, FiniteSetTheorems, SequenceTheorems, WellFoundedInduction, TLAPS

---------------------------------------------------------------------------
(* The inductive invariant.                                                *)

\* getUpdatedConfig: who failed is in the multierror, and who was started is not queued.
\* Past g.Wait every worker is done, and none failed.
Updating ==
    /\ next \in Nat \ {0}
    /\ \A k \in DOMAIN newCfgs : \E w \in Worker : newCfgs[k].name = NameOf(w)
    /\ \A w \in Worker : stage[w] = "failed" \/ (stage[w] = "done" /\ err[w]) => w \in errs
    /\ cmd \in {"loop", "wait"} =>
          \A j \in DOMAIN ToolOpts : j < next => stage[ToolOpts[j]] # "queued"
    /\ cmd = "wait" => next > Len(ToolOpts)
    /\ cmd \in {"read", "patch", "write"} =>
          errs = {} /\ \A w \in Worker : stage[w] = "done" /\ ~err[w]

\* Who has the file open finds it empty, and alone, unless somebody was in between.
Alone ==
    ~overlap =>
        /\ cmd = "write" => config.status = "empty"
        /\ \A a \in Adder : step[a] = "write" => config.status = "empty" /\ cmd # "write"
        /\ \A a, b \in Adder : step[a] = "write" /\ step[b] = "write" => a = b

\* Who has read the file knows what it has, unless somebody was in between.
Knowing ==
    ~overlap =>
        /\ cmd = "patch" => config.status = "whole" /\ contents = config.tools
        /\ \A a \in Adder :
              /\ step[a] = "patch" => config.status = "whole" /\ doc[a] = config.tools
              /\ step[a] = "create" => config.status \in {"absent", "empty"}

\* Without a document there are no tools, and an `add` writes the one it was asked for.
Documents ==
    /\ config.status # "whole" => config.tools = <<>>
    /\ \A a \in Adder : step[a] = "write" => ToolOfAdd[a].name \in NamesIn(doc[a])

IInv == AddTypeOK /\ Updating /\ Alone /\ Knowing /\ Documents /\ DamageHasCause

---------------------------------------------------------------------------
(* The operators.                                                          *)

\* Numbers that are bounded have a greatest one.
LEMMA GreatestOfBounded ==
    ASSUME NEW n \in Nat, NEW T, T \subseteq 1..n, T # {}
    PROVE  \E x \in T : \A y \in T : y <= x
  <1> DEFINE R == {ss \in Nat \X Nat : ss[1] < ss[2]}
  <1> DEFINE U == {n - t : t \in T}
  <1>1. IsWellFoundedOn(R, Nat)
    BY NatLessThanWellFounded DEF OpToRel
  <1>2. U \subseteq Nat /\ U # {}
    <2>1. ASSUME NEW t \in T  PROVE n - t \in Nat
      <3>1. t \in 1..n
        OBVIOUS
      <3>2. t \in Int /\ t <= n
        BY <3>1
      <3> QED  BY <3>2
    <2> QED  BY <2>1
  <1> HIDE DEF R
  <1>3. PICK u \in U : \A y \in U : ~(<<y, u>> \in R)
    <2> HIDE DEF U
    <2> QED  BY <1>1, <1>2, WFMin
  <1>4. PICK x \in T : u = n - x
    OBVIOUS
  <1>5. ASSUME NEW y \in T
        PROVE  y <= x
    <2>1. n - y \in U /\ n - y \in Nat /\ u \in Nat /\ x \in Int /\ y \in Int
      BY <1>2
    <2>2. <<n - y, u>> \in Nat \X Nat
      BY <2>1
    <2>3. ~(n - y < u)
      BY <1>3, <2>1, <2>2 DEF R
    <2> QED  BY <1>4, <2>1, <2>3
  <1> QED  BY <1>5

\* PatchYaml keeps the tools and their names, and only touches pins of the names it got.
LEMMA PatchYamlKeeps ==
    ASSUME NEW tools \in Seq(Tool), NEW cfgs \in Seq(Tool)
    PROVE  /\ PatchYaml(tools, cfgs) \in Seq(Tool)
           /\ DOMAIN PatchYaml(tools, cfgs) = DOMAIN tools
           /\ \A i \in DOMAIN tools : PatchYaml(tools, cfgs)[i].name = tools[i].name
           /\ \A i \in DOMAIN tools :
                 (\A k \in DOMAIN cfgs : cfgs[k].name # tools[i].name) =>
                     PatchYaml(tools, cfgs)[i] = tools[i]
  <1> DEFINE mine(i) == {k \in DOMAIN cfgs : i \in WantNode(tools, cfgs[k].name)}
  <1> DEFINE last(i) == CHOOSE k \in mine(i) : \A j \in mine(i) : j <= k
  <1> DEFINE after(i) == IF mine(i) = {} THEN tools[i] ELSE [tools[i] EXCEPT !.want = cfgs[last(i)].want]
  <1>1. /\ Len(tools) \in Nat /\ DOMAIN tools = 1..Len(tools) /\ \A i \in DOMAIN tools : tools[i] \in Tool
        /\ Len(cfgs) \in Nat /\ DOMAIN cfgs = 1..Len(cfgs) /\ \A k \in DOMAIN cfgs : cfgs[k] \in Tool
    BY LenProperties
  <1>2. PatchYaml(tools, cfgs) = [i \in DOMAIN tools |-> after(i)]
    BY DEF PatchYaml
  <1>3. ASSUME NEW i \in DOMAIN tools
        PROVE  after(i) \in Tool /\ after(i).name = tools[i].name
    <2>1. CASE mine(i) = {}
      BY <1>1, <2>1
    <2>2. CASE mine(i) # {}
      <3>1. mine(i) \subseteq 1..Len(cfgs)
        BY <1>1
      <3>2. \E k \in mine(i) : \A j \in mine(i) : j <= k
        <4> HIDE DEF mine
        <4> QED  BY <1>1, <2>2, <3>1, GreatestOfBounded
      <3>3. last(i) \in mine(i)
        BY <3>2
      <3>4. cfgs[last(i)] \in Tool
        BY <1>1, <3>1, <3>3
      <3>5. after(i) = [tools[i] EXCEPT !.want = cfgs[last(i)].want]
        BY <2>2
      <3> HIDE DEF mine, last, after
      <3>6. tools[i] \in Tool
        BY <1>1
      <3> QED  BY <3>4, <3>5, <3>6 DEF Tool
    <2> QED  BY <2>1, <2>2
  <1>4. ASSUME NEW i \in DOMAIN tools, \A k \in DOMAIN cfgs : cfgs[k].name # tools[i].name
        PROVE  after(i) = tools[i]
    <2>1. mine(i) = {}
      BY <1>4 DEF WantNode, First
    <2> QED  BY <2>1
  <1> HIDE DEF after
  <1>5. PatchYaml(tools, cfgs) \in [1..Len(tools) -> Tool]
    BY <1>1, <1>2, <1>3
  <1> QED  BY <1>1, <1>2, <1>3, <1>4, <1>5, SeqDef

\* So that the names in the file are the same.
LEMMA PatchYamlNames ==
    ASSUME NEW tools \in Seq(Tool), NEW cfgs \in Seq(Tool)
    PROVE  NamesIn(PatchYaml(tools, cfgs)) = NamesIn(tools)
  <1> DEFINE after == PatchYaml(tools, cfgs)
  <1>1. DOMAIN after = DOMAIN tools /\ \A i \in DOMAIN tools : after[i].name = tools[i].name
    BY PatchYamlKeeps
  <1> HIDE DEF after
  <1>2. NamesIn(after) = NamesIn(tools)
    BY <1>1, Zenon DEF NamesIn
  <1> QED  BY <1>2 DEF after

LEMMA AppendedName ==
    ASSUME NEW tools \in Seq(Tool), NEW tool \in Tool
    PROVE  /\ Append(tools, tool) \in Seq(Tool)
           /\ NamesIn(Append(tools, tool)) = NamesIn(tools) \cup {tool.name}
  <1>1. /\ Len(tools) \in Nat /\ DOMAIN tools = 1..Len(tools)
        /\ Append(tools, tool) \in Seq(Tool) /\ Len(Append(tools, tool)) = Len(tools) + 1
        /\ \A i \in 1..Len(tools) : Append(tools, tool)[i] = tools[i]
        /\ Append(tools, tool)[Len(tools) + 1] = tool
    BY LenProperties, AppendProperties
  <1>2. DOMAIN Append(tools, tool) = 1..(Len(tools) + 1)
    BY <1>1, LenProperties
  <1> HIDE DEF Tool
  <1>3. ASSUME NEW x \in NamesIn(Append(tools, tool))
        PROVE  x \in NamesIn(tools) \cup {tool.name}
    <2>1. PICK i \in 1..(Len(tools) + 1) : x = Append(tools, tool)[i].name
      BY <1>2 DEF NamesIn
    <2>2. i \in 1..Len(tools) \/ i = Len(tools) + 1
      BY <1>1
    <2> QED  BY <1>1, <2>1, <2>2 DEF NamesIn
  <1>4. ASSUME NEW x \in NamesIn(tools) \cup {tool.name}
        PROVE  x \in NamesIn(Append(tools, tool))
    <2>1. \A i \in 1..Len(tools) : i \in 1..(Len(tools) + 1)
      BY <1>1
    <2>2. Len(tools) + 1 \in 1..(Len(tools) + 1)
      BY <1>1
    <2> QED  BY <1>1, <1>2, <2>1, <2>2 DEF NamesIn
  <1> QED  BY <1>1, <1>3, <1>4

LEMMA OneName ==
    ASSUME NEW tool \in Tool
    PROVE  <<tool>> \in Seq(Tool) /\ NamesIn(<<tool>>) = {tool.name}
  BY DEF NamesIn

\* The tools the workers are for.
LEMMA WorkerTypes ==
    /\ \A w \in Worker : NameOf(w) \in Name /\ Want(w) \in Version \cup {NoPin}
    /\ Len(ToolOpts) \in Nat /\ DOMAIN ToolOpts = 1..Len(ToolOpts)
    /\ \A j \in DOMAIN ToolOpts : ToolOpts[j] \in Worker
  <1>1. /\ \A w \in Worker : OptOf[w] \in DOMAIN Configured
        /\ \A i \in DOMAIN Configured : Configured[i] \in Tool
    <2>1. Configured \in Seq(Tool) /\ OptOf \in [Worker -> DOMAIN Configured]
      BY UpdateParameterTypes
    <2> QED  BY <2>1, LenProperties
  <1>2. \A w \in Worker : NameOf(w) \in Name /\ Want(w) \in Version \cup {NoPin}
    BY <1>1 DEF NameOf, Want, Tool
  <1>3. ToolOpts \in Seq(Worker)
    BY UpdateParameterTypes
  <1> QED  BY <1>2, <1>3, LenProperties

---------------------------------------------------------------------------
(* Types.                                                                  *)

LEMMA FileTypes ==
    /\ \A status \in {"whole", "empty", "broken", "absent"} :
          File(status) \in [status : {"whole", "empty", "broken", "absent"}, tools : Seq(Tool)]
    /\ \A tools \in Seq(Tool) :
          Whole(tools) \in [status : {"whole", "empty", "broken", "absent"}, tools : Seq(Tool)]
  <1>1. <<>> \in Seq(Tool)
    BY EmptySeq
  <1> QED  BY <1>1 DEF File, Whole

LEMMA OverwrittenTypes ==
    ASSUME TypeOK, NEW tools \in Seq(Tool), NEW file \in Overwritten(tools)
    PROVE  file \in [status : {"whole", "empty", "broken", "absent"}, tools : Seq(Tool)]
  BY FileTypes DEF Overwritten, TypeOK

\* What is left of a file after a write that failed.
LEMMA CutOffTypes ==
    ASSUME TypeOK, NEW tools \in Seq(Tool), NEW file \in CutOff(tools)
    PROVE  file \in [status : {"whole", "empty", "broken", "absent"}, tools : Seq(Tool)]
  <1>1. ASSUME NEW k \in 0..Len(tools)  PROVE SubSeq(tools, 1, k) \in Seq(Tool)
    <2>1. Len(tools) \in Nat /\ 1 \in Nat /\ k \in Nat /\ k <= Len(tools)
      BY LenProperties
    <2>2. \A i \in 1..k : tools[i] \in Tool
      BY <2>1, ElementOfSeq, LenProperties
    <2> QED  BY <2>1, <2>2, SubSeqProperties
  <1>2. CASE file = config
    BY <1>2 DEF TypeOK
  <1>3. CASE file = File("broken")
    BY <1>3, FileTypes
  <1>4. ASSUME NEW k \in 0..Len(tools), file = Whole(SubSeq(tools, 1, k))
        PROVE  file \in [status : {"whole", "empty", "broken", "absent"}, tools : Seq(Tool)]
    BY <1>1, <1>4, FileTypes
  <1> QED  BY <1>2, <1>3, <1>4 DEF CutOff

LEMMA TypesInitially == AddInit => AddTypeOK
  <1>1. <<>> \in Seq([name : Name, want : Version \cup {NoPin}]) /\ <<>> \in Seq(Tool)
    BY EmptySeq
  <1>2. Configured \in Seq(Tool) /\ StopOnError \subseteq BOOLEAN
    BY UpdateParameterTypes
  <1>3. Whole(Configured) \in [status : {"whole", "empty", "broken", "absent"}, tools : Seq(Tool)]
    BY <1>2, FileTypes
  <1> HIDE DEF Tool
  <1>4. Init => TypeOK
    BY <1>1, <1>2, <1>3 DEF Init, TypeOK, Commands, Ended, Stages
  <1> QED  BY <1>1, <1>2, <1>4 DEF AddInit, AddTypeOK, Steps

\* The pin a goroutine collects.
LEMMA CollectedType ==
    ASSUME TypeOK, NEW w \in Worker
    PROVE  [name |-> NameOf(w), want |-> IF version[w] = Nil THEN Want(w) ELSE version[w]] \in Tool
  BY WorkerTypes DEF TypeOK, Tool

LEMMA TypesGoroutine ==
    ASSUME TypeOK, NEW w \in Worker, Goroutine(w)
    PROVE  TypeOK'
  <1>1. \A s : s \in Stages /\ To(w, s) => stage' \in [Worker -> Stages]
    BY DEF TypeOK, To
  <1>2. "lock" \in Stages /\ "locked" \in Stages /\ "failed" \in Stages /\ "done" \in Stages
    BY DEF Stages
  <1>3. CASE GetUpdatedToolVersion(w)
    <2>1. stage' \in [Worker -> Stages]
      BY <1>1, <1>2, <1>3 DEF GetUpdatedToolVersion
    <2>2. /\ version' \in [Worker -> Version \cup {NoPin, Nil}]
          /\ err' \in [Worker -> BOOLEAN]
      BY <1>3 DEF GetUpdatedToolVersion, TypeOK
    <2> QED  BY <1>3, <2>1, <2>2 DEF GetUpdatedToolVersion, TypeOK, patching
  <1>4. CASE LockLists(w)
    BY <1>1, <1>2, <1>4 DEF LockLists, TypeOK, patching
  <1>5. CASE StopInside(w)
    BY <1>1, <1>2, <1>5 DEF StopInside, TypeOK, patching
  <1>6. CASE Collect(w)
    <2>1. newCfgs' \in Seq([name : Name, want : Version \cup {NoPin}])
      <3> DEFINE pin == [name |-> NameOf(w), want |-> IF version[w] = Nil THEN Want(w) ELSE version[w]]
      <3>1. pin \in Tool /\ newCfgs \in Seq(Tool) /\ newCfgs' = Append(newCfgs, pin)
        BY <1>6, CollectedType DEF Collect, TypeOK, Tool
      <3> HIDE DEF pin
      <3>2. newCfgs' \in Seq(Tool)
        BY <3>1, AppendProperties
      <3> QED  BY <3>2 DEF Tool
    <2>2. stage' \in [Worker -> Stages]
      BY <1>1, <1>2, <1>6 DEF Collect
    <2>3. errs' \subseteq Worker /\ lock' \in Worker \cup {NoOne}
      BY <1>6 DEF Collect, TypeOK
    <2> QED  BY <1>6, <2>1, <2>2, <2>3 DEF Collect, TypeOK, patching
  <1> QED  BY <1>3, <1>4, <1>5, <1>6 DEF Goroutine, OwnStep

LEMMA TypesNext ==
    ASSUME TypeOK, Next
    PROVE  TypeOK'
  <1>0. \A c : c \in {"loop", "wait", "read", "patch", "write", "written", "unwritten",
                   "failed", "panic", "killed"} => c \in Commands
    BY DEF Commands, Ended
  <1>1. CASE Go
    <2>1. ToolOpts[next] \in Worker => stage' \in [Worker -> Stages]
      BY <1>1 DEF Go, TypeOK, To, Stages
    <2>2. stage' \in [Worker -> Stages]
      BY <1>1, <2>1 DEF Go, TypeOK, To, Stages
    <2> QED  BY <1>1, <2>2 DEF Go, TypeOK, patching
  <1>2. CASE LoopEnds \/ WaitReturns
    BY <1>0, <1>2 DEF LoopEnds, WaitReturns, TypeOK, fetching, patching
  <1>3. CASE ReadConfig
    <2>1. config.tools \in Seq(Tool)
      BY DEF TypeOK
    <2> QED  BY <1>0, <1>3, <2>1 DEF ReadConfig, TypeOK, fetching
  <1>4. CASE PatchAndTruncate
    <2>1. PatchYaml(contents, newCfgs) \in Seq(Tool)
      <3>1. contents \in Seq(Tool) /\ newCfgs \in Seq(Tool)
        BY DEF TypeOK, Tool
      <3> QED  BY <3>1, PatchYamlKeeps
    <2>2. File("empty") \in [status : {"whole", "empty", "broken", "absent"}, tools : Seq(Tool)]
      BY FileTypes
    <2>3. contents' \in Seq(Tool)
      BY <1>4, <2>1 DEF PatchAndTruncate, TypeOK
    <2>4. config' \in [status : {"whole", "empty", "broken", "absent"}, tools : Seq(Tool)]
      BY <1>4, <2>2 DEF PatchAndTruncate, TypeOK
    <2> QED  BY <1>0, <1>4, <2>3, <2>4 DEF PatchAndTruncate, TypeOK, fetching
  <1>5. CASE WriteConfig
    <2>1. config' \in [status : {"whole", "empty", "broken", "absent"}, tools : Seq(Tool)]
      <3>1. /\ contents \in Seq(Tool)
            /\ config' \in Overwritten(contents) \/ config' \in CutOff(contents)
        BY <1>5 DEF TypeOK, WriteConfig
      <3> QED  BY <3>1, OverwrittenTypes, CutOffTypes
    <2> QED  BY <1>0, <1>5, <2>1 DEF WriteConfig, TypeOK, fetching
  <1>6. CASE Kill
    <2>1. <<>> \in Seq([name : Name, want : Version \cup {NoPin}]) /\ <<>> \in Seq(Tool)
      BY EmptySeq
    <2> QED  BY <1>0, <1>6, <2>1 DEF Kill, TypeOK, Stages
  <1>7. CASE Edit
    <2>1. EditorFile \subseteq Seq(Tool)
      BY UpdateParameterTypes
    <2>2. config' \in [status : {"whole", "empty", "broken", "absent"}, tools : Seq(Tool)]
      BY <1>7, <2>1, FileTypes DEF Edit
    <2> QED  BY <1>7, <2>2 DEF Edit, TypeOK, fetching
  <1>8. CASE \E w \in Worker : Goroutine(w)
    BY <1>8, TypesGoroutine
  <1> QED  BY <1>1, <1>2, <1>3, <1>4, <1>5, <1>6, <1>7, <1>8 DEF Next, Main

LEMMA TypesAddStep ==
    ASSUME AddTypeOK, NEW a \in Adder, AddStep(a), UNCHANGED <<cmd, fetching, contents, edits>>
    PROVE  TypeOK' /\ step' \in [Adder -> Steps] /\ doc' \in [Adder -> Seq(Tool)]
  <1>0. \A s : s \in {"load", "stat", "create", "append", "patch", "write", "added", "unwritten",
                      "refused", "failed", "killed"} /\ Goes(a, s) => step' \in [Adder -> Steps]
    BY DEF AddTypeOK, Goes, Steps
  <1>1. \A tools \in Seq(Tool) : Keeps(a, tools) => doc' \in [Adder -> Seq(Tool)]
    BY DEF AddTypeOK, Keeps
  <1>2. /\ doc \in [Adder -> Seq(Tool)] /\ doc[a] \in Seq(Tool) /\ config.tools \in Seq(Tool)
        /\ config \in [status : {"whole", "empty", "broken", "absent"}, tools : Seq(Tool)]
        /\ ToolOfAdd[a] \in Tool /\ <<>> \in Seq(Tool)
    BY AddTypes, EmptySeq DEF AddTypeOK, TypeOK
  <1>3. File("empty") \in [status : {"whole", "empty", "broken", "absent"}, tools : Seq(Tool)]
    BY FileTypes
  <1>4. ASSUME config' \in [status : {"whole", "empty", "broken", "absent"}, tools : Seq(Tool)]
        PROVE  TypeOK'
    BY <1>4 DEF AddTypeOK, TypeOK, fetching
  <1>5. CASE Load(a) \/ Stat(a)
    BY <1>0, <1>2, <1>4, <1>5 DEF Load, Stat
  <1>6. CASE Create(a)
    <2>1. <<ToolOfAdd[a]>> \in Seq(Tool)
      BY <1>2, OneName
    <2> QED  BY <1>0, <1>1, <1>2, <1>3, <1>4, <1>6, <2>1 DEF Create, FailsBefore
  <1>7. CASE ReadToAppend(a)
    BY <1>0, <1>1, <1>2, <1>4, <1>7 DEF ReadToAppend, FailsBefore
  <1>8. CASE AppendAndTruncate(a)
    <2>1. Append(doc[a], ToolOfAdd[a]) \in Seq(Tool)
      BY <1>2, AppendedName
    <2> QED  BY <1>0, <1>1, <1>2, <1>3, <1>4, <1>8, <2>1 DEF AppendAndTruncate, FailsBefore
  <1>9. CASE WriteAdded(a)
    <2>1. config' \in [status : {"whole", "empty", "broken", "absent"}, tools : Seq(Tool)]
      BY <1>2, <1>9, OverwrittenTypes, CutOffTypes DEF WriteAdded, AddTypeOK
    <2> QED  BY <1>0, <1>2, <1>4, <1>9, <2>1 DEF WriteAdded
  <1>10. CASE KillAdd(a)
    BY <1>0, <1>1, <1>2, <1>4, <1>10 DEF KillAdd
  <1> QED  BY <1>5, <1>6, <1>7, <1>8, <1>9, <1>10 DEF AddStep

LEMMA TypesStep == ASSUME AddTypeOK, AddNext  PROVE AddTypeOK'
  <1>1. overlap' \in BOOLEAN
    BY DEF AddNext
  <1>2. ASSUME Next, UNCHANGED adding
        PROVE  TypeOK' /\ step' \in [Adder -> Steps] /\ doc' \in [Adder -> Seq(Tool)]
    BY <1>2, TypesNext DEF AddTypeOK, adding
  <1>3. ASSUME NEW a \in Adder, AddStep(a), UNCHANGED <<cmd, fetching, contents, edits>>
        PROVE  TypeOK' /\ step' \in [Adder -> Steps] /\ doc' \in [Adder -> Seq(Tool)]
    BY <1>3, TypesAddStep
  <1>4. TypeOK' /\ step' \in [Adder -> Steps] /\ doc' \in [Adder -> Seq(Tool)]
    BY <1>2, <1>3 DEF AddNext
  <1>5. prior' \in Seq(Tool)
    <2>1. config'.tools \in Seq(Tool) /\ <<>> \in Seq(Tool) /\ prior \in Seq(Tool)
      BY <1>4, EmptySeq DEF TypeOK, AddTypeOK
    <2> QED  BY <2>1 DEF AddNext
  <1> QED  BY <1>1, <1>4, <1>5 DEF AddTypeOK

---------------------------------------------------------------------------
(* getUpdatedConfig.                                                       *)

LEMMA UpdatingInitially == AddInit => Updating
  <1>1. \A j \in DOMAIN ToolOpts : ~(j < 1)
    BY WorkerTypes
  <1> QED  BY <1>1 DEF AddInit, Init, Updating

LEMMA UpdatingGoroutine ==
    ASSUME TypeOK, Updating, NEW w \in Worker, Goroutine(w)
    PROVE  Updating'
  <1>0. Live /\ UNCHANGED <<cmd, next>> /\ stage[w] \in {"fetch", "lock", "locked"}
        /\ cmd \in {"loop", "wait"}
    BY DEF Goroutine, OwnStep, GetUpdatedToolVersion, LockLists, StopInside, Collect, Live
  <1>1. PICK s \in {"lock", "locked", "failed", "done"} : To(w, s)
    BY DEF Goroutine, OwnStep, GetUpdatedToolVersion, LockLists, StopInside, Collect
  <1>2. /\ stage' \in [Worker -> Stages \cup {s}] /\ stage'[w] = s
        /\ \A v \in Worker : v # w => stage'[v] = stage[v]
    BY <1>1 DEF To, TypeOK
  <1>3. \A j \in DOMAIN ToolOpts : j < next => stage'[ToolOpts[j]] # "queued"
    BY <1>0, <1>2, WorkerTypes DEF Updating
  <1>4. ASSUME \A v \in Worker : v # w => err'[v] = err[v],
               errs \subseteq errs',
               s = "failed" \/ (s = "done" /\ err'[w]) => w \in errs'
        PROVE  \A v \in Worker : stage'[v] = "failed" \/ (stage'[v] = "done" /\ err'[v]) => v \in errs'
    BY <1>2, <1>4 DEF Updating
  <1>5. ASSUME \A k \in DOMAIN newCfgs' : \E v \in Worker : newCfgs'[k].name = NameOf(v),
               \A v \in Worker : stage'[v] = "failed" \/ (stage'[v] = "done" /\ err'[v]) => v \in errs'
        PROVE  Updating'
    <2>1. cmd' \notin {"read", "patch", "write"} /\ next' \in Nat \ {0} /\ (cmd' = "wait" => next' > Len(ToolOpts))
      BY <1>0 DEF Updating
    <2>2. \A v \in Worker : NameOf(v)' = NameOf(v)
      BY DEF NameOf
    <2> QED  BY <1>0, <1>3, <1>5, <2>1, <2>2 DEF Updating
  <1>6. CASE GetUpdatedToolVersion(w)
    <2>1. UNCHANGED <<errs, newCfgs>> /\ stage'[w] = "lock" /\ s = "lock"
          /\ \A v \in Worker : v # w => err'[v] = err[v]
      BY <1>2, <1>6 DEF GetUpdatedToolVersion, To, TypeOK
    <2>2. \A k \in DOMAIN newCfgs' : \E v \in Worker : newCfgs'[k].name = NameOf(v)
      BY <2>1 DEF Updating
    <2> QED  BY <1>4, <1>5, <2>1, <2>2
  <1>7. CASE LockLists(w)
    <2>1. UNCHANGED <<err, errs, newCfgs>> /\ s = "locked"
      BY <1>2, <1>7 DEF LockLists, To, TypeOK
    <2>2. \A k \in DOMAIN newCfgs' : \E v \in Worker : newCfgs'[k].name = NameOf(v)
      BY <2>1 DEF Updating
    <2> QED  BY <1>4, <1>5, <2>1, <2>2
  <1>8. CASE StopInside(w)
    <2>1. UNCHANGED <<err, newCfgs>> /\ errs' = errs \cup {w}
      BY <1>8 DEF StopInside
    <2>2. \A k \in DOMAIN newCfgs' : \E v \in Worker : newCfgs'[k].name = NameOf(v)
      BY <2>1 DEF Updating
    <2> QED  BY <1>4, <1>5, <2>1, <2>2
  <1>9. CASE Collect(w)
    <2> DEFINE pin == [name |-> NameOf(w), want |-> IF version[w] = Nil THEN Want(w) ELSE version[w]]
    <2>1. UNCHANGED err /\ (err[w] => w \in errs') /\ errs \subseteq errs' /\ s = "done"
      BY <1>2, <1>9 DEF Collect, To, TypeOK
    <2>2. newCfgs \in Seq(Tool) /\ pin \in Tool /\ newCfgs' = Append(newCfgs, pin) /\ pin.name = NameOf(w)
      BY <1>9, CollectedType DEF Collect, TypeOK, Tool
    <2> HIDE DEF pin
    <2>3. \A k \in DOMAIN newCfgs' : \E v \in Worker : newCfgs'[k].name = NameOf(v)
      <3>1. /\ Len(newCfgs) \in Nat /\ DOMAIN newCfgs = 1..Len(newCfgs)
            /\ DOMAIN newCfgs' = 1..(Len(newCfgs) + 1)
            /\ \A k \in 1..Len(newCfgs) : newCfgs'[k] = newCfgs[k]
            /\ newCfgs'[Len(newCfgs) + 1] = pin
        <4>1. /\ newCfgs' \in Seq(Tool) /\ Len(newCfgs') = Len(newCfgs) + 1
              /\ \A k \in 1..Len(newCfgs) : newCfgs'[k] = newCfgs[k]
              /\ newCfgs'[Len(newCfgs) + 1] = pin
          BY <2>2, AppendProperties
        <4> QED  BY <2>2, <4>1, LenProperties
      <3>2. ASSUME NEW k \in DOMAIN newCfgs'
            PROVE  k \in DOMAIN newCfgs \/ k = Len(newCfgs) + 1
        BY <3>1
      <3> QED  BY <2>2, <3>1, <3>2 DEF Updating
    <2>4. \A v \in Worker : v # w => err'[v] = err[v]
      BY <2>1
    <2>5. s = "failed" \/ (s = "done" /\ err'[w]) => w \in errs'
      BY <2>1
    <2> QED  BY <1>4, <1>5, <2>1, <2>3, <2>4, <2>5
  <1> QED  BY <1>6, <1>7, <1>8, <1>9 DEF Goroutine, OwnStep

LEMMA UpdatingNext ==
    ASSUME TypeOK, Updating, Next
    PROVE  Updating'
  <1>1. CASE Go
    <2>1. /\ cmd = "loop" /\ cmd' = "loop" /\ next \in 1..Len(ToolOpts) /\ next' = next + 1
          /\ UNCHANGED <<err, errs, newCfgs>> /\ next \in Nat \ {0}
      BY <1>1, WorkerTypes DEF Go, Updating
    <2>2. PICK w \in Worker : w = ToolOpts[next]
      BY <2>1, WorkerTypes
    <2>3. /\ stage'[w] = "fetch" /\ \A v \in Worker : v # w => stage'[v] = stage[v]
      BY <1>1, <2>2 DEF Go, To, TypeOK
    <2>4. ASSUME NEW j \in DOMAIN ToolOpts, j < next + 1
          PROVE  stage'[ToolOpts[j]] # "queued"
      <3>1. ToolOpts[j] \in Worker /\ (j < next \/ j = next)
        BY <2>1, <2>4, WorkerTypes
      <3>2. ToolOpts[j] = w \/ stage[ToolOpts[j]] # "queued"
        BY <2>1, <2>2, <3>1 DEF Updating
      <3> QED  BY <2>3, <3>1, <3>2
    <2>5. \A v \in Worker : stage'[v] = "failed" \/ (stage'[v] = "done" /\ err'[v]) => v \in errs'
      BY <2>1, <2>3 DEF Updating
    <2>6. \A k \in DOMAIN newCfgs' : \E v \in Worker : newCfgs'[k].name = NameOf(v)'
      BY <2>1 DEF Updating, NameOf
    <2>7. next' \in Nat \ {0}
      BY <2>1
    <2> QED  BY <2>1, <2>4, <2>5, <2>6, <2>7 DEF Updating
  <1>2. CASE LoopEnds
    BY <1>2 DEF LoopEnds, Updating, NameOf, fetching
  <1>3. CASE WaitReturns
    <2>1. /\ cmd = "wait" /\ Running = {} /\ cmd' \in {"read", "failed"} /\ (cmd' = "read" => errs = {})
          /\ UNCHANGED fetching
      BY <1>3 DEF WaitReturns
    <2>2. ASSUME NEW w \in Worker, errs = {}
          PROVE  stage[w] = "done" /\ ~err[w]
      <3>1. PICK j \in DOMAIN ToolOpts : ToolOpts[j] = w
        BY EachToolOptOnce
      <3>2. j < next
        <4>1. next > Len(ToolOpts) /\ next \in Nat
          BY <2>1 DEF Updating
        <4> QED  BY <4>1, WorkerTypes
      <3>3. stage[w] # "queued"
        BY <2>1, <3>1, <3>2 DEF Updating
      <3>4. stage[w] \in {"queued", "done", "failed"}
        BY <2>1 DEF Running
      <3> QED  BY <2>2, <3>3, <3>4 DEF Updating
    <2>3. UNCHANGED <<next, stage, err, errs, newCfgs>>
      BY <2>1 DEF fetching
    <2> QED  BY <2>1, <2>2, <2>3 DEF Updating, NameOf
  <1>4. CASE ReadConfig \/ PatchAndTruncate \/ WriteConfig
    <2>1. /\ cmd \in {"read", "patch", "write"} /\ UNCHANGED <<next, stage, err, errs, newCfgs>>
          /\ cmd' \notin {"loop", "wait"}
      BY <1>4 DEF ReadConfig, PatchAndTruncate, WriteConfig, fetching
    <2> QED  BY <2>1 DEF Updating, NameOf
  <1>5. CASE Kill
    BY <1>5 DEF Kill, Updating
  <1>6. CASE Edit
    BY <1>6 DEF Edit, Updating, NameOf, fetching
  <1>7. CASE \E w \in Worker : Goroutine(w)
    BY <1>7, UpdatingGoroutine
  <1> QED  BY <1>1, <1>2, <1>3, <1>4, <1>5, <1>6, <1>7 DEF Next, Main

LEMMA UpdatingStep == ASSUME AddTypeOK, Updating, AddNext  PROVE Updating'
  <1>1. CASE Next
    BY <1>1, UpdatingNext DEF AddTypeOK
  <1>2. CASE UNCHANGED <<cmd, fetching, contents, edits>>
    BY <1>2 DEF Updating, NameOf, fetching
  <1> QED  BY <1>1, <1>2 DEF AddNext

---------------------------------------------------------------------------
(* The configuration file.                                                 *)

FileInv == Alone /\ Knowing /\ Documents /\ DamageHasCause

LEMMA OverwrittenIs ==
    ASSUME NEW tools, NEW file \in Overwritten(tools), Documents
    PROVE  /\ file.status # "empty"
           /\ config.status = "empty" => file.status = "whole" /\ file.tools = tools
           /\ file.status = "broken" => config.status # "empty"
           /\ file.status # "whole" => file.tools = <<>>
  BY DEF Overwritten, Whole, File, Documents

LEMMA CutOffIs ==
    ASSUME NEW tools, NEW file \in CutOff(tools), Documents
    PROVE  file.status # "whole" => file.tools = <<>>
  BY DEF CutOff, Whole, File, Documents

LEMMA FileInitially == AddInit => FileInv
  BY DEF AddInit, Init, FileInv, Alone, Knowing, Documents, DamageHasCause, Whole

LEMMA FileNext ==
    ASSUME AddTypeOK, FileInv, Next, UNCHANGED adding,
           overlap' = (overlap \/ (UpdateTouches /\
                          (Windows # {} \/ (UpdateWindow /\ edits' # edits))))
    PROVE  FileInv'
  <1>0. UNCHANGED <<step, doc>> /\ (~overlap' => ~overlap)
    BY DEF adding
  <1>1. ASSUME config' # config
        PROVE  ~overlap' => \A a \in Adder : step[a] \notin {"create", "patch", "write"}
    BY <1>1 DEF UpdateTouches, Windows
  <1>2. ASSUME config' = config, cmd' \notin {"patch", "write"}, cmd \in {"killed", "unwritten"} => cmd' = cmd,
               cmd = "write" => cmd' \in {"killed", "unwritten"}
        PROVE  FileInv'
    BY <1>0, <1>2 DEF FileInv, Alone, Knowing, Documents, DamageHasCause, CutShort, Killed, WriteFailed, NamesIn
  <1>3. CASE Go \/ LoopEnds \/ WaitReturns \/ \E w \in Worker : Goroutine(w)
    BY <1>2, <1>3 DEF Go, LoopEnds, WaitReturns, Goroutine, OwnStep, GetUpdatedToolVersion, LockLists,
       StopInside, Collect, Live, patching
  <1>4. CASE ReadConfig
    <2>1. CASE config.status = "whole" /\ contents' = config.tools /\ cmd' = "patch"
      <3>1. UNCHANGED config /\ cmd = "read"
        BY <1>4 DEF ReadConfig
      <3> QED  BY <1>0, <2>1, <3>1 DEF FileInv, Alone, Knowing, Documents, DamageHasCause, CutShort, Killed, WriteFailed, NamesIn
    <2>2. CASE cmd' = "failed"
      BY <1>2, <1>4, <2>2 DEF ReadConfig
    <2> QED  BY <1>4, <2>1, <2>2 DEF ReadConfig
  <1>5. CASE PatchAndTruncate
    <2>1. CASE config' = File("empty") /\ cmd' = "write"
      <3>1. cmd = "patch" /\ config'.status = "empty" /\ config'.tools = <<>>
        BY <1>5, <2>1 DEF PatchAndTruncate, File
      <3>2. ~overlap' => \A a \in Adder : step[a] \notin {"create", "patch", "write"}
        BY <2>1, <3>1 DEF UpdateTouches, Windows
      <3> QED  BY <1>0, <2>1, <3>1, <3>2 DEF FileInv, Alone, Knowing, Documents, DamageHasCause, NamesIn
    <2>2. CASE cmd' = "panic" /\ UNCHANGED config
      BY <1>2, <1>5, <2>2 DEF PatchAndTruncate
    <2>3. CASE cmd' = "failed" /\ UNCHANGED config
      BY <1>2, <1>5, <2>3 DEF PatchAndTruncate
    <2> QED  BY <1>5, <2>1, <2>2, <2>3 DEF PatchAndTruncate
  <1>6. CASE WriteConfig /\ cmd' = "written"
    <2>1. cmd = "write" /\ cmd' = "written" /\ config' \in Overwritten(contents)
      BY <1>6 DEF WriteConfig
    <2>2. /\ config'.status # "empty" /\ (config'.status # "whole" => config'.tools = <<>>)
          /\ config'.status = "broken" => config.status # "empty"
      BY <2>1, OverwrittenIs DEF FileInv
    <2>3. Alone' /\ Knowing'
      <3>1. CASE config' = config
        BY <1>0, <2>1, <3>1 DEF FileInv, Alone, Knowing
      <3>2. CASE config' # config
        BY <1>0, <1>1, <2>1, <3>2 DEF FileInv, Alone, Knowing
      <3> QED  BY <3>1, <3>2
    <2>4. Documents'
      BY <1>0, <2>2 DEF FileInv, Documents, NamesIn
    <2>5. DamageHasCause'
      <3>1. config'.status = "broken" => overlap
        BY <2>1, <2>2 DEF FileInv, Alone
      <3>2. overlap => overlap'
        BY <1>0 DEF AddTypeOK
      <3> QED  BY <2>2, <3>1, <3>2 DEF DamageHasCause
    <2> QED  BY <2>3, <2>4, <2>5 DEF FileInv
  <1>9. CASE WriteConfig /\ cmd' = "unwritten"
    <2>1. cmd = "write" /\ config' \in CutOff(contents)
      BY <1>9 DEF WriteConfig
    <2>2. config'.status # "whole" => config'.tools = <<>>
      BY <2>1, CutOffIs DEF FileInv
    <2>3. Alone' /\ Knowing'
      <3>1. CASE config' = config
        BY <1>0, <1>9, <2>1, <3>1 DEF FileInv, Alone, Knowing
      <3>2. CASE config' # config
        BY <1>0, <1>1, <1>9, <2>1, <3>2 DEF FileInv, Alone, Knowing
      <3> QED  BY <3>1, <3>2
    <2>4. Documents'
      BY <1>0, <2>2 DEF FileInv, Documents, NamesIn
    <2>5. DamageHasCause'
      BY <1>9 DEF DamageHasCause, CutShort, WriteFailed
    <2> QED  BY <2>3, <2>4, <2>5 DEF FileInv
  <1>7. CASE Kill
    BY <1>2, <1>7 DEF Kill
  <1>8. CASE Edit
    <2>1. /\ config.status = "whole" /\ UNCHANGED <<cmd, contents>> /\ edits' # edits
          /\ config' \in {Whole(tools) : tools \in EditorFile} \cup {File("absent")}
      BY <1>8 DEF Edit, AddTypeOK, TypeOK
    <2>2. config'.status \in {"whole", "absent"} /\ (config'.status # "whole" => config'.tools = <<>>)
      BY <2>1 DEF Whole, File
    <2>3. Alone' /\ Knowing'
      <3>1. CASE config' = config
        BY <1>0, <2>1, <3>1 DEF FileInv, Alone, Knowing
      <3>2. CASE config' # config
        <4>1. ~overlap' => cmd \notin {"patch", "write"}
          BY <2>1, <3>2 DEF UpdateTouches, UpdateWindow
        <4> QED  BY <1>0, <1>1, <2>1, <3>2, <4>1 DEF FileInv, Alone, Knowing
      <3> QED  BY <3>1, <3>2
    <2>4. Documents'
      BY <1>0, <2>2 DEF FileInv, Documents, NamesIn
    <2>5. DamageHasCause'
      BY <2>2 DEF DamageHasCause
    <2> QED  BY <2>3, <2>4, <2>5 DEF FileInv
  <1>10. WriteConfig => cmd' \in {"written", "unwritten"}
    BY DEF WriteConfig
  <1> QED  BY <1>3, <1>4, <1>5, <1>6, <1>7, <1>8, <1>9, <1>10 DEF Next, Main

LEMMA FileAddStep ==
    ASSUME AddTypeOK, FileInv, NEW a \in Adder, AddStep(a),
           UNCHANGED <<cmd, fetching, contents, edits>>,
           overlap' = (overlap \/ (AddTouches(a) /\ (Windows \ {a} # {} \/ UpdateWindow)))
    PROVE  FileInv'
  <1>0. (~overlap' => ~overlap) /\ (overlap => overlap')
        /\ step \in [Adder -> Steps] /\ doc \in [Adder -> Seq(Tool)]
    BY DEF AddTypeOK
  \* A step that touches the file is alone, or there is an overlap.
  <1>1. ASSUME AddTouches(a), ~overlap'
        PROVE  /\ cmd \notin {"patch", "write"}
               /\ \A b \in Adder : b # a => step[b] \notin {"create", "patch", "write"}
    BY <1>1 DEF UpdateWindow, Windows
  <1>2. /\ \A s : Goes(a, s) => step'[a] = s /\ \A b \in Adder : b # a => step'[b] = step[b]
        /\ \A tools : Keeps(a, tools) => doc'[a] = tools /\ \A b \in Adder : b # a => doc'[b] = doc[b]
    BY <1>0 DEF Goes, Keeps
  <1>3. ASSUME UNCHANGED <<config, doc>>, NEW s, Goes(a, s), s \notin {"create", "patch", "write"},
               step[a] \notin {"killed", "unwritten", "write"}
        PROVE  FileInv'
    <2>1. step'[a] = s /\ \A b \in Adder : b # a => step'[b] = step[b]
      BY <1>2, <1>3
    <2>2. Alone' /\ Knowing'
      BY <1>0, <1>3, <2>1 DEF FileInv, Alone, Knowing
    <2>3. Documents'
      BY <1>3, <2>1 DEF FileInv, Documents, NamesIn
    <2>4. /\ (\A b \in Adder : step'[b] = "write" <=> step[b] = "write" \/ (b = a /\ s = "write"))
          /\ (CutShort => CutShort') /\ (WriteFailed => WriteFailed')
      BY <1>3, <2>1 DEF CutShort, Killed, WriteFailed
    <2>6. DamageHasCause'
      BY <1>0, <1>3, <2>1, <2>4 DEF FileInv, DamageHasCause
    <2> QED  BY <2>2, <2>3, <2>6 DEF FileInv
  <1>4. CASE Load(a)
    BY <1>3, <1>4 DEF Load
  <1>5. CASE Stat(a)
    <2>1. CASE config.status \in {"absent", "empty"} /\ Goes(a, "create")
      <3>1. UNCHANGED <<config, doc>> /\ step[a] = "stat" /\ step'[a] = "create"
            /\ \A b \in Adder : b # a => step'[b] = step[b]
        BY <1>2, <1>5, <2>1 DEF Stat
      <3> QED  BY <1>0, <2>1, <3>1 DEF FileInv, Alone, Knowing, Documents, DamageHasCause, CutShort, Killed, WriteFailed, NamesIn
    <2>2. CASE Goes(a, "append") \/ Goes(a, "failed")
      BY <1>3, <1>5, <2>2 DEF Stat
    <2> QED  BY <1>5, <2>1, <2>2 DEF Stat
  \* The file is opened for writing with what the command knows.
  <1>6. ASSUME step[a] \in {"create", "patch"}, config' = File("empty"), Goes(a, "write"),
               NEW tools \in Seq(Tool), Keeps(a, tools), ToolOfAdd[a].name \in NamesIn(tools)
        PROVE  FileInv'
    <2>1. AddTouches(a) /\ config'.status = "empty" /\ config'.tools = <<>>
      BY <1>2, <1>6 DEF AddTouches, File
    <2>2. Alone' /\ Knowing'
      BY <1>0, <1>1, <1>2, <1>6, <2>1 DEF FileInv, Alone, Knowing
    <2>3. step'[a] = "write" /\ doc'[a] = tools
          /\ \A b \in Adder : b # a => step'[b] = step[b] /\ doc'[b] = doc[b]
      BY <1>2, <1>6
    <2>4. Documents'
      <3>1. ToolOfAdd[a].name \in NamesIn(doc'[a])
        BY <1>6, <2>3
      <3>2. \A b \in Adder : b # a /\ step[b] = "write" => ToolOfAdd[b].name \in NamesIn(doc'[b])
        BY <2>3 DEF FileInv, Documents
      <3> QED  BY <2>1, <2>3, <3>1, <3>2 DEF Documents, NamesIn
    <2>5. DamageHasCause'
      BY <2>1, <2>3 DEF DamageHasCause
    <2> QED  BY <2>2, <2>4, <2>5 DEF FileInv
  <1>7. CASE Create(a)
    <2>1. <<ToolOfAdd[a]>> \in Seq(Tool) /\ NamesIn(<<ToolOfAdd[a]>>) = {ToolOfAdd[a].name}
      BY AddTypes, OneName
    <2>2. CASE FailsBefore(a)
      BY <1>3, <1>7, <2>2 DEF Create, FailsBefore
    <2> QED  BY <1>6, <1>7, <2>1, <2>2 DEF Create
  <1>8. CASE ReadToAppend(a)
    <2>1. CASE config.status = "whole" /\ Keeps(a, config.tools) /\ Goes(a, "patch")
      <3>1. /\ UNCHANGED config /\ step[a] = "append" /\ step'[a] = "patch" /\ doc'[a] = config.tools
            /\ \A b \in Adder : b # a => step'[b] = step[b] /\ doc'[b] = doc[b]
        BY <1>2, <1>8, <2>1 DEF ReadToAppend, FailsBefore
      <3>2. Alone' /\ Knowing'
        BY <1>0, <2>1, <3>1 DEF FileInv, Alone, Knowing
      <3>3. Documents'
        BY <1>0, <2>1, <3>1 DEF FileInv, Documents, NamesIn
      <3>4. DamageHasCause'
        BY <2>1, <3>1 DEF DamageHasCause
      <3> QED  BY <3>2, <3>3, <3>4 DEF FileInv
    <2>2. CASE FailsBefore(a)
      BY <1>3, <1>8, <2>2 DEF ReadToAppend, FailsBefore
    <2> QED  BY <1>8, <2>1, <2>2 DEF ReadToAppend
  <1>9. CASE AppendAndTruncate(a)
    <2>1. doc[a] \in Seq(Tool) /\ ToolOfAdd[a] \in Tool
      BY <1>0, AddTypes
    <2>2. /\ Append(doc[a], ToolOfAdd[a]) \in Seq(Tool)
          /\ ToolOfAdd[a].name \in NamesIn(Append(doc[a], ToolOfAdd[a]))
      BY <2>1, AppendedName
    <2>3. CASE FailsBefore(a)
      BY <1>3, <1>9, <2>3 DEF AppendAndTruncate, FailsBefore
    <2> QED  BY <1>6, <1>9, <2>2, <2>3 DEF AppendAndTruncate
  <1>10. CASE WriteAdded(a) /\ Goes(a, "added")
    <2>1. /\ step[a] = "write" /\ config' \in Overwritten(doc[a]) /\ UNCHANGED doc
          /\ step'[a] = "added" /\ \A b \in Adder : b # a => step'[b] = step[b]
      BY <1>2, <1>10 DEF WriteAdded
    <2>2. /\ config'.status # "empty" /\ (config'.status # "whole" => config'.tools = <<>>)
          /\ config'.status = "broken" => config.status # "empty"
      BY <2>1, OverwrittenIs DEF FileInv
    <2>3. Alone' /\ Knowing'
      <3>1. CASE config' = config
        BY <1>0, <2>1, <3>1 DEF FileInv, Alone, Knowing
      <3>2. CASE config' # config
        <4>1. AddTouches(a)
          BY <3>2 DEF AddTouches
        <4> QED  BY <1>0, <1>1, <2>1, <4>1 DEF FileInv, Alone, Knowing
      <3> QED  BY <3>1, <3>2
    <2>4. Documents'
      BY <2>1, <2>2 DEF FileInv, Documents, NamesIn
    <2>5. DamageHasCause'
      <3>1. config'.status = "broken" => overlap
        BY <2>1, <2>2 DEF FileInv, Alone
      <3> QED  BY <1>0, <2>2, <3>1 DEF DamageHasCause
    <2> QED  BY <2>3, <2>4, <2>5 DEF FileInv
  <1>12. CASE WriteAdded(a) /\ Goes(a, "unwritten")
    <2>1. /\ step[a] = "write" /\ config' \in CutOff(doc[a]) /\ UNCHANGED doc
          /\ step'[a] = "unwritten" /\ \A b \in Adder : b # a => step'[b] = step[b]
      BY <1>2, <1>12 DEF WriteAdded
    <2>2. config'.status # "whole" => config'.tools = <<>>
      BY <2>1, CutOffIs DEF FileInv
    <2>3. Alone' /\ Knowing'
      <3>1. CASE config' = config
        BY <1>0, <2>1, <3>1 DEF FileInv, Alone, Knowing
      <3>2. CASE config' # config
        <4>1. AddTouches(a)
          BY <3>2 DEF AddTouches
        <4> QED  BY <1>0, <1>1, <2>1, <4>1 DEF FileInv, Alone, Knowing
      <3> QED  BY <3>1, <3>2
    <2>4. Documents'
      BY <2>1, <2>2 DEF FileInv, Documents, NamesIn
    <2>5. DamageHasCause'
      BY <2>1 DEF DamageHasCause, CutShort, WriteFailed
    <2> QED  BY <2>3, <2>4, <2>5 DEF FileInv
  <1>11. CASE KillAdd(a)
    <2>1. /\ UNCHANGED config /\ step'[a] = "killed"
          /\ \A b \in Adder : b # a => step'[b] = step[b] /\ doc'[b] = doc[b]
      BY <1>2, <1>11 DEF KillAdd
    <2>2. Alone' /\ Knowing'
      BY <1>0, <2>1 DEF FileInv, Alone, Knowing
    <2>3. Documents'
      BY <1>0, <2>1 DEF FileInv, Documents, NamesIn
    <2>4. CutShort' /\ (WriteFailed => WriteFailed') /\ (overlap => overlap')
      BY <1>0, <1>11, <2>1 DEF CutShort, Killed, WriteFailed, KillAdd
    <2>5. DamageHasCause'
      BY <2>1, <2>4 DEF FileInv, DamageHasCause
    <2> QED  BY <2>2, <2>3, <2>5 DEF FileInv
  <1>13. WriteAdded(a) => Goes(a, "added") \/ Goes(a, "unwritten")
    BY DEF WriteAdded
  <1> QED  BY <1>4, <1>5, <1>7, <1>8, <1>9, <1>10, <1>11, <1>12, <1>13 DEF AddStep

LEMMA Initially == AddInit => IInv
  BY TypesInitially, UpdatingInitially, FileInitially DEF IInv, FileInv

LEMMA Inductive == IInv /\ [AddNext]_addVars => IInv'
  <1> SUFFICES ASSUME IInv, [AddNext]_addVars  PROVE IInv'
    OBVIOUS
  <1>1. CASE AddNext
    <2>1. AddTypeOK' /\ Updating'
      BY <1>1, TypesStep, UpdatingStep DEF IInv
    <2>2. FileInv'
      BY <1>1, FileNext, FileAddStep DEF AddNext, IInv, FileInv
    <2> QED  BY <2>1, <2>2 DEF IInv, FileInv
  <1>2. CASE UNCHANGED addVars
    BY <1>2 DEF addVars, vars, adding, fetching, patching, IInv, AddTypeOK, TypeOK, Updating, NameOf,
       Alone, Knowing, Documents, NamesIn, DamageHasCause, CutShort, Killed, WriteFailed
  <1> QED  BY <1>1, <1>2

---------------------------------------------------------------------------
(* The steps that write.                                                   *)

\* runUpdate writes after g.Wait, and returns before when a worker failed.
LEMMA WritingStep ==
    ASSUME IInv, [AddNext]_addVars, config' # config, cmd' # cmd
    PROVE  errs = {} /\ \A w \in Worker : stage[w] = "done" /\ ~err[w]
  <1>1. PatchAndTruncate \/ WriteConfig
    <2>1. Next
      BY DEF AddNext, addVars, vars, patching
    <2> QED  BY <2>1 DEF Next, Main, Go, LoopEnds, WaitReturns, ReadConfig, Kill, Edit, Goroutine, OwnStep,
             GetUpdatedToolVersion, LockLists, StopInside, Collect, patching
  <1>2. cmd \in {"patch", "write"}
    BY <1>1 DEF PatchAndTruncate, WriteConfig
  <1> QED  BY <1>2 DEF IInv, Updating

\* What an empty file is to have, for a writer that is alone.
LEMMA OnlyWriter ==
    ASSUME NEW a \in Adder, step[a] = "write", cmd # "write", config.status = "empty",
           \A b \in Adder : step[b] = "write" => b = a
    PROVE  Intended = doc[a]
  <1> DEFINE c == CHOOSE b \in Adder : step[b] = "write"
  <1>1. c = a
    OBVIOUS
  <1> QED  BY <1>1 DEF Intended

LEMMA KeepingNext ==
    ASSUME IInv, Next, UNCHANGED adding,
           overlap' = (overlap \/ (UpdateTouches /\
                          (Windows # {} \/ (UpdateWindow /\ edits' # edits)))),
           ~overlap', edits' = edits, cmd' \notin {"killed", "unwritten"}
    PROVE  NamesIn(Intended) \subseteq NamesIn(Intended')
  <1>0. UNCHANGED <<step, doc>> /\ ~overlap
    BY DEF adding
  <1>1. ASSUME UNCHANGED config, cmd # "write", cmd' # "write"
        PROVE  NamesIn(Intended) \subseteq NamesIn(Intended')
    <2>1. Intended' = Intended
      BY <1>0, <1>1 DEF Intended
    <2> QED  BY <2>1
  <1>2. CASE Go \/ LoopEnds \/ WaitReturns \/ ReadConfig \/ \E w \in Worker : Goroutine(w)
    BY <1>1, <1>2 DEF Go, LoopEnds, WaitReturns, ReadConfig, Goroutine, OwnStep, GetUpdatedToolVersion,
       LockLists, StopInside, Collect, Live, patching
  <1>3. CASE PatchAndTruncate
    <2>1. CASE cmd' \in {"panic", "failed"} /\ UNCHANGED config
      BY <1>1, <1>3, <2>1 DEF PatchAndTruncate
    <2>2. CASE contents' = PatchYaml(contents, newCfgs) /\ config' = File("empty") /\ cmd' = "write"
      <3>1. config.status = "whole" /\ contents = config.tools
        BY <1>0, <1>3 DEF IInv, Knowing, PatchAndTruncate
      <3>2. contents \in Seq(Tool) /\ newCfgs \in Seq(Tool)
        BY DEF IInv, AddTypeOK, TypeOK, Tool
      <3>3. Intended = contents
        BY <3>1 DEF Intended
      <3>4. Intended' = PatchYaml(contents, newCfgs)
        BY <2>2 DEF Intended, File
      <3> QED  BY <3>2, <3>3, <3>4, PatchYamlNames
    <2> QED  BY <1>3, <2>1, <2>2 DEF PatchAndTruncate
  <1>4. CASE WriteConfig
    <2>1. cmd = "write" /\ config.status = "empty" /\ config' \in Overwritten(contents)
      BY <1>0, <1>4 DEF IInv, Alone, WriteConfig
    <2>2. config'.status = "whole" /\ config'.tools = contents
      BY <2>1, OverwrittenIs DEF IInv
    <2>3. Intended = contents /\ Intended' = contents
      BY <2>1, <2>2 DEF Intended
    <2> QED  BY <2>3
  <1>5. CASE Kill
    BY <1>5 DEF Kill
  <1>6. CASE Edit
    BY <1>6 DEF Edit, IInv, AddTypeOK, TypeOK
  <1> QED  BY <1>2, <1>3, <1>4, <1>5, <1>6 DEF Next, Main

LEMMA KeepingAddStep ==
    ASSUME IInv, NEW a \in Adder, AddStep(a), UNCHANGED <<cmd, fetching, contents, edits>>,
           overlap' = (overlap \/ (AddTouches(a) /\ (Windows \ {a} # {} \/ UpdateWindow))),
           ~overlap', step'[a] \notin {"killed", "unwritten"}
    PROVE  /\ NamesIn(Intended) \subseteq NamesIn(Intended')
           /\ \A b \in Adder : step[b] = "write" /\ step'[b] = "added" =>
                 ToolOfAdd[b].name \in NamesIn(Intended')
  <1>0. ~overlap /\ step \in [Adder -> Steps] /\ doc \in [Adder -> Seq(Tool)]
    BY DEF IInv, AddTypeOK
  <1>2. /\ \A s : Goes(a, s) => step'[a] = s /\ \A b \in Adder : b # a => step'[b] = step[b]
        /\ \A tools : Keeps(a, tools) => doc'[a] = tools /\ \A b \in Adder : b # a => doc'[b] = doc[b]
    BY <1>0 DEF Goes, Keeps
  <1>3. ASSUME UNCHANGED config, NEW s, Goes(a, s), s # "write", step[a] # "write",
               \A b \in Adder : b # a => doc'[b] = doc[b]
        PROVE  /\ NamesIn(Intended) \subseteq NamesIn(Intended')
               /\ \A b \in Adder : ~(step[b] = "write" /\ step'[b] = "added")
    <2>1. /\ step'[a] # "write" /\ \A b \in Adder : b # a => step'[b] = step[b]
      BY <1>2, <1>3
    <2>2. \A b \in Adder : step'[b] = "write" <=> step[b] = "write"
      BY <1>3, <2>1
    <2>3. Intended' = Intended
      <3>1. CASE \E b \in Adder : step[b] = "write"
        <4>1. (CHOOSE b \in Adder : step'[b] = "write") = (CHOOSE b \in Adder : step[b] = "write")
          BY <2>2
        <4> DEFINE c == CHOOSE b \in Adder : step[b] = "write"
        <4>2. c \in Adder /\ step[c] = "write"
          BY <3>1
        <4>3. doc'[c] = doc[c]
          BY <1>3, <4>2
        <4> QED  BY <1>3, <2>2, <4>1, <4>3 DEF Intended
      <3>2. CASE ~\E b \in Adder : step[b] = "write"
        BY <1>3, <2>2, <3>2 DEF Intended
      <3> QED  BY <3>1, <3>2
    <2> QED  BY <1>3, <2>1, <2>3
  <1>4. CASE Load(a) \/ Stat(a) \/ ReadToAppend(a)
    BY <1>2, <1>3, <1>4 DEF Load, Stat, ReadToAppend, FailsBefore
  <1>11. CASE step[a] \in {"create", "patch"} /\ FailsBefore(a)
    BY <1>3, <1>11 DEF FailsBefore
  \* The file is opened for writing with what it had and more.
  <1>5. ASSUME step[a] \in {"create", "patch"}, config' = File("empty"), Goes(a, "write"),
               NEW tools, Keeps(a, tools), cmd # "write", config.status = "empty" => Intended = <<>>,
               NamesIn(config.tools) \subseteq NamesIn(tools)
        PROVE  /\ NamesIn(Intended) \subseteq NamesIn(Intended')
               /\ \A b \in Adder : ~(step[b] = "write" /\ step'[b] = "added")
    <2>1. /\ step'[a] = "write" /\ doc'[a] = tools
          /\ \A b \in Adder : b # a => step'[b] = step[b]
      BY <1>2, <1>5
    <2>2. \A b \in Adder : step'[b] = "write" => b = a
      <3>1. AddTouches(a)
        BY <1>5, <2>1 DEF AddTouches
      <3>2. Windows \ {a} = {}
        BY <3>1
      <3> QED  BY <2>1, <3>2 DEF Windows
    <2>3. Intended' = tools
      <3>1. (CHOOSE b \in Adder : step'[b] = "write") = a
        BY <2>1, <2>2
      <3> QED  BY <1>5, <2>1, <3>1 DEF Intended, File
    <2>4. NamesIn(Intended) \subseteq NamesIn(tools)
      <3>1. CASE config.status = "empty"
        <4>1. NamesIn(<<>>) = {}
          BY DEF NamesIn
        <4> QED  BY <1>5, <3>1, <4>1
      <3>2. CASE config.status # "empty"
        BY <1>5, <3>2 DEF Intended
      <3> QED  BY <3>1, <3>2
    <2> QED  BY <1>5, <2>1, <2>3, <2>4
  <1>6. ASSUME step[a] \in {"create", "patch"}, Goes(a, "write")
        PROVE  cmd # "write" /\ (config.status = "empty" => Intended = <<>>)
    <2>1. AddTouches(a)
      BY <1>2, <1>6 DEF AddTouches
    <2>2. cmd # "write" /\ Windows \ {a} = {}
      BY <2>1 DEF UpdateWindow
    <2>3. \A b \in Adder : step[b] # "write"
      BY <1>6, <2>2 DEF Windows
    <2> QED  BY <2>2, <2>3 DEF Intended
  <1>7. CASE Create(a)
    <2>1. step[a] = "create" /\ config.status # "whole"
      BY <1>0, <1>7 DEF IInv, Knowing, Create
    <2>2. NamesIn(config.tools) = {}
      BY <2>1 DEF IInv, Documents, NamesIn
    <2> QED  BY <1>5, <1>6, <1>7, <1>11, <2>1, <2>2 DEF Create
  <1>8. CASE AppendAndTruncate(a)
    <2>1. /\ step[a] = "patch" /\ doc[a] = config.tools
          /\ doc[a] \in Seq(Tool) /\ ToolOfAdd[a] \in Tool
      BY <1>0, <1>8, AddTypes DEF IInv, Knowing, AppendAndTruncate
    <2>2. NamesIn(config.tools) \subseteq NamesIn(Append(doc[a], ToolOfAdd[a]))
      BY <2>1, AppendedName
    <2> QED  BY <1>5, <1>6, <1>8, <1>11, <2>1, <2>2 DEF AppendAndTruncate
  <1>9. CASE WriteAdded(a)
    <2>1. /\ step[a] = "write" /\ config.status = "empty" /\ cmd # "write"
          /\ \A b \in Adder : step[b] = "write" => b = a
          /\ config' \in Overwritten(doc[a]) /\ ToolOfAdd[a].name \in NamesIn(doc[a])
      BY <1>0, <1>2, <1>9 DEF IInv, Alone, Documents, WriteAdded
    <2>2. config'.status = "whole" /\ config'.tools = doc[a]
      BY <2>1, OverwrittenIs DEF IInv
    <2>3. Intended = doc[a]
      BY <2>1, OnlyWriter
    <2>4. Intended' = doc[a]
      BY <2>2 DEF Intended
    <2> QED  BY <2>1, <2>3, <2>4
  <1>10. CASE KillAdd(a)
    BY <1>2, <1>10 DEF KillAdd
  <1> QED  BY <1>4, <1>7, <1>8, <1>9, <1>10 DEF AddStep

---------------------------------------------------------------------------
(* The theorems.                                                           *)

\* The inductive invariant holds of every behaviour.
THEOREM Invariance == AddSpec => []IInv
  BY Initially, Inductive, PTL DEF AddSpec

\* The variables of `binny update` and of every `binny add` keep their types
\* (command/update.go, command/utils.go).
THEOREM TypeCorrectness == AddSpec => []AddTypeOK
  <1>1. IInv => AddTypeOK
    BY DEF IInv
  <1> QED  BY Invariance, <1>1, PTL

\* One tool that fails keeps `binny update` from writing, for any number of goroutines
\* under any limit (getUpdatedConfig, runUpdate).
THEOREM WritesOnlyOfSuccess == AddSpec => WritesOnlyWhenAllSucceeded
  <1>1. IInv /\ [AddNext]_addVars =>
           [ (config' # config /\ cmd' # cmd) =>
                errs = {} /\ \A w \in Worker : stage[w] = "done" /\ ~err[w] ]_vars
    BY WritingStep
  <1> QED  BY Invariance, <1>1, PTL DEF AddSpec, WritesOnlyWhenAllSucceeded

\* A damaged file has a cause, for any number of commands: a kill, a write that failed, a
\* writer at work, or two that were in it at once (yamlpatch.Write, updateConfiguration).
THEOREM DamageCaused == AddSpec => []DamageHasCause
  <1>1. IInv => DamageHasCause
    BY DEF IInv
  <1> QED  BY Invariance, <1>1, PTL

\* Any number of commands that do not interrupt each other, and whose writes do not fail,
\* lose no tool (yamlpatch.Write, updateConfiguration).
THEOREM ToolsKept == AddSpec => ToolsAreKept
  <1>1. ASSUME IInv, [AddNext]_addVars, ~overlap', edits' = edits, ~CutShort'
        PROVE  /\ NamesIn(Intended) \subseteq NamesIn(Intended')
               /\ \A a \in Adder : step[a] = "write" /\ step'[a] = "added" =>
                     ToolOfAdd[a].name \in NamesIn(Intended')
    <2>1. /\ cmd' \notin {"killed", "unwritten"}
          /\ \A a \in Adder : step'[a] \notin {"killed", "unwritten"}
      BY <1>1 DEF CutShort, Killed, WriteFailed
    <2>2. CASE UNCHANGED addVars
      <3>1. Intended' = Intended /\ step' = step
        BY <2>2 DEF addVars, vars, patching, adding, Intended
      <3> QED  BY <3>1
    <2>3. CASE AddNext /\ Next /\ UNCHANGED adding
               /\ overlap' = (overlap \/ (UpdateTouches /\
                                (Windows # {} \/ (UpdateWindow /\ edits' # edits))))
      <3>1. step' = step
        BY <2>3 DEF adding
      <3> QED  BY <1>1, <2>1, <2>3, <3>1, KeepingNext
    <2>4. CASE \E a \in Adder :
                  /\ AddStep(a) /\ UNCHANGED <<cmd, fetching, contents, edits>>
                  /\ overlap' = (overlap \/ (AddTouches(a) /\ (Windows \ {a} # {} \/ UpdateWindow)))
      BY <1>1, <2>1, <2>4, KeepingAddStep
    <2> QED  BY <1>1, <2>2, <2>3, <2>4 DEF AddNext
  <1>2. IInv /\ [AddNext]_addVars =>
           [ (~overlap' /\ edits' = edits /\ ~CutShort') =>
                /\ NamesIn(Intended) \subseteq NamesIn(Intended')
                /\ \A a \in Adder : step[a] = "write" /\ step'[a] = "added" =>
                      ToolOfAdd[a].name \in NamesIn(Intended') ]_addVars
    BY <1>1
  <1> QED  BY Invariance, <1>2, PTL DEF AddSpec, ToolsAreKept

---------------------------------------------------------------------------
(* The pins that are written: the invariant.                               *)

\* the version found for a worker's tool, and what it collects
Found(w) == IF version[w] = Nil THEN Want(w) ELSE version[w]
PinOf(w) == [name |-> NameOf(w), want |-> Found(w)]

\* getUpdatedConfig: what is collected is of the workers that are done, and each tool is
\* started once.
Collected ==
    /\ \A k \in DOMAIN newCfgs : \E w \in Worker : stage[w] = "done" /\ newCfgs[k] = PinOf(w)
    /\ \A w \in Worker : stage[w] = "done" => \E k \in DOMAIN newCfgs : newCfgs[k] = PinOf(w)
    /\ cmd = "loop" => \A j \in DOMAIN ToolOpts : j >= next => stage[ToolOpts[j]] = "queued"

\* Nobody has disturbed the commands.
Undisturbed == edits = 0 /\ ~overlap /\ ~CutShort

StartsWith(tools, start) == \A i \in DOMAIN start : i \in DOMAIN tools /\ tools[i] = start[i]

\* what the file then starts with
Expected == IF cmd \in {"write", "written"} THEN PatchYaml(Configured, newCfgs) ELSE Configured

Pinning ==
    Undisturbed =>
        /\ config.status # "absent"
        /\ config.status = "whole" => StartsWith(config.tools, Expected)
        /\ cmd = "write" => StartsWith(contents, Expected)
        /\ \A a \in Adder : step[a] \in {"patch", "write"} => StartsWith(doc[a], Expected)
        /\ cmd \in {"write", "written"} =>
              \A w \in Worker : stage[w] = "done" /\ WantNode(Configured, NameOf(w)) # {}

PinInv == Collected /\ Pinning

---------------------------------------------------------------------------
(* The operators.                                                          *)

\* A tool that the configuration starts with is the first of its name in both.
LEMMA FirstOfStart ==
    ASSUME NEW start \in Seq(Tool), NEW tools \in Seq(Tool), StartsWith(tools, start), NEW name,
           NEW i \in DOMAIN start
    PROVE  i \in First(tools, name) <=> i \in First(start, name)
  <1>1. DOMAIN start = 1..Len(start) /\ Len(start) \in Nat
    BY LenProperties
  <1>2. i \in DOMAIN tools /\ tools[i] = start[i]
    BY DEF StartsWith
  <1>3. \A j \in 1..(i - 1) : j \in DOMAIN start /\ tools[j] = start[j]
    BY <1>1 DEF StartsWith
  <1> QED  BY <1>2, <1>3 DEF First

LEMMA FirstIsOne ==
    ASSUME NEW tools \in Seq(Tool), NEW name, NEW i \in First(tools, name),
           NEW j \in First(tools, name)
    PROVE  i = j
  <1>1. i \in Int /\ j \in Int /\ i >= 1 /\ j >= 1
    BY LenProperties DEF First
  <1>2. ~(i < j) /\ ~(j < i)
    BY <1>1 DEF First
  <1> QED  BY <1>1, <1>2

\* the pins for the tool at i, and the tool after the last of them
PinsFor(tools, cfgs, i) == {k \in DOMAIN cfgs : i \in WantNode(tools, cfgs[k].name)}
Patched(tool, cfgs, mine) ==
    IF mine = {} THEN tool
    ELSE [tool EXCEPT !.want = cfgs[CHOOSE k \in mine : \A j \in mine : j <= k].want]

LEMMA PatchYamlAt ==
    ASSUME NEW tools, NEW cfgs, NEW i \in DOMAIN tools
    PROVE  PatchYaml(tools, cfgs)[i] = Patched(tools[i], cfgs, PinsFor(tools, cfgs, i))
  BY DEF PatchYaml, Patched, PinsFor

\* So that the same pins are patched at the start of the file.
LEMMA PatchedStart ==
    ASSUME NEW start \in Seq(Tool), NEW tools \in Seq(Tool), NEW cfgs \in Seq(Tool),
           StartsWith(tools, start)
    PROVE  StartsWith(PatchYaml(tools, cfgs), PatchYaml(start, cfgs))
  <1> SUFFICES ASSUME NEW i \in DOMAIN start
               PROVE  i \in DOMAIN tools /\ PatchYaml(tools, cfgs)[i] = PatchYaml(start, cfgs)[i]
    BY DEF StartsWith, PatchYaml
  <1>1. i \in DOMAIN tools /\ tools[i] = start[i]
    BY DEF StartsWith
  <1>2. \A name : i \in WantNode(tools, name) <=> i \in WantNode(start, name)
    BY <1>1, FirstOfStart DEF WantNode
  <1>3. PinsFor(tools, cfgs, i) = PinsFor(start, cfgs, i)
    BY <1>2 DEF PinsFor
  <1> QED  BY <1>1, <1>3, PatchYamlAt

\* What is appended leaves the start.
LEMMA AppendedStart ==
    ASSUME NEW start, NEW tools \in Seq(Tool), NEW tool \in Tool, StartsWith(tools, start)
    PROVE  StartsWith(Append(tools, tool), start)
  <1>1. /\ Len(tools) \in Nat /\ DOMAIN tools = 1..Len(tools)
        /\ Append(tools, tool) \in Seq(Tool) /\ Len(Append(tools, tool)) = Len(tools) + 1
        /\ \A i \in 1..Len(tools) : Append(tools, tool)[i] = tools[i]
    BY LenProperties, AppendProperties
  <1>2. DOMAIN Append(tools, tool) = 1..(Len(tools) + 1)
    BY <1>1, LenProperties
  <1>3. \A i \in 1..Len(tools) : i \in 1..(Len(tools) + 1)
    BY <1>1
  <1> QED  BY <1>1, <1>2, <1>3 DEF StartsWith

---------------------------------------------------------------------------
(* The invariant of the pins is inductive.                                 *)

LEMMA ConfiguredType == Configured \in Seq(Tool)
  BY UpdateParameterTypes

LEMMA PinsInitially == AddInit => PinInv
  <1> SUFFICES ASSUME AddInit  PROVE PinInv
    OBVIOUS
  <1>1. Init /\ \A a \in Adder : step[a] = "load"
    BY DEF AddInit
  <1>2. Collected
    <2>1. \A j \in DOMAIN ToolOpts : ToolOpts[j] \in Worker
      BY WorkerTypes
    <2> QED  BY <1>1, <2>1 DEF Init, Collected
  <1>3. Pinning
    BY <1>1 DEF Init, Pinning, Whole, StartsWith, Expected
  <1> QED  BY <1>2, <1>3 DEF PinInv

LEMMA CollectedGoroutine ==
    ASSUME TypeOK, Collected, NEW w \in Worker, Goroutine(w)
    PROVE  Collected'
  <1>0. cmd' = cmd /\ next' = next /\ stage[w] # "queued" /\ stage[w] # "done"
    BY DEF Goroutine, OwnStep, GetUpdatedToolVersion, LockLists, StopInside, Collect
  <1>1. \A s : To(w, s) => stage'[w] = s /\ \A u \in Worker : u # w => stage'[u] = stage[u]
    BY DEF TypeOK, To
  <1>2. ASSUME \A u \in Worker : u # w => stage'[u] = stage[u]
        PROVE  cmd' = "loop" => \A j \in DOMAIN ToolOpts : j >= next' => stage'[ToolOpts[j]] = "queued"
    BY <1>0, <1>2, WorkerTypes DEF Collected
  <1>3. ASSUME UNCHANGED newCfgs, stage'[w] # "done",
               \A u \in Worker : u # w => stage'[u] = stage[u] /\ version'[u] = version[u]
        PROVE  Collected'
    <2>1. \A u \in Worker : u # w => PinOf(u)' = PinOf(u)
      BY <1>3 DEF PinOf, Found, NameOf, Want
    <2>2. \A u \in Worker : stage[u] = "done" => u # w
      BY <1>0
    <2> QED  BY <1>2, <1>3, <2>1, <2>2 DEF Collected
  <1>4. CASE GetUpdatedToolVersion(w)
    <2>1. stage'[w] = "lock" /\ UNCHANGED newCfgs /\ \A u \in Worker : u # w => stage'[u] = stage[u]
      BY <1>1, <1>4 DEF GetUpdatedToolVersion
    <2>2. \A u \in Worker : u # w => version'[u] = version[u]
      BY <1>4 DEF GetUpdatedToolVersion, TypeOK
    <2> QED  BY <1>3, <2>1, <2>2
  <1>5. CASE LockLists(w)
    <2>1. stage'[w] = "locked" /\ UNCHANGED <<newCfgs, version>>
          /\ \A u \in Worker : u # w => stage'[u] = stage[u]
      BY <1>1, <1>5 DEF LockLists
    <2> QED  BY <1>3, <2>1
  <1>6. CASE StopInside(w)
    <2>1. stage'[w] = "failed" /\ UNCHANGED <<newCfgs, version>>
          /\ \A u \in Worker : u # w => stage'[u] = stage[u]
      BY <1>1, <1>6 DEF StopInside
    <2> QED  BY <1>3, <2>1
  <1>7. CASE Collect(w)
    <2>1. /\ stage'[w] = "done" /\ UNCHANGED version
          /\ \A u \in Worker : u # w => stage'[u] = stage[u]
          /\ newCfgs' = Append(newCfgs, PinOf(w))
      BY <1>1, <1>7 DEF Collect, PinOf, Found
    <2>2. PinOf(w) \in Tool /\ newCfgs \in Seq(Tool)
      BY CollectedType DEF TypeOK, Tool, PinOf, Found
    <2>3. /\ Len(newCfgs) \in Nat /\ DOMAIN newCfgs = 1..Len(newCfgs)
          /\ newCfgs' \in Seq(Tool) /\ Len(newCfgs') = Len(newCfgs) + 1
          /\ \A k \in 1..Len(newCfgs) : newCfgs'[k] = newCfgs[k]
          /\ newCfgs'[Len(newCfgs) + 1] = PinOf(w)
      BY <2>1, <2>2, LenProperties, AppendProperties
    <2>4. DOMAIN newCfgs' = 1..(Len(newCfgs) + 1)
      BY <2>3, LenProperties
    <2>5. \A u : PinOf(u)' = PinOf(u)
      BY <2>1 DEF PinOf, Found, NameOf, Want
    <2>6. \A u \in Worker : stage[u] = "done" => stage'[u] = "done"
      BY <1>0, <2>1
    <2>7. \A k \in DOMAIN newCfgs' : \E u \in Worker : stage'[u] = "done" /\ newCfgs'[k] = PinOf(u)
      <3> SUFFICES ASSUME NEW k \in DOMAIN newCfgs'
                   PROVE  \E u \in Worker : stage'[u] = "done" /\ newCfgs'[k] = PinOf(u)
        OBVIOUS
      <3>1. CASE k = Len(newCfgs) + 1
        BY <2>1, <2>3, <3>1
      <3>2. CASE k \in DOMAIN newCfgs
        BY <2>3, <2>6, <3>2 DEF Collected
      <3> QED  BY <2>3, <2>4, <3>1, <3>2
    <2>8. \A u \in Worker : stage'[u] = "done" => \E k \in DOMAIN newCfgs' : newCfgs'[k] = PinOf(u)
      <3> SUFFICES ASSUME NEW u \in Worker, stage'[u] = "done"
                   PROVE  \E k \in DOMAIN newCfgs' : newCfgs'[k] = PinOf(u)
        OBVIOUS
      <3>1. \A k \in DOMAIN newCfgs : k \in DOMAIN newCfgs'
        BY <2>3, <2>4
      <3>2. Len(newCfgs) + 1 \in DOMAIN newCfgs'
        BY <2>3, <2>4
      <3>3. CASE u = w
        BY <2>3, <3>2, <3>3
      <3>4. CASE u # w
        BY <2>1, <2>3, <3>1, <3>4 DEF Collected
      <3> QED  BY <3>3, <3>4
    <2>9. cmd' = "loop" => \A j \in DOMAIN ToolOpts : j >= next' => stage'[ToolOpts[j]] = "queued"
      BY <1>2, <2>1
    <2> QED  BY <2>5, <2>7, <2>8, <2>9 DEF Collected
  <1> QED  BY <1>4, <1>5, <1>6, <1>7 DEF Goroutine, OwnStep

LEMMA CollectedNext ==
    ASSUME TypeOK, Updating, Collected, Next
    PROVE  Collected'
  <1>1. CASE Go
    <2>1. /\ cmd = "loop" /\ cmd' = "loop" /\ next \in DOMAIN ToolOpts /\ next' = next + 1 /\ next \in Nat
          /\ UNCHANGED <<version, newCfgs>>
      BY <1>1, WorkerTypes DEF Go, Updating
    <2>2. PICK w \in Worker : w = ToolOpts[next]
      BY <2>1, WorkerTypes
    <2>3. stage'[w] = "fetch" /\ \A u \in Worker : u # w => stage'[u] = stage[u]
      BY <1>1, <2>2 DEF Go, To, TypeOK
    <2>4. stage[w] = "queued"
      BY <2>1, <2>2 DEF Collected
    <2>5. \A u : PinOf(u)' = PinOf(u)
      BY <2>1 DEF PinOf, Found, NameOf, Want
    <2>6. ASSUME NEW j \in DOMAIN ToolOpts, j >= next + 1
          PROVE  stage'[ToolOpts[j]] = "queued"
      <3>1. j \in Nat /\ j # next /\ j >= next
        BY <2>1, <2>6, WorkerTypes
      <3>2. ToolOpts[j] # w
        BY <2>1, <2>2, <3>1, EachToolOptOnce
      <3> QED  BY <2>1, <2>3, <3>1, <3>2, WorkerTypes DEF Collected
    <2> QED  BY <2>1, <2>3, <2>4, <2>5, <2>6 DEF Collected
  <1>2. CASE LoopEnds \/ WaitReturns \/ ReadConfig \/ PatchAndTruncate \/ WriteConfig \/ Edit
    <2>1. UNCHANGED fetching /\ (cmd' = "loop" => cmd = "loop")
      BY <1>2 DEF LoopEnds, WaitReturns, ReadConfig, PatchAndTruncate, WriteConfig, Edit
    <2> QED  BY <2>1 DEF fetching, Collected, PinOf, Found, NameOf, Want
  <1>3. CASE Kill
    BY <1>3 DEF Kill, Collected
  <1>4. CASE \E w \in Worker : Goroutine(w)
    BY <1>4, CollectedGoroutine
  <1> QED  BY <1>1, <1>2, <1>3, <1>4 DEF Next, Main

\* The update's steps, an editor's and a kill.
LEMMA PinningNext ==
    ASSUME IInv, PinInv, Next, UNCHANGED adding,
           overlap' = (overlap \/ (UpdateTouches /\
                          (Windows # {} \/ (UpdateWindow /\ edits' # edits))))
    PROVE  Pinning'
  <1>0. /\ AddTypeOK /\ TypeOK /\ Collected /\ Pinning /\ UNCHANGED <<step, doc>> /\ (~overlap' => ~overlap)
        /\ edits \in Nat /\ newCfgs \in Seq(Tool) /\ contents \in Seq(Tool)
    BY DEF IInv, PinInv, adding, AddTypeOK, TypeOK, Tool
  \* Nothing is written, and the pins that are to be written stay.
  <1>1. ASSUME Undisturbed, Undisturbed', UNCHANGED config, Expected' = Expected,
               cmd' \in {"write", "written"} <=> cmd \in {"write", "written"},
               cmd' = "write" => cmd = "write" /\ UNCHANGED contents,
               cmd \in {"write", "written"} => UNCHANGED stage
        PROVE  Pinning'
    <2>1. \A u : NameOf(u)' = NameOf(u)
      BY DEF NameOf
    <2> QED  BY <1>0, <1>1, <2>1 DEF Pinning, StartsWith, WantNode, First
  <1>2. CASE Go \/ LoopEnds \/ WaitReturns \/ ReadConfig \/ \E w \in Worker : Goroutine(w)
    <2>1. /\ UNCHANGED <<config, edits>>
          /\ cmd' \notin {"killed", "unwritten"} /\ cmd \notin {"killed", "unwritten"}
          /\ cmd \notin {"write", "written"} /\ cmd' \notin {"write", "written"}
      BY <1>2 DEF Go, LoopEnds, WaitReturns, ReadConfig, Goroutine, OwnStep, GetUpdatedToolVersion,
         LockLists, StopInside, Collect, Live, patching
    <2>2. Undisturbed' => Undisturbed
      BY <1>0, <2>1 DEF Undisturbed, CutShort, Killed, WriteFailed
    <2>3. Expected' = Expected
      BY <2>1 DEF Expected
    <2> QED  BY <1>1, <2>1, <2>2, <2>3 DEF Pinning
  <1>3. CASE PatchAndTruncate /\ cmd' \in {"panic", "failed"}
    <2>1. UNCHANGED <<config, edits>> /\ cmd = "patch"
      BY <1>3 DEF PatchAndTruncate
    <2>2. Undisturbed' => Undisturbed
      BY <1>0, <1>3, <2>1 DEF Undisturbed, CutShort, Killed, WriteFailed
    <2>3. Expected' = Expected
      BY <1>3, <2>1 DEF Expected
    <2> QED  BY <1>1, <1>3, <2>1, <2>2, <2>3 DEF Pinning
  <1>4. CASE PatchAndTruncate /\ cmd' = "write"
    <2>1. /\ cmd = "patch" /\ UNCHANGED <<edits, fetching>> /\ config' = File("empty")
          /\ contents' = PatchYaml(contents, newCfgs)
          /\ \A k \in DOMAIN newCfgs : WantNode(contents, newCfgs[k].name) # {}
      BY <1>4 DEF PatchAndTruncate
    <2> SUFFICES ASSUME Undisturbed'  PROVE Pinning'
      BY DEF Pinning
    <2>2. Undisturbed
      BY <1>0, <2>1 DEF Undisturbed, CutShort, Killed, WriteFailed
    <2>3. \A a \in Adder : step'[a] \notin {"patch", "write"}
      BY <1>0, <1>4, <2>1 DEF UpdateTouches, Windows, Undisturbed
    <2>4. StartsWith(contents, Configured)
      BY <1>0, <2>1, <2>2 DEF IInv, Knowing, Pinning, Undisturbed, Expected
    <2>5. StartsWith(contents', PatchYaml(Configured, newCfgs))
      BY <1>0, <2>1, <2>4, PatchedStart, ConfiguredType
    <2>6. ASSUME NEW w \in Worker
          PROVE  stage[w] = "done" /\ WantNode(Configured, NameOf(w)) # {}
      <3>1. stage[w] = "done"
        BY <2>1 DEF IInv, Updating
      <3>2. PICK k \in DOMAIN newCfgs : newCfgs[k] = PinOf(w)
        BY <1>0, <3>1 DEF Collected
      <3>3. PICK j \in First(contents, NameOf(w)) : contents[j].want # NoPin
        BY <2>1, <3>2 DEF WantNode, PinOf
      <3>4. OptOf[w] \in DOMAIN Configured /\ Configured[OptOf[w]].name = NameOf(w)
        BY UpdateParameterTypes DEF NameOf
      <3>5. j \in DOMAIN Configured
        <4>1. /\ DOMAIN Configured = 1..Len(Configured) /\ Len(Configured) \in Nat
              /\ DOMAIN contents = 1..Len(contents) /\ Len(contents) \in Nat
          BY <1>0, ConfiguredType, LenProperties
        <4>2. contents[OptOf[w]].name = NameOf(w)
          BY <2>4, <3>4 DEF StartsWith
        <4>3. ~(OptOf[w] \in 1..(j - 1)) /\ j \in 1..Len(contents)
          BY <4>1, <4>2 DEF First
        <4> QED  BY <3>4, <4>1, <4>3
      <3>6. j \in First(Configured, NameOf(w)) /\ contents[j] = Configured[j]
        BY <1>0, <2>4, <3>5, FirstOfStart, ConfiguredType DEF StartsWith
      <3> QED  BY <3>1, <3>3, <3>6 DEF WantNode
    <2>7. config'.status = "empty"
      BY <2>1 DEF File
    <2>8. Expected' = PatchYaml(Configured, newCfgs)
      BY <1>4, <2>1 DEF Expected, fetching, PatchYaml, WantNode, First
    <2>9. \A w \in Worker : stage'[w] = "done" /\ WantNode(Configured, NameOf(w))' # {}
      BY <2>1, <2>6 DEF fetching, WantNode, First, NameOf
    <2> QED  BY <2>3, <2>5, <2>7, <2>8, <2>9 DEF Pinning, StartsWith
  <1>5. CASE WriteConfig
    <2> SUFFICES ASSUME Undisturbed'  PROVE Pinning'
      BY DEF Pinning
    <2>1. /\ cmd = "write" /\ cmd' = "written" /\ UNCHANGED <<edits, fetching, contents>>
          /\ config' \in Overwritten(contents)
      BY <1>5 DEF WriteConfig, Undisturbed, CutShort, WriteFailed
    <2>2. Undisturbed
      BY <1>0, <2>1 DEF Undisturbed, CutShort, Killed, WriteFailed
    <2>3. config'.status = "whole" /\ config'.tools = contents
      BY <2>1, <2>2, OverwrittenIs DEF IInv, Alone, Undisturbed
    <2>4. Expected' = Expected
      BY <2>1 DEF Expected, fetching, PatchYaml, WantNode, First
    <2> QED  BY <1>0, <2>1, <2>2, <2>3, <2>4 DEF Pinning, StartsWith, fetching, WantNode, First, NameOf
  <1>6. CASE Kill
    <2>1. ~Undisturbed'
      BY <1>6 DEF Kill, Undisturbed, CutShort, Killed, WriteFailed
    <2> QED  BY <2>1 DEF Pinning
  <1>7. CASE Edit
    <2>1. ~Undisturbed'
      BY <1>0, <1>7 DEF Edit, Undisturbed
    <2> QED  BY <2>1 DEF Pinning
  <1>8. PatchAndTruncate => cmd' \in {"panic", "failed", "write"}
    BY DEF PatchAndTruncate
  <1> QED  BY <1>2, <1>3, <1>4, <1>5, <1>6, <1>7, <1>8 DEF Next, Main

\* The steps of an add.
LEMMA PinningAddStep ==
    ASSUME IInv, PinInv, NEW a \in Adder, AddStep(a),
           UNCHANGED <<cmd, fetching, contents, edits>>,
           overlap' = (overlap \/ (AddTouches(a) /\ (Windows \ {a} # {} \/ UpdateWindow)))
    PROVE  Pinning'
  <1>0. /\ AddTypeOK /\ TypeOK /\ Pinning /\ (~overlap' => ~overlap)
        /\ step \in [Adder -> Steps] /\ doc \in [Adder -> Seq(Tool)]
        /\ Expected' = Expected /\ ToolOfAdd[a] \in Tool
        /\ \A w : stage'[w] = stage[w] /\ WantNode(Configured, NameOf(w))' = WantNode(Configured, NameOf(w))
    BY AddTypes DEF IInv, PinInv, AddTypeOK, TypeOK, Expected, fetching, PatchYaml, WantNode, First, NameOf
  <1>1. /\ \A s : Goes(a, s) => step'[a] = s /\ \A b \in Adder : b # a => step'[b] = step[b]
        /\ \A tools : Keeps(a, tools) => doc'[a] = tools /\ \A b \in Adder : b # a => doc'[b] = doc[b]
    BY <1>0 DEF Goes, Keeps
  <1> SUFFICES ASSUME Undisturbed'  PROVE Pinning'
    BY DEF Pinning
  <1>2. step[a] \notin {"killed", "unwritten"}
    BY DEF AddStep, Load, Stat, Create, ReadToAppend, AppendAndTruncate, WriteAdded, KillAdd
  <1>3. ASSUME \A b \in Adder : b # a => step'[b] = step[b]
        PROVE  Undisturbed
    BY <1>0, <1>2, <1>3 DEF Undisturbed, CutShort, Killed, WriteFailed
  <1>4. ASSUME \A b \in Adder : b # a => step'[b] = step[b] /\ doc'[b] = doc[b],
               config'.status # "absent", config'.status = "whole" => StartsWith(config'.tools, Expected),
               step'[a] \in {"patch", "write"} => StartsWith(doc'[a], Expected)
        PROVE  Pinning'
    <2>1. /\ cmd' = cmd /\ contents' = contents
          /\ cmd = "write" => StartsWith(contents, Expected)
          /\ \A b \in Adder : step[b] \in {"patch", "write"} => StartsWith(doc[b], Expected)
          /\ cmd \in {"write", "written"} =>
                \A w \in Worker : stage[w] = "done" /\ WantNode(Configured, NameOf(w)) # {}
      BY <1>0, <1>3, <1>4 DEF Pinning
    <2>2. ASSUME NEW b \in Adder, step'[b] \in {"patch", "write"}
          PROVE  StartsWith(doc'[b], Expected)
      BY <1>4, <2>1, <2>2
    <2>3. \A tools : StartsWith(tools, Expected') <=> StartsWith(tools, Expected)
      BY <1>0
    <2> QED  BY <1>0, <1>4, <2>1, <2>2, <2>3 DEF Pinning, StartsWith
  <1>5. ASSUME UNCHANGED config, NEW s, Goes(a, s), s \notin {"patch", "write"}, UNCHANGED doc \/ Keeps(a, <<>>)
        PROVE  Pinning'
    <2>1. step'[a] = s /\ \A b \in Adder : b # a => step'[b] = step[b] /\ doc'[b] = doc[b]
      BY <1>1, <1>5
    <2> QED  BY <1>0, <1>3, <1>4, <1>5, <2>1 DEF Pinning
  <1>6. CASE Load(a) \/ Stat(a) \/ KillAdd(a)
    BY <1>5, <1>6 DEF Load, Stat, KillAdd
  \* An add finds no file, or an empty one, only next to a command that writes it.
  <1>11. CASE FailsBefore(a)
    BY <1>5, <1>11 DEF FailsBefore
  <1>7. CASE Create(a) /\ ~FailsBefore(a)
    <2>1. step[a] = "create" /\ step'[a] = "write" /\ \A b \in Adder : b # a => step'[b] = step[b]
      BY <1>1, <1>7 DEF Create
    <2>2. Undisturbed /\ config.status = "empty"
      BY <1>0, <1>3, <2>1 DEF IInv, Knowing, Pinning, Undisturbed
    <2>3. cmd = "write" \/ \E b \in Adder : step[b] = "write"
      BY <2>2 DEF IInv, DamageHasCause, Undisturbed
    <2>4. overlap'
      <3>1. AddTouches(a)
        BY <2>1 DEF AddTouches
      <3> QED  BY <2>1, <2>3, <3>1 DEF UpdateWindow, Windows
    <2> QED  BY <2>4 DEF Undisturbed
  <1>8. CASE ReadToAppend(a)
    <2>1. CASE config.status = "whole" /\ Keeps(a, config.tools) /\ Goes(a, "patch")
      <3>1. /\ UNCHANGED config /\ step'[a] = "patch" /\ doc'[a] = config.tools
            /\ \A b \in Adder : b # a => step'[b] = step[b] /\ doc'[b] = doc[b]
        BY <1>1, <1>8, <2>1 DEF ReadToAppend, FailsBefore
      <3> QED  BY <1>0, <1>3, <1>4, <2>1, <3>1 DEF Pinning
    <2> QED  BY <1>8, <1>11, <2>1 DEF ReadToAppend
  <1>9. CASE AppendAndTruncate(a) /\ ~FailsBefore(a)
    <2>1. /\ step[a] = "patch" /\ config' = File("empty") /\ step'[a] = "write"
          /\ doc'[a] = Append(doc[a], ToolOfAdd[a])
          /\ \A b \in Adder : b # a => step'[b] = step[b] /\ doc'[b] = doc[b]
      BY <1>1, <1>9 DEF AppendAndTruncate
    <2>2. StartsWith(doc[a], Expected) /\ doc[a] \in Seq(Tool)
      BY <1>0, <1>3, <2>1 DEF Pinning
    <2>3. StartsWith(doc'[a], Expected)
      BY <1>0, <2>1, <2>2, AppendedStart
    <2> QED  BY <1>4, <2>1, <2>3 DEF File
  <1>10. CASE WriteAdded(a)
    <2>1. /\ step[a] = "write" /\ config' \in Overwritten(doc[a]) /\ UNCHANGED doc
          /\ step'[a] = "added" /\ \A b \in Adder : b # a => step'[b] = step[b]
      BY <1>1, <1>10 DEF WriteAdded, Undisturbed, CutShort, WriteFailed
    <2>2. Undisturbed
      BY <1>3, <2>1
    <2>3. config'.status = "whole" /\ config'.tools = doc[a]
      BY <2>1, <2>2, OverwrittenIs DEF IInv, Alone, Undisturbed
    <2> QED  BY <1>0, <1>4, <2>1, <2>2, <2>3 DEF Pinning
  <1> QED  BY <1>6, <1>7, <1>8, <1>9, <1>10, <1>11 DEF AddStep

LEMMA PinsInductive == IInv /\ PinInv /\ [AddNext]_addVars => PinInv'
  <1> SUFFICES ASSUME IInv, PinInv, [AddNext]_addVars  PROVE PinInv'
    OBVIOUS
  <1>1. CASE /\ Next /\ UNCHANGED adding
             /\ overlap' = (overlap \/ (UpdateTouches /\
                              (Windows # {} \/ (UpdateWindow /\ edits' # edits))))
    BY <1>1, CollectedNext, PinningNext DEF IInv, AddTypeOK, PinInv
  <1>2. ASSUME NEW a \in Adder, AddStep(a), UNCHANGED <<cmd, fetching, contents, edits>>,
               overlap' = (overlap \/ (AddTouches(a) /\ (Windows \ {a} # {} \/ UpdateWindow)))
        PROVE  PinInv'
    <2>1. Collected'
      BY <1>2 DEF PinInv, Collected, fetching, PinOf, Found, NameOf, Want
    <2> QED  BY <1>2, <2>1, PinningAddStep DEF PinInv
  <1>3. CASE UNCHANGED addVars
    <2>1. UNCHANGED <<cmd, next, stage, version, newCfgs, config, contents, edits, step, doc, overlap>>
      BY <1>3 DEF addVars, vars, adding, fetching, patching
    <2>2. Collected'
      BY <2>1 DEF PinInv, Collected, PinOf, Found, NameOf, Want
    <2>3. Expected' = Expected /\ (Undisturbed' <=> Undisturbed)
      BY <2>1 DEF Expected, PatchYaml, WantNode, First, Undisturbed, CutShort, Killed, WriteFailed
    <2>4. Pinning'
      BY <2>1, <2>3 DEF PinInv, Pinning, StartsWith, WantNode, First, NameOf
    <2> QED  BY <2>2, <2>4 DEF PinInv
  <1> QED  BY <1>1, <1>2, <1>3 DEF AddNext

\* A `binny update` that nobody disturbed has pinned each tool of a name of its own to the
\* version that was found for it, and moved no other pin, for any number of tools, workers
\* and adds that came before and after (updateLockYamlPatcher, getUpdatedConfig).
THEOREM PinsFound == AddSpec => []PinsAreTheVersionsFound
  <1>1. IInv /\ PinInv => PinsAreTheVersionsFound
    <2> SUFFICES ASSUME IInv, PinInv, cmd = "written", edits = 0, ~overlap, ~CutShort,
                        config.status = "whole", NEW i \in DOMAIN Configured,
                        NEW mine, mine = {w \in Worker : i \in First(Configured, NameOf(w))}
                 PROVE  /\ i \in DOMAIN config.tools /\ config.tools[i].name = Configured[i].name
                        /\ mine = {} => config.tools[i] = Configured[i]
                        /\ \A w \in mine : mine = {w} => config.tools[i].want = Found(w)
      BY DEF PinsAreTheVersionsFound, Found
    <2> DEFINE mineIn == PinsFor(Configured, newCfgs, i)
    <2>1. /\ StartsWith(config.tools, PatchYaml(Configured, newCfgs))
          /\ \A w \in Worker : stage[w] = "done" /\ WantNode(Configured, NameOf(w)) # {}
      BY DEF PinInv, Pinning, Undisturbed, Expected
    <2>2. newCfgs \in Seq(Tool) /\ DOMAIN PatchYaml(Configured, newCfgs) = DOMAIN Configured
          /\ PatchYaml(Configured, newCfgs)[i].name = Configured[i].name
      <3>1. newCfgs \in Seq(Tool)
        BY DEF IInv, AddTypeOK, TypeOK, Tool
      <3> QED  BY <3>1, PatchYamlKeeps, ConfiguredType
    <2>3. i \in DOMAIN config.tools /\ config.tools[i] = PatchYaml(Configured, newCfgs)[i]
      BY <2>1, <2>2 DEF StartsWith
    <2>4. config.tools[i] = Patched(Configured[i], newCfgs, mineIn)
      BY <2>3, PatchYamlAt
    \* the pins for the tool at i are those of its workers
    <2>5. ASSUME NEW k \in mineIn
          PROVE  \E w \in mine : newCfgs[k] = PinOf(w)
      <3>1. k \in DOMAIN newCfgs /\ i \in First(Configured, newCfgs[k].name)
        BY DEF PinsFor, WantNode
      <3>2. PICK w \in Worker : newCfgs[k] = PinOf(w)
        BY <3>1 DEF PinInv, Collected
      <3> QED  BY <3>1, <3>2 DEF PinOf
    <2>6. ASSUME mine = {}  PROVE config.tools[i] = Configured[i]
      BY <2>4, <2>5, <2>6 DEF Patched
    <2>7. ASSUME NEW w \in mine, mine = {w}  PROVE config.tools[i].want = Found(w)
      <3>1. PICK k \in DOMAIN newCfgs : newCfgs[k] = PinOf(w)
        BY <2>1 DEF PinInv, Collected
      <3>2. i \in WantNode(Configured, NameOf(w))
        <4>1. PICK j \in WantNode(Configured, NameOf(w)) : TRUE
          BY <2>1
        <4>2. i = j
          BY <4>1, FirstIsOne, ConfiguredType DEF WantNode
        <4> QED  BY <4>2
      <3>3. k \in mineIn
        BY <3>1, <3>2 DEF PinsFor, PinOf
      <3>4. ASSUME NEW l \in mineIn  PROVE newCfgs[l].want = Found(w)
        <4>1. newCfgs[l] = PinOf(w)
          BY <2>5, <2>7
        <4> QED  BY <4>1 DEF PinOf
      <3>5. (CHOOSE l \in mineIn : \A j \in mineIn : j <= l) \in mineIn
        <4>1. mineIn \subseteq 1..Len(newCfgs) /\ Len(newCfgs) \in Nat
          BY <2>2, LenProperties DEF PinsFor
        <4>2. mineIn # {}
          BY <3>3
        <4> HIDE DEF mineIn
        <4>3. \E l \in mineIn : \A j \in mineIn : j <= l
          BY <4>1, <4>2, GreatestOfBounded
        <4> QED  BY <4>3
      <3>6. Configured[i] \in Tool
        BY ConfiguredType, LenProperties
      <3> HIDE DEF mineIn
      <3>7. config.tools[i] = [Configured[i] EXCEPT !.want =
                                  newCfgs[CHOOSE l \in mineIn : \A j \in mineIn : j <= l].want]
        BY <2>4, <3>3 DEF Patched
      <3> QED  BY <3>4, <3>5, <3>6, <3>7 DEF Tool
    <2> QED  BY <2>2, <2>3, <2>6, <2>7
  <1> QED  BY Invariance, PinsInitially, PinsInductive, <1>1, PTL DEF AddSpec

---------------------------------------------------------------------------
(* What others have written.                                               *)

\* The tools but those the update is for.
Spares(tools, before) ==
    \A i \in DOMAIN before :
        (\A w \in Worker : NameOf(w) # before[i].name) =>
            i \in DOMAIN tools /\ tools[i] = before[i]

\* The file's last document is remembered, and who has it open for writing writes it again.
Remembered ==
    /\ config.status = "whole" => prior = config.tools
    /\ config.status = "absent" => prior = <<>>
    /\ ~overlap /\ ~CutShort =>
          /\ cmd = "write" => Spares(contents, prior)
          /\ \A a \in Adder : step[a] = "write" => StartsWith(doc[a], prior)

LEMMA RememberedInitially == AddInit => Remembered
  BY DEF AddInit, Init, Remembered, Whole

\* What was cut short stays so.
LEMMA CutShortStays == ASSUME AddTypeOK, AddNext, CutShort  PROVE CutShort'
  <1> USE DEF CutShort, Killed, WriteFailed
  <1>1. CASE Next /\ UNCHANGED adding
    <2>1. cmd \in {"killed", "unwritten"} => cmd' = cmd
      BY <1>1 DEF Next, Main, Go, LoopEnds, WaitReturns, ReadConfig, PatchAndTruncate, WriteConfig,
         Kill, Edit, Goroutine, OwnStep, GetUpdatedToolVersion, LockLists, StopInside, Collect
    <2>2. step' = step
      BY <1>1 DEF adding
    <2> QED  BY <2>1, <2>2
  <1>2. ASSUME NEW a \in Adder, AddStep(a), UNCHANGED <<cmd, fetching, contents, edits>>
        PROVE  CutShort'
    <2>1. step[a] \notin {"killed", "unwritten"}
      BY <1>2 DEF AddStep, Load, Stat, Create, ReadToAppend, AppendAndTruncate, WriteAdded, KillAdd
    <2>2. \A b \in Adder : b # a => step'[b] = step[b]
      BY <1>2 DEF AddTypeOK, AddStep, Load, Stat, Create, ReadToAppend, AppendAndTruncate,
         WriteAdded, KillAdd, FailsBefore, Goes
    <2> QED  BY <1>2, <2>1, <2>2
  <1> QED  BY <1>1, <1>2 DEF AddNext

\* A step that does not touch the file, nor opens it.
LEMMA LeavingRemembers ==
    ASSUME Remembered, AddTypeOK, AddNext, UNCHANGED config, ~overlap' => ~overlap,
           cmd' = "write" => cmd = "write" /\ UNCHANGED contents,
           \A a \in Adder : step'[a] = "write" => step[a] = "write" /\ doc'[a] = doc[a]
    PROVE  Remembered'
  <1>1. prior' = prior
    BY DEF Remembered, AddNext
  <1>2. \A w : NameOf(w)' = NameOf(w)
    BY DEF NameOf
  <1>3. ~CutShort' => ~CutShort
    BY CutShortStays
  <1> QED  BY <1>1, <1>2, <1>3 DEF Remembered, Spares, StartsWith

LEMMA RememberedNext ==
    ASSUME IInv, Remembered, AddNext, Next, UNCHANGED adding,
           overlap' = (overlap \/ (UpdateTouches /\
                          (Windows # {} \/ (UpdateWindow /\ edits' # edits))))
    PROVE  Remembered'
  <1>0. /\ AddTypeOK /\ UNCHANGED <<step, doc>> /\ (~overlap' => ~overlap)
        /\ \A w : NameOf(w)' = NameOf(w)
    BY DEF IInv, adding, NameOf
  <1>1. ASSUME UNCHANGED config, cmd' = "write" => cmd = "write" /\ UNCHANGED contents
        PROVE  Remembered'
    BY <1>0, <1>1, LeavingRemembers
  <1>2. CASE Go \/ LoopEnds \/ WaitReturns \/ ReadConfig \/ Kill \/ \E w \in Worker : Goroutine(w)
    BY <1>1, <1>2 DEF Go, LoopEnds, WaitReturns, ReadConfig, Kill, Goroutine, OwnStep,
       GetUpdatedToolVersion, LockLists, StopInside, Collect, Live, patching
  \* Where a document is written, or the file is removed, nobody else has it open.
  <1>3. ASSUME config' # config, config'.status \in {"whole", "absent"}, cmd' # "write",
               config'.status = "absent" => config'.tools = <<>>
        PROVE  Remembered'
    <2>1. prior' = config'.tools
      BY <1>3 DEF AddNext
    <2>2. ~overlap' => \A a \in Adder : step'[a] # "write"
      BY <1>0, <1>3 DEF UpdateTouches, Windows
    <2> QED  BY <1>3, <2>1, <2>2 DEF Remembered
  <1>4. CASE PatchAndTruncate
    <2>1. CASE UNCHANGED config /\ cmd' # "write"
      BY <1>1, <2>1
    <2>2. CASE /\ contents' = PatchYaml(contents, newCfgs)
               /\ config' = File("empty") /\ cmd' = "write"
      <3>1. prior' = prior /\ config'.status = "empty" /\ cmd = "patch"
        BY <1>4, <2>2 DEF AddNext, File, PatchAndTruncate
      <3>2. ASSUME ~overlap'
            PROVE  /\ config.status = "whole" /\ contents = config.tools
                   /\ \A a \in Adder : step'[a] # "write"
        <4>1. UpdateTouches
          BY <2>2, <3>1 DEF UpdateTouches
        <4> QED  BY <1>0, <3>1, <3>2, <4>1 DEF IInv, Knowing, Windows
      <3>3. ASSUME ~overlap'  PROVE Spares(contents', prior)
        <4>1. contents \in Seq(Tool) /\ newCfgs \in Seq(Tool) /\ contents = prior
          BY <3>2, <3>3 DEF IInv, AddTypeOK, TypeOK, Tool, Remembered
        <4>2. \A k \in DOMAIN newCfgs : \E w \in Worker : newCfgs[k].name = NameOf(w)
          BY DEF IInv, Updating
        <4>3. /\ DOMAIN contents' = DOMAIN prior
              /\ \A i \in DOMAIN prior :
                    (\A k \in DOMAIN newCfgs : newCfgs[k].name # prior[i].name) =>
                        contents'[i] = prior[i]
          BY <2>2, <4>1, PatchYamlKeeps
        <4> QED  BY <4>2, <4>3 DEF Spares
      <3> QED  BY <1>0, <3>1, <3>2, <3>3 DEF Remembered, Spares
    <2> QED  BY <1>4, <2>1, <2>2 DEF PatchAndTruncate
  <1>5. CASE WriteConfig /\ cmd' = "written"
    <2>1. config' \in Overwritten(contents) /\ cmd = "write"
      BY <1>5 DEF WriteConfig
    <2>2. CASE config' = config
      BY <1>1, <1>5, <2>2
    <2>3. CASE config' # config /\ config'.status \in {"whole", "absent"}
      <3>1. config'.status = "absent" => config'.tools = <<>>
        BY <2>1, OverwrittenIs DEF IInv
      <3> QED  BY <1>3, <1>5, <2>3, <3>1
    <2>4. CASE config' # config /\ config'.status = "broken"
      <3>1. overlap
        BY <2>1, <2>4, OverwrittenIs DEF IInv, Alone
      <3> QED  BY <1>0, <2>4, <3>1 DEF Remembered
    <2> QED  BY <2>1, <2>2, <2>3, <2>4, OverwrittenTypes, OverwrittenIs
             DEF IInv, AddTypeOK, TypeOK
  <1>6. CASE WriteConfig /\ cmd' = "unwritten"
    <2>1. CutShort' /\ config' \in CutOff(contents)
      BY <1>6 DEF CutShort, WriteFailed, WriteConfig
    <2>2. CASE config' = config
      BY <1>1, <1>6, <2>2
    <2>3. CASE config' # config
      <3>1. config'.status \in {"whole", "broken"}
        BY <2>1, <2>3 DEF CutOff, Whole, File
      <3> QED  BY <2>1, <3>1 DEF Remembered, AddNext
    <2> QED  BY <2>2, <2>3
  <1>7. CASE Edit
    <2>1. /\ UNCHANGED <<cmd, contents>>
          /\ config' \in {Whole(tools) : tools \in EditorFile} \cup {File("absent")}
          /\ edits' # edits
      BY <1>0, <1>7 DEF Edit, AddTypeOK, TypeOK
    <2>2. /\ config'.status \in {"whole", "absent"}
          /\ config'.status = "absent" => config'.tools = <<>>
      BY <2>1 DEF Whole, File
    <2>3. CASE config' = config
      BY <1>1, <2>1, <2>3
    <2>4. CASE config' # config /\ cmd # "write"
      BY <1>3, <2>1, <2>2, <2>4
    <2>5. CASE config' # config /\ cmd = "write"
      <3>1. overlap'
        BY <2>1, <2>5 DEF UpdateTouches, UpdateWindow
      <3>2. prior' = config'.tools
        BY <2>2 DEF AddNext
      <3> QED  BY <2>2, <3>1, <3>2 DEF Remembered
    <2> QED  BY <2>3, <2>4, <2>5
  <1>8. WriteConfig => cmd' \in {"written", "unwritten"}
    BY DEF WriteConfig
  <1> QED  BY <1>2, <1>4, <1>5, <1>6, <1>7, <1>8 DEF Next, Main

\* The steps of an add.
LEMMA RememberedAddStep ==
    ASSUME IInv, Remembered, AddNext, NEW a \in Adder, AddStep(a),
           UNCHANGED <<cmd, fetching, contents, edits>>,
           overlap' = (overlap \/ (AddTouches(a) /\ (Windows \ {a} # {} \/ UpdateWindow)))
    PROVE  Remembered'
  <1>0. /\ AddTypeOK /\ (~overlap' => ~overlap)
        /\ step \in [Adder -> Steps] /\ doc \in [Adder -> Seq(Tool)] /\ ToolOfAdd[a] \in Tool
        /\ (~CutShort' => ~CutShort) /\ \A w : NameOf(w)' = NameOf(w)
    BY AddTypes, CutShortStays DEF IInv, AddTypeOK, NameOf
  <1>1. /\ \A s : Goes(a, s) => step'[a] = s /\ \A b \in Adder : b # a => step'[b] = step[b]
        /\ \A tools : Keeps(a, tools) => doc'[a] = tools /\ \A b \in Adder : b # a => doc'[b] = doc[b]
    BY <1>0 DEF Goes, Keeps
  <1>2. ASSUME UNCHANGED config, NEW s, Goes(a, s), s # "write",
               \A b \in Adder : b # a => doc'[b] = doc[b]
        PROVE  Remembered'
    <2>1. \A b \in Adder : step'[b] = "write" => step[b] = "write" /\ doc'[b] = doc[b]
      BY <1>1, <1>2
    <2> QED  BY <1>0, <1>2, <2>1, LeavingRemembers
  <1>3. CASE Load(a) \/ Stat(a) \/ ReadToAppend(a) \/ KillAdd(a)
    BY <1>1, <1>2, <1>3 DEF Load, Stat, ReadToAppend, KillAdd, FailsBefore
  <1>4. CASE FailsBefore(a)
    BY <1>2, <1>4 DEF FailsBefore
  \* The file is opened for writing by a command that is alone with it.
  <1>5. ASSUME step[a] \in {"create", "patch"}, config' = File("empty"), Goes(a, "write"),
               NEW tools, Keeps(a, tools),
               ~overlap' /\ ~CutShort' => StartsWith(tools, prior)
        PROVE  Remembered'
    <2>1. prior' = prior /\ config'.status = "empty"
      BY <1>5 DEF AddNext, File
    <2>2. ~overlap' => cmd' # "write" /\ \A b \in Adder : step'[b] = "write" => b = a
      <3>1. AddTouches(a)
        BY <1>1, <1>5 DEF AddTouches
      <3> QED  BY <1>1, <1>5, <3>1 DEF UpdateWindow, Windows
    <2>3. doc'[a] = tools
      BY <1>1, <1>5
    <2>4. ~overlap' /\ ~CutShort' => StartsWith(doc'[a], prior')
      BY <1>5, <2>1, <2>3
    <2> QED  BY <2>1, <2>2, <2>4 DEF Remembered, StartsWith
  <1>6. CASE Create(a) /\ ~FailsBefore(a)
    <2>1. /\ step[a] = "create" /\ config' = File("empty") /\ Goes(a, "write")
          /\ Keeps(a, <<ToolOfAdd[a]>>)
      BY <1>6 DEF Create
    <2>2. ASSUME ~overlap', ~CutShort'  PROVE StartsWith(<<ToolOfAdd[a]>>, prior)
      <3>1. cmd # "write" /\ \A b \in Adder : step[b] # "write"
        <4>1. AddTouches(a)
          BY <1>1, <2>1 DEF AddTouches
        <4>2. cmd # "write" /\ Windows \ {a} = {}
          BY <2>2, <4>1 DEF UpdateWindow
        <4> QED  BY <2>1, <4>2 DEF Windows
      <3>2. config.status = "absent"
        BY <1>0, <2>1, <2>2, <3>1 DEF IInv, Knowing, DamageHasCause
      <3>3. prior = <<>>
        BY <3>2 DEF Remembered
      <3> QED  BY <3>3 DEF StartsWith
    <2> QED  BY <1>5, <2>1, <2>2
  <1>7. CASE AppendAndTruncate(a) /\ ~FailsBefore(a)
    <2>1. /\ step[a] = "patch" /\ config' = File("empty") /\ Goes(a, "write")
          /\ Keeps(a, Append(doc[a], ToolOfAdd[a]))
      BY <1>7 DEF AppendAndTruncate
    <2>2. ASSUME ~overlap'  PROVE StartsWith(Append(doc[a], ToolOfAdd[a]), prior)
      <3>1. doc[a] = prior /\ doc[a] \in Seq(Tool)
        BY <1>0, <2>1, <2>2 DEF IInv, Knowing, Remembered
      <3>2. StartsWith(doc[a], prior)
        BY <3>1 DEF StartsWith
      <3> QED  BY <1>0, <3>1, <3>2, AppendedStart
    <2> QED  BY <1>5, <2>1, <2>2
  <1>8. CASE WriteAdded(a) /\ Goes(a, "added")
    <2>1. /\ step[a] = "write" /\ config' \in Overwritten(doc[a]) /\ UNCHANGED doc
          /\ step'[a] = "added" /\ \A b \in Adder : b # a => step'[b] = step[b]
      BY <1>1, <1>8 DEF WriteAdded
    <2>2. CASE config' = config
      BY <1>2, <1>8, <2>1, <2>2
    <2>3. CASE config' # config /\ config'.status \in {"whole", "absent"}
      <3>1. config'.status = "absent" => config'.tools = <<>>
        BY <2>1, OverwrittenIs DEF IInv
      <3>2. prior' = config'.tools
        BY <2>3, <3>1 DEF AddNext
      <3>3. ~overlap' => cmd' # "write" /\ \A b \in Adder : step'[b] # "write"
        <4>1. AddTouches(a)
          BY <2>3 DEF AddTouches
        <4> QED  BY <2>1, <4>1 DEF UpdateWindow, Windows
      <3> QED  BY <2>3, <3>1, <3>2, <3>3 DEF Remembered
    <2>4. CASE config' # config /\ config'.status = "broken"
      <3>1. overlap
        BY <2>1, <2>4, OverwrittenIs DEF IInv, Alone
      <3> QED  BY <1>0, <2>4, <3>1 DEF Remembered
    <2>5. doc[a] \in Seq(Tool)
      BY <1>0
    <2> QED  BY <2>1, <2>2, <2>3, <2>4, <2>5, OverwrittenTypes, OverwrittenIs
             DEF IInv, AddTypeOK, TypeOK
  <1>9. CASE WriteAdded(a) /\ Goes(a, "unwritten")
    <2>1. CutShort' /\ config' \in CutOff(doc[a]) /\ UNCHANGED doc
      BY <1>1, <1>9 DEF CutShort, WriteFailed, WriteAdded
    <2>2. CASE config' = config
      BY <1>2, <1>9, <2>1, <2>2
    <2>3. CASE config' # config
      <3>1. config'.status \in {"whole", "broken"}
        BY <2>1, <2>3 DEF CutOff, Whole, File
      <3> QED  BY <2>1, <3>1 DEF Remembered, AddNext
    <2> QED  BY <2>2, <2>3
  <1>10. WriteAdded(a) => Goes(a, "added") \/ Goes(a, "unwritten")
    BY DEF WriteAdded
  <1> QED  BY <1>3, <1>4, <1>6, <1>7, <1>8, <1>9, <1>10 DEF AddStep

LEMMA RememberedInductive == IInv /\ Remembered /\ [AddNext]_addVars => Remembered'
  <1>1. ASSUME IInv, Remembered, UNCHANGED addVars  PROVE Remembered'
    BY <1>1 DEF addVars, vars, patching, fetching, adding, Remembered, Spares, StartsWith,
       CutShort, Killed, WriteFailed, NameOf
  <1>2. ASSUME IInv, Remembered, AddNext  PROVE Remembered'
    BY <1>2, RememberedNext, RememberedAddStep DEF AddNext
  <1> QED  BY <1>1, <1>2

\* What somebody wrote before a command read the file is in what the command writes, for any
\* number of adds, edits and tools: an update changes the pins of its own tools alone, and
\* an add nothing (yamlpatch.Write, which reads the file again; updateLockYamlPatcher).
THEOREM OthersEditsKept == AddSpec => EditsOfOthersSurvive
  <1>1. ASSUME IInv, Remembered, [AddNext]_addVars, ~overlap', ~CutShort',
               NEW i \in DOMAIN prior
        PROVE  /\ (/\ cmd = "write" /\ cmd' = "written"
                   /\ \A w \in Worker : NameOf(w) # prior[i].name) =>
                     i \in DOMAIN config'.tools /\ config'.tools[i] = prior[i]
               /\ \A a \in Adder : (step[a] = "write" /\ step'[a] = "added") =>
                     i \in DOMAIN config'.tools /\ config'.tools[i] = prior[i]
    <2>1. ASSUME cmd = "write", cmd' = "written", \A w \in Worker : NameOf(w) # prior[i].name
          PROVE  i \in DOMAIN config'.tools /\ config'.tools[i] = prior[i]
      <3>1. AddNext
        BY <1>1, <2>1 DEF addVars, vars
      <3>2. Next /\ UNCHANGED adding /\ ~overlap /\ ~CutShort
        BY <1>1, <2>1, <3>1, CutShortStays DEF AddNext, IInv
      <3>3. config' \in Overwritten(contents)
        BY <2>1, <3>2 DEF Next, Main, Go, LoopEnds, WaitReturns, ReadConfig, PatchAndTruncate,
           WriteConfig, Kill, Edit, Goroutine, OwnStep, GetUpdatedToolVersion, LockLists,
           StopInside, Collect
      <3>4. config'.tools = contents
        BY <1>1, <2>1, <3>2, <3>3, OverwrittenIs DEF IInv, Alone
      <3>5. Spares(contents, prior)
        BY <1>1, <2>1, <3>2 DEF Remembered
      <3> QED  BY <1>1, <2>1, <3>4, <3>5 DEF Spares
    <2>2. ASSUME NEW a \in Adder, step[a] = "write", step'[a] = "added"
          PROVE  i \in DOMAIN config'.tools /\ config'.tools[i] = prior[i]
      <3>1. AddNext
        BY <1>1, <2>2 DEF addVars, adding
      <3>2. PICK b \in Adder : AddStep(b) /\ ~overlap /\ ~CutShort
        BY <1>1, <2>2, <3>1, CutShortStays DEF AddNext, IInv, adding
      <3>3. b = a
        BY <1>1, <2>2, <3>2 DEF IInv, AddTypeOK, AddStep, Load, Stat, Create, ReadToAppend,
           AppendAndTruncate, WriteAdded, KillAdd, FailsBefore, Goes
      <3>4. WriteAdded(a)
        <4>1. AddStep(a)
          BY <3>2, <3>3
        <4>2. ~KillAdd(a)
          BY <1>1, <2>2 DEF IInv, AddTypeOK, KillAdd, Goes
        <4> QED  BY <2>2, <4>1, <4>2 DEF AddStep, Load, Stat, Create, ReadToAppend, AppendAndTruncate
      <3>5. config' \in Overwritten(doc[a])
        <4>1. step'[a] # "unwritten" /\ step \in [Adder -> Steps]
          BY <1>1, <2>2 DEF IInv, AddTypeOK
        <4> QED  BY <3>4, <4>1 DEF WriteAdded, Goes
      <3>6. config'.tools = doc[a]
        BY <1>1, <2>2, <3>2, <3>5, OverwrittenIs DEF IInv, Alone
      <3>7. StartsWith(doc[a], prior)
        BY <1>1, <2>2, <3>2 DEF Remembered
      <3> QED  BY <1>1, <3>6, <3>7 DEF StartsWith
    <2> QED  BY <2>1, <2>2
  <1>2. IInv /\ Remembered /\ [AddNext]_addVars =>
           [ (~overlap' /\ ~CutShort') =>
               \A i \in DOMAIN prior :
                 /\ (/\ cmd = "write" /\ cmd' = "written"
                     /\ \A w \in Worker : NameOf(w) # prior[i].name) =>
                       i \in DOMAIN config'.tools /\ config'.tools[i] = prior[i]
                 /\ \A a \in Adder : (step[a] = "write" /\ step'[a] = "added") =>
                       i \in DOMAIN config'.tools /\ config'.tools[i] = prior[i] ]_addVars
    BY <1>1
  <1> QED  BY Invariance, RememberedInitially, RememberedInductive, <1>2, PTL
           DEF AddSpec, EditsOfOthersSurvive

=============================================================================
