------------------------------- MODULE Store -------------------------------
(***************************************************************************)
(* The tool store of store.go: the binaries under the store root, the      *)
(* state file .binny.state.json and the Store value that the goroutines of *)
(* `binny install` share.                                                  *)
(*                                                                         *)
(* A worker is one goroutine of errgroup; it calls AddTool for one tool.   *)
(* AddTool holds no lock of its own: it takes the store's RWMutex for      *)
(* reading inside loadState and for writing inside saveState, and between  *)
(* the two it reads and writes s.entries bare.  One action stands for each *)
(* stretch of AddTool that touches state other workers see.                *)
(***************************************************************************)
EXTENDS StoreEntries, Integers

CONSTANTS
    Worker,    \* goroutines of one `binny install`, one for each tool asked for
    NoOne,     \* the holder of a lock that is free
    NoVersion, \* the version of a worker that was given none yet
    ToolOf,    \* the tool each worker installs
    VersionsOf,\* the versions its resolver may give
    Prior,     \* the stores earlier commands left: [file |-> ..., bin |-> ...]
    Limit,     \* errgroup.SetLimit: calls of AddTool that run at once
    MaxFaults  \* bound on crashes and failed system calls

StateFile == [status : {"absent", "torn", "whole"}, entries : Seq(Entry)]

ASSUME SpecialValues ==
    /\ Foreign \notin Version /\ NoVersion \notin Version
    /\ NoBin \notin Content /\ NoOne \notin Worker
ASSUME ParameterTypes ==
    /\ ToolOf \in [Worker -> Tool] /\ VersionsOf \in [Worker -> SUBSET Version]
    /\ Limit \in Nat \ {0} /\ MaxFaults \in Nat
ASSUME PriorIsHonest ==
    \A p \in Prior : /\ p.file \in StateFile /\ p.bin \in [Tool -> Content \cup {NoBin}]
                     /\ p.file.status # "torn" /\ Honest(p.file.entries)
                     /\ p.file.status = "absent" => p.file.entries = <<>>

VARIABLES
    up,        \* the process runs and NewStore returned no error
    mem,       \* Store.entries: the slice shared by every worker
    alias,     \* workers whose saveState receiver shares the array behind mem
    snap,      \* the entries in a worker's copy of the Store (saveState's receiver)
    holder,    \* the worker that holds Store.lock for writing
    file,      \* .binny.state.json
    bin,       \* the content at root/toolName
    pc,        \* where in AddTool a worker is
    req,       \* AddTool's resolvedVersion; it stays after the call
    idx,       \* the index the range over s.entries stopped at, 0 if at none
    outcome,   \* what AddTool returned to the worker
    faults     \* crashes, panics, failed system calls, calls of another process so far

disk == <<file, bin>>
vars == <<up, mem, alias, snap, holder, file, bin, pc, req, idx, outcome, faults>>

Steps == {"idle", "load", "move", "scan", "put", "receiver", "open", "write"}
InAddTool(w) == pc[w] # "idle"

TypeOK ==
    /\ up \in BOOLEAN
    /\ mem \in Seq(Entry)
    /\ alias \subseteq Worker
    /\ snap \in [Worker -> Seq(Entry)]
    /\ holder \in Worker \cup {NoOne}
    /\ file \in StateFile
    /\ bin \in [Tool -> Content \cup {NoBin}]
    /\ pc \in [Worker -> Steps]
    /\ req \in [Worker -> Version \cup {NoVersion}]
    /\ idx \in [Worker -> Nat]
    /\ outcome \in [Worker -> {"none", "ok", "badState", "failed"}]
    /\ faults \in Nat

---------------------------------------------------------------------------
(* What saveState writes.                                                  *)

\* what is left of entries when only the positions in keep are kept, in order:
\* the set of the (one) sequence that an increasing enumeration of keep gives
Kept(entries, keep) ==
    LET enum == {f \in [1..Cardinality(keep) -> keep] :
                    \A i, j \in DOMAIN f : i < j => f[i] < f[j]}
    IN  {[k \in 1..Cardinality(keep) |-> entries[f[k]]] : f \in enum}

\* the positions whose binary os.Stat finds
OnDisk(entries, bins) == {i \in DOMAIN entries : bins[entries[i].name] # NoBin}

---------------------------------------------------------------------------
(* AddTool.                                                                *)

\* A bug: the entry of a version that was not resolved.
NewEntryUnresolved(w) == [name |-> ToolOf[w], version |-> NoVersion, digest |-> req[w]]

NewEntry(w) == [name |-> ToolOf[w], version |-> req[w], digest |-> req[w]]

Goto(w, step) == pc' = [pc EXCEPT ![w] = step]

\* AddTool returns; its locals are gone
Return(w, result) ==
    /\ Goto(w, "idle")
    /\ outcome' = [outcome EXCEPT ![w] = result]
    /\ idx' = [idx EXCEPT ![w] = 0]

Fault == faults < MaxFaults /\ faults' = faults + 1

AddTool(w, version) ==
    /\ up /\ pc[w] = "idle" /\ outcome[w] = "none" /\ version \in VersionsOf[w]
    /\ Cardinality({x \in Worker : InAddTool(x)}) < Limit
    /\ Goto(w, "load")
    /\ req' = [req EXCEPT ![w] = version]
    /\ UNCHANGED <<up, mem, alias, snap, holder, disk, idx, outcome, faults>>

\* A bug: a state file that does not decode is taken for a missing one.
LoadStateForgiving(w) ==
    /\ pc[w] = "load" /\ holder = NoOne
    /\ Goto(w, "move")
    /\ IF file.status = "whole" THEN mem' = file.entries /\ alias' = {}
       ELSE UNCHANGED <<mem, alias>>
    /\ UNCHANGED <<up, snap, holder, disk, req, idx, outcome, faults>>

\* loadState: a missing file leaves the entries as they are, a torn one fails to decode,
\* a whole one replaces the slice every worker sees; Open or a read may fail.  It is one
\* step because RLock keeps the saves of this process out (StoreShared has the reads that
\* another process writes into).
LoadState(w) ==
    /\ pc[w] = "load" /\ holder = NoOne
    /\ \/ file.status = "absent" /\ Goto(w, "move")
          /\ UNCHANGED <<mem, alias, idx, outcome, faults>>
       \/ file.status = "torn" /\ Return(w, "badState") /\ UNCHANGED <<mem, alias, faults>>
       \/ file.status = "whole" /\ Goto(w, "move")
          /\ mem' = file.entries /\ alias' = {} /\ UNCHANGED <<idx, outcome, faults>>
       \/ file.status # "absent" /\ Fault /\ Return(w, "failed") /\ UNCHANGED <<mem, alias>>
    /\ UNCHANGED <<up, snap, holder, disk, req>>

\* A bug: a binary that is in place is not replaced.
MoveBinaryKeepsOld(w) ==
    /\ pc[w] = "move"
    /\ bin' = [bin EXCEPT ![ToolOf[w]] = IF @ = NoBin THEN req[w] ELSE @]
    /\ Goto(w, "scan")
    /\ UNCHANGED <<up, mem, alias, snap, holder, file, req, idx, outcome, faults>>

\* MkdirAll, the digests of the staged binary, Rename onto root/toolName, Chmod.
\* Any of them may fail; when it is Chmod the old binary is already replaced.
MoveBinary(w) ==
    /\ pc[w] = "move"
    /\ \/ /\ bin' = [bin EXCEPT ![ToolOf[w]] = req[w]]
          /\ Goto(w, "scan") /\ UNCHANGED <<idx, outcome, faults>>
       \/ UNCHANGED bin /\ Fault /\ Return(w, "failed")
       \/ /\ bin' = [bin EXCEPT ![ToolOf[w]] = req[w]]
          /\ Fault /\ Return(w, "failed")
    /\ UNCHANGED <<up, mem, alias, snap, holder, file, req>>

\* A bug: the range starts at the second entry.
ScanEntriesFromSecond(w) ==
    /\ pc[w] = "scan"
    /\ LET named == Named(mem, ToolOf[w]) \ {1}
       IN  \E i \in named \cup {0} :
              /\ i = 0 <=> named = {}
              /\ \A j \in named : i <= j
              /\ idx' = [idx EXCEPT ![w] = i]
    /\ Goto(w, "put")
    /\ UNCHANGED <<up, mem, alias, snap, holder, disk, req, outcome, faults>>

\* the range over s.entries, up to the first entry with the tool's name
ScanEntries(w) ==
    /\ pc[w] = "scan"
    /\ LET named == Named(mem, ToolOf[w])
       IN  \E i \in named \cup {0} :
              /\ i = 0 <=> named = {}
              /\ \A j \in named : i <= j
              /\ idx' = [idx EXCEPT ![w] = i]
    /\ Goto(w, "put")
    /\ UNCHANGED <<up, mem, alias, snap, holder, disk, req, outcome, faults>>

\* A bug: the new entry is the only one.
AppendEntryAlone(w) ==
    /\ pc[w] = "put" /\ idx[w] = 0
    /\ mem' = <<NewEntry(w)>> /\ alias' = {}
    /\ Goto(w, "receiver")
    /\ UNCHANGED <<up, snap, holder, disk, req, idx, outcome, faults>>

\* s.entries = append(...): a full array is copied, and then no receiver shares it
AppendEntry(w) ==
    /\ pc[w] = "put" /\ idx[w] = 0
    /\ mem' = Append(mem, NewEntry(w))
    /\ alias' \in {alias, {}}
    /\ Goto(w, "receiver")
    /\ UNCHANGED <<up, snap, holder, disk, req, idx, outcome, faults>>

\* s.entries[i] = fileInfo, at the index found earlier in what s.entries is now;
\* receivers that share the array see the store too
ReplaceEntry(w) ==
    /\ pc[w] = "put" /\ idx[w] \in DOMAIN mem
    /\ mem' = [mem EXCEPT ![idx[w]] = NewEntry(w)]
    /\ snap' = [x \in Worker |->
                  IF x \in alias /\ idx[w] \in DOMAIN snap[x]
                  THEN [snap[x] EXCEPT ![idx[w]] = NewEntry(w)] ELSE snap[x]]
    /\ Goto(w, "receiver")
    /\ UNCHANGED <<up, alias, holder, disk, req, idx, outcome, faults>>

\* the call of saveState copies the Store into its value receiver before it locks
CopyReceiver(w) ==
    /\ pc[w] = "receiver"
    /\ snap' = [snap EXCEPT ![w] = mem]
    /\ alias' = alias \cup {w}
    /\ Goto(w, "open")
    /\ UNCHANGED <<up, mem, holder, disk, req, idx, outcome, faults>>

DropReceiver(w) ==
    /\ snap' = [snap EXCEPT ![w] = <<>>]
    /\ alias' = alias \ {w}

\* A bug: the receiver's copy of the lock is locked, not the lock.
OpenStateFileCopiedLock(w) ==
    /\ pc[w] = "open"
    /\ file' = [status |-> "torn", entries |-> <<>>]
    /\ Goto(w, "write")
    /\ UNCHANGED <<up, mem, alias, snap, holder, bin, req, idx, outcome, faults>>

\* saveState: Lock, then OpenFile with O_TRUNC
OpenStateFile(w) ==
    /\ pc[w] = "open" /\ holder = NoOne
    /\ \/ /\ holder' = w
          /\ file' = [status |-> "torn", entries |-> <<>>]
          /\ Goto(w, "write")
          /\ UNCHANGED <<alias, snap, idx, outcome, faults>>
       \/ /\ Fault /\ Return(w, "failed") /\ DropReceiver(w)
          /\ UNCHANGED <<holder, file>>
    /\ UNCHANGED <<up, mem, bin, req>>

\* A bug: the lock is not given back when the encoder fails.
WriteStateFileKeepsLock(w) ==
    /\ pc[w] = "write"
    /\ \/ /\ \E kept \in Kept(snap[w], OnDisk(snap[w], bin)) :
                file' = [status |-> "whole", entries |-> kept]
          /\ Return(w, "ok") /\ holder' = NoOne /\ UNCHANGED faults
       \/ Fault /\ Return(w, "failed") /\ UNCHANGED <<file, holder>>
    /\ DropReceiver(w)
    /\ UNCHANGED <<up, mem, bin, req>>

\* A bug: the digests are not kept but taken again of what is in place.
WriteStateFileRehashed(w) ==
    /\ pc[w] = "write"
    /\ \/ /\ \E kept \in Kept(snap[w], OnDisk(snap[w], bin)) :
                file' = [status |-> "whole",
                         entries |-> [i \in DOMAIN kept |->
                                        [kept[i] EXCEPT !.digest = bin[kept[i].name]]]]
          /\ Return(w, "ok") /\ UNCHANGED faults
       \/ Fault /\ Return(w, "failed") /\ UNCHANGED file
    /\ holder' = NoOne
    /\ DropReceiver(w)
    /\ UNCHANGED <<up, mem, bin, req>>

\* saveState: encode the receiver's entries whose binary exists, close, Unlock
WriteStateFile(w) ==
    /\ pc[w] = "write"
    /\ \/ /\ \E kept \in Kept(snap[w], OnDisk(snap[w], bin)) :
                file' = [status |-> "whole", entries |-> kept]
          /\ Return(w, "ok") /\ UNCHANGED faults
       \/ Fault /\ Return(w, "failed") /\ UNCHANGED file
    /\ holder' = NoOne
    /\ DropReceiver(w)
    /\ UNCHANGED <<up, mem, bin, req>>

---------------------------------------------------------------------------
(* The process.                                                            *)

\* The process ends and takes everything in memory with it.
Die ==
    /\ up' = FALSE /\ mem' = <<>> /\ alias' = {} /\ holder' = NoOne
    /\ snap' = [w \in Worker |-> <<>>]
    /\ pc' = [w \in Worker |-> "idle"]
    /\ idx' = [w \in Worker |-> 0]
    /\ req' = [w \in Worker |-> NoVersion]
    /\ outcome' = [w \in Worker |-> "none"]
    /\ UNCHANGED disk

\* a kill, or a power cut
Crash == up /\ Die /\ Fault

\* s.entries[i] past the end of a slice that was replaced since the range: a panic
Panic(w) ==
    /\ pc[w] = "put" /\ idx[w] > Len(mem)
    /\ Die /\ faults' = faults + 1

\* the command ends when the goroutines it started have returned
Exit ==
    /\ up /\ \A w \in Worker : ~InAddTool(w)
    /\ Die /\ UNCHANGED faults

\* The next command creates its Store; on a torn state file it fails instead.
NewStore ==
    /\ ~up /\ file.status # "torn"
    /\ up' = TRUE
    /\ mem' = file.entries
    /\ UNCHANGED <<alias, snap, holder, disk, pc, req, idx, outcome, faults>>

Init ==
    /\ \E p \in Prior : file = p.file /\ bin = p.bin
    /\ up = FALSE /\ mem = <<>> /\ alias = {} /\ holder = NoOne
    /\ snap = [w \in Worker |-> <<>>]
    /\ pc = [w \in Worker |-> "idle"]
    /\ req = [w \in Worker |-> NoVersion]
    /\ idx = [w \in Worker |-> 0]
    /\ outcome = [w \in Worker |-> "none"]
    /\ faults = 0

AddToolStep(w) ==
    \/ LoadState(w) \/ MoveBinary(w) \/ ScanEntries(w) \/ AppendEntry(w)
    \/ ReplaceEntry(w) \/ CopyReceiver(w) \/ OpenStateFile(w) \/ WriteStateFile(w)

Next ==
    \/ NewStore \/ Exit \/ Crash
    \/ \E w \in Worker : AddToolStep(w) \/ Panic(w) \/ \E v \in Version : AddTool(w, v)

Spec == Init /\ [][Next]_vars

---------------------------------------------------------------------------
(* Properties.                                                             *)

\* saveState's critical section: the write lock is held by the one worker that
\* has truncated the file, and by nobody after a failure, a panic or a crash.
LockDiscipline == \A w \in Worker : pc[w] = "write" <=> holder = w

\* Verification can be trusted: whatever races, failures and crashes happen,
\* every entry - in memory, in a pending save, in the file - has the digest of
\* the very version it names (AddTool hashes the staged file before the rename).
EntriesHonest ==
    /\ Honest(mem) /\ Honest(file.entries)
    /\ \A w \in Worker : Honest(snap[w])

\* So a check that passes means the binary at the path is the version asked for,
\* even for a store a crash left between the rename and the save (tool.Check).
CheckIsSound ==
    \A t \in Tool, v \in Version :
        Check(mem, bin, t, v) \/ Check(file.entries, bin, t, v) => bin[t] = v

\* The RWMutex of Store: the file is half written only under the write lock or
\* after a crash or an I/O failure, so a worker never decodes a sibling's
\* half-written file.
TornHasCause ==
    /\ file.status = "torn" /\ faults = 0 => holder # NoOne
    /\ faults = 0 => \A w \in Worker : outcome[w] # "badState"

TornForGood == file.status = "torn" /\ \A w \in Worker : pc[w] \in {"idle", "load"}

\* Once the file is torn and nobody is past loadState, nobody ever is again: each call
\* of AddTool and each later command fails to decode the file, and none makes it whole.
TornIsForever == [][TornForGood => TornForGood']_vars

\* A tool AddTool returned nil for is the binary on disk, and stays it while no
\* other worker installs a tool of the same name.
AddedIsOnDisk ==
    \A w \in Worker :
        (outcome[w] = "ok" /\ \A x \in Worker \ {w} : ToolOf[x] # ToolOf[w])
            => bin[ToolOf[w]] = req[w]

\* The promise of `binny install` (README.md:53): a tool whose AddTool returned
\* nil is recorded, at its version, once no worker is in AddTool (unless a save
\* failed half way and took the whole file with it).
AddedIsRecorded ==
    (file.status # "torn" /\ \A w \in Worker : ~InAddTool(w)) =>
        \A w \in Worker : outcome[w] = "ok" =>
            Check(file.entries, bin, ToolOf[w], req[w])

=============================================================================
