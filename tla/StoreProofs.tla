---------------------------- MODULE StoreProofs ----------------------------
(***************************************************************************)
(* Theorems about Store for every set of workers, tools and versions, any  *)
(* limit on goroutines and any number of crashes and failed system calls.  *)
(***************************************************************************)
EXTENDS StoreShared, StoreSequential, FiniteSetTheorems, SequenceTheorems,
        WellFoundedInduction, TLAPS

---------------------------------------------------------------------------
(* Lemmas about the entries.                                               *)

\* What saveState keeps of a sequence of entries is a sequence of its entries.
LEMMA KeptIsPart ==
    ASSUME NEW entries \in Seq(Entry), NEW keep \in SUBSET (DOMAIN entries),
           NEW kept \in Kept(entries, keep)
    PROVE  /\ kept \in Seq(Entry)
           /\ Honest(entries) => Honest(kept)
<1>1. PICK f \in [1..Cardinality(keep) -> keep] :
         kept = [k \in 1..Cardinality(keep) |-> entries[f[k]]]
  BY DEF Kept
<1>2. DOMAIN entries = 1..Len(entries) /\ Len(entries) \in Nat
  BY LenProperties
<1>3. IsFiniteSet(keep)
  <2>1. IsFiniteSet(1..Len(entries))
    BY <1>2, FS_Interval
  <2>2. keep \subseteq 1..Len(entries)
    BY <1>2
  <2> QED  BY <2>1, <2>2, FS_Subset
<1>4. Cardinality(keep) \in Nat
  BY <1>3, FS_CardinalityType
<1>5. \A k \in 1..Cardinality(keep) : f[k] \in DOMAIN entries /\ entries[f[k]] \in Entry
  BY <1>2, ElementOfSeq
<1>6. kept \in [1..Cardinality(keep) -> Entry]
  BY <1>1, <1>5
<1>7. kept \in Seq(Entry)
  BY <1>4, <1>6, SeqDef
<1>8. Honest(entries) => Honest(kept)
  BY <1>1, <1>5 DEF Honest
<1> QED  BY <1>7, <1>8

\* An entry that is put among others, and the honesty of all if it is honest.
LEMMA HonestEntry ==
    ASSUME NEW entries \in Seq(Entry), NEW e \in Entry, e.digest = e.version
    PROVE  /\ Append(entries, e) \in Seq(Entry)
           /\ Honest(entries) => Honest(Append(entries, e))
           /\ \A i \in DOMAIN entries :
                 /\ [entries EXCEPT ![i] = e] \in Seq(Entry)
                 /\ Honest(entries) => Honest([entries EXCEPT ![i] = e])
<1>1. DOMAIN entries = 1..Len(entries) /\ Len(entries) \in Nat
  BY LenProperties
<1>2. Append(entries, e) \in Seq(Entry) /\ (Honest(entries) => Honest(Append(entries, e)))
  BY <1>1, AppendProperties DEF Honest
<1>3. ASSUME NEW i \in DOMAIN entries
      PROVE  /\ [entries EXCEPT ![i] = e] \in Seq(Entry)
             /\ Honest(entries) => Honest([entries EXCEPT ![i] = e])
  BY <1>1, ExceptSeq DEF Honest
<1> QED  BY <1>2, <1>3

\* On honest entries a check that passes tells the version of the binary.
LEMMA CheckTellsVersion ==
    ASSUME NEW entries \in Seq(Entry), Honest(entries), NEW bins,
           NEW t \in Tool, NEW v \in Version, Check(entries, bins, t, v)
    PROVE  bins[t] = v
<1>1. Cardinality(NamedAt(entries, t, v)) = 1
  BY DEF Check, GetResult
<1>2. PICK i \in NamedAt(entries, t, v) : TRUE
  <2>1. Cardinality({}) = 0
    BY FS_EmptySet
  <2>2. ASSUME NamedAt(entries, t, v) = {} PROVE FALSE
    <3>1. Cardinality(NamedAt(entries, t, v)) = 0
      BY <2>1, <2>2, Zenon
    <3> QED  BY <1>1, <3>1
  <2> QED  BY <2>2
<1>3. i \in DOMAIN entries /\ entries[i].name = t /\ entries[i].version = v
  BY <1>2 DEF NamedAt, Named
<1>4. bins[entries[i].name] = entries[i].digest
  BY <1>2 DEF Check, Verify
<1> QED  BY <1>3, <1>4 DEF Honest

---------------------------------------------------------------------------
(* The inductive invariant.                                                *)

\* A worker inside AddTool was given a version.
Given == \A w \in Worker : pc[w] # "idle" => req[w] \in Version

\* What holds even of entries that are not honest (of two processes, see below).  One half
\* of TornHasCause needs the other, and both need the lock.
Safe == TypeOK /\ Given /\ LockDiscipline /\ TornHasCause

IInv == Safe /\ EntriesHonest

\* What a step of the code does to the honesty of entries.
StaysHonest == EntriesHonest => EntriesHonest'

LEMMA InitIInv == Init => IInv
<1> SUFFICES ASSUME Init PROVE IInv
  OBVIOUS
<1> PICK p \in Prior : file = p.file /\ bin = p.bin
  BY DEF Init
<1>1. /\ file \in StateFile /\ bin \in [Tool -> Content \cup {NoBin}]
      /\ file.status # "torn" /\ Honest(file.entries)
  BY PriorIsHonest
<1>2. <<>> \in Seq(Entry) /\ Honest(<<>>)
  BY EmptySeq DEF Honest
<1>3. TypeOK
  BY <1>1, <1>2 DEF Init, TypeOK, Steps
<1>4. EntriesHonest
  BY <1>1, <1>2 DEF Init, EntriesHonest
<1>5. Given /\ LockDiscipline
  BY SpecialValues DEF Init, Given, LockDiscipline
<1>6. TornHasCause
  BY <1>1 DEF Init, TornHasCause
<1> QED  BY <1>3, <1>4, <1>5, <1>6 DEF IInv, Safe

\* the entry a worker inside AddTool adds
LEMMA NewEntryHonest ==
    ASSUME NEW w \in Worker, Safe, pc[w] # "idle"
    PROVE  NewEntry(w) \in Entry /\ NewEntry(w).digest = NewEntry(w).version
BY ParameterTypes DEF Safe, Given, NewEntry, Entry, Content

LEMMA DieKeepsSafe ==
    ASSUME Safe, Die, faults' \in Nat, up' \in BOOLEAN,
           file.status = "torn" /\ holder # NoOne => faults' # 0,
           faults' = 0 => faults = 0
    PROVE  Safe' /\ StaysHonest
<1>1. <<>> \in Seq(Entry) /\ Honest(<<>>)
  BY EmptySeq DEF Honest
<1>2. TypeOK'
  BY <1>1 DEF Safe, TypeOK, Die, disk, Steps
<1>3. StaysHonest
  BY <1>1 DEF StaysHonest, EntriesHonest, Die, disk
<1>4. Given' /\ LockDiscipline'
  BY SpecialValues DEF Die, Given, LockDiscipline
<1>5. TornHasCause'
  BY DEF Safe, TornHasCause, Die, disk
<1> QED  BY <1>2, <1>3, <1>4, <1>5 DEF Safe

\* AddTool goes on to another step, or returns.
LEMMA ControlTypes ==
    ASSUME TypeOK, NEW w \in Worker
    PROVE  /\ \A step \in Steps : Goto(w, step) => pc' \in [Worker -> Steps]
           /\ \A result \in {"none", "ok", "badState", "failed"} :
                 Return(w, result) =>
                   /\ pc' \in [Worker -> Steps] /\ idx' \in [Worker -> Nat]
                   /\ outcome' \in [Worker -> {"none", "ok", "badState", "failed"}]
<1>1. /\ pc \in [Worker -> Steps] /\ idx \in [Worker -> Nat]
      /\ outcome \in [Worker -> {"none", "ok", "badState", "failed"}]
  BY DEF TypeOK
<1>2. ASSUME NEW step \in Steps, Goto(w, step) PROVE pc' \in [Worker -> Steps]
  BY <1>1, <1>2 DEF Goto
<1>3. ASSUME NEW result \in {"none", "ok", "badState", "failed"}, Return(w, result)
      PROVE  /\ pc' \in [Worker -> Steps] /\ idx' \in [Worker -> Nat]
             /\ outcome' \in [Worker -> {"none", "ok", "badState", "failed"}]
  <2>1. Goto(w, "idle") /\ "idle" \in Steps
    BY <1>3 DEF Return, Steps
  <2>2. pc' \in [Worker -> Steps]
    BY <1>2, <2>1
  <2>3. idx' \in [Worker -> Nat]
    BY <1>1, <1>3 DEF Return
  <2>4. outcome' \in [Worker -> {"none", "ok", "badState", "failed"}]
    BY <1>1, <1>3 DEF Return
  <2> QED  BY <2>2, <2>3, <2>4
<1> QED  BY <1>2, <1>3

LEMMA NextSafe == Safe /\ [Next]_vars => Safe' /\ StaysHonest
<1> SUFFICES ASSUME Safe, [Next]_vars PROVE Safe' /\ StaysHonest
  OBVIOUS
<1> USE DEF Safe, StaysHonest
<1>1. ASSUME NEW w \in Worker, NEW v \in Version, AddTool(w, v) PROVE Safe' /\ StaysHonest
  <2>1. TypeOK'
    BY <1>1 DEF TypeOK, AddTool, Goto, disk, Steps
  <2>2. StaysHonest
    BY <1>1 DEF EntriesHonest, AddTool, disk
  <2>3. Given' /\ LockDiscipline' /\ TornHasCause'
    BY <1>1 DEF TypeOK, Given, LockDiscipline, TornHasCause, AddTool, Goto, disk
  <2> QED  BY <2>1, <2>2, <2>3
<1>2. ASSUME NEW w \in Worker, LoadState(w) PROVE Safe' /\ StaysHonest
  <2>1. /\ mem' \in Seq(Entry) /\ alias' \subseteq Worker
        /\ pc' \in [Worker -> Steps] /\ idx' \in [Worker -> Nat]
        /\ outcome' \in [Worker -> {"none", "ok", "badState", "failed"}]
    <3>2. ASSUME NEW result \in {"badState", "failed"},
                 Return(w, result), UNCHANGED <<mem, alias>>
          PROVE  /\ mem' \in Seq(Entry) /\ alias' \subseteq Worker
                 /\ pc' \in [Worker -> Steps] /\ idx' \in [Worker -> Nat]
                 /\ outcome' \in [Worker -> {"none", "ok", "badState", "failed"}]
      BY <3>2, ControlTypes DEF TypeOK
    <3>3. CASE file.status = "whole" /\ Goto(w, "move")
               /\ mem' = file.entries /\ alias' = {} /\ UNCHANGED <<idx, outcome, faults>>
      BY <3>3, ControlTypes DEF TypeOK, StateFile, Steps
    <3>4. CASE file.status = "absent" /\ Goto(w, "move")
               /\ UNCHANGED <<mem, alias, idx, outcome, faults>>
      BY <3>4, ControlTypes DEF TypeOK, Steps
    <3> QED  BY <1>2, <3>2, <3>3, <3>4 DEF LoadState
  <2>1b. faults' \in Nat /\ (faults' = 0 => faults = 0)
    BY <1>2 DEF LoadState, Fault, TypeOK
  <2>1a. TypeOK'
    BY <1>2, <2>1, <2>1b DEF TypeOK, LoadState, disk
  <2>2. StaysHonest
    BY <1>2 DEF EntriesHonest, LoadState, disk
  <2>3. Given' /\ LockDiscipline'
    BY <1>2, SpecialValues
    DEF TypeOK, Given, LockDiscipline, LoadState, Goto, Return, disk
  <2>4. TornHasCause'
    BY <1>2, <2>1b DEF TypeOK, TornHasCause, LoadState, Goto, Return, disk, Fault
  <2> QED  BY <2>1a, <2>2, <2>3, <2>4
<1>3. ASSUME NEW w \in Worker, MoveBinary(w) PROVE Safe' /\ StaysHonest
  <2>1. ToolOf[w] \in Tool /\ req[w] \in Content
    BY <1>3, ParameterTypes DEF Given, MoveBinary, Content
  <2>1a. bin' \in [Tool -> Content \cup {NoBin}]
    BY <1>3, <2>1 DEF TypeOK, MoveBinary
  <2>1b. /\ pc' \in [Worker -> Steps] /\ idx' \in [Worker -> Nat]
         /\ outcome' \in [Worker -> {"none", "ok", "badState", "failed"}]
         /\ faults' \in Nat
    <3>1. CASE Goto(w, "scan") /\ UNCHANGED <<idx, outcome, faults>>
      BY <3>1, ControlTypes DEF TypeOK, Steps
    <3>2. CASE Fault /\ Return(w, "failed")
      BY <3>2, ControlTypes DEF TypeOK, Fault
    <3> QED  BY <1>3, <3>1, <3>2 DEF MoveBinary
  <2>1c. TypeOK'
    BY <1>3, <2>1a, <2>1b DEF TypeOK, MoveBinary
  <2>2. StaysHonest
    BY <1>3 DEF EntriesHonest, MoveBinary
  <2>3. Given' /\ LockDiscipline'
    BY <1>3 DEF TypeOK, Given, LockDiscipline, MoveBinary, Goto, Return
  <2>4. TornHasCause'
    BY <1>3 DEF TypeOK, TornHasCause, MoveBinary, Goto, Return, Fault
  <2> QED  BY <2>1c, <2>2, <2>3, <2>4
<1>4. ASSUME NEW w \in Worker, ScanEntries(w) PROVE Safe' /\ StaysHonest
  <2>1. idx' \in [Worker -> Nat]
    <3>1. DOMAIN mem = 1..Len(mem) /\ Len(mem) \in Nat
      BY LenProperties DEF TypeOK
    <3>2. PICK i \in Named(mem, ToolOf[w]) \cup {0} : idx' = [idx EXCEPT ![w] = i]
      BY <1>4 DEF ScanEntries
    <3>3. i \in Nat
      BY <3>1 DEF Named
    <3> QED  BY <3>2, <3>3 DEF TypeOK
  <2>2. TypeOK'
    BY <1>4, <2>1 DEF TypeOK, ScanEntries, Goto, disk, Steps
  <2>3. StaysHonest
    BY <1>4 DEF EntriesHonest, ScanEntries, disk
  <2>4. Given' /\ LockDiscipline' /\ TornHasCause'
    BY <1>4 DEF TypeOK, Given, LockDiscipline, TornHasCause, ScanEntries, Goto, disk
  <2> QED  BY <2>2, <2>3, <2>4
<1>5. ASSUME NEW w \in Worker, AppendEntry(w) PROVE Safe' /\ StaysHonest
  <2>1. NewEntry(w) \in Entry /\ NewEntry(w).digest = NewEntry(w).version
    BY <1>5, NewEntryHonest DEF AppendEntry
  <2>2. mem' \in Seq(Entry) /\ (EntriesHonest => Honest(mem'))
    BY <1>5, <2>1, HonestEntry DEF AppendEntry, TypeOK, EntriesHonest
  <2>3. pc' \in [Worker -> Steps]
    BY <1>5, ControlTypes DEF AppendEntry, Steps
  <2>4. TypeOK'
    BY <1>5, <2>2, <2>3 DEF TypeOK, AppendEntry, disk
  <2>5. StaysHonest
    BY <1>5, <2>2 DEF EntriesHonest, AppendEntry, disk
  <2>6. Given' /\ LockDiscipline' /\ TornHasCause'
    BY <1>5 DEF TypeOK, Given, LockDiscipline, TornHasCause, AppendEntry, Goto, disk
  <2> QED  BY <2>4, <2>5, <2>6
<1>6. ASSUME NEW w \in Worker, ReplaceEntry(w) PROVE Safe' /\ StaysHonest
  <2>1. NewEntry(w) \in Entry /\ NewEntry(w).digest = NewEntry(w).version
    BY <1>6, NewEntryHonest DEF ReplaceEntry
  <2>2. mem' \in Seq(Entry) /\ (EntriesHonest => Honest(mem'))
    BY <1>6, <2>1, HonestEntry DEF ReplaceEntry, TypeOK, EntriesHonest
  <2>3. ASSUME NEW x \in Worker PROVE snap'[x] \in Seq(Entry) /\ (EntriesHonest => Honest(snap'[x]))
    <3>1. snap[x] \in Seq(Entry) /\ (EntriesHonest => Honest(snap[x]))
      BY DEF TypeOK, EntriesHonest
    <3>2. snap'[x] = IF x \in alias /\ idx[w] \in DOMAIN snap[x]
                     THEN [snap[x] EXCEPT ![idx[w]] = NewEntry(w)] ELSE snap[x]
      BY <1>6 DEF ReplaceEntry
    <3> QED  BY <2>1, <3>1, <3>2, HonestEntry
  <2>4. snap' \in [Worker -> Seq(Entry)]
    <3>1. DOMAIN snap' = Worker /\ snap' = [x \in Worker |-> snap'[x]]
      BY <1>6 DEF ReplaceEntry
    <3> QED  BY <2>3, <3>1
  <2>5. pc' \in [Worker -> Steps]
    BY <1>6, ControlTypes DEF ReplaceEntry, Steps
  <2>6. TypeOK'
    BY <1>6, <2>2, <2>4, <2>5 DEF TypeOK, ReplaceEntry, disk
  <2>7. StaysHonest
    BY <1>6, <2>2, <2>3 DEF EntriesHonest, ReplaceEntry, disk
  <2>8. Given' /\ LockDiscipline' /\ TornHasCause'
    BY <1>6 DEF TypeOK, Given, LockDiscipline, TornHasCause, ReplaceEntry, Goto, disk
  <2> QED  BY <2>6, <2>7, <2>8
<1>7. ASSUME NEW w \in Worker, CopyReceiver(w) PROVE Safe' /\ StaysHonest
  <2>1. pc' \in [Worker -> Steps]
    BY <1>7, ControlTypes DEF CopyReceiver, Steps
  <2>2. TypeOK'
    BY <1>7, <2>1 DEF TypeOK, CopyReceiver, disk
  <2>3. StaysHonest
    BY <1>7 DEF TypeOK, EntriesHonest, CopyReceiver, disk
  <2>4. Given' /\ LockDiscipline' /\ TornHasCause'
    BY <1>7 DEF TypeOK, Given, LockDiscipline, TornHasCause, CopyReceiver, Goto, disk
  <2> QED  BY <2>2, <2>3, <2>4
<1>8. ASSUME NEW w \in Worker, OpenStateFile(w) PROVE Safe' /\ StaysHonest
  <2>1. <<>> \in Seq(Entry) /\ Honest(<<>>)
    BY EmptySeq DEF Honest
  <2>2. CASE /\ holder' = w /\ file' = [status |-> "torn", entries |-> <<>>]
             /\ Goto(w, "write") /\ UNCHANGED <<alias, snap, idx, outcome, faults>>
    <3>1. file' \in StateFile /\ pc' \in [Worker -> Steps]
      BY <2>1, <2>2, ControlTypes DEF StateFile, Steps
    <3>2. TypeOK'
      BY <1>8, <2>2, <3>1 DEF TypeOK, OpenStateFile
    <3>3. StaysHonest
      BY <1>8, <2>1, <2>2 DEF EntriesHonest, OpenStateFile
    <3>4. Given' /\ LockDiscipline' /\ TornHasCause'
      BY <1>8, <2>2, SpecialValues
      DEF TypeOK, Given, LockDiscipline, TornHasCause, OpenStateFile, Goto
    <3> QED  BY <3>2, <3>3, <3>4
  <2>3. CASE Fault /\ Return(w, "failed") /\ DropReceiver(w) /\ UNCHANGED <<holder, file>>
    <3>1. TypeOK'
      BY <1>8, <2>1, <2>3, ControlTypes DEF TypeOK, OpenStateFile, DropReceiver, Fault
    <3>2. StaysHonest
      BY <1>8, <2>1, <2>3 DEF TypeOK, EntriesHonest, OpenStateFile, DropReceiver
    <3>3. Given' /\ LockDiscipline' /\ TornHasCause'
      BY <1>8, <2>3
      DEF TypeOK, Given, LockDiscipline, TornHasCause, OpenStateFile, Return, Goto, Fault
    <3> QED  BY <3>1, <3>2, <3>3
  <2> QED  BY <1>8, <2>2, <2>3 DEF OpenStateFile
<1>9. ASSUME NEW w \in Worker, WriteStateFile(w) PROVE Safe' /\ StaysHonest
  <2>1. <<>> \in Seq(Entry) /\ Honest(<<>>)
    BY EmptySeq DEF Honest
  <2>2. file' \in StateFile /\ (EntriesHonest => Honest(file'.entries))
    <3>1. CASE UNCHANGED file
      BY <3>1 DEF TypeOK, EntriesHonest
    <3>2. ASSUME NEW kept \in Kept(snap[w], OnDisk(snap[w], bin)),
                 file' = [status |-> "whole", entries |-> kept]
          PROVE  file' \in StateFile /\ (EntriesHonest => Honest(file'.entries))
      <4>1. OnDisk(snap[w], bin) \in SUBSET (DOMAIN snap[w])
        BY DEF OnDisk
      <4>2. kept \in Seq(Entry) /\ (EntriesHonest => Honest(kept))
        BY <4>1, KeptIsPart DEF TypeOK, EntriesHonest
      <4> QED  BY <3>2, <4>2 DEF StateFile
    <3> QED  BY <1>9, <3>1, <3>2 DEF WriteStateFile
  <2>3. faults' \in Nat /\ (faults' = 0 => faults = 0)
    BY <1>9 DEF WriteStateFile, Fault, TypeOK
  <2>4. PICK result \in {"ok", "failed"} : Return(w, result)
    BY <1>9 DEF WriteStateFile
  <2>5. TypeOK'
    BY <1>9, <2>1, <2>2, <2>3, <2>4, ControlTypes DEF TypeOK, WriteStateFile, DropReceiver
  <2>6. StaysHonest
    BY <1>9, <2>1, <2>2 DEF TypeOK, EntriesHonest, WriteStateFile, DropReceiver
  <2>7. Given' /\ LockDiscipline'
    BY <1>9, <2>4, SpecialValues
    DEF TypeOK, Given, LockDiscipline, WriteStateFile, Return, Goto
  <2>8. TornHasCause'
    <3>1. file'.status = "torn" => faults' # 0
      BY <1>9 DEF WriteStateFile, Fault, TypeOK
    <3> QED  BY <1>9, <2>3, <2>4, <3>1 DEF TypeOK, TornHasCause, Return
  <2> QED  BY <2>5, <2>6, <2>7, <2>8
<1>10. ASSUME NEW w \in Worker, Panic(w) PROVE Safe' /\ StaysHonest
  <2>1. /\ Die /\ up' \in BOOLEAN
        /\ faults \in Nat /\ faults' = faults + 1
    BY <1>10 DEF Panic, Die, TypeOK
  <2>2. faults' \in Nat /\ faults' # 0
    BY <2>1
  <2> QED  BY <2>1, <2>2, DieKeepsSafe
<1>11. CASE Crash
  <2>1. /\ Die /\ up' \in BOOLEAN
        /\ faults \in Nat /\ faults' = faults + 1
    BY <1>11 DEF Crash, Die, Fault, TypeOK
  <2>2. faults' \in Nat /\ faults' # 0
    BY <2>1
  <2> QED  BY <2>1, <2>2, DieKeepsSafe
<1>12. CASE Exit
  <2>1. file.status = "torn" /\ holder # NoOne => faults # 0
    BY <1>12 DEF Exit, LockDiscipline, InAddTool, TypeOK
  <2> QED  BY <1>12, <2>1, DieKeepsSafe DEF Exit, Die, TypeOK
<1>13. CASE NewStore
  <2>1. TypeOK'
    BY <1>13 DEF TypeOK, NewStore, disk, StateFile
  <2>2. StaysHonest
    BY <1>13 DEF EntriesHonest, NewStore, disk
  <2>3. Given' /\ LockDiscipline' /\ TornHasCause'
    BY <1>13 DEF Given, LockDiscipline, TornHasCause, NewStore, disk
  <2> QED  BY <2>1, <2>2, <2>3
<1>14. CASE UNCHANGED vars
  BY <1>14 DEF vars, disk, TypeOK, EntriesHonest, Given, LockDiscipline, TornHasCause
<1> QED  BY <1>1, <1>2, <1>3, <1>4, <1>5, <1>6, <1>7, <1>8, <1>9, <1>10, <1>11,
            <1>12, <1>13, <1>14 DEF Next, AddToolStep

LEMMA NextIInv == IInv /\ [Next]_vars => IInv'
BY NextSafe DEF IInv, StaysHonest

---------------------------------------------------------------------------
(* The theorems.                                                           *)

\* The invariant holds in every reachable state of the store.
THEOREM Invariance == Spec => []IInv
<1>1. Init => IInv
  BY InitIInv
<1>2. IInv /\ [Next]_vars => IInv'
  BY NextIInv
<1> QED  BY <1>1, <1>2, PTL DEF Spec

\* The store's variables keep their types.
THEOREM TypeCorrectness == Spec => []TypeOK
<1>1. IInv => TypeOK
  BY DEF IInv, Safe
<1> QED  BY <1>1, Invariance, PTL

\* No race, failure or crash of AddTool makes an entry carry the digest of another
\* version than the one it names.
THEOREM HonestyOfEntries == Spec => []EntriesHonest
<1>1. IInv => EntriesHonest
  BY DEF IInv
<1> QED  BY <1>1, Invariance, PTL

\* What the invariant says of the entries is what a check needs.
LEMMA SoundCheck == TypeOK /\ EntriesHonest => CheckIsSound
<1> SUFFICES ASSUME TypeOK, EntriesHonest, NEW t \in Tool, NEW v \in Version,
                    Check(mem, bin, t, v) \/ Check(file.entries, bin, t, v)
             PROVE  bin[t] = v
  BY DEF CheckIsSound
<1>1. mem \in Seq(Entry) /\ Honest(mem)
  BY DEF TypeOK, EntriesHonest
<1>2. file.entries \in Seq(Entry) /\ Honest(file.entries)
  BY DEF TypeOK, EntriesHonest, StateFile
<1> QED  BY <1>1, <1>2, CheckTellsVersion

\* tool.Check passes only for a binary of the version it was asked about.
THEOREM SoundnessOfCheck == Spec => []CheckIsSound
<1>1. IInv => CheckIsSound
  BY SoundCheck DEF IInv, Safe
<1> QED  BY <1>1, Invariance, PTL

\* saveState's write lock and its critical section go together.
THEOREM DisciplineOfLock == Spec => []LockDiscipline
<1>1. IInv => LockDiscipline
  BY DEF IInv, Safe
<1> QED  BY <1>1, Invariance, PTL

\* Without a crash or a failed call no worker ever reads a half-written file.
THEOREM CauseOfTornFile == Spec => []TornHasCause
<1>1. IInv => TornHasCause
  BY DEF IInv, Safe
<1> QED  BY <1>1, Invariance, PTL

\* No step of the code repairs a torn state file, nor lets a worker past loadState.
THEOREM TornFileStays == Spec => TornIsForever
<1>1. TypeOK /\ [Next]_vars => [TornForGood => TornForGood']_vars
  <2> SUFFICES ASSUME TypeOK, Next, TornForGood PROVE TornForGood'
    BY DEF vars, disk
  <2>1. \A w \in Worker : pc[w] \in {"idle", "load"}
    BY DEF TornForGood
  <2>2. ASSUME NEW w \in Worker, LoadState(w) PROVE TornForGood'
    <3>1. (Return(w, "badState") \/ Return(w, "failed")) /\ file' = file
      BY <2>2 DEF LoadState, TornForGood, disk
    <3> QED  BY <2>1, <3>1 DEF Return, Goto, TypeOK, TornForGood
  <2>3. ASSUME NEW w \in Worker, AddToolStep(w), ~LoadState(w) PROVE FALSE
    BY <2>1, <2>3 DEF AddToolStep, MoveBinary, ScanEntries, AppendEntry, ReplaceEntry,
                      CopyReceiver, OpenStateFile, WriteStateFile
  <2>4. ASSUME NEW w \in Worker, NEW v \in Version, AddTool(w, v) PROVE TornForGood'
    BY <2>1, <2>4 DEF AddTool, Goto, TypeOK, TornForGood, disk
  <2>5. ASSUME Exit \/ Crash \/ \E w \in Worker : Panic(w) PROVE TornForGood'
    BY <2>5 DEF Exit, Crash, Panic, Die, TornForGood, disk
  <2>6. ~NewStore
    BY DEF NewStore, TornForGood
  <2> QED  BY <2>2, <2>3, <2>4, <2>5, <2>6 DEF Next
<1> QED  BY <1>1, TypeCorrectness, PTL DEF Spec, TornIsForever

---------------------------------------------------------------------------
(* The binaries.                                                           *)

Placed(w) == pc[w] \in {"scan", "put", "receiver", "open", "write"} \/ outcome[w] = "ok"
OnlyFor(w) == \A x \in Worker \ {w} : ToolOf[x] # ToolOf[w]

\* AddedIsOnDisk holds from the rename on, before AddTool returns.
PlacedIsOnDisk ==
    \A w \in Worker : Placed(w) /\ OnlyFor(w) => bin[ToolOf[w]] = req[w]

LEMMA NextPlaced == TypeOK /\ PlacedIsOnDisk /\ [Next]_vars => PlacedIsOnDisk'
<1> SUFFICES ASSUME TypeOK, PlacedIsOnDisk, [Next]_vars,
                    NEW w \in Worker, Placed(w)', OnlyFor(w)
             PROVE  bin'[ToolOf[w]] = req'[w]
  BY DEF PlacedIsOnDisk, OnlyFor
<1> USE DEF Placed
<1>1. ASSUME NEW x \in Worker, NEW v \in Version, AddTool(x, v) 
      PROVE  bin'[ToolOf[w]] = req'[w]
  BY <1>1 DEF AddTool, Goto, disk, TypeOK, PlacedIsOnDisk
<1>2. ASSUME NEW x \in Worker, MoveBinary(x) PROVE bin'[ToolOf[w]] = req'[w]
  <2>1. ToolOf[x] \in Tool /\ ToolOf[w] \in Tool
    BY ParameterTypes
  <2>2. CASE x = w
    <3>1. Placed(w)' => bin' = [bin EXCEPT ![ToolOf[w]] = req[w]]
      BY <1>2, <2>2 DEF MoveBinary, Goto, Return, TypeOK
    <3> QED  BY <1>2, <2>1, <3>1 DEF MoveBinary, TypeOK
  <2>3. CASE x # w
    <3>1. ToolOf[x] # ToolOf[w]
      BY <2>3 DEF OnlyFor
    <3>2. Placed(w)
      BY <1>2, <2>3 DEF MoveBinary, Goto, Return, TypeOK
    <3> QED  BY <1>2, <2>1, <3>1, <3>2 DEF MoveBinary, TypeOK, PlacedIsOnDisk
  <2> QED  BY <2>2, <2>3
<1>3. ASSUME NEW x \in Worker,
             \/ LoadState(x) \/ ScanEntries(x) \/ AppendEntry(x) \/ ReplaceEntry(x)
             \/ CopyReceiver(x) \/ OpenStateFile(x) \/ WriteStateFile(x)
      PROVE  bin'[ToolOf[w]] = req'[w]
  <2>1. bin' = bin /\ req' = req
    BY <1>3 DEF LoadState, ScanEntries, AppendEntry, ReplaceEntry, CopyReceiver,
                OpenStateFile, WriteStateFile, disk
  <2>2. Placed(w)
    BY <1>3 DEF LoadState, ScanEntries, AppendEntry, ReplaceEntry, CopyReceiver,
                OpenStateFile, WriteStateFile, Goto, Return, TypeOK
  <2> QED  BY <2>1, <2>2 DEF PlacedIsOnDisk
<1>4. ASSUME Die PROVE FALSE
  BY <1>4 DEF Die
<1>5. CASE NewStore
  BY <1>5 DEF NewStore, disk, PlacedIsOnDisk
<1>6. CASE UNCHANGED vars
  BY <1>6 DEF vars, disk, PlacedIsOnDisk
<1> QED  BY <1>1, <1>2, <1>3, <1>4, <1>5, <1>6
         DEF Next, AddToolStep, Panic, Crash, Exit

\* What AddTool reported installed is the binary on disk, for a tool configured once.
THEOREM AddedToolIsOnDisk == Spec => []AddedIsOnDisk
<1>1. Init => PlacedIsOnDisk
  BY DEF Init, PlacedIsOnDisk, Placed
<1>2. TypeOK /\ PlacedIsOnDisk /\ [Next]_vars => PlacedIsOnDisk'
  BY NextPlaced
<1>3. PlacedIsOnDisk => AddedIsOnDisk
  BY DEF PlacedIsOnDisk, AddedIsOnDisk, Placed, OnlyFor
<1> QED  BY <1>1, <1>2, <1>3, TypeCorrectness, PTL DEF Spec

---------------------------------------------------------------------------
(* Calls that do not overlap.                                              *)

\* With at most one worker in AddTool the index of its range is still within the slice
\* when it assigns.
AloneInRange ==
    /\ ~up => \A w \in Worker : ~InAddTool(w)
    /\ \A w, x \in Worker : InAddTool(w) /\ InAddTool(x) => w = x
    /\ \A w \in Worker : pc[w] = "put" => idx[w] <= Len(mem)

\* Calls do not overlap if one is allowed at a time, or one tool is asked for.
OneAtATime == Limit = 1 \/ \A w, x \in Worker : w = x

LEMMA SequentialStep ==
    ASSUME OneAtATime, TypeOK, AloneInRange, [Next]_vars
    PROVE  AloneInRange' /\ [SequentialNext]_vars
<1> USE DEF InAddTool
<1>1. ASSUME NEW w \in Worker, NEW v \in Version, AddTool(w, v) PROVE AloneInRange'
  <2> DEFINE Calling == {x \in Worker : InAddTool(x)}
  <2>1. Calling = {}
    <3> SUFFICES ASSUME NEW x \in Calling PROVE FALSE
      OBVIOUS
    <3>1. x # w
      BY <1>1 DEF AddTool
    <3>2. Calling = {x}
      BY DEF AloneInRange
    <3>3. Cardinality(Calling) = 1
      BY <3>2, FS_Singleton
    <3>4. Cardinality(Calling) < Limit
      BY <1>1 DEF AddTool
    <3> QED  BY <3>1, <3>3, <3>4 DEF OneAtATime
  <2>2. \A x \in Worker : pc[x] = "idle"
    BY <2>1
  <2>3. \A x \in Worker : pc'[x] = IF x = w THEN "load" ELSE "idle"
    BY <1>1, <2>2 DEF AddTool, Goto, TypeOK
  <2> QED  BY <1>1, <2>3 DEF AddTool, AloneInRange
<1>2. ASSUME NEW w \in Worker, AddToolStep(w) PROVE AloneInRange'
  <2>1. InAddTool(w)
    BY <1>2 DEF AddToolStep, LoadState, MoveBinary, ScanEntries, AppendEntry, ReplaceEntry,
                CopyReceiver, OpenStateFile, WriteStateFile
  <2>2. up' = up /\ \A x \in Worker \ {w} : pc'[x] = pc[x]
    BY <1>2 DEF AddToolStep, LoadState, MoveBinary, ScanEntries, AppendEntry, ReplaceEntry,
                CopyReceiver, OpenStateFile, WriteStateFile, Return, Goto, TypeOK
  <2>3. \A x \in Worker \ {w} : pc'[x] = "idle"
    BY <2>1, <2>2 DEF AloneInRange
  <2>4. pc'[w] = "put" => idx'[w] <= Len(mem')
    <3>1. CASE ScanEntries(w)
      <4>1. mem' = mem /\ idx'[w] \in Named(mem, ToolOf[w]) \cup {0}
        BY <3>1 DEF ScanEntries, TypeOK
      <4>2. idx'[w] \in 0..Len(mem) /\ Len(mem) \in Nat
        BY <4>1, LenProperties DEF Named, TypeOK
      <4> QED  BY <4>1, <4>2
    <3>2. CASE ~ScanEntries(w)
      BY <1>2, <3>2
      DEF AddToolStep, LoadState, MoveBinary, AppendEntry, ReplaceEntry,
          CopyReceiver, OpenStateFile, WriteStateFile, Return, Goto, TypeOK
    <3> QED  BY <3>1, <3>2
  <2> QED  BY <2>1, <2>2, <2>3, <2>4 DEF AloneInRange
<1>3. ASSUME NEW w \in Worker PROVE ~Panic(w)
  <2>1. Len(mem) \in Nat /\ idx[w] \in Nat
    BY LenProperties DEF TypeOK
  <2> QED  BY <2>1 DEF Panic, AloneInRange
<1>4. ASSUME Exit \/ Crash \/ NewStore PROVE AloneInRange'
  BY <1>4 DEF Exit, Crash, Die, NewStore, AloneInRange
<1>5. ASSUME UNCHANGED vars PROVE AloneInRange'
  BY <1>5 DEF vars, AloneInRange
<1>6. AloneInRange'
  BY <1>1, <1>2, <1>3, <1>4, <1>5 DEF Next
<1>7. [SequentialNext]_vars
  BY <1>3 DEF Next, SequentialNext
<1> QED  BY <1>6, <1>7

\* A call that nobody overlaps never assigns past the end of s.entries (store.go:171): the
\* next-state relation that StoreSequential checks leaves out nothing.
THEOREM NoPanicAlone ==
    ASSUME OneAtATime PROVE Spec => []AloneInRange /\ SequentialSpec
<1>1. Init => AloneInRange
  BY DEF Init, AloneInRange, InAddTool
<1>2. TypeOK /\ AloneInRange /\ [Next]_vars => AloneInRange' /\ [SequentialNext]_vars
  BY SequentialStep
<1> QED  BY <1>1, <1>2, TypeCorrectness, PTL DEF Spec, SequentialSpec

---------------------------------------------------------------------------
(* Calls that do not overlap, one after the other: what the steps of one   *)
(* call, and of all before it, leave in the file.                          *)

\* No two entries have the same name.
NamedOnce(entries) == \A i, j \in DOMAIN entries : entries[i].name = entries[j].name => i = j
\* An entry has that name and version.
Lists(entries, tool, version) ==
    \E i \in DOMAIN entries : entries[i].name = tool /\ entries[i].version = version

\* An entry appended under a name that is not listed.
LEMMA AppendedIsListed ==
    ASSUME NEW entries \in Seq(Entry), NEW e \in Entry, Named(entries, e.name) = {}
    PROVE  /\ NamedOnce(entries) => NamedOnce(Append(entries, e))
           /\ Lists(Append(entries, e), e.name, e.version)
           /\ \A t, v : Lists(entries, t, v) => Lists(Append(entries, e), t, v)
<1>1. /\ DOMAIN entries = 1..Len(entries) /\ Len(entries) \in Nat
      /\ DOMAIN Append(entries, e) = 1..(Len(entries) + 1)
      /\ Append(entries, e)[Len(entries) + 1] = e
      /\ \A i \in 1..Len(entries) : Append(entries, e)[i] = entries[i]
  BY LenProperties, AppendProperties
<1>2. \A i \in 1..Len(entries) : entries[i].name # e.name
  BY <1>1 DEF Named
<1>3. \A i \in 1..(Len(entries) + 1) : i \in 1..Len(entries) \/ i = Len(entries) + 1
  BY <1>1
<1>4. NamedOnce(entries) => NamedOnce(Append(entries, e))
  BY <1>1, <1>2, <1>3 DEF NamedOnce
<1>5. Lists(Append(entries, e), e.name, e.version)
  BY <1>1 DEF Lists
<1>6. ASSUME NEW t, NEW v, Lists(entries, t, v) PROVE Lists(Append(entries, e), t, v)
  BY <1>1, <1>6 DEF Lists
<1> QED  BY <1>4, <1>5, <1>6

\* An entry put in place of one of its name.
LEMMA ReplacedIsListed ==
    ASSUME NEW entries \in Seq(Entry), NEW e \in Entry, NEW i \in Named(entries, e.name)
    PROVE  LET replaced == [entries EXCEPT ![i] = e]
           IN  /\ NamedOnce(entries) => NamedOnce(replaced)
               /\ Lists(replaced, e.name, e.version)
               /\ \A t, v : t # e.name /\ Lists(entries, t, v) => Lists(replaced, t, v)
<1> DEFINE replaced == [entries EXCEPT ![i] = e]
<1>1. i \in DOMAIN entries /\ entries[i].name = e.name
  BY DEF Named
<1>2. /\ DOMAIN replaced = DOMAIN entries /\ replaced[i] = e
      /\ \A k \in DOMAIN entries : k # i => replaced[k] = entries[k]
  BY <1>1
<1> HIDE DEF replaced
<1>3. NamedOnce(entries) => NamedOnce(replaced)
  BY <1>1, <1>2 DEF NamedOnce
<1>4. Lists(replaced, e.name, e.version)
  BY <1>1, <1>2 DEF Lists
<1>5. ASSUME NEW t, NEW v, t # e.name, Lists(entries, t, v) PROVE Lists(replaced, t, v)
  BY <1>1, <1>2, <1>5 DEF Lists
<1> QED  BY <1>3, <1>4, <1>5 DEF replaced

\* saveState keeps every entry it means to keep, and no other.
LEMMA KeptIsWhole ==
    ASSUME NEW entries \in Seq(Entry), NEW keep \in SUBSET (DOMAIN entries),
           NEW kept \in Kept(entries, keep)
    PROVE  /\ NamedOnce(entries) => NamedOnce(kept)
           /\ \A k \in DOMAIN kept : \E i \in keep : kept[k] = entries[i]
           /\ \A i \in keep : \E k \in DOMAIN kept : kept[k] = entries[i]
<1>1. PICK f \in [1..Cardinality(keep) -> keep] :
         /\ \A i, j \in 1..Cardinality(keep) : i < j => f[i] < f[j]
         /\ kept = [k \in 1..Cardinality(keep) |-> entries[f[k]]]
  BY DEF Kept
<1>2. DOMAIN entries = 1..Len(entries) /\ Len(entries) \in Nat
  BY LenProperties
<1>3. IsFiniteSet(keep)
  <2>1. IsFiniteSet(1..Len(entries))
    BY <1>2, FS_Interval
  <2>2. keep \subseteq 1..Len(entries)
    BY <1>2
  <2> QED  BY <2>1, <2>2, FS_Subset
<1>4. Cardinality(keep) \in Nat
  BY <1>3, FS_CardinalityType
<1>5. \A i, j \in 1..Cardinality(keep) : f[i] = f[j] => i = j
  <2>1. \A i \in 1..Cardinality(keep) : f[i] \in Nat /\ i \in Nat
    BY <1>2, <1>4
  <2> QED  BY <1>1, <2>1
<1>6. f \in Injection(1..Cardinality(keep), keep)
  BY <1>5 DEF Injection, IsInjective
<1>7. Cardinality(1..Cardinality(keep)) = Cardinality(keep)
  BY <1>4, FS_Interval
<1>8. f \in Surjection(1..Cardinality(keep), keep)
  BY <1>3, <1>6, <1>7, FS_Injection
<1>9. \A i \in keep : \E k \in 1..Cardinality(keep) : f[k] = i
  BY <1>8 DEF Surjection
<1>10. DOMAIN kept = 1..Cardinality(keep)
  BY <1>1
<1>11. \A i \in keep : \E k \in DOMAIN kept : kept[k] = entries[i]
  BY <1>1, <1>9, <1>10
<1>12. \A k \in DOMAIN kept : f[k] \in keep /\ kept[k] = entries[f[k]]
  BY <1>1, <1>10
<1>13. NamedOnce(entries) => NamedOnce(kept)
  BY <1>5, <1>10, <1>12 DEF NamedOnce
<1> QED  BY <1>11, <1>12, <1>13

\* What a save writes lists what was to be saved, but for the tools without a binary.
LEMMA SavedIsListed ==
    ASSUME NEW entries \in Seq(Entry), NEW bins, NEW kept \in Kept(entries, OnDisk(entries, bins)),
           NEW t, NEW v
    PROVE  Lists(kept, t, v) <=> Lists(entries, t, v) /\ bins[t] # NoBin
<1>1. OnDisk(entries, bins) \in SUBSET (DOMAIN entries)
  BY DEF OnDisk
<1>2. \A k \in DOMAIN kept : \E i \in OnDisk(entries, bins) : kept[k] = entries[i]
  BY <1>1, KeptIsWhole
<1>3. \A i \in OnDisk(entries, bins) : \E k \in DOMAIN kept : kept[k] = entries[i]
  BY <1>1, KeptIsWhole
<1> QED  BY <1>2, <1>3 DEF Lists, OnDisk

\* Where no name occurs twice a check passes just when the entry is listed and its binary
\* is in place.
LEMMA CheckOfNamedOnce ==
    ASSUME NEW entries \in Seq(Entry), Honest(entries), NamedOnce(entries), NEW bins,
           NEW t \in Tool, NEW v \in Version
    PROVE  Check(entries, bins, t, v) <=> Lists(entries, t, v) /\ bins[t] = v
<1>1. ASSUME Lists(entries, t, v), bins[t] = v PROVE Check(entries, bins, t, v)
  <2>1. PICK i \in DOMAIN entries : entries[i].name = t /\ entries[i].version = v
    BY <1>1 DEF Lists
  <2>2. NamedAt(entries, t, v) = {i}
    BY <2>1 DEF NamedAt, Named, NamedOnce
  <2>3. Cardinality(NamedAt(entries, t, v)) = 1
    BY <2>2, FS_Singleton
  <2>4. v # NoBin
    BY SpecialValues DEF Content
  <2>5. Verify(entries[i], bins)
    BY <1>1, <2>1, <2>4 DEF Verify, Honest
  <2> QED  BY <2>2, <2>3, <2>5 DEF Check, GetResult
<1>2. ASSUME Check(entries, bins, t, v) PROVE Lists(entries, t, v) /\ bins[t] = v
  <2>1. bins[t] = v
    BY <1>2, CheckTellsVersion
  <2>2. Cardinality(NamedAt(entries, t, v)) = 1
    BY <1>2 DEF Check, GetResult
  <2>3. NamedAt(entries, t, v) # {}
    <3> SUFFICES ASSUME NamedAt(entries, t, v) = {} PROVE FALSE
      OBVIOUS
    <3>1. Cardinality(NamedAt(entries, t, v)) = 0
      BY FS_EmptySet, Zenon
    <3> QED  BY <2>2, <3>1
  <2> QED  BY <2>1, <2>3 DEF NamedAt, Named, Lists
<1> QED  BY <1>1, <1>2

---------------------------------------------------------------------------
(* The inductive invariant of calls that do not overlap.                   *)

Holding == {"open", "write"}
Loaded == {"move", "scan", "put", "receiver"}

\* No name occurs twice, wherever entries are.
ListedOnce ==
    /\ NamedOnce(mem) /\ NamedOnce(file.entries)
    /\ \A w \in Worker : NamedOnce(snap[w])

\* A call past loadState has a file that decodes, until it truncates the file itself.
FileOfCall ==
    /\ file.status # "whole" => file.entries = <<>>
    /\ holder # NoOne => file.status = "torn"
    /\ \A w \in Worker : pc[w] \in Loaded \cup {"open"} => file.status # "torn"

\* Receivers exist while they are saved, outcomes when the call has ended.
ReceiversInSave ==
    /\ alias \subseteq {w \in Worker : pc[w] \in Holding}
    /\ \A w \in Worker : pc[w] # "idle" => outcome[w] = "none"

\* The index the range stopped at is still that of the tool's entry.
RangeFound ==
    \A w \in Worker : pc[w] = "put" =>
        /\ idx[w] = 0 => Named(mem, ToolOf[w]) = {}
        /\ idx[w] # 0 => idx[w] \in Named(mem, ToolOf[w])

\* The new entry is in memory and then in the receiver.
OwnIsListed ==
    \A w \in Worker :
        /\ pc[w] = "receiver" => Lists(mem, ToolOf[w], req[w])
        /\ pc[w] \in Holding => Lists(snap[w], ToolOf[w], req[w])

\* Its binary has been in place since the rename.
OwnIsInPlace ==
    \A w \in Worker :
        pc[w] \in (Loaded \ {"move"}) \cup Holding => bin[ToolOf[w]] = req[w]

\* With it goes what the file lists of the other tools.
OthersAreKept ==
    \A w \in Worker, t \in Tool, v \in Version :
        t # ToolOf[w] /\ Lists(file.entries, t, v) =>
            /\ pc[w] \in Loaded => Lists(mem, t, v)
            /\ pc[w] = "open" => Lists(snap[w], t, v)

\* What was installed stays recorded, or is about to be written once more.
AddedIsListed ==
    \A w \in Worker : outcome[w] = "ok" /\ OnlyFor(w) =>
        /\ file.status # "absent"
        /\ file.status = "whole" => Lists(file.entries, ToolOf[w], req[w])
        /\ \A x \in Worker : pc[x] = "write" => Lists(snap[x], ToolOf[w], req[w])

Sequential ==
    /\ ListedOnce /\ FileOfCall /\ ReceiversInSave /\ RangeFound
    /\ OwnIsListed /\ OwnIsInPlace /\ OthersAreKept /\ AddedIsListed

LEMMA InitSequential ==
    ASSUME \A p \in Prior : NamedOnce(p.file.entries), Init PROVE Sequential
<1>1. PICK p \in Prior : file = p.file
  BY DEF Init
<1>2. /\ file \in StateFile /\ file.status # "torn" /\ NamedOnce(file.entries)
      /\ file.status = "absent" => file.entries = <<>>
  BY <1>1, PriorIsHonest
<1>3. file.status \in {"absent", "torn", "whole"}
  BY <1>2 DEF StateFile
<1>4. NamedOnce(<<>>)
  BY DEF NamedOnce
<1> QED  BY <1>2, <1>3, <1>4
         DEF Init, Sequential, ListedOnce, FileOfCall, ReceiversInSave, RangeFound,
             OwnIsListed, OwnIsInPlace, OthersAreKept, AddedIsListed, Holding, Loaded

\* The end of a process leaves the file, and no call.
LEMMA DieSequential == ASSUME Sequential, Die PROVE Sequential'
<1>1. NamedOnce(<<>>)
  BY DEF NamedOnce
<1> QED  BY <1>1 DEF Die, disk, Sequential, ListedOnce, FileOfCall, ReceiversInSave, RangeFound,
             OwnIsListed, OwnIsInPlace, OthersAreKept, AddedIsListed, Holding, Loaded

\* What the step of a worker finds, and leaves, of the others.
LEMMA OthersAreIdle ==
    ASSUME TypeOK, AloneInRange, NEW w \in Worker, AddToolStep(w)
    PROVE  /\ up' = up /\ req' = req
           /\ \A x \in Worker \ {w} :
                 pc[x] = "idle" /\ pc'[x] = "idle" /\ outcome'[x] = outcome[x]
<1>1. pc[w] # "idle" /\ up' = up /\ req' = req
  BY DEF AddToolStep, LoadState, MoveBinary, ScanEntries, AppendEntry, ReplaceEntry,
         CopyReceiver, OpenStateFile, WriteStateFile
<1>2. \A x \in Worker \ {w} : pc'[x] = pc[x] /\ outcome'[x] = outcome[x]
  BY DEF AddToolStep, LoadState, MoveBinary, ScanEntries, AppendEntry, ReplaceEntry,
         CopyReceiver, OpenStateFile, WriteStateFile, Return, Goto, TypeOK
<1>3. \A x \in Worker \ {w} : pc[x] = "idle"
  BY <1>1 DEF AloneInRange, InAddTool
<1> QED  BY <1>1, <1>2, <1>3

\* The steps before the entry is put.
LEMMA BeforePutSequential ==
    ASSUME TypeOK, AloneInRange, Sequential, NEW w \in Worker,
           LoadState(w) \/ MoveBinary(w) \/ ScanEntries(w)
    PROVE  Sequential'
<1>1. \A x \in Worker \ {w} :
         pc[x] = "idle" /\ pc'[x] = "idle" /\ outcome'[x] = outcome[x]
  BY OthersAreIdle DEF AddToolStep
<1>2. /\ file' = file /\ holder' = holder /\ snap' = snap /\ req' = req
      /\ outcome[w] = "none" /\ outcome'[w] # "ok" /\ pc'[w] \in {"move", "scan", "put", "idle"}
      /\ pc'[w] # "idle" => outcome'[w] = "none"
  BY DEF LoadState, MoveBinary, ScanEntries, Goto, Return, TypeOK, disk,
         Sequential, ReceiversInSave
<1>3. file.status \in {"absent", "torn", "whole"}
  BY DEF TypeOK, StateFile
<1>4. \/ alias' = alias /\ mem' = mem /\ pc[w] \in {"move", "scan"}
      \/ alias' = alias /\ mem' = mem /\ pc'[w] = "idle"
      \/ alias' = alias /\ mem' = mem /\ file.status = "absent" /\ pc'[w] = "move"
      \/ alias' = {} /\ mem' = file.entries /\ file.status = "whole" /\ pc'[w] = "move"
  BY DEF LoadState, MoveBinary, ScanEntries, Goto, Return, TypeOK
<1>5. pc[w] \in {"load", "move", "scan"}
  BY DEF LoadState, MoveBinary, ScanEntries
<1>6. ListedOnce'
  BY <1>2, <1>4 DEF Sequential, ListedOnce
<1>7. FileOfCall'
  BY <1>1, <1>2, <1>4 DEF Sequential, FileOfCall, Loaded
<1>8. ReceiversInSave'
  BY <1>1, <1>2, <1>4, <1>5 DEF Sequential, ReceiversInSave, Holding
<1>9. RangeFound'
  <2>1. pc'[w] = "put" => ScanEntries(w)
    BY <1>2 DEF LoadState, MoveBinary, Goto, Return, TypeOK
  <2>2. ASSUME ScanEntries(w)
        PROVE  /\ idx'[w] = 0 => Named(mem', ToolOf[w]) = {}
               /\ idx'[w] # 0 => idx'[w] \in Named(mem', ToolOf[w])
    BY <2>2 DEF ScanEntries, TypeOK
  <2> QED  BY <1>1, <2>1, <2>2 DEF RangeFound
<1>10. OwnIsListed' /\ OwnIsInPlace'
  <2>1. OwnIsListed'
    BY <1>1, <1>2 DEF OwnIsListed, Holding
  <2>2. pc'[w] \in {"scan", "put"} => bin'[ToolOf[w]] = req[w]
    BY ParameterTypes
    DEF LoadState, MoveBinary, ScanEntries, Goto, Return, TypeOK, disk,
        Sequential, OwnIsInPlace, Loaded
  <2> QED  BY <1>1, <1>2, <2>1, <2>2 DEF OwnIsInPlace, Loaded, Holding
<1>11. OthersAreKept'
  <2> SUFFICES ASSUME NEW t \in Tool, NEW v \in Version, t # ToolOf[w],
                      Lists(file.entries, t, v), pc'[w] # "idle"
               PROVE  Lists(mem', t, v)
    BY <1>1, <1>2 DEF OthersAreKept, Loaded
  <2>1. file.status = "whole"
    BY DEF Sequential, FileOfCall, Lists
  <2> QED  BY <1>4, <2>1 DEF Sequential, OthersAreKept, Loaded
<1>12. AddedIsListed'
  BY <1>1, <1>2, <1>5 DEF Sequential, AddedIsListed, OnlyFor
<1> QED  BY <1>6, <1>7, <1>8, <1>9, <1>10, <1>11, <1>12 DEF Sequential

\* The entry is put where the range stopped, or at the end.
LEMMA PutSequential ==
    ASSUME TypeOK, AloneInRange, Given, Sequential, NEW w \in Worker,
           AppendEntry(w) \/ ReplaceEntry(w)
    PROVE  Sequential'
<1>1. \A x \in Worker \ {w} :
         pc[x] = "idle" /\ pc'[x] = "idle" /\ outcome'[x] = outcome[x]
  BY OthersAreIdle DEF AddToolStep
<1>2. /\ file' = file /\ holder' = holder /\ req' = req
      /\ outcome' = outcome /\ pc[w] = "put" /\ pc'[w] = "receiver" /\ alias' \subseteq alias
  BY DEF AppendEntry, ReplaceEntry, Goto, TypeOK, disk
<1>3. alias = {}
  BY <1>1, <1>2 DEF Sequential, ReceiversInSave, Holding
<1>4. \A x \in Worker : snap'[x] = snap[x]
  BY <1>3 DEF AppendEntry, ReplaceEntry
<1>5. NewEntry(w) \in Entry /\ NewEntry(w).name = ToolOf[w] /\ NewEntry(w).version = req[w]
  BY <1>2, ParameterTypes DEF NewEntry, Entry, Content, Given
<1>6. /\ NamedOnce(mem')
      /\ Lists(mem', ToolOf[w], req[w])
      /\ \A t, v : t # ToolOf[w] /\ Lists(mem, t, v) => Lists(mem', t, v)
  <2>1. mem \in Seq(Entry) /\ NamedOnce(mem)
    BY DEF TypeOK, Sequential, ListedOnce
  <2>2. CASE AppendEntry(w)
    <3>1. mem' = Append(mem, NewEntry(w)) /\ Named(mem, ToolOf[w]) = {}
      BY <1>2, <2>2 DEF AppendEntry, Sequential, RangeFound
    <3> QED  BY <1>5, <2>1, <3>1, AppendedIsListed
  <2>3. CASE ReplaceEntry(w)
    <3>1. mem' = [mem EXCEPT ![idx[w]] = NewEntry(w)]
      BY <2>3 DEF ReplaceEntry
    <3>2. idx[w] # 0
      BY <2>1, <2>3, LenProperties DEF ReplaceEntry
    <3>3. idx[w] \in Named(mem, ToolOf[w])
      BY <1>2, <3>2 DEF Sequential, RangeFound
    <3> QED  BY <1>5, <2>1, <3>1, <3>3, ReplacedIsListed
  <2> QED  BY <2>2, <2>3
<1>7. ListedOnce'
  BY <1>2, <1>4, <1>6 DEF Sequential, ListedOnce
<1>8. FileOfCall'
  BY <1>1, <1>2 DEF Sequential, FileOfCall, Loaded
<1>9. ReceiversInSave'
  BY <1>1, <1>2, <1>3 DEF Sequential, ReceiversInSave, Holding
<1>10. RangeFound' /\ OwnIsListed' /\ OwnIsInPlace'
  <2>1. bin' = bin
    BY DEF AppendEntry, ReplaceEntry, disk
  <2> QED  BY <1>1, <1>2, <1>6, <2>1
           DEF RangeFound, OwnIsListed, Sequential, OwnIsInPlace, Loaded, Holding
<1>11. OthersAreKept'
  BY <1>1, <1>2, <1>6 DEF Sequential, OthersAreKept, Loaded
<1>12. AddedIsListed'
  BY <1>1, <1>2, <1>4 DEF Sequential, AddedIsListed, OnlyFor
<1> QED  BY <1>7, <1>8, <1>9, <1>10, <1>11, <1>12 DEF Sequential

\* The receiver is a copy of what is in memory.
LEMMA CopySequential ==
    ASSUME TypeOK, AloneInRange, Sequential, NEW w \in Worker, CopyReceiver(w)
    PROVE  Sequential'
<1>1. \A x \in Worker \ {w} :
         pc[x] = "idle" /\ pc'[x] = "idle" /\ outcome'[x] = outcome[x]
  BY OthersAreIdle DEF AddToolStep
<1>2. /\ file' = file /\ holder' = holder /\ req' = req /\ mem' = mem
      /\ outcome' = outcome /\ pc[w] = "receiver" /\ pc'[w] = "open"
      /\ alias' = alias \cup {w} /\ snap' = [snap EXCEPT ![w] = mem]
      /\ snap'[w] = mem
  BY DEF CopyReceiver, Goto, TypeOK, disk
<1>3. \A x \in Worker \ {w} : snap'[x] = snap[x]
  BY <1>2 DEF TypeOK
<1>7. ListedOnce'
  BY <1>2, <1>3 DEF Sequential, ListedOnce
<1>8. FileOfCall'
  BY <1>1, <1>2 DEF Sequential, FileOfCall, Loaded
<1>9. ReceiversInSave'
  BY <1>1, <1>2, <1>3 DEF Sequential, ReceiversInSave, Holding
<1>10. RangeFound' /\ OwnIsListed' /\ OwnIsInPlace'
  <2>1. bin' = bin
    BY DEF CopyReceiver, disk
  <2> QED  BY <1>1, <1>2, <2>1
           DEF RangeFound, OwnIsListed, Sequential, OwnIsInPlace, Loaded, Holding
<1>11. OthersAreKept'
  BY <1>1, <1>2 DEF Sequential, OthersAreKept, Loaded
<1>12. AddedIsListed'
  BY <1>1, <1>2 DEF Sequential, AddedIsListed, OnlyFor
<1> QED  BY <1>7, <1>8, <1>9, <1>10, <1>11, <1>12 DEF Sequential

\* saveState has truncated the file, or could not open it.
LEMMA OpenSequential ==
    ASSUME TypeOK, AloneInRange, Sequential, NEW w \in Worker, OpenStateFile(w)
    PROVE  Sequential'
<1>1. \A x \in Worker \ {w} :
         pc[x] = "idle" /\ pc'[x] = "idle" /\ outcome'[x] = outcome[x]
  BY OthersAreIdle DEF AddToolStep
<1>2. /\ req' = req /\ mem' = mem /\ bin' = bin /\ pc[w] = "open" /\ outcome[w] = "none"
      /\ file.status \in {"absent", "torn", "whole"} /\ file.status # "torn" /\ NamedOnce(<<>>)
  BY DEF OpenStateFile, TypeOK, StateFile, Sequential, FileOfCall, ReceiversInSave, NamedOnce
<1>3. ASSUME NEW x \in Worker, outcome[x] = "ok", OnlyFor(x)
      PROVE  Lists(snap[w], ToolOf[x], req[x])
  <2>1. file.status = "whole" /\ Lists(file.entries, ToolOf[x], req[x])
    BY <1>2, <1>3 DEF Sequential, AddedIsListed
  <2>2. ToolOf[w] # ToolOf[x] /\ ToolOf[x] \in Tool
    BY <1>2, <1>3, ParameterTypes DEF OnlyFor
  <2>3. req[x] \in Version
    <3>1. PICK i \in DOMAIN file.entries : file.entries[i].version = req[x]
      BY <2>1 DEF Lists
    <3>2. file.entries \in Seq(Entry)
      BY DEF TypeOK, StateFile
    <3>3. file.entries[i] \in Entry
      BY <3>1, <3>2, ElementOfSeq, LenProperties
    <3> QED  BY <3>1, <3>3 DEF Entry
  <2> QED  BY <1>2, <2>1, <2>2, <2>3 DEF Sequential, OthersAreKept
<1>4. CASE /\ holder' = w /\ file' = [status |-> "torn", entries |-> <<>>]
           /\ Goto(w, "write") /\ UNCHANGED <<alias, snap, idx, outcome>>
  <2>1. pc'[w] = "write"
    BY <1>4 DEF Goto, TypeOK
  <2>2. ListedOnce'
    BY <1>2, <1>4 DEF Sequential, ListedOnce
  <2>3. FileOfCall'
    BY <1>1, <1>4, <2>1 DEF FileOfCall, Loaded
  <2>4. ReceiversInSave'
    BY <1>1, <1>2, <1>4, <2>1 DEF Sequential, ReceiversInSave, Holding
  <2>5. RangeFound' /\ OwnIsListed' /\ OwnIsInPlace'
    BY <1>1, <1>2, <1>4, <2>1
    DEF Sequential, RangeFound, OwnIsListed, OwnIsInPlace, Loaded, Holding
  <2>6. OthersAreKept'
    BY <1>4 DEF OthersAreKept, Lists
  <2>7. AddedIsListed'
    BY <1>1, <1>2, <1>3, <1>4, <2>1 DEF AddedIsListed, OnlyFor
  <2> QED  BY <2>2, <2>3, <2>4, <2>5, <2>6, <2>7 DEF Sequential
<1>5. CASE Return(w, "failed") /\ DropReceiver(w) /\ UNCHANGED <<holder, file>>
  <2>1. pc'[w] = "idle" /\ outcome'[w] = "failed"
    BY <1>5 DEF Return, Goto, TypeOK
  <2>2. /\ alias' \subseteq alias \ {w}
        /\ \A x \in Worker : snap'[x] = snap[x] \/ snap'[x] = <<>>
    BY <1>5 DEF DropReceiver, TypeOK
  <2>3. ListedOnce'
    BY <1>2, <1>5, <2>2 DEF Sequential, ListedOnce
  <2>4. FileOfCall'
    BY <1>1, <1>5, <2>1 DEF Sequential, FileOfCall, Loaded
  <2>5. ReceiversInSave'
    BY <1>1, <1>2, <2>1, <2>2 DEF Sequential, ReceiversInSave, Holding
  <2>6. RangeFound' /\ OwnIsListed' /\ OwnIsInPlace' /\ OthersAreKept'
    BY <1>1, <2>1 DEF RangeFound, OwnIsListed, OwnIsInPlace, OthersAreKept, Holding, Loaded
  <2>7. AddedIsListed'
    BY <1>1, <1>2, <1>5, <2>1 DEF Sequential, AddedIsListed, OnlyFor
  <2> QED  BY <2>3, <2>4, <2>5, <2>6, <2>7 DEF Sequential
<1> QED  BY <1>4, <1>5 DEF OpenStateFile

\* saveState has written the entries that have a binary, or was cut short.
LEMMA WriteSequential ==
    ASSUME TypeOK, AloneInRange, Sequential, PlacedIsOnDisk, NEW w \in Worker,
           WriteStateFile(w)
    PROVE  Sequential'
<1>1. \A x \in Worker \ {w} :
         pc[x] = "idle" /\ pc'[x] = "idle" /\ outcome'[x] = outcome[x]
  BY OthersAreIdle DEF AddToolStep
<1>2. /\ req' = req /\ mem' = mem /\ bin' = bin /\ pc[w] = "write" /\ outcome[w] = "none"
      /\ pc'[w] = "idle" /\ holder' = NoOne
      /\ alias' \subseteq alias \ {w}
      /\ \A x \in Worker : snap'[x] = snap[x] \/ snap'[x] = <<>>
      /\ NamedOnce(<<>>)
  BY DEF WriteStateFile, Return, Goto, DropReceiver, TypeOK, Sequential, ReceiversInSave,
         NamedOnce
<1>3. snap[w] \in Seq(Entry) /\ NamedOnce(snap[w])
  BY DEF TypeOK, Sequential, ListedOnce
<1>4. ReceiversInSave' /\ RangeFound' /\ OwnIsListed' /\ OwnIsInPlace' /\ OthersAreKept'
  BY <1>1, <1>2 DEF Sequential, ReceiversInSave, RangeFound, OwnIsListed, OwnIsInPlace,
                    OthersAreKept, Holding, Loaded
<1>5. CASE /\ \E kept \in Kept(snap[w], OnDisk(snap[w], bin)) :
                 file' = [status |-> "whole", entries |-> kept]
           /\ Return(w, "ok")
  <2>1. PICK kept \in Kept(snap[w], OnDisk(snap[w], bin)) :
           file' = [status |-> "whole", entries |-> kept]
    BY <1>5
  <2>2. OnDisk(snap[w], bin) \in SUBSET (DOMAIN snap[w])
    BY DEF OnDisk
  <2>3. NamedOnce(kept)
    BY <1>3, <2>2, KeptIsWhole
  <2>4. ListedOnce' /\ FileOfCall'
    BY <1>1, <1>2, <2>1, <2>3 DEF Sequential, ListedOnce, FileOfCall, Loaded
  <2>5. ASSUME NEW x \in Worker, x = w \/ outcome[x] = "ok", OnlyFor(x)
        PROVE  Lists(kept, ToolOf[x], req[x])
    <3>1. Lists(snap[w], ToolOf[x], req[x])
      BY <1>2, <2>5 DEF Sequential, OwnIsListed, AddedIsListed, Holding
    <3>2. bin[ToolOf[x]] = req[x]
      BY <1>2, <2>5 DEF PlacedIsOnDisk, Placed
    <3>3. req[x] # NoBin
      <4>1. PICK i \in DOMAIN snap[w] : snap[w][i].version = req[x]
        BY <3>1 DEF Lists
      <4>2. snap[w][i] \in Entry
        BY <1>3, <4>1, ElementOfSeq, LenProperties
      <4> QED  BY <4>1, <4>2, SpecialValues DEF Entry, Content
    <3> QED  BY <1>3, <3>1, <3>2, <3>3, SavedIsListed
  <2>6. AddedIsListed'
    BY <1>1, <1>2, <2>1, <2>5 DEF AddedIsListed, OnlyFor
  <2> QED  BY <1>4, <2>4, <2>6 DEF Sequential
<1>6. CASE Return(w, "failed") /\ UNCHANGED file
  <2>1. outcome'[w] = "failed"
    BY <1>6 DEF Return, TypeOK
  <2>2. ListedOnce' /\ FileOfCall'
    BY <1>1, <1>2, <1>6 DEF Sequential, ListedOnce, FileOfCall, Loaded
  <2>3. AddedIsListed'
    BY <1>1, <1>2, <1>6, <2>1 DEF Sequential, AddedIsListed, OnlyFor
  <2> QED  BY <1>4, <2>2, <2>3 DEF Sequential
<1> QED  BY <1>5, <1>6 DEF WriteStateFile

LEMMA NextIsSequential ==
    ASSUME IInv, AloneInRange, PlacedIsOnDisk, Sequential, [SequentialNext]_vars
    PROVE  Sequential'
<1> USE DEF IInv, Safe
<1>1. ASSUME NEW w \in Worker, AddToolStep(w) PROVE Sequential'
  BY <1>1, BeforePutSequential, PutSequential, CopySequential, OpenSequential,
     WriteSequential DEF AddToolStep
<1>2. ASSUME NEW w \in Worker, NEW v \in Version, AddTool(w, v) PROVE Sequential'
  <2>1. /\ file' = file /\ holder' = holder /\ snap' = snap /\ mem' = mem /\ alias' = alias
        /\ outcome' = outcome /\ outcome[w] = "none" /\ pc'[w] = "load" /\ idx' = idx /\ bin' = bin
        /\ \A x \in Worker \ {w} : pc'[x] = pc[x] /\ req'[x] = req[x]
    BY <1>2 DEF AddTool, Goto, disk, TypeOK
  <2>2. pc[w] = "idle"
    BY <1>2 DEF AddTool
  <2>3. ListedOnce' /\ FileOfCall' /\ ReceiversInSave'
    BY <2>1, <2>2 DEF Sequential, ListedOnce, FileOfCall, ReceiversInSave, Loaded, Holding
  <2>4. RangeFound' /\ OwnIsListed' /\ OwnIsInPlace' /\ OthersAreKept'
    BY <2>1, <2>2 DEF Sequential, RangeFound, OwnIsListed, OwnIsInPlace, OthersAreKept,
                      Loaded, Holding
  <2>5. AddedIsListed'
    BY <2>1, <2>2 DEF Sequential, AddedIsListed, OnlyFor
  <2> QED  BY <2>3, <2>4, <2>5 DEF Sequential
<1>3. ASSUME Exit \/ Crash PROVE Sequential'
  BY <1>3, DieSequential DEF Exit, Crash
<1>4. ASSUME NewStore PROVE Sequential'
  <2>1. \A w \in Worker : pc[w] = "idle"
    BY <1>4 DEF NewStore, AloneInRange, InAddTool
  <2> QED
    BY <1>4, <2>1
    DEF NewStore, disk, Sequential, ListedOnce, FileOfCall, ReceiversInSave, RangeFound,
        OwnIsListed, OwnIsInPlace, OthersAreKept, AddedIsListed, OnlyFor, Loaded, Holding
<1>5. ASSUME UNCHANGED vars PROVE Sequential'
  BY <1>5
  DEF vars, disk, Sequential, ListedOnce, FileOfCall, ReceiversInSave, RangeFound,
      OwnIsListed, OwnIsInPlace, OthersAreKept, AddedIsListed, OnlyFor, Loaded, Holding
<1> QED  BY <1>1, <1>2, <1>3, <1>4, <1>5 DEF SequentialNext

---------------------------------------------------------------------------
(* What it gives, and the refinement of the abstract store.                *)

\* What was called one at a time keeps what each step relied on.
LEMMA SequentialInvariance ==
    ASSUME OneAtATime, \A p \in Prior : NamedOnce(p.file.entries)
    PROVE  SequentialSpec => /\ []IInv /\ []AloneInRange /\ []PlacedIsOnDisk /\ []Sequential
<1>1. Init => AloneInRange /\ PlacedIsOnDisk /\ Sequential
  BY InitSequential DEF Init, AloneInRange, InAddTool, PlacedIsOnDisk, Placed
<1>2. SequentialNext => Next
  BY DEF SequentialNext, Next
<1>3. IInv /\ AloneInRange /\ [Next]_vars => AloneInRange'
  BY SequentialStep DEF IInv, Safe
<1>4. IInv /\ PlacedIsOnDisk /\ [Next]_vars => PlacedIsOnDisk'
  BY NextPlaced DEF IInv, Safe
<1>5. IInv /\ AloneInRange /\ PlacedIsOnDisk /\ Sequential /\ [SequentialNext]_vars
         => Sequential'
  BY NextIsSequential
<1> QED  BY <1>1, <1>2, <1>3, <1>4, <1>5, InitIInv, NextIInv, PTL DEF SequentialSpec

\* A version is registered just when it is listed and in place.
LEMMA RegisteredIsListed ==
    IInv /\ Sequential =>
        /\ Registered \in [Tool -> Version \cup {NoVersion}]
        /\ \A t \in Tool, v \in Version :
              Registered[t] = v <=> Lists(Recorded, t, v) /\ bin[t] = v
<1> SUFFICES ASSUME IInv, Sequential
             PROVE  /\ Registered \in [Tool -> Version \cup {NoVersion}]
                    /\ \A t \in Tool, v \in Version :
                          Registered[t] = v <=> Lists(Recorded, t, v) /\ bin[t] = v
  OBVIOUS
<1>1. Recorded \in Seq(Entry) /\ Honest(Recorded) /\ NamedOnce(Recorded)
  BY DEF Recorded, IInv, Safe, TypeOK, StateFile, EntriesHonest, Sequential, ListedOnce
<1> DEFINE Checked(t) == {v \in Version : Check(Recorded, bin, t, v)}
<1>2. \A t \in Tool, v \in Version : v \in Checked(t) <=> Lists(Recorded, t, v) /\ bin[t] = v
  BY <1>1, CheckOfNamedOnce
<1>3. Registered = [t \in Tool |-> IF Checked(t) = {} THEN NoVersion ELSE CHOOSE v \in Checked(t) : TRUE]
  BY DEF Registered
<1>4. \A t \in Tool : Checked(t) \subseteq Version
  OBVIOUS
<1> HIDE DEF Checked
<1>5. ASSUME NEW t \in Tool
      PROVE  /\ Registered[t] \in Version \cup {NoVersion}
             /\ \A v \in Version : Registered[t] = v <=> Lists(Recorded, t, v) /\ bin[t] = v
  <2>1. CASE Checked(t) = {}
    BY <1>2, <1>3, <2>1, SpecialValues
  <2>2. CASE Checked(t) # {}
    <3>1. Registered[t] \in Checked(t)
      BY <1>3, <2>2
    <3>2. \A v \in Checked(t) : v = bin[t]
      BY <1>2, <1>4
    <3> QED  BY <1>2, <1>4, <3>1, <3>2
  <2> QED  BY <2>1, <2>2
<1> QED  BY <1>3, <1>5

LEMMA StepImplements ==
    ASSUME IInv, AloneInRange, Sequential, IInv', Sequential', [SequentialNext]_vars
    PROVE  [Abs!Next]_(Abs!vars)
<1> DEFINE Good(t, v) == Lists(Recorded, t, v) /\ bin[t] = v
           Corrupted == file.status = "torn" /\ holder = NoOne
           Stutter == Registered' = Registered /\ Corrupted' = Corrupted
<1>1. /\ Registered \in [Tool -> Version \cup {NoVersion}]
      /\ \A t \in Tool, v \in Version : Registered[t] = v <=> Good(t, v)
  BY RegisteredIsListed
<1>2. (IInv /\ Sequential =>
          /\ Registered \in [Tool -> Version \cup {NoVersion}]
          /\ \A t \in Tool, v \in Version :
                Registered[t] = v <=> Lists(Recorded, t, v) /\ bin[t] = v)'
  BY RegisteredIsListed, PTL
<1>3. /\ Registered' \in [Tool -> Version \cup {NoVersion}]
      /\ \A t \in Tool, v \in Version : Registered'[t] = v <=> Good(t, v)'
  BY <1>2
<1> HIDE DEF Good
<1>4. ASSUME NEW t \in Tool, \A v \in Version : Good(t, v) <=> Good(t, v)'
      PROVE  Registered'[t] = Registered[t]
  BY <1>1, <1>3, <1>4
<1>5. \A v \in Version : v # NoVersion
  BY SpecialValues
<1>6. ASSUME Recorded' = Recorded, bin' = bin PROVE Registered' = Registered
  <2>1. \A t \in Tool, v \in Version : Good(t, v) <=> Good(t, v)'
    BY <1>6 DEF Good
  <2> QED  BY <1>1, <1>3, <1>4, <2>1
<1>7. \A w \in Worker : pc[w] # "write" => holder # w
  BY DEF IInv, Safe, LockDiscipline
<1>8. holder = NoOne \/ holder \in Worker
  BY DEF IInv, Safe, TypeOK
<1>9. ASSUME NEW w \in Worker, AddToolStep(w), pc[w] # "write" PROVE holder = NoOne
  <2>1. \A x \in Worker \ {w} : pc[x] = "idle"
    BY <1>9, OthersAreIdle DEF IInv, Safe
  <2> QED  BY <1>7, <1>8, <1>9, <2>1
<1>10. NoOne \notin Worker
  BY SpecialValues
\* the file stays as it is
<1>11. ASSUME file' = file, bin' = bin, holder' = holder, holder = NoOne \/ snap' = snap
       PROVE  [Abs!Next]_(Abs!vars)
  <2>1. Recorded' = Recorded
    BY <1>11 DEF Recorded
  <2> QED  BY <1>6, <1>11, <2>1 DEF Abs!vars
<1>12. ASSUME NEW w \in Worker,
              \/ LoadState(w) \/ ScanEntries(w) \/ AppendEntry(w) \/ ReplaceEntry(w)
              \/ CopyReceiver(w)
       PROVE  [Abs!Next]_(Abs!vars)
  <2>1. /\ file' = file /\ bin' = bin /\ holder' = holder /\ pc[w] # "write"
    BY <1>12 DEF LoadState, ScanEntries, AppendEntry, ReplaceEntry, CopyReceiver, disk
  <2>2. AddToolStep(w)
    BY <1>12 DEF AddToolStep
  <2> QED  BY <1>9, <1>11, <2>1, <2>2
<1>13. ASSUME NEW w \in Worker, NEW v \in Version, AddTool(w, v) PROVE [Abs!Next]_(Abs!vars)
  BY <1>11, <1>13 DEF AddTool, disk
<1>14. ASSUME NEW w \in Worker, MoveBinary(w) PROVE [Abs!Next]_(Abs!vars)
  <2>1. /\ file' = file /\ holder' = holder /\ holder = NoOne /\ ToolOf[w] \in Tool
        /\ file.status # "torn" /\ req[w] \in Version
    <3>1. AddToolStep(w) /\ pc[w] = "move"
      BY <1>14 DEF AddToolStep, MoveBinary
    <3> QED  BY <1>9, <1>14, <3>1, ParameterTypes
             DEF MoveBinary, Sequential, FileOfCall, Loaded, IInv, Safe, Given
  <2>2. CASE bin' = bin
    BY <1>11, <2>1, <2>2
  <2>3. CASE bin' = [bin EXCEPT ![ToolOf[w]] = req[w]]
    <3>1. Recorded' = Recorded
      BY <2>1 DEF Recorded
    <3>2. \A t \in Tool \ {ToolOf[w]} : bin'[t] = bin[t]
      BY <2>3 DEF IInv, Safe, TypeOK
    <3>3. \A t \in Tool \ {ToolOf[w]} : Registered'[t] = Registered[t]
      BY <1>4, <3>1, <3>2 DEF Good
    <3>4. bin'[ToolOf[w]] = req[w]
      BY <2>1, <2>3 DEF IInv, Safe, TypeOK
    <3>5. Registered'[ToolOf[w]] \in {NoVersion, req[w]}
      BY <1>3, <2>1, <3>4 DEF Good
    <3>6. CASE Registered'[ToolOf[w]] = req[w]
      <4>1. Abs!Register(ToolOf[w], req[w])
        BY <1>3, <2>1, <3>3, <3>6 DEF Abs!Register
      <4> QED  BY <2>1, <4>1 DEF Abs!Next
    <3>7. CASE Registered'[ToolOf[w]] = NoVersion
      <4>1. Registered' = [Registered EXCEPT ![ToolOf[w]] = NoVersion]
        BY <1>1, <1>3, <2>1, <3>3, <3>7
      <4>2. Abs!Unregister(ToolOf[w])
        BY <2>1, <4>1 DEF Abs!Unregister
      <4> QED  BY <2>1, <4>2 DEF Abs!Next
    <3> QED  BY <3>5, <3>6, <3>7
  <2> QED  BY <1>14, <2>2, <2>3 DEF MoveBinary
<1>15. ASSUME NEW w \in Worker, OpenStateFile(w) PROVE [Abs!Next]_(Abs!vars)
  <2>1. /\ pc[w] = "open" /\ holder = NoOne /\ bin' = bin /\ ToolOf[w] \in Tool
        /\ file.status # "torn" /\ req[w] \in Version
    BY <1>15, ParameterTypes DEF OpenStateFile, Sequential, FileOfCall, IInv, Safe, Given
  <2>2. CASE holder' = holder /\ file' = file
    BY <1>11, <2>1, <2>2
  <2>3. CASE holder' = w /\ snap' = snap
    <3>1. Recorded = file.entries /\ Recorded' = snap[w]
      BY <1>10, <2>1, <2>3 DEF Recorded
    <3>2. ASSUME NEW t \in Tool \ {ToolOf[w]}, Registered[t] # NoVersion
          PROVE  Registered'[t] = Registered[t]
      <4>1. PICK v \in Version : v = Registered[t]
        BY <1>1, <3>2
      <4>2. Lists(file.entries, t, v) /\ bin[t] = v
        BY <1>1, <3>1, <4>1 DEF Good
      <4>3. Lists(snap[w], t, v)
        BY <2>1, <4>1, <4>2 DEF Sequential, OthersAreKept
      <4>4. Good(t, v)'
        BY <2>1, <3>1, <4>2, <4>3 DEF Good
      <4> QED  BY <1>3, <4>1, <4>4
    <3>3. Registered'[ToolOf[w]] = req[w]
      <4>1. PICK t \in Tool, v \in Version : t = ToolOf[w] /\ v = req[w]
        BY <2>1
      <4>2. Lists(snap[w], t, v) /\ bin[t] = v
        BY <2>1, <4>1 DEF Sequential, OwnIsListed, OwnIsInPlace, Holding
      <4>3. Good(t, v)'
        BY <2>1, <3>1, <4>2 DEF Good
      <4> QED  BY <1>3, <4>1, <4>3
    <3>4. Abs!Register(ToolOf[w], req[w])
      BY <1>3, <1>10, <2>1, <2>3, <3>2, <3>3 DEF Abs!Register
    <3> QED  BY <2>1, <3>4 DEF Abs!Next
  <2> QED  BY <1>15, <2>2, <2>3 DEF OpenStateFile
<1>16. ASSUME file.status = "torn", holder \in Worker, file' = file, holder' = NoOne
       PROVE  [Abs!Next]_(Abs!vars)
  <2>1. Recorded' = <<>>
    BY <1>16 DEF Recorded, Sequential, FileOfCall
  <2>2. \A t \in Tool, v \in Version : ~Good(t, v)'
    BY <2>1 DEF Good, Lists
  <2>3. Registered' = [t \in Tool |-> NoVersion]
    BY <1>3, <2>2
  <2>4. Abs!Corrupt
    BY <1>10, <1>16, <2>3 DEF Abs!Corrupt
  <2> QED  BY <2>4 DEF Abs!Next
<1>17. ASSUME NEW w \in Worker, WriteStateFile(w) PROVE [Abs!Next]_(Abs!vars)
  <2>1. /\ pc[w] = "write" /\ holder = w /\ holder' = NoOne /\ bin' = bin
        /\ file.status = "torn" /\ snap[w] \in Seq(Entry)
    BY <1>10, <1>17
    DEF WriteStateFile, IInv, Safe, LockDiscipline, TypeOK, Sequential, FileOfCall
  <2>2. CASE UNCHANGED file
    BY <1>16, <2>1, <2>2
  <2>3. ASSUME NEW kept \in Kept(snap[w], OnDisk(snap[w], bin)),
               file' = [status |-> "whole", entries |-> kept]
        PROVE  [Abs!Next]_(Abs!vars)
    <3>1. Recorded = snap[w] /\ Recorded' = kept
      BY <1>10, <2>1, <2>3 DEF Recorded
    <3>2. ASSUME NEW t \in Tool, NEW v \in Version PROVE Good(t, v) <=> Good(t, v)'
      <4>1. v # NoBin
        BY SpecialValues DEF Content
      <4> QED  BY <2>1, <2>3, <3>1, <4>1, SavedIsListed DEF Good
    <3>3. Registered' = Registered
      BY <1>1, <1>3, <1>4, <3>2
    <3>4. Corrupted' = Corrupted
      BY <1>10, <2>1, <2>3
    <3> QED  BY <3>3, <3>4 DEF Abs!vars
  <2> QED  BY <1>17, <2>2, <2>3 DEF WriteStateFile
<1>18. ASSUME NewStore PROVE [Abs!Next]_(Abs!vars)
  BY <1>11, <1>18 DEF NewStore, disk
<1>19. ASSUME Exit \/ Crash PROVE [Abs!Next]_(Abs!vars)
  <2>1. file' = file /\ bin' = bin /\ holder' = NoOne
    BY <1>19 DEF Exit, Crash, Die, disk
  <2>2. CASE holder = NoOne
    BY <1>11, <2>1, <2>2
  <2>3. CASE holder \in Worker
    BY <1>10, <1>16, <2>1, <2>3 DEF Sequential, FileOfCall
  <2> QED  BY <1>8, <2>2, <2>3
<1>20. ASSUME UNCHANGED vars PROVE [Abs!Next]_(Abs!vars)
  BY <1>11, <1>20 DEF vars, disk
<1> QED
  BY <1>12, <1>13, <1>14, <1>15, <1>17, <1>18, <1>19, <1>20 DEF SequentialNext, AddToolStep

\* Calls of AddTool that do not overlap implement the abstract store, crashes and failed
\* calls included, wherever the state file names no tool twice.
THEOREM Refinement ==
    ASSUME OneAtATime, \A p \in Prior : NamedOnce(p.file.entries)
    PROVE  SequentialSpec => ImplementsAbs
<1>1. Init /\ IInv /\ Sequential => Abs!Init
  <2> SUFFICES ASSUME Init, IInv, Sequential PROVE Abs!Init
    OBVIOUS
  <2>1. Registered \in [Tool -> Version \cup {NoVersion}]
    BY RegisteredIsListed
  <2>2. file.status # "torn"
    BY PriorIsHonest DEF Init
  <2> QED  BY <2>1, <2>2 DEF Abs!Init
<1>2. IInv /\ AloneInRange /\ Sequential /\ IInv' /\ Sequential' /\ [SequentialNext]_vars
         => [Abs!Next]_(Abs!vars)
  BY StepImplements
<1> QED  BY <1>1, <1>2, SequentialInvariance, PTL DEF SequentialSpec, ImplementsAbs, Abs!Spec

\* `binny run` finds one entry for what was installed, and the binary it names.
THEOREM RunFinds ==
    ASSUME OneAtATime, \A p \in Prior : NamedOnce(p.file.entries)
    PROVE  SequentialSpec => []RunFindsTheTool
<1>1. IInv /\ PlacedIsOnDisk /\ Sequential => RunFindsTheTool
  <2> SUFFICES ASSUME IInv, PlacedIsOnDisk, Sequential, file.status = "whole",
                      NEW w \in Worker, outcome[w] = "ok", OnlyFor(w)
               PROVE  \E i \in RunEntry(file.entries, ToolOf[w]) :
                         file.entries[i].version = req[w] /\ bin[file.entries[i].name] = req[w]
    BY DEF RunFindsTheTool, OnlyFor
  <2>1. PICK i \in DOMAIN file.entries :
           file.entries[i].name = ToolOf[w] /\ file.entries[i].version = req[w]
    BY DEF Sequential, AddedIsListed, Lists
  <2>2. Named(file.entries, ToolOf[w]) = {i}
    BY <2>1 DEF Sequential, ListedOnce, NamedOnce, Named
  <2>3. i \in RunEntry(file.entries, ToolOf[w])
    BY <2>2, FS_Singleton DEF RunEntry
  <2>4. bin[ToolOf[w]] = req[w]
    BY DEF PlacedIsOnDisk, Placed
  <2> QED  BY <2>1, <2>3, <2>4
<1> QED  BY <1>1, SequentialInvariance, PTL

\* With one call at a time and no tool configured twice the promise holds that two calls at
\* once break: what AddTool returned nil for is recorded.
THEOREM AddedAloneIsRecorded ==
    ASSUME OneAtATime, \A p \in Prior : NamedOnce(p.file.entries),
           \A w \in Worker : OnlyFor(w)
    PROVE  SequentialSpec => []AddedIsRecorded
<1>1. IInv /\ PlacedIsOnDisk /\ Sequential => AddedIsRecorded
  <2> SUFFICES ASSUME IInv, PlacedIsOnDisk, Sequential, file.status # "torn",
                      NEW w \in Worker, outcome[w] = "ok"
               PROVE  Check(file.entries, bin, ToolOf[w], req[w])
    BY DEF AddedIsRecorded
  <2>1. file.entries \in Seq(Entry) /\ Honest(file.entries) /\ NamedOnce(file.entries)
    BY DEF IInv, Safe, TypeOK, StateFile, EntriesHonest, Sequential, ListedOnce
  <2>2. file.status = "whole"
    BY DEF IInv, Safe, TypeOK, StateFile, Sequential, AddedIsListed
  <2>3. Lists(file.entries, ToolOf[w], req[w])
    BY <2>2 DEF Sequential, AddedIsListed
  <2>4. bin[ToolOf[w]] = req[w]
    BY DEF PlacedIsOnDisk, Placed
  <2>5. req[w] \in Version
    <3>1. PICK i \in DOMAIN file.entries : file.entries[i].version = req[w]
      BY <2>3 DEF Lists
    <3>2. file.entries[i] \in Entry
      BY <2>1, <3>1, ElementOfSeq, LenProperties
    <3> QED  BY <3>1, <3>2 DEF Entry
  <2> QED  BY <2>1, <2>3, <2>4, <2>5, ParameterTypes, CheckOfNamedOnce
<1> QED  BY <1>1, SequentialInvariance, PTL

---------------------------------------------------------------------------
(* Two processes.                                                          *)

\* TornHasCause holds of two processes because a call of the other one is one of the
\* faults, and because no worker reads while another of ours has the file open.
SharedSafe ==
    /\ Safe
    /\ other.step \in OtherSteps /\ other.entries \in Seq(Entry)
    /\ other.step # "away" =>
          /\ faults # 0
          /\ other.entry \in Entry /\ other.entry.digest = other.entry.version
          /\ DOMAIN other = {"step", "entries", "entry"}
    /\ first \in [Reader -> StateFile] /\ mixed \in BOOLEAN
    /\ \A w \in Worker : first[w] # NotBegun =>
          pc[w] = "load" /\ holder = NoOne /\ (file = first[w] \/ faults # 0)

\* Until a read is mixed whatever the other process holds is honest too.
SharedHonest == ~mixed => EntriesHonest /\ Honest(other.entries)

SharedIInv == SharedSafe /\ SharedHonest

\* Numbers have a least one.
LEMMA LeastOfNaturals ==
    ASSUME NEW T, T \subseteq Nat, T # {}
    PROVE  \E x \in T : \A y \in T : x <= y
<1> DEFINE R == {p \in Nat \X Nat : p[1] < p[2]}
<1>1. IsWellFoundedOn(R, Nat)
  BY NatLessThanWellFounded DEF OpToRel
<1> HIDE DEF R
<1>2. PICK x \in T : \A y \in T : ~(<<y, x>> \in R)
  BY <1>1, WFMin
<1>3. ASSUME NEW y \in T PROVE x <= y
  <2>1. <<y, x>> \in Nat \X Nat
    OBVIOUS
  <2>2. ~(y < x)
    BY <1>2, <2>1 DEF R
  <2>3. x \in Nat /\ y \in Nat
    OBVIOUS
  <2> QED  BY <2>2, <2>3
<1> QED  BY <1>3

\* The entry that is put among others takes the place of one of its name, or the end.
LEMMA WithIsHonest ==
    ASSUME NEW entries \in Seq(Entry), NEW e \in Entry, e.digest = e.version
    PROVE  /\ With(entries, e) \in Seq(Entry)
           /\ Honest(entries) => Honest(With(entries, e))
<1>1. CASE Named(entries, e.name) = {}
  BY <1>1, HonestEntry DEF With
<1>2. CASE Named(entries, e.name) # {}
  <2> DEFINE named == Named(entries, e.name)
  <2>1. /\ named \subseteq 1..Len(entries) /\ Len(entries) \in Nat
        /\ DOMAIN entries = 1..Len(entries)
    BY LenProperties DEF Named
  <2>2. \E i \in named : \A j \in named : i <= j
    BY <1>2, <2>1, LeastOfNaturals
  <2>3. (CHOOSE i \in named : \A j \in named : i <= j) \in DOMAIN entries
    BY <2>1, <2>2
  <2> QED  BY <1>2, <2>3, HonestEntry DEF With
<1> QED  BY <1>1, <1>2

\* What decodes of two texts together are entries.
LEMMA MixedAreEntries ==
    ASSUME NEW old \in Seq(Entry), NEW new \in Seq(Entry), NEW m \in Mixed(old, new)
    PROVE  m \in Seq(Entry)
<1>1. /\ DOMAIN old = 1..Len(old) /\ DOMAIN new = 1..Len(new)
      /\ Len(old) \in Nat /\ Len(new) \in Nat
  BY LenProperties
<1>2. PICK i \in DOMAIN old \cap DOMAIN new :
         \/ m = SubSeq(old, 1, i) \o SubSeq(new, i + 1, Len(new))
         \/ m = SubSeq(old, 1, i - 1) \o <<[old[i] EXCEPT !.digest = new[i].digest]>>
                                       \o SubSeq(new, i + 1, Len(new))
  BY DEF Mixed
<1>3. \A k \in 1..Len(old) : old[k] \in Entry
  BY ElementOfSeq
<1>4. \A k \in 1..Len(new) : new[k] \in Entry
  BY ElementOfSeq
<1>5. SubSeq(old, 1, i) \in Seq(Entry) /\ SubSeq(old, 1, i - 1) \in Seq(Entry)
  <2>1. 1 \in Int /\ i \in Int /\ i - 1 \in Int
        /\ (\A k \in 1..i : old[k] \in Entry) /\ (\A k \in 1..(i - 1) : old[k] \in Entry)
    BY <1>1, <1>3
  <2> QED  BY <2>1, SubSeqProperties
<1>6. SubSeq(new, i + 1, Len(new)) \in Seq(Entry)
  <2>1. i + 1 \in Int /\ Len(new) \in Int /\ \A k \in (i + 1)..Len(new) : new[k] \in Entry
    BY <1>1, <1>4
  <2> QED  BY <2>1, SubSeqProperties
<1>7. <<[old[i] EXCEPT !.digest = new[i].digest]>> \in Seq(Entry)
  <2>1. [old[i] EXCEPT !.digest = new[i].digest] \in Entry
    BY <1>1, <1>3, <1>4 DEF Entry
  <2> QED  BY <2>1
<1>8. CASE m = SubSeq(old, 1, i) \o SubSeq(new, i + 1, Len(new))
  BY <1>5, <1>6, <1>8, ConcatProperties
<1>9. CASE m = SubSeq(old, 1, i - 1) \o <<[old[i] EXCEPT !.digest = new[i].digest]>>
                                    \o SubSeq(new, i + 1, Len(new))
  <2>1. SubSeq(old, 1, i - 1) \o <<[old[i] EXCEPT !.digest = new[i].digest]>> \in Seq(Entry)
    BY <1>5, <1>7, ConcatProperties
  <2> QED  BY <1>6, <1>9, <2>1, ConcatProperties
<1> QED  BY <1>2, <1>8, <1>9

\* A fault is counted, and none is forgotten.
LEMMA FaultsGrow ==
    ASSUME Safe, Next
    PROVE  faults' = faults \/ faults' = faults + 1
<1>1. ASSUME NEW w \in Worker, AddToolStep(w)
      PROVE  faults' = faults \/ faults' = faults + 1
  BY <1>1
  DEF AddToolStep, LoadState, MoveBinary, ScanEntries, AppendEntry, ReplaceEntry,
      CopyReceiver, OpenStateFile, WriteStateFile, Fault
<1>2. ASSUME NEW w \in Worker, NEW v \in Version, AddTool(w, v)
      PROVE  faults' = faults
  BY <1>2 DEF AddTool
<1>3. ASSUME NewStore \/ Exit \/ Crash \/ \E w \in Worker : Panic(w)
      PROVE  faults' = faults \/ faults' = faults + 1
  BY <1>3 DEF NewStore, Exit, Crash, Panic, Fault
<1> QED  BY <1>1, <1>2, <1>3 DEF Next

\* While no worker of ours has the file open, and none opens it, a step of ours leaves it.
LEMMA FileStays ==
    ASSUME Safe, Next, holder = NoOne, holder' = NoOne
    PROVE  file' = file
<1>1. ASSUME NEW w \in Worker, OpenStateFile(w) \/ WriteStateFile(w)
      PROVE  file' = file
  <2>1. ~WriteStateFile(w)
    BY <1>1, SpecialValues DEF WriteStateFile, Safe, LockDiscipline
  <2> QED  BY <1>1, <2>1, SpecialValues DEF OpenStateFile
<1>2. ASSUME NEW w \in Worker,
             \/ LoadState(w) \/ MoveBinary(w) \/ ScanEntries(w) \/ AppendEntry(w)
             \/ ReplaceEntry(w) \/ CopyReceiver(w)
      PROVE  file' = file
  BY <1>2 DEF LoadState, MoveBinary, ScanEntries, AppendEntry, ReplaceEntry, CopyReceiver, disk
<1>3. ASSUME NEW w \in Worker, NEW v \in Version, AddTool(w, v)
      PROVE  file' = file
  BY <1>3 DEF AddTool, disk
<1>4. ASSUME NewStore \/ Exit \/ Crash \/ \E w \in Worker : Panic(w)
      PROVE  file' = file
  BY <1>4 DEF NewStore, Exit, Crash, Panic, Die, disk
<1> QED  BY <1>1, <1>2, <1>3, <1>4 DEF Next, AddToolStep

LEMMA OursKeepsShared == ASSUME SharedIInv, Ours  PROVE SharedIInv'
<1>1. Safe /\ TypeOK /\ Next /\ faults \in Nat /\ UNCHANGED <<other, mixed>>
  BY DEF SharedIInv, SharedSafe, Safe, TypeOK, Ours
<1>2. Safe' /\ StaysHonest
  BY <1>1, NextSafe
<1>3. faults # 0 => faults' # 0
  BY <1>1, FaultsGrow
<1>4. first' \in [Reader -> StateFile]
  <2>1. NotBegun \in StateFile
    BY EmptySeq DEF NotBegun, StateFile
  <2> QED  BY <2>1 DEF Ours, SharedIInv, SharedSafe
<1>5. ASSUME NEW w \in Worker, first'[w] # NotBegun
      PROVE  pc'[w] = "load" /\ holder' = NoOne /\ (file' = first'[w] \/ faults' # 0)
  <2>1. w # NoOne /\ w \in Reader
    BY SpecialValues DEF Reader
  <2>2. pc'[w] = "load" /\ first'[w] = first[w] /\ first[w] # NotBegun
    BY <1>5, <2>1 DEF Ours
  <2>3. holder = NoOne /\ holder' = NoOne /\ (file = first[w] \/ faults # 0)
    BY <2>2 DEF SharedIInv, SharedSafe, Ours
  <2>4. file' = file
    BY <1>1, <2>3, FileStays
  <2> QED  BY <1>3, <2>2, <2>3, <2>4
<1>6. SharedSafe'
  BY <1>1, <1>2, <1>3, <1>4, <1>5 DEF SharedIInv, SharedSafe
<1>7. SharedHonest'
  BY <1>1, <1>2 DEF SharedIInv, SharedHonest, StaysHonest
<1> QED  BY <1>6, <1>7 DEF SharedIInv

\* The steps of our reads.
LEMMA ReadsKeepShared ==
    ASSUME SharedIInv,
           \/ FinishNewStore \/ \E r \in Reader : BeginRead(r)
           \/ \E w \in Worker : FinishRead(w)
    PROVE  SharedIInv'
<1>1. /\ Safe /\ TypeOK /\ faults \in Nat /\ first \in [Reader -> StateFile] /\ mixed \in BOOLEAN
      /\ file \in StateFile /\ NotBegun \in StateFile /\ Worker \subseteq Reader
      /\ NoOne \in Reader /\ NoOne \notin Worker
  BY EmptySeq, SpecialValues DEF SharedIInv, SharedSafe, Safe, TypeOK, NotBegun, StateFile, Reader
<1>2. ASSUME NEW r \in Reader, BeginRead(r)  PROVE SharedIInv'
  <2>1. /\ UNCHANGED vars /\ UNCHANGED <<other, mixed>> /\ first' = [first EXCEPT ![r] = file]
        /\ r # NoOne => pc[r] = "load" /\ holder = NoOne
    BY <1>2 DEF BeginRead
  <2>2. Safe' /\ StaysHonest
    BY <1>1, <2>1, NextSafe
  <2>3. UNCHANGED <<pc, holder, file, faults>>
    BY <2>1 DEF vars, disk
  <2>4. SharedSafe'
    BY <1>1, <2>1, <2>2, <2>3 DEF SharedIInv, SharedSafe
  <2> QED  BY <2>1, <2>2, <2>4 DEF SharedIInv, SharedHonest, StaysHonest
<1>3. ASSUME NEW m, m \in Mixed(first[NoOne].entries, file.entries) \/
                    \E w \in Worker : m \in Mixed(first[w].entries, file.entries)
      PROVE  m \in Seq(Entry)
  <2>1. file.entries \in Seq(Entry) /\ \A r \in Reader : first[r].entries \in Seq(Entry)
    BY <1>1 DEF StateFile
  <2> QED  BY <1>1, <1>3, <2>1, MixedAreEntries
<1>4. CASE FinishNewStore
  <2>1. /\ mem' \in Seq(Entry) /\ up' = TRUE /\ mixed' = TRUE
        /\ first' = [first EXCEPT ![NoOne] = NotBegun]
        /\ UNCHANGED <<alias, snap, holder, file, bin, pc, req, idx, outcome, faults, other>>
    BY <1>3, <1>4 DEF FinishNewStore, disk
  <2>2. Safe'
    BY <1>1, <2>1 DEF Safe, TypeOK, Given, LockDiscipline, TornHasCause
  <2>3. SharedSafe'
    BY <1>1, <2>1, <2>2 DEF SharedIInv, SharedSafe
  <2> QED  BY <2>1, <2>3 DEF SharedIInv, SharedHonest
<1>5. ASSUME NEW w \in Worker, FinishRead(w)  PROVE SharedIInv'
  <2>1. /\ pc[w] = "load" /\ holder = NoOne /\ faults # 0
        /\ first' = [first EXCEPT ![w] = NotBegun]
        /\ UNCHANGED <<up, snap, holder, file, bin, req, faults, other>>
    BY <1>5 DEF FinishRead, SharedIInv, SharedSafe, disk
  <2>2. /\ mem' \in Seq(Entry) /\ alias' \subseteq Worker /\ mixed' \in BOOLEAN
        /\ pc' \in [Worker -> Steps] /\ idx' \in [Worker -> Nat]
        /\ outcome' \in [Worker -> {"none", "ok", "badState", "failed"}]
        /\ pc'[w] \in {"idle", "move"} /\ \A x \in Worker \ {w} : pc'[x] = pc[x]
        /\ ~mixed' => mem' = mem /\ ~mixed
    <3>1. CASE Return(w, "badState") /\ UNCHANGED <<mem, alias, mixed>>
      <4>1. pc'[w] = "idle" /\ \A x \in Worker \ {w} : pc'[x] = pc[x]
        BY <1>1, <3>1 DEF Return, Goto, TypeOK
      <4> QED  BY <1>1, <3>1, <4>1, ControlTypes DEF TypeOK
    <3>2. CASE /\ mem' \in Mixed(first[w].entries, file.entries) /\ alias' = {}
               /\ Goto(w, "move") /\ mixed' = TRUE /\ UNCHANGED <<idx, outcome>>
      <4>1. pc'[w] = "move" /\ \A x \in Worker \ {w} : pc'[x] = pc[x]
        BY <1>1, <3>2 DEF Goto, TypeOK
      <4>2. pc' \in [Worker -> Steps]
        BY <1>1, <3>2, ControlTypes DEF Steps
      <4> QED  BY <1>1, <1>3, <3>2, <4>1, <4>2 DEF TypeOK
    <3> QED  BY <1>5, <3>1, <3>2 DEF FinishRead
  <2>3. TypeOK'
    BY <1>1, <2>1, <2>2 DEF TypeOK
  <2>4. Given' /\ LockDiscipline' /\ TornHasCause'
    BY <1>1, <2>1, <2>2 DEF Safe, Given, LockDiscipline, TornHasCause
  <2>5. \A x \in Worker : first'[x] # NotBegun => x # w /\ first'[x] = first[x]
    BY <1>1, <2>1
  <2>6. first' \in [Reader -> StateFile]
    BY <1>1, <2>1
  <2>7. SharedSafe'
    BY <2>1, <2>2, <2>3, <2>4, <2>5, <2>6 DEF Safe, SharedIInv, SharedSafe
  <2>8. SharedHonest'
    BY <2>1, <2>2 DEF SharedIInv, SharedHonest, EntriesHonest
  <2> QED  BY <2>7, <2>8 DEF SharedIInv
<1> QED  BY <1>2, <1>4, <1>5

\* What a step of the other process has to keep so that our invariant stays: it never
\* touches our memory, and it is a fault.
LEMMA OtherKeepsSafe ==
    ASSUME SharedSafe, UNCHANGED <<memory, first>>, file' \in StateFile,
           bin' \in [Tool -> Content \cup {NoBin}], faults' \in Nat, faults' # 0,
           mixed' \in BOOLEAN
    PROVE  /\ Safe' /\ first' \in [Reader -> StateFile]
           /\ \A w \in Worker : first'[w] # NotBegun =>
                 pc'[w] = "load" /\ holder' = NoOne /\ (file' = first'[w] \/ faults' # 0)
<1>1. UNCHANGED <<up, mem, alias, snap, holder, pc, req, idx, outcome, first>>
  BY DEF memory
<1>2. TypeOK'
  BY <1>1 DEF SharedSafe, Safe, TypeOK
<1>3. Given' /\ LockDiscipline' /\ TornHasCause'
  BY <1>1 DEF SharedSafe, Safe, Given, LockDiscipline, TornHasCause
<1> QED  BY <1>1, <1>2, <1>3 DEF SharedSafe, Safe

\* No step of the other process disturbs what ours relies on.
LEMMA OtherKeepsShared ==
    ASSUME SharedIInv, Other \/ \E w \in Worker : OverwriteFails(w)
    PROVE  SharedIInv'
<1>1. /\ SharedSafe /\ SharedHonest /\ Safe /\ TypeOK /\ faults \in Nat
      /\ file \in StateFile /\ file.entries \in Seq(Entry) /\ mixed \in BOOLEAN
      /\ bin \in [Tool -> Content \cup {NoBin}] /\ other.entries \in Seq(Entry)
  BY DEF SharedIInv, SharedSafe, Safe, TypeOK, StateFile
<1>2. <<>> \in Seq(Entry) /\ Honest(<<>>) /\ Torn \in StateFile /\ Torn.entries = <<>>
  BY EmptySeq DEF Honest, Torn, StateFile
<1>3. ASSUME NEW step \in {"move", "read"}, NewCall(step), Fault,
             UNCHANGED <<memory, disk, first, mixed>>
      PROVE  SharedIInv'
  <2>1. faults' # 0 /\ faults' \in Nat /\ file' = file /\ bin' = bin
    BY <1>1, <1>3 DEF Fault, disk
  <2>2. PICK t \in OtherTools, v \in Version :
          other' = [step |-> step, entries |-> file.entries,
                    entry |-> [name |-> t, version |-> v, digest |-> v]]
    BY <1>3 DEF NewCall
  <2>3. t \in Tool
    BY OtherToolsAreTools
  <2>4. SharedSafe'
    BY <1>1, <1>3, <2>1, <2>2, <2>3, OtherKeepsSafe
    DEF SharedSafe, OtherSteps, Entry, Content
  <2>5. SharedHonest'
    BY <1>1, <1>3, <2>1, <2>2 DEF SharedHonest, EntriesHonest, memory
  <2> QED  BY <2>4, <2>5 DEF SharedIInv
<1>4. CASE OtherLoads \/ OtherBeginsRead
  BY <1>3, <1>4 DEF OtherLoads, OtherBeginsRead
<1>5. ASSUME other.step # "away", UNCHANGED <<memory, faults, first>>,
             file' \in StateFile, bin' \in [Tool -> Content \cup {NoBin}], mixed' \in BOOLEAN,
             other'.entries \in Seq(Entry),
             other' = Away
             \/ /\ other'.step \in OtherSteps /\ DOMAIN other' = DOMAIN other
                /\ other'.entry = other.entry
      PROVE  SharedSafe'
  <2>1. faults # 0 /\ faults' = faults
    BY <1>1, <1>5 DEF SharedSafe
  <2>2. other'.step \in OtherSteps
    BY <1>5 DEF Away, OtherSteps
  <2>3. other'.step # "away" =>
          /\ other'.entry \in Entry /\ other'.entry.digest = other'.entry.version
          /\ DOMAIN other' = {"step", "entries", "entry"}
    BY <1>1, <1>5 DEF SharedSafe, Away
  <2>4. /\ Safe' /\ first' \in [Reader -> StateFile]
        /\ \A w \in Worker : first'[w] # NotBegun =>
              pc'[w] = "load" /\ holder' = NoOne /\ (file' = first'[w] \/ faults' # 0)
    BY <1>1, <1>5, <2>1, OtherKeepsSafe
  <2> QED  BY <1>5, <2>1, <2>2, <2>3, <2>4 DEF SharedSafe
<1>6. ASSUME other.step # "away"
      PROVE  /\ DOMAIN other = {"step", "entries", "entry"}
             /\ other.entry \in Entry /\ other.entry.digest = other.entry.version
  BY <1>1, <1>6 DEF SharedSafe
<1>7. CASE OtherFinishesRead
  <2>1. PICK entries \in Mixed(other.entries, file.entries) :
          other' = [other EXCEPT !.step = "move", !.entries = entries]
    BY <1>7 DEF OtherFinishesRead
  <2>2. /\ other.step = "read" /\ mixed' = TRUE /\ entries \in Seq(Entry)
        /\ UNCHANGED <<memory, faults, first, file, bin>>
    BY <1>1, <1>7, MixedAreEntries DEF OtherFinishesRead, vars, memory, disk
  <2>3. /\ other'.step = "move" /\ other'.entries = entries
        /\ other'.entry = other.entry /\ DOMAIN other' = DOMAIN other
    BY <1>6, <2>1, <2>2
  <2>4. SharedSafe'
    BY <1>1, <1>5, <2>2, <2>3 DEF OtherSteps
  <2> QED  BY <2>2, <2>4 DEF SharedIInv, SharedHonest
<1>8. CASE OtherMoves
  <2>1. /\ other.step = "move" /\ UNCHANGED <<memory, faults, first, mixed, file>>
        /\ bin' = [bin EXCEPT ![other.entry.name] = other.entry.version]
    BY <1>8 DEF OtherMoves
  <2>2. bin' \in [Tool -> Content \cup {NoBin}]
    BY <1>1, <1>6, <2>1 DEF Entry, Content
  <2>3. /\ With(other.entries, other.entry) \in Seq(Entry)
        /\ Honest(other.entries) => Honest(With(other.entries, other.entry))
    BY <1>1, <1>6, <2>1, WithIsHonest
  <2>4. /\ other'.step = "open" /\ other'.entries = With(other.entries, other.entry)
        /\ other'.entry = other.entry /\ DOMAIN other' = DOMAIN other
    BY <1>6, <1>8, <2>1 DEF OtherMoves
  <2>5. SharedSafe'
    BY <1>1, <1>5, <2>1, <2>2, <2>3, <2>4 DEF OtherSteps
  <2>6. SharedHonest'
    BY <1>1, <2>1, <2>3, <2>4 DEF SharedHonest, EntriesHonest, memory
  <2> QED  BY <2>5, <2>6 DEF SharedIInv
<1>9. CASE OtherOpens
  <2>1. /\ other.step = "open" /\ UNCHANGED <<memory, faults, first, mixed, bin>>
        /\ file' = Torn
    BY <1>9 DEF OtherOpens
  <2>2. /\ other'.step = "write" /\ other'.entries = other.entries
        /\ other'.entry = other.entry /\ DOMAIN other' = DOMAIN other
    BY <1>6, <1>9, <2>1 DEF OtherOpens
  <2>3. SharedSafe'
    BY <1>1, <1>2, <1>5, <2>1, <2>2 DEF OtherSteps
  <2>4. SharedHonest'
    BY <1>1, <1>2, <2>1, <2>2 DEF SharedHonest, EntriesHonest, memory
  <2> QED  BY <2>3, <2>4 DEF SharedIInv
<1>10. CASE OtherWrites
  <2>1. PICK kept \in Kept(other.entries, OnDisk(other.entries, bin)) :
          file' = [status |-> "whole", entries |-> kept]
    BY <1>10 DEF OtherWrites
  <2>2. OnDisk(other.entries, bin) \in SUBSET (DOMAIN other.entries)
    BY DEF OnDisk
  <2>3. kept \in Seq(Entry) /\ (Honest(other.entries) => Honest(kept))
    BY <1>1, <2>2, KeptIsPart
  <2>4. /\ other.step = "write" /\ UNCHANGED <<memory, faults, first, mixed, bin>>
        /\ other' = Away /\ file' \in StateFile
    BY <1>10, <2>1, <2>3 DEF OtherWrites, StateFile
  <2>5. SharedSafe'
    BY <1>1, <1>2, <1>5, <2>4 DEF Away
  <2>6. SharedHonest'
    BY <1>1, <1>2, <2>1, <2>3, <2>4 DEF SharedHonest, EntriesHonest, Away, memory
  <2> QED  BY <2>5, <2>6 DEF SharedIInv
<1>11. CASE OtherFails
  <2>1. /\ other.step # "away" /\ UNCHANGED <<memory, faults, first, mixed, bin>>
        /\ other' = Away /\ (file' = file \/ file' = Torn)
    BY <1>11 DEF OtherFails
  <2>2. SharedSafe'
    BY <1>1, <1>2, <1>5, <2>1 DEF Away
  <2>3. SharedHonest'
    BY <1>1, <1>2, <2>1 DEF SharedHonest, EntriesHonest, Away, memory
  <2> QED  BY <2>2, <2>3 DEF SharedIInv
<1>12. ASSUME NEW w \in Worker, OverwriteFails(w) PROVE SharedIInv'
  <2>1. /\ faults' = faults + 1 /\ Return(w, "failed") /\ file' = Torn /\ holder' = NoOne
        /\ DropReceiver(w) /\ UNCHANGED <<up, mem, bin, req, other, first, mixed>>
        /\ pc[w] = "write"
    BY <1>12 DEF OverwriteFails, Fault
  <2>2. faults' # 0 /\ faults' \in Nat
    BY <1>1, <2>1
  <2>3. TypeOK'
    BY <1>1, <1>2, <2>1, <2>2, ControlTypes DEF TypeOK, DropReceiver
  <2>4. pc'[w] = "idle" /\ \A x \in Worker \ {w} : pc'[x] = pc[x]
    BY <1>1, <2>1 DEF TypeOK, Return, Goto
  <2>5. Given' /\ LockDiscipline'
    BY <1>1, <2>1, <2>4, SpecialValues DEF Safe, Given, LockDiscipline
  <2>6. TornHasCause'
    BY <2>2 DEF TornHasCause
  <2>7. \A x \in Worker : first[x] # NotBegun => FALSE
    BY <1>1, <2>1, SpecialValues DEF SharedSafe, Safe, LockDiscipline
  <2>8. SharedSafe'
    BY <1>1, <2>1, <2>2, <2>3, <2>5, <2>6, <2>7 DEF SharedSafe, Safe
  <2>9. SharedHonest'
    BY <1>1, <1>2, <2>1 DEF SharedHonest, EntriesHonest, DropReceiver, TypeOK
  <2> QED  BY <2>8, <2>9 DEF SharedIInv
<1> QED  BY <1>4, <1>7, <1>8, <1>9, <1>10, <1>11, <1>12 DEF Other

LEMMA SharedInductive == SharedIInv /\ [SharedNext]_sharedVars => SharedIInv'
<1>1. ASSUME SharedIInv, SharedNext PROVE SharedIInv'
  BY <1>1, OursKeepsShared, ReadsKeepShared, OtherKeepsShared DEF SharedNext
<1>2. ASSUME SharedIInv, UNCHANGED sharedVars PROVE SharedIInv'
  <2>1. UNCHANGED vars /\ UNCHANGED <<other, first, mixed, pc, holder, file, faults>>
    BY <1>2 DEF sharedVars, vars, disk
  <2>2. Safe' /\ StaysHonest
    BY <1>2, <2>1, NextSafe DEF SharedIInv, SharedSafe
  <2> QED  BY <1>2, <2>1, <2>2 DEF SharedIInv, SharedSafe, SharedHonest, StaysHonest
<1> QED  BY <1>1, <1>2

\* The invariant of two processes on one store root, however their calls interleave and
\* whatever a read that a write falls into makes of the file.
THEOREM SharedInvariance == SharedSpec => []SharedIInv
<1>1. SharedInit => SharedIInv
  <2> SUFFICES ASSUME SharedInit PROVE SharedIInv
    OBVIOUS
  <2>1. <<>> \in Seq(Entry) /\ Honest(<<>>) /\ NotBegun \in StateFile
    BY EmptySeq DEF Honest, NotBegun, StateFile
  <2>2. IInv
    BY InitIInv DEF SharedInit
  <2>3. SharedSafe
    BY <2>1, <2>2 DEF SharedInit, SharedSafe, IInv, Away, OtherSteps, Reader
  <2> QED  BY <2>1, <2>2, <2>3 DEF SharedInit, SharedIInv, SharedHonest, IInv, Away
<1> QED  BY <1>1, SharedInductive, PTL DEF SharedSpec

\* The lock of our process keeps its discipline beside another process, and a file of ours
\* is torn only under it, or by a failure or the other process.
THEOREM SharedTornFile == SharedSpec => [](TypeOK /\ LockDiscipline /\ TornHasCause)
<1>1. SharedIInv => TypeOK /\ LockDiscipline /\ TornHasCause
  BY DEF SharedIInv, SharedSafe, Safe
<1> QED  BY <1>1, SharedInvariance, PTL

\* Two processes fool tool.Check only by a read that the other's write falls into: until
\* then every entry is honest, and what passes is of the version asked for.
THEOREM SharedSoundness == SharedSpec => []TrustedUnlessMixed
<1>1. SharedIInv => TrustedUnlessMixed
  BY SoundCheck DEF SharedIInv, SharedSafe, Safe, SharedHonest, TrustedUnlessMixed
<1> QED  BY <1>1, SharedInvariance, PTL
=============================================================================
