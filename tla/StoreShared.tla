---------------------------- MODULE StoreShared ----------------------------
(***************************************************************************)
(* Two binny processes on one store root.  Store.lock of store.go orders   *)
(* the goroutines of one process; nothing orders the processes, so the     *)
(* other one's AddTool reads, truncates and writes the state file, and     *)
(* renames binaries, between any two steps of ours.                        *)
(*                                                                         *)
(* The other process makes one call at a time.  What it does between two   *)
(* accesses to the disk is its own: a step of it is one access.  A call    *)
(* of it counts as one of the faults ours is exposed to, within MaxFaults. *)
(*                                                                         *)
(* json.Decoder reads the file piece by piece.  A read that no write of    *)
(* the other process falls into is the one step LoadState or OtherLoads.   *)
(* One that a write falls into is two steps, a first piece of the text     *)
(* there was and the rest of the text there is then; what decodes of the   *)
(* two together is taken.  The bounds: two pieces, entries of one length,  *)
(* and a cut that falls between two entries or before a digest.            *)
(***************************************************************************)
EXTENDS Store

CONSTANT OtherTools   \* the tools the other process may install

ASSUME OtherToolsAreTools == OtherTools \subseteq Tool

VARIABLES
    other,     \* the other process's call of AddTool: its step, tool, version, entries
    first,     \* the text a worker (NoOne: NewStore) has read a first piece of
    mixed      \* some read put pieces of two texts together (history)

OtherSteps == {"away", "read", "move", "open", "write"}
Away == [step |-> "away", entries |-> <<>>]
Torn == [status |-> "torn", entries |-> <<>>]
NotBegun == [status |-> "absent", entries |-> <<>>]
Reader == Worker \cup {NoOne}

\* the entries with the new one in place of the first of its name, or at the end
With(entries, entry) ==
    LET named == Named(entries, entry.name)
    IN  IF named = {} THEN Append(entries, entry)
        ELSE [entries EXCEPT ![CHOOSE i \in named : \A j \in named : i <= j] = entry]

memory == <<up, mem, alias, snap, holder, pc, req, idx, outcome>>

\* what the decoder makes of the start of one text and the rest of another: the cut falls
\* between two entries, or inside one, which gets the later text's digest
Mixed(old, new) ==
    UNION {{ SubSeq(old, 1, i) \o SubSeq(new, i + 1, Len(new)),
             SubSeq(old, 1, i - 1) \o <<[old[i] EXCEPT !.digest = new[i].digest]>>
                                   \o SubSeq(new, i + 1, Len(new)) } :
           i \in DOMAIN old \cap DOMAIN new}

---------------------------------------------------------------------------
(* Our reads of the file.                                                  *)

BeginRead(r) ==
    /\ IF r = NoOne THEN ~up ELSE pc[r] = "load" /\ holder = NoOne
    /\ file.status = "whole" /\ first[r] = NotBegun
    /\ first' = [first EXCEPT ![r] = file]
    /\ UNCHANGED <<vars, other, mixed>>

\* loadState of a worker, with the file written meanwhile
FinishRead(w) ==
    /\ first[w] # NotBegun /\ file # first[w]
    /\ \/ /\ Return(w, "badState")
          /\ UNCHANGED <<mem, alias, mixed>>
       \/ /\ file.status = "whole"
          /\ mem' \in Mixed(first[w].entries, file.entries) /\ alias' = {}
          /\ Goto(w, "move") /\ mixed' = TRUE /\ UNCHANGED <<idx, outcome>>
    /\ first' = [first EXCEPT ![w] = NotBegun]
    /\ UNCHANGED <<up, snap, holder, disk, req, faults, other>>

\* loadState of NewStore, with the file written meanwhile
FinishNewStore ==
    /\ first[NoOne] # NotBegun /\ file # first[NoOne] /\ file.status = "whole"
    /\ mem' \in Mixed(first[NoOne].entries, file.entries)
    /\ up' = TRUE /\ mixed' = TRUE
    /\ first' = [first EXCEPT ![NoOne] = NotBegun]
    /\ UNCHANGED <<alias, snap, holder, disk, pc, req, idx, outcome, faults, other>>

\* every other step of ours: none opens the file for writing while a worker reads
\* (RLock), and a read ends with its call or its process
Ours ==
    /\ Next
    /\ (\E w \in Worker : first[w] # NotBegun) => holder' = NoOne
    /\ first' = [r \in Reader |->
                    IF (IF r = NoOne THEN ~up' ELSE pc'[r] = "load") THEN first[r] ELSE NotBegun]
    /\ UNCHANGED <<other, mixed>>

---------------------------------------------------------------------------
(* The other process.                                                      *)

NewCall(step) ==
    \E t \in OtherTools, v \in Version :
        other' = [step |-> step, entries |-> file.entries,
                  entry |-> [name |-> t, version |-> v, digest |-> v]]

\* NewStore and loadState; a torn file fails them both
OtherLoads ==
    /\ other.step = "away" /\ file.status # "torn" /\ Fault
    /\ NewCall("move")
    /\ UNCHANGED <<memory, disk, first, mixed>>

\* the same, up to a first piece of the text
OtherBeginsRead ==
    /\ other.step = "away" /\ file.status = "whole" /\ Fault
    /\ NewCall("read")
    /\ UNCHANGED <<memory, disk, first, mixed>>

\* and the rest of the text that ours wrote meanwhile
OtherFinishesRead ==
    /\ other.step = "read" /\ file.status = "whole" /\ file.entries # other.entries
    /\ \E entries \in Mixed(other.entries, file.entries) :
          other' = [other EXCEPT !.step = "move", !.entries = entries]
    /\ mixed' = TRUE
    /\ UNCHANGED <<vars, first>>

\* digests and rename, then the entry is put among the process's own
OtherMoves ==
    /\ other.step = "move"
    /\ bin' = [bin EXCEPT ![other.entry.name] = other.entry.version]
    /\ other' = [other EXCEPT !.step = "open", !.entries = With(@, other.entry)]
    /\ UNCHANGED <<memory, file, faults, first, mixed>>

\* saveState's OpenFile with O_TRUNC, under the lock of that process
OtherOpens ==
    /\ other.step = "open"
    /\ file' = Torn
    /\ other' = [other EXCEPT !.step = "write"]
    /\ UNCHANGED <<memory, bin, faults, first, mixed>>

\* A bug: entries are written with the digest of what is in place now.
OtherWritesRehashed ==
    /\ other.step = "write"
    /\ \E kept \in Kept(other.entries, OnDisk(other.entries, bin)) :
          file' = [status |-> "whole",
                   entries |-> [i \in DOMAIN kept |-> [kept[i] EXCEPT !.digest = bin[kept[i].name]]]]
    /\ other' = Away
    /\ UNCHANGED <<memory, bin, faults, first, mixed>>

\* saveState's Encode: one write at offset 0, and loadState decodes the first value only,
\* so what ours wrote since the truncation does not show
OtherWrites ==
    /\ other.step = "write"
    /\ \E kept \in Kept(other.entries, OnDisk(other.entries, bin)) :
          file' = [status |-> "whole", entries |-> kept]
    /\ other' = Away
    /\ UNCHANGED <<memory, bin, faults, first, mixed>>

\* It fails or is killed; a write cut off half way tears what ours wrote meanwhile.
OtherFails ==
    /\ other.step # "away"
    /\ \/ UNCHANGED file
       \/ other.step = "write" /\ file' = Torn
    /\ other' = Away
    /\ UNCHANGED <<memory, bin, faults, first, mixed>>

\* A write of ours that is cut off half way tears what the other wrote meanwhile.
OverwriteFails(w) ==
    /\ pc[w] = "write" /\ file.status = "whole"
    /\ Fault /\ Return(w, "failed") /\ DropReceiver(w)
    /\ holder' = NoOne /\ file' = Torn
    /\ UNCHANGED <<up, mem, bin, req, other, first, mixed>>

Other ==
    \/ OtherLoads \/ OtherBeginsRead \/ OtherFinishesRead
    \/ OtherMoves \/ OtherOpens \/ OtherWrites \/ OtherFails

SharedInit ==
    /\ Init
    /\ other = Away /\ first = [r \in Reader |-> NotBegun] /\ mixed = FALSE
SharedNext ==
    \/ Ours \/ Other \/ FinishNewStore
    \/ \E r \in Reader : BeginRead(r)
    \/ \E w \in Worker : FinishRead(w) \/ OverwriteFails(w)
sharedVars == <<vars, other, first, mixed>>
SharedSpec == SharedInit /\ [][SharedNext]_sharedVars

---------------------------------------------------------------------------
(* Properties.                                                             *)

\* What two processes may do to each other and verification survives: lost entries, torn
\* files, binaries replaced between any two steps.  What it does not: a read that the
\* other's truncation and write fall into may give an entry one version and the digest of
\* another.  As long as no read was mixed in this way, every entry is honest (in the other
\* process's memory too) and a check that passes is right (store.go, tool.Check).
TrustedUnlessMixed ==
    ~mixed => EntriesHonest /\ CheckIsSound /\ Honest(other.entries)
=============================================================================
