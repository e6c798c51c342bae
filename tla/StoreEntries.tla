---------------------------- MODULE StoreEntries ----------------------------
(***************************************************************************)
(* The entries of the store (StoreEntry of store.go) and what is read of   *)
(* them: Get, GetByName and Verify of store.go, Check of tool/check.go and *)
(* runRunRUN of command/run.go.                                            *)
(***************************************************************************)
EXTENDS Sequences, FiniteSets, Naturals

CONSTANTS
    Tool,      \* names of tools
    Version,   \* resolved versions
    Foreign,   \* the content of a binary that binny did not install
    NoBin      \* the "content" of a path where there is no file

\* The content of a binary is the version binny built or downloaded it for, so
\* its digest is taken to be that version: the hashes do not collide.
Content == Version \cup {Foreign}
Entry == [name : Tool, version : Version, digest : Content]

\* Every entry carries the digest of the version it names.
Honest(entries) == \A i \in DOMAIN entries : entries[i].digest = entries[i].version

\* the indices GetByName(name) returns the entries of
Named(entries, name) == {i \in DOMAIN entries : entries[i].name = name}
\* GetByName(name, version)
NamedAt(entries, name, version) ==
    {i \in Named(entries, name) : entries[i].version = version}

\* Store.Get: which of its returns is taken
GetResult(entries, name, version) ==
    LET n == Cardinality(NamedAt(entries, name, version))
    IN  CASE n = 1 -> "entry"
          [] n > 1 -> "multiple"
          [] n = 0 /\ Named(entries, name) # {} -> "different"
          [] OTHER -> "missing"

\* A bug: a binary that is there is good, whatever its digest.
VerifyExists(entry, bins) == bins[entry.name] # NoBin

\* StoreEntry.Verify: the file exists and has the recorded digest
Verify(entry, bins) == bins[entry.name] # NoBin /\ bins[entry.name] = entry.digest

\* tool.Check: exactly one entry has the name and version, and it verifies
Check(entries, bins, name, version) ==
    /\ GetResult(entries, name, version) = "entry"
    /\ \A i \in NamedAt(entries, name, version) : Verify(entries[i], bins)

\* runRunRUN: the entry whose path `binny run name` executes, unverified; {} for an error
RunEntry(entries, name) ==
    {i \in Named(entries, name) : Cardinality(Named(entries, name)) = 1}
=============================================================================
