-------------------------------- MODULE List --------------------------------
(***************************************************************************)
(* The commands that only read the store: `binny check` (command/check.go) *)
(* and `binny list` (command/list.go).  Each goes over the configured      *)
(* tools one by one, and resolves a version and reads a binary for each,   *)
(* while somebody else may remove or replace binaries.                     *)
(***************************************************************************)
EXTENDS StoreEntries, Integers

CONSTANTS
    Config,      \* configurations: sequences of tool names
    Stored,      \* what the store may hold: [entries |-> ..., bin |-> ...]
    Include,     \* ListConfig.IncludeFilter: sets of names, {} for no filter
    None,        \* the version of a tool that has none
    MaxTampers   \* bound on changes of binaries by others

ASSUME ListTypes ==
    /\ \A cfg \in Config : cfg \in Seq(Tool)
    /\ \A s \in Stored : /\ s.entries \in Seq(Entry) /\ Honest(s.entries)
                         /\ s.bin \in [Tool -> Content \cup {NoBin}]
    /\ Include \subseteq SUBSET Tool
    /\ None \notin Version /\ MaxTampers \in Nat

VARIABLES
    cmd,          \* "list" or "check"
    toolOpts,     \* the configured tools
    entries,      \* Store.entries
    bin,          \* the content at root/name
    stage,        \* where in the command it is
    i,            \* the index of its loop
    storedEntries,
    failedTools,
    allStatus,    \* the rows of getAllStatuses
    resolved,     \* the version each configured tool resolved to last
    tampers

input == <<cmd, toolOpts, entries>>
vars == <<input, bin, stage, i, storedEntries, failedTools, allStatus, resolved, tampers>>

\* toolStatus; configured is WantVersion # "?"
Row == [name : Tool, configured : BOOLEAN, resolved : Version \cup {None},
        installed : Version \cup {None}, isInstalled : BOOLEAN,
        hashIsValid : BOOLEAN, error : BOOLEAN]

TypeOK ==
    /\ cmd \in {"list", "check"} /\ toolOpts \in Config
    /\ entries \in Seq(Entry) /\ bin \in [Tool -> Content \cup {NoBin}]
    /\ stage \in {"configured", "stored", "failed", "listed", "passed", "refused"}
    /\ i \in Nat /\ storedEntries \in Seq(Entry) /\ failedTools \subseteq Tool
    /\ allStatus \in Seq(Row)
    /\ resolved \in [Tool -> Version \cup {None}] /\ tampers \in Nat

\* NewStore has read the state file, and Entries() has copied the entries.
Init ==
    /\ cmd \in {"list", "check"} /\ toolOpts \in Config
    /\ \E s \in Stored : entries = s.entries /\ bin = s.bin
    /\ stage = "configured" /\ i = 1
    /\ storedEntries = entries /\ failedTools = {} /\ allStatus = <<>>
    /\ resolved = [t \in Tool |-> None] /\ tampers = 0

---------------------------------------------------------------------------
(* `binny list`: getAllStatuses.                                           *)

\* A bug: every entry of that version goes.
RemoveEntryAll(es, entry) == SelectSeq(es, LAMBDA e : e.version # entry.version)

\* removeEntry: without its first match of name and version
RemoveEntry(es, entry) ==
    LET same == {k \in DOMAIN es : es[k].name = entry.name
                                    /\ es[k].version = entry.version}
    IN  IF same = {} THEN es
        ELSE LET k == CHOOSE k \in same : \A j \in same : k <= j
             IN  SubSeq(es, 1, k - 1) \o SubSeq(es, k + 1, Len(es))

\* getInstallationStatus fails when there is no binary to hash; a read that fails, or an
\* entry without a digest, may make it fail too.
StatusFails(entry) == bin[entry.name] = NoBin

\* the row of a tool whose entries are at the indices in mine
ConfiguredRow(name, version, mine) ==
    [name |-> name, configured |-> TRUE, resolved |-> version,
     installed |-> IF mine = {} THEN None ELSE entries[CHOOSE k \in mine : TRUE].version,
     isInstalled |-> mine # {},
     hashIsValid |-> \E k \in mine : Verify(entries[k], bin), error |-> FALSE]

\* A bug: a tool that fails is forgotten.
GetStatusForgets ==
    /\ cmd = "list" /\ stage = "configured" /\ i <= Len(toolOpts)
    /\ LET name == toolOpts[i]
           mine == Named(entries, name)
       IN  \/ UNCHANGED <<failedTools, storedEntries, allStatus, resolved>>
           \/ /\ Cardinality(mine) <= 1
              /\ \A k \in mine : ~StatusFails(entries[k])
              /\ \E version \in Version :
                    /\ resolved' = [resolved EXCEPT ![name] = version]
                    /\ allStatus' = Append(allStatus, ConfiguredRow(name, version, mine))
              /\ \/ mine = {} /\ UNCHANGED storedEntries
                 \/ \E k \in mine : storedEntries' = RemoveEntry(storedEntries, entries[k])
              /\ UNCHANGED failedTools
    /\ i' = i + 1
    /\ UNCHANGED <<input, bin, stage, tampers>>

\* getStatus of the next configured tool: ToTool or ResolveVersion may fail, there may
\* be two entries of the name, and the binary may be gone.
GetStatus ==
    /\ cmd = "list" /\ stage = "configured" /\ i <= Len(toolOpts)
    /\ LET name == toolOpts[i]
           mine == Named(entries, name)
       IN  \/ /\ failedTools' = failedTools \cup {name}
              /\ UNCHANGED <<storedEntries, allStatus, resolved>>
           \/ /\ Cardinality(mine) <= 1
              /\ \A k \in mine : ~StatusFails(entries[k])
              /\ \E version \in Version :
                    /\ resolved' = [resolved EXCEPT ![name] = version]
                    /\ allStatus' = Append(allStatus, ConfiguredRow(name, version, mine))
              /\ \/ mine = {} /\ UNCHANGED storedEntries
                 \/ \E k \in mine : storedEntries' = RemoveEntry(storedEntries, entries[k])
              /\ UNCHANGED failedTools
    /\ i' = i + 1
    /\ UNCHANGED <<input, bin, stage, tampers>>

ConfiguredDone ==
    /\ cmd = "list" /\ stage = "configured" /\ i > Len(toolOpts)
    /\ stage' = "stored" /\ i' = 1
    /\ UNCHANGED <<input, bin, storedEntries, failedTools, allStatus, resolved, tampers>>

\* the next of the entries that are left; its status may fail
ListStored ==
    /\ stage = "stored" /\ i <= Len(storedEntries)
    /\ LET entry == storedEntries[i]
       IN  \/ failedTools' = failedTools \cup {entry.name} /\ UNCHANGED allStatus
           \/ /\ ~StatusFails(entry)
              /\ allStatus' = Append(allStatus,
                      [name |-> entry.name, configured |-> FALSE, resolved |-> None,
                       installed |-> entry.version, isInstalled |-> TRUE,
                       hashIsValid |-> Verify(entry, bin), error |-> FALSE])
              /\ UNCHANGED failedTools
    /\ i' = i + 1
    /\ UNCHANGED <<input, bin, stage, storedEntries, resolved, tampers>>

StoredDone ==
    /\ stage = "stored" /\ i > Len(storedEntries)
    /\ stage' = "failed"
    /\ UNCHANGED <<input, bin, i, storedEntries, failedTools, allStatus, resolved, tampers>>

\* the range over the map of failures, in any order
ListFailed ==
    /\ stage = "failed"
    /\ \E name \in failedTools :
          /\ allStatus' = Append(allStatus,
                [name |-> name, configured |-> \E k \in DOMAIN toolOpts : toolOpts[k] = name,
                 resolved |-> None, installed |-> None, isInstalled |-> FALSE,
                 hashIsValid |-> FALSE, error |-> TRUE])
          /\ failedTools' = failedTools \ {name}
    /\ UNCHANGED <<input, bin, stage, i, storedEntries, resolved, tampers>>

FailedDone ==
    /\ stage = "failed" /\ failedTools = {}
    /\ stage' = "listed"
    /\ UNCHANGED <<input, bin, i, storedEntries, failedTools, allStatus, resolved, tampers>>

\* filterStatus; the order of the rows is left out
FilterStatus(rows, names) == {row \in rows : names = {} \/ row.name \in names}
Asked(names) == FilterStatus({allStatus[k] : k \in DOMAIN allStatus}, names)

\* A bug: a digest that does not match is no reason for an update.
HasNewVersion(row) ==
    row.error \/ (row.configured /\ row.installed # row.resolved)

\* a row filterToolsWithoutUpdates keeps
HasUpdate(row) ==
    \/ row.error
    \/ /\ row.configured
       /\ (row.installed # row.resolved \/ ~row.hashIsValid)

\* a row getToolUpdatesRow has something to say of: a digest that does not match is nothing
HasCommentary(row) ==
    \/ row.error \/ ~row.isInstalled
    \/ row.configured /\ row.installed # row.resolved

\* the rows of `binny list --updates`, as JSON and in its table
UpdatesJSON(names) == {row \in Asked(names) : HasUpdate(row)}
UpdatesTable(names) == {row \in Asked(names) : HasCommentary(row)}

---------------------------------------------------------------------------
(* `binny check`: runCheck.                                                *)

\* A bug: a tool that fails is passed over.
CheckToolForgets ==
    /\ cmd = "check" /\ stage = "configured" /\ i <= Len(toolOpts)
    /\ \E version \in Version : resolved' = [resolved EXCEPT ![toolOpts[i]] = version]
    /\ i' = i + 1
    /\ UNCHANGED <<input, bin, stage, storedEntries, failedTools, allStatus, tampers>>

\* checkTool of the next configured tool
CheckTool ==
    /\ cmd = "check" /\ stage = "configured" /\ i <= Len(toolOpts)
    /\ LET name == toolOpts[i]
       IN  \/ failedTools' = failedTools \cup {name} /\ UNCHANGED resolved
           \/ \E version \in Version :
                 /\ resolved' = [resolved EXCEPT ![name] = version]
                 /\ failedTools' = IF Check(entries, bin, name, version) THEN failedTools
                                   ELSE failedTools \cup {name}
    /\ i' = i + 1
    /\ UNCHANGED <<input, bin, stage, storedEntries, allStatus, tampers>>

CheckDone ==
    /\ cmd = "check" /\ stage = "configured" /\ i > Len(toolOpts)
    /\ stage' = IF failedTools = {} THEN "passed" ELSE "refused"
    /\ UNCHANGED <<input, bin, i, storedEntries, failedTools, allStatus, resolved, tampers>>

---------------------------------------------------------------------------

\* somebody removes or replaces a binary
Tamper ==
    /\ tampers < MaxTampers /\ tampers' = tampers + 1
    /\ \E t \in Tool, content \in {NoBin, Foreign} :
          bin[t] # content /\ bin' = [bin EXCEPT ![t] = content]
    /\ UNCHANGED <<input, stage, i, storedEntries, failedTools, allStatus, resolved>>

Next ==
    \/ GetStatus \/ ConfiguredDone \/ ListStored \/ StoredDone \/ ListFailed \/ FailedDone
    \/ CheckTool \/ CheckDone \/ Tamper

Spec == Init /\ [][Next]_vars

---------------------------------------------------------------------------
(* Properties.                                                             *)

Configured == {toolOpts[k] : k \in DOMAIN toolOpts}
RowsOf(name) == {k \in DOMAIN allStatus : allStatus[k].name = name}

\* Nothing is left out of the list, whatever fails and vanishes on the way: each tool
\* that is configured or stored has a row, and each entry is shown at its version unless
\* an error stands for its name (getAllStatuses).
EverythingIsListed ==
    stage = "listed" =>
        /\ \A name \in Configured : \E k \in RowsOf(name) : allStatus[k].configured
        /\ \A e \in DOMAIN entries : \E k \in RowsOf(entries[e].name) :
              allStatus[k].error \/ allStatus[k].installed = entries[e].version

\* Without a failure each entry of the store is shown exactly once, and so is each tool
\* that is configured once (removeEntry).
EachIsListedOnce ==
    (   /\ stage = "listed"
        /\ \A k \in DOMAIN allStatus : ~allStatus[k].error
        /\ \A k, l \in DOMAIN toolOpts : toolOpts[k] = toolOpts[l] => k = l) =>
        /\ \A name \in Configured : Cardinality(RowsOf(name)) = 1
        /\ Cardinality({k \in DOMAIN allStatus : allStatus[k].isInstalled}) = Len(entries)

\* What `binny list --updates` leaves out of the tools it was asked about is up to date:
\* what its JSON leaves out would pass `binny check` at the version the tool resolved to,
\* and what its table leaves out has an entry of that version, of whatever digest
\* (filterToolsWithoutUpdates, getToolUpdatesRow, tool.Check).
LeftOutIsUpToDate ==
    stage = "listed" =>
        \A names \in Include : \A name \in Configured :
            (names = {} \/ name \in names) =>
                /\ (tampers = 0 /\ \A row \in UpdatesJSON(names) : row.name # name)
                      => Check(entries, bin, name, resolved[name])
                /\ (\A row \in UpdatesTable(names) : row.name # name)
                      => \E e \in DOMAIN entries : entries[e].name = name
                                                    /\ entries[e].version = resolved[name]

\* When `binny check` passes, each configured tool's binary was the version that the
\* tool resolved to, and still is if nobody touched it.
PassedMeansInPlace ==
    stage = "passed" =>
        \A name \in Configured :
            /\ \E e \in DOMAIN entries : entries[e].name = name
                                          /\ entries[e].version = resolved[name]
            /\ tampers = 0 => bin[name] = resolved[name]
=============================================================================
