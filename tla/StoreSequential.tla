-------------------------- MODULE StoreSequential --------------------------
(***************************************************************************)
(* Calls of AddTool that do not overlap (Limit = 1: one tool, or one tool  *)
(* at a time) implement the abstract store, crashes and failures included. *)
(* With two at once they do not: see AddedIsRecorded in Store.             *)
(***************************************************************************)
EXTENDS Store

\* With nobody else in AddTool no index is stale, so no call panics: that nothing is left
\* out here when Limit is 1 is the theorem NoPanicAlone of StoreProofs.
SequentialNext ==
    \/ NewStore \/ Exit \/ Crash
    \/ \E w \in Worker : AddToolStep(w) \/ \E v \in Version : AddTool(w, v)
SequentialSpec == Init /\ [][SequentialNext]_vars

\* what the file holds or, while a save is under way, what is about to be written to it
\* (the entries saveState leaves out have no binary, so they check out nowhere)
Recorded == IF holder = NoOne THEN file.entries ELSE snap[holder]

Registered ==
    [t \in Tool |->
        LET checked == {v \in Version : Check(Recorded, bin, t, v)}
        IN  IF checked = {} THEN NoVersion ELSE CHOOSE v \in checked : TRUE]

Abs == INSTANCE StoreAbs WITH
    None <- NoVersion,
    registered <- Registered,
    corrupt <- file.status = "torn" /\ holder = NoOne

\* An installation that runs alone changes the registration of its own tool only,
\* a crash between its steps loses at most that tool, and a crash inside saveState
\* loses all of them for good (AddTool, loadState and saveState of store.go).
ImplementsAbs == Abs!Spec

\* When nobody is in AddTool, `binny run` of another process finds one entry for each tool
\* that was installed, and executes the binary that was installed last (no other worker
\* installs a tool of that name): run.go refuses a name with two entries and verifies
\* nothing itself.
RunFindsTheTool ==
    (file.status = "whole" /\ \A w \in Worker : ~InAddTool(w)) =>
        \A w \in Worker :
            (outcome[w] = "ok" /\ \A x \in Worker \ {w} : ToolOf[x] # ToolOf[w]) =>
                \E i \in RunEntry(file.entries, ToolOf[w]) :
                    file.entries[i].version = req[w] /\ bin[file.entries[i].name] = req[w]
=============================================================================
