------------------------------ MODULE StoreAbs ------------------------------
(***************************************************************************)
(* What the store promises, without a file, a slice or a lock: which       *)
(* version of each tool is registered, that is, would pass `binny check`.  *)
(* Installing a tool touches its registration and no other.                *)
(***************************************************************************)
CONSTANTS Tool, Version, None

VARIABLES
    registered,  \* the version of each tool that checks out, or None
    corrupt      \* the state file cannot be decoded

vars == <<registered, corrupt>>

TypeOK == registered \in [Tool -> Version \cup {None}] /\ corrupt \in BOOLEAN

Init == registered \in [Tool -> Version \cup {None}] /\ corrupt = FALSE

\* An installation ends.  With it may end one that failed before (its entry was
\* left in memory, to be written by the next save); no registration is lost.
Register(tool, version) ==
    /\ ~corrupt
    /\ registered' \in [Tool -> Version \cup {None}]
    /\ registered'[tool] = version
    /\ \A t \in Tool \ {tool} :
          registered[t] # None => registered'[t] = registered[t]
    /\ UNCHANGED corrupt

\* an installation replaces the binary and has not recorded it yet
Unregister(tool) ==
    /\ ~corrupt
    /\ registered' = [registered EXCEPT ![tool] = None]
    /\ UNCHANGED corrupt

\* the save is cut short: everything is lost, for good
Corrupt ==
    /\ ~corrupt /\ corrupt' = TRUE
    /\ registered' = [t \in Tool |-> None]

Next ==
    \/ \E t \in Tool : Unregister(t) \/ \E v \in Version : Register(t, v)
    \/ Corrupt

Spec == Init /\ [][Next]_vars
=============================================================================
