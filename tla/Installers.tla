----------------------------- MODULE Installers -----------------------------
(***************************************************************************)
(* The Installer of a compositeTool (tool/config.go): getInstaller gives a *)
(* tool the one that its install method names, and InstallTo is that       *)
(* one's.  The others are not called on behalf of this tool.               *)
(***************************************************************************)
EXTENDS ReleaseInstaller, CommandInstallers

\* there is something to choose from
ASSUME InstallersTypes ==
    /\ Content # {} /\ Manifest # {} /\ Tree # {} /\ Patterns # {}
    /\ Commit # {} /\ Tool # {}

installersVars == <<releaseVars, commandVars>>

\* the installers that are not called stay as they are in one state
ReleaseIdle ==
    /\ page = Missing /\ body = [n \in Name |-> CHOOSE c \in Content : TRUE]
    /\ manifest = (CHOOSE m \in Manifest : TRUE) /\ tree = (CHOOSE t \in Tree : TRUE)
    /\ patterns = (CHOOSE p \in Patterns : TRUE)
    /\ uploads = 0 /\ pc = "idle" /\ assets = <<>> /\ asset = Missing
    /\ sums = <<>> /\ checksum = NoSum /\ got = Missing /\ files = <<>>
    /\ answer = [kind |-> "none", base |-> Missing]

CommandIdle ==
    /\ refs = [r \in Tag \cup Branch |-> None] /\ named = [r \in Tag \cup Branch |-> {None}]
    /\ head = (CHOOSE c \in Commit : TRUE) /\ worktree = head /\ pushes = 0
    /\ tool = (CHOOSE t \in Tool : TRUE) /\ want = Current
    /\ at = "idle" /\ version = None /\ clone = None /\ warned = FALSE /\ staged = {}
    /\ result = [kind |-> "none", name |-> None]

\* getInstaller
Init == \/ ReleaseInit /\ CommandIdle
        \/ CommandInit /\ ReleaseIdle

Next == \/ ReleaseNext /\ UNCHANGED commandVars
        \/ CommandNext /\ UNCHANGED releaseVars

Spec == Init /\ [][Next]_installersVars

\* What the installers keep has its types.
TypeOK == ReleaseTypeOK /\ CommandTypeOK

=============================================================================
