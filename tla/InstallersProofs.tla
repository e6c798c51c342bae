-------------------------- MODULE InstallersProofs --------------------------
(***************************************************************************)
(* Theorems about Installers for any release, repository and tools, and    *)
(* any number of changes by others while an installer works.               *)
(***************************************************************************)
EXTENDS Installers, FiniteSetTheorems, SequenceTheorems, WellFoundedInduction, TLAPS

---------------------------------------------------------------------------
(* The inductive invariant.                                                *)

\* github-release: the checksum is the manifest's that was read, and was compared.
Compared ==
    /\ pc \in {"idle", "fetch", "spin", "select", "sums"} => checksum = NoSum /\ sums = <<>>
    /\ pc \in {"sums", "download"} => asset \in Name
    /\ pc \in {"download", "extract"} \/ answer.kind \in {"ok", "mismatch"} =>
          checksum \in GetChecksumForAsset(sums)
    /\ pc = "extract" \/ answer.kind = "ok" => Matches(got, checksum)
    /\ answer.kind = "mismatch" => ~Matches(got, checksum)
    /\ answer.kind # "none" => pc = "done"

\* The others: where a call is says what it is for, and what it has resolved.
Calls ==
    /\ at \notin {"idle", "resolve", "done", "killed"} => version \in Version
    /\ result.kind # "none" => at = "done"
    /\ at \in {"shallow", "full", "checkout", "copy"} => tool.kind = "go-build" /\ ~tool.local
    /\ at = "copy" => tool.source # "git"
    /\ at = "template" => tool.kind = "go-build"
    /\ at = "build" => tool.kind \in {"go-build", "go-install"}
    /\ at = "script" => tool.kind = "hosted-shell"
    /\ Untouched /\ version # None => version = head

\* What is in the temporary directory when it is built.
Cloned ==
    /\ \A r \in Tag \cup Branch : refs[r] \in named[r]
    /\ at = "checkout" =>
          /\ clone \in [left : BOOLEAN, refs : [Tag \cup Branch -> Commit \cup {None}],
                       of : Commit \cup {None}]
          /\ \A r \in Tag \cup Branch : clone.refs[r] \in named[r]
    /\ at \in {"template", "build"} /\ tool.kind = "go-build" /\ ~tool.local =>
          /\ clone.of \in Commit
          /\ FromGit => clone.of \in Names(version)

IInv ==
    /\ TypeOK /\ Compared /\ Calls /\ Cloned
    /\ BuiltFromVersion /\ CloneIsRemoved /\ ReturnedFileIsThere

---------------------------------------------------------------------------
(* github-release.                                                         *)

ReleaseInv == ReleaseTypeOK /\ Compared

\* Numbers have a least one.
LEMMA LeastOfNumbers ==
    ASSUME NEW T, T \subseteq Nat, T # {}
    PROVE  \E x \in T : \A y \in T : x <= y
  <1> DEFINE R == {ss \in Nat \X Nat : ss[1] < ss[2]}
  <1>1. IsWellFoundedOn(R, Nat)
    BY NatLessThanWellFounded DEF OpToRel
  <1> HIDE DEF R
  <1>2. PICK x \in T : \A y \in T : ~(<<y, x>> \in R)
    BY <1>1, WFMin
  <1>3. ASSUME NEW y \in T
        PROVE  x <= y
    <2>1. <<y, x>> \in Nat \X Nat
      OBVIOUS
    <2>2. ~(y < x)
      BY <1>2, <2>1 DEF R
    <2>3. x \in Nat /\ y \in Nat
      OBVIOUS
    <2> QED  BY <2>2, <2>3
  <1> QED  BY <1>3

\* A checksum is that of the asset's first line, after lines that are well formed; there
\* is none when no line is the asset's.
LEMMA ChecksumIs ==
    ASSUME NEW lines \in Seq(Line), NEW c \in GetChecksumForAsset(lines)
    PROVE  \/ c = NoSum /\ \A i \in DOMAIN lines : lines[i].fields = 2 /\ lines[i].name # asset
           \/ \E i \in DOMAIN lines :
                 /\ lines[i].fields = 2 /\ lines[i].name = asset /\ lines[i].digest = c
                 /\ c \in Digest
                 /\ \A j \in 1..(i - 1) : lines[j].fields = 2 /\ lines[j].name # asset
  <1> DEFINE bad == {i \in DOMAIN lines : lines[i].fields # 2}
  <1> DEFINE listed == {i \in DOMAIN lines \ bad : lines[i].name = asset}
  <1> DEFINE first == CHOOSE i \in listed \cup bad : \A j \in listed \cup bad : i <= j
  <1>0. Len(lines) \in Nat /\ DOMAIN lines = 1..Len(lines) /\ \A i \in DOMAIN lines : lines[i] \in Line
    BY LenProperties
  <1>1. c \in (IF listed \cup bad = {} THEN {NoSum}
               ELSE IF first \in bad THEN {} ELSE {lines[first].digest})
    BY DEF GetChecksumForAsset
  <1>2. CASE listed \cup bad = {}
    BY <1>1, <1>2
  <1>3. CASE listed \cup bad # {}
    <2>1. listed \cup bad \subseteq 1..Len(lines) /\ listed \cup bad \subseteq Nat
      BY <1>0
    <2>2. \E i \in listed \cup bad : \A j \in listed \cup bad : i <= j
      <3> HIDE DEF listed, bad
      <3> QED  BY <1>3, <2>1, LeastOfNumbers
    <2>3. first \in listed \cup bad /\ \A j \in listed \cup bad : first <= j
      <3> HIDE DEF listed, bad
      <3> QED  BY <2>2
    <2> HIDE DEF first
    <2>4. first \in listed /\ c = lines[first].digest
      BY <1>1, <1>3, <2>3
    <2>5. first \in 1..Len(lines) /\ lines[first].fields = 2 /\ lines[first].name = asset
      BY <1>0, <2>4
    <2>6. lines[first].digest \in Digest
      BY <1>0, <2>5 DEF Line
    <2>7. ASSUME NEW j \in 1..(first - 1)
          PROVE  lines[j].fields = 2 /\ lines[j].name # asset
      <3>1. j \in DOMAIN lines /\ ~(first <= j)
        BY <1>0, <2>5
      <3>2. j \notin listed \cup bad
        BY <2>3, <3>1
      <3> QED  BY <3>1, <3>2
    <2> QED  BY <1>0, <2>4, <2>5, <2>6, <2>7
  <1> QED  BY <1>2, <1>3

\* A manifest is a sequence of lines.
LEMMA ManifestLines ==
    \A lines \in Manifest \cup {<<>>} : lines \in Seq(Line)
  <1>1. <<>> \in Seq(Line) /\ Manifest \subseteq Seq(Line)
    BY ReleaseTypes, EmptySeq
  <1> QED  BY <1>1

LEMMA NoLines == GetChecksumForAsset(<<>>) = {NoSum}
  BY DEF GetChecksumForAsset

LEMMA ChecksumType ==
    ASSUME NEW lines \in Seq(Line), NEW c \in GetChecksumForAsset(lines)
    PROVE  c \in Digest \cup {NoSum}
  BY ChecksumIs

LEMMA ReleaseInitially == Init => ReleaseInv
  <1>1. ReleaseInit => ReleaseInv
    BY EmptySeq DEF ReleaseInit, ReleaseInv, ReleaseTypeOK, Compared, Kinds
  <1>2. ReleaseIdle => ReleaseInv
    BY InstallersTypes, EmptySeq DEF ReleaseIdle, ReleaseInv, ReleaseTypeOK, Compared, Kinds
  <1> QED  BY <1>1, <1>2 DEF Init

\* What a call returns has its type.
LEMMA Returned ==
    ASSUME NEW kind \in Kinds, NEW base \in File \cup Name \cup {Missing}, Return(kind, base)
    PROVE  pc' = "done" /\ answer'.kind = kind /\ answer' \in [kind : Kinds, base : File \cup Name \cup {Missing}]
  BY DEF Return

LEMMA Failed ==
    ASSUME NEW kind \in Kinds, Fail(kind)
    PROVE  pc' = "done" /\ answer'.kind = kind /\ answer' \in [kind : Kinds, base : File \cup Name \cup {Missing}]
  BY Returned DEF Fail

LEMMA StepFetchRelease == ASSUME ReleaseInv, FetchRelease  PROVE ReleaseInv'
  <1>0. /\ pc = "fetch" /\ UNCHANGED <<release, patterns, asset, sums, checksum, got, files>>
        /\ answer.kind = "none"
        /\ Page \subseteq Seq(Name)
    BY ReleaseTypes DEF FetchRelease, ReleaseInv, ReleaseTypeOK, Compared, Kinds
  <1>1. CASE Fail("no release") /\ UNCHANGED assets
    <2>1. pc' = "done" /\ answer'.kind = "no release" /\ answer' \in [kind : Kinds, base : File \cup Name \cup {Missing}]
      BY <1>1, Failed DEF Kinds
    <2> QED  BY <1>0, <1>1, <2>1 DEF ReleaseInv, ReleaseTypeOK, Compared, release
  <1>2. CASE page # Missing /\ assets' = page /\ pc' = "select" /\ UNCHANGED answer
    BY <1>0, <1>2 DEF ReleaseInv, ReleaseTypeOK, Compared, release
  <1>3. CASE pc' = "spin" /\ UNCHANGED <<assets, answer>>
    BY <1>0, <1>3 DEF ReleaseInv, ReleaseTypeOK, Compared, release
  <1> QED  BY <1>1, <1>2, <1>3 DEF FetchRelease

\* selectBinaryAsset picks an asset for the host.
LEMMA SelectedIsForHost == SelectBinaryAsset \subseteq Candidates
  BY DEF SelectBinaryAsset, First

LEMMA StepSelect == ASSUME ReleaseInv, Select  PROVE ReleaseInv'
  <1>0. /\ pc = "select" /\ UNCHANGED <<release, patterns, assets, sums, checksum, got, files>>
        /\ sums = <<>> /\ checksum = NoSum /\ answer.kind = "none"
    BY DEF Select, ReleaseInv, ReleaseTypeOK, Compared, Kinds
  <1>1. CASE Fail("no asset") /\ UNCHANGED asset
    <2>1. pc' = "done" /\ answer'.kind = "no asset" /\ answer' \in [kind : Kinds, base : File \cup Name \cup {Missing}]
      BY <1>1, Failed DEF Kinds
    <2> QED  BY <1>0, <1>1, <2>1 DEF ReleaseInv, ReleaseTypeOK, Compared, release
  <1>2. CASE /\ asset' \in SelectBinaryAsset
             /\ pc' = IF First(assets, Sums) = {} THEN "download" ELSE "sums"
             /\ UNCHANGED answer
    <2>1. asset' \in HostAsset /\ asset' \in Name
      BY <1>2, SelectedIsForHost, ReleaseTypes DEF Candidates
    <2>2. pc' \in {"download", "sums"}
      BY <1>2
    <2>3. checksum' \in GetChecksumForAsset(sums)'
      BY <1>0 DEF GetChecksumForAsset
    <2> QED  BY <1>0, <1>2, <2>1, <2>2, <2>3 DEF ReleaseInv, ReleaseTypeOK, Compared, release
  <1> QED  BY <1>1, <1>2 DEF Select

LEMMA StepDownloadSums == ASSUME ReleaseInv, DownloadSums  PROVE ReleaseInv'
  <1>0. /\ pc = "sums" /\ UNCHANGED <<release, patterns, assets, asset, got, files>>
        /\ answer.kind = "none" /\ asset \in Name
    BY DEF DownloadSums, ReleaseInv, ReleaseTypeOK, Compared, Kinds
  <1>1. CASE Fail("network") /\ UNCHANGED <<sums, checksum>>
    <2>1. pc' = "done" /\ answer'.kind = "network" /\ answer' \in [kind : Kinds, base : File \cup Name \cup {Missing}]
      BY <1>1, Failed DEF Kinds
    <2> QED  BY <1>0, <1>1, <2>1 DEF ReleaseInv, ReleaseTypeOK, Compared, release
  <1>2. CASE sums' = manifest /\ checksum' \in GetChecksumForAsset(manifest)
             /\ pc' = "download" /\ UNCHANGED answer
    <2>1. manifest \in Manifest
      BY DEF ReleaseInv, ReleaseTypeOK
    <2>2. checksum' \in Digest \cup {NoSum}
      BY <1>2, <2>1, ManifestLines, ChecksumType
    <2>3. checksum' \in GetChecksumForAsset(sums)'
      BY <1>0, <1>2 DEF GetChecksumForAsset
    <2> QED  BY <1>0, <1>2, <2>1, <2>2, <2>3 DEF ReleaseInv, ReleaseTypeOK, Compared, release
  <1>3. CASE sums' = manifest /\ Fail("manifest") /\ UNCHANGED checksum
    <2>1. pc' = "done" /\ answer'.kind = "manifest" /\ answer' \in [kind : Kinds, base : File \cup Name \cup {Missing}]
      BY <1>3, Failed DEF Kinds
    <2> QED  BY <1>0, <1>3, <2>1 DEF ReleaseInv, ReleaseTypeOK, Compared, release
  <1> QED  BY <1>1, <1>2, <1>3 DEF DownloadSums

LEMMA StepDownloadAsset == ASSUME ReleaseInv, DownloadAsset  PROVE ReleaseInv'
  <1>0. /\ pc = "download" /\ UNCHANGED <<release, patterns, assets, asset, sums, checksum, files>>
        /\ answer.kind = "none" /\ asset \in Name /\ checksum \in GetChecksumForAsset(sums)
        /\ body[asset] \in Content
    BY DEF DownloadAsset, ReleaseInv, ReleaseTypeOK, Compared, Kinds
  <1>1. CASE Fail("network") /\ UNCHANGED got
    <2>1. pc' = "done" /\ answer'.kind = "network" /\ answer' \in [kind : Kinds, base : File \cup Name \cup {Missing}]
      BY <1>1, Failed DEF Kinds
    <2> QED  BY <1>0, <1>1, <2>1 DEF ReleaseInv, ReleaseTypeOK, Compared, release
  <1>2. checksum' \in GetChecksumForAsset(sums)'
    BY <1>0 DEF GetChecksumForAsset
  <1>3. CASE got' = body[asset] /\ ~Matches(body[asset], checksum) /\ Fail("mismatch")
    <2>1. pc' = "done" /\ answer'.kind = "mismatch" /\ answer' \in [kind : Kinds, base : File \cup Name \cup {Missing}]
      BY <1>3, Failed DEF Kinds
    <2>2. ~Matches(got, checksum)'
      BY <1>0, <1>3 DEF Matches
    <2> QED  BY <1>0, <1>2, <1>3, <2>1, <2>2 DEF ReleaseInv, ReleaseTypeOK, Compared, release
  <1>4. CASE got' = body[asset] /\ Matches(body[asset], checksum) /\ pc' = "extract" /\ UNCHANGED answer
    <2>1. Matches(got, checksum)'
      BY <1>0, <1>4 DEF Matches
    <2> QED  BY <1>0, <1>2, <1>4, <2>1 DEF ReleaseInv, ReleaseTypeOK, Compared, release
  <1>5. CASE got' = body[asset] /\ Matches(body[asset], checksum) /\ Return("ok", asset)
    <2>1. pc' = "done" /\ answer'.kind = "ok" /\ answer' \in [kind : Kinds, base : File \cup Name \cup {Missing}]
      BY <1>0, <1>5, Returned DEF Kinds
    <2>2. Matches(got, checksum)'
      BY <1>0, <1>5 DEF Matches
    <2> QED  BY <1>0, <1>2, <1>5, <2>1, <2>2 DEF ReleaseInv, ReleaseTypeOK, Compared, release
  <1> QED  BY <1>1, <1>3, <1>4, <1>5 DEF DownloadAsset

LEMMA StepExtract == ASSUME ReleaseInv, Extract  PROVE ReleaseInv'
  <1>0. /\ pc = "extract" /\ UNCHANGED <<release, patterns, assets, asset, sums, checksum, got>>
        /\ answer.kind = "none" /\ checksum \in GetChecksumForAsset(sums) /\ Matches(got, checksum)
        /\ files' \in Tree \cup {<<>>}
    BY DEF Extract, ReleaseInv, ReleaseTypeOK, Compared, Kinds
  <1>1. checksum' \in GetChecksumForAsset(sums)' /\ Matches(got, checksum)'
    BY <1>0 DEF GetChecksumForAsset, Matches
  <1>2. CASE Fail("no binary")
    <2>1. pc' = "done" /\ answer'.kind = "no binary" /\ answer' \in [kind : Kinds, base : File \cup Name \cup {Missing}]
      BY <1>2, Failed DEF Kinds
    <2> QED  BY <1>0, <2>1 DEF ReleaseInv, ReleaseTypeOK, Compared, release
  <1>3. CASE \E base \in FindBinary(tree) : Return("ok", base)
    <2>1. PICK base \in FindBinary(tree) : Return("ok", base)
      BY <1>3
    <2>2. base \in File
      BY ReleaseTypes DEF FindBinary
    <2>3. pc' = "done" /\ answer'.kind = "ok" /\ answer' \in [kind : Kinds, base : File \cup Name \cup {Missing}]
      BY <2>1, <2>2, Returned DEF Kinds
    <2> QED  BY <1>0, <1>1, <2>3 DEF ReleaseInv, ReleaseTypeOK, Compared, release
  <1> QED  BY <1>2, <1>3 DEF Extract

LEMMA StepUpload == ASSUME ReleaseInv, Upload  PROVE ReleaseInv'
  <1>1. UNCHANGED <<page, tree, pc, patterns, assets, asset, sums, checksum, got, files, answer>>
    BY DEF Upload, call
  <1>2. body' \in [Name -> Content] /\ manifest' \in Manifest /\ uploads' \in Nat
    BY DEF Upload, ReleaseInv, ReleaseTypeOK
  <1> QED  BY <1>1, <1>2 DEF ReleaseInv, ReleaseTypeOK, Compared, GetChecksumForAsset, Matches

LEMMA ReleaseStep == ReleaseInv /\ [ReleaseNext]_releaseVars => ReleaseInv'
  <1> SUFFICES ASSUME ReleaseInv, [ReleaseNext]_releaseVars  PROVE ReleaseInv'
    OBVIOUS
  <1>1. CASE ReleaseNext
    BY <1>1, StepFetchRelease, StepSelect, StepDownloadSums, StepDownloadAsset, StepExtract,
       StepUpload DEF ReleaseNext, InstallTo
  <1>2. CASE UNCHANGED releaseVars
    BY <1>2 DEF releaseVars, release, call, ReleaseInv, ReleaseTypeOK, Compared,
       GetChecksumForAsset, Matches
  <1> QED  BY <1>1, <1>2

---------------------------------------------------------------------------
(* go-build, go-install and hosted-shell.                                  *)

CommandInv ==
    CommandTypeOK /\ Calls /\ Cloned /\ BuiltFromVersion /\ CloneIsRemoved /\ ReturnedFileIsThere

CloneType ==
    {None} \cup [left : BOOLEAN, refs : {<<>>} \cup [Tag \cup Branch -> Commit \cup {None}],
                 of : Commit \cup {None}]

LEMMA EmptyTypes == Empty \in CloneType /\ Leftover \in CloneType
  BY DEF Empty, Leftover, CloneType

LEMMA CommandInitially == Init => CommandInv
  <1>1. CommandInit => CommandInv
    <2> SUFFICES ASSUME CommandInit  PROVE CommandInv
      OBVIOUS
    <2>1. /\ tool \in Tool /\ at \in {"resolve", "start"} /\ version \in Version \cup {None}
          /\ (at = "start" => version \in Version /\ ~tool.local)
          /\ (at = "resolve" => version = None)
      BY DEF CommandInit, Version
    <2>2. CommandTypeOK
      <3>1. refs \in [Tag \cup Branch -> Commit \cup {None}] /\ named \in [Tag \cup Branch -> SUBSET (Commit \cup {None})]
        BY DEF CommandInit
      <3> QED  BY <2>1, <3>1 DEF CommandInit, CommandTypeOK, States, Failures
    <2>3. Calls
      BY <2>1 DEF CommandInit, Calls, Untouched
    <2>4. Cloned
      BY <2>1 DEF CommandInit, Cloned
    <2> QED  BY <2>2, <2>3, <2>4 DEF CommandInit, CommandInv, BuiltFromVersion, CloneIsRemoved,
             ReturnedFileIsThere
  <1>2. CommandIdle => CommandInv
    <2> SUFFICES ASSUME CommandIdle  PROVE CommandInv
      OBVIOUS
    <2>1. CommandTypeOK
      <3>1. refs \in [Tag \cup Branch -> Commit \cup {None}] /\ named \in [Tag \cup Branch -> SUBSET (Commit \cup {None})]
        BY DEF CommandIdle
      <3>2. head \in Commit /\ tool \in Tool
        BY InstallersTypes DEF CommandIdle
      <3> QED  BY <3>1, <3>2 DEF CommandIdle, CommandTypeOK, States, Failures
    <2> QED  BY <2>1 DEF CommandIdle, CommandInv, Calls, Cloned, BuiltFromVersion, CloneIsRemoved,
             ReturnedFileIsThere
  <1> QED  BY <1>1, <1>2 DEF Init

\* A call that fails.
LEMMA CommandFailed ==
    ASSUME CommandInv, NEW kind \in Failures, Fails(kind), UNCHANGED <<repository, request, version>>,
           \A f \in staged' : f.of \in Commit \cup {Changed, None}
    PROVE  CommandInv'
  <1>1. /\ at' = "done" /\ result'.kind = kind /\ kind # "ok" /\ kind # "none"
        /\ clone' \in {None, clone} /\ (clone' # None => warned') /\ warned' \in BOOLEAN
        /\ UNCHANGED <<refs, head, worktree, named, pushes, tool, want, version>>
    BY DEF Fails, Returns, Cleanup, Failures, repository, request, CommandInv, CommandTypeOK
  <1>2. CommandTypeOK'
    BY <1>1 DEF CommandInv, CommandTypeOK, States
  <1>3. Calls' /\ Cloned'
    BY <1>1 DEF CommandInv, Calls, Cloned, Untouched
  <1> QED  BY <1>1, <1>2, <1>3 DEF CommandInv, BuiltFromVersion, CloneIsRemoved, ReturnedFileIsThere

\* A call that goes on.
LEMMA CommandGoesOn ==
    ASSUME CommandInv, UNCHANGED <<repository, request, version, warned, result>>,
           at # "done", at' \in States \ {"done"}, clone' \in CloneType,
           \A f \in staged' : f.of \in Commit \cup {Changed, None},
           Calls', Cloned'
    PROVE  CommandInv'
  <1>1. UNCHANGED <<refs, head, worktree, named, pushes, tool, want, version, warned, result>>
        /\ result.kind = "none"
    BY DEF repository, request, CommandInv, CommandTypeOK, Calls
  <1>2. CommandTypeOK'
    BY <1>1 DEF CommandInv, CommandTypeOK, CloneType
  <1> QED  BY <1>1, <1>2 DEF CommandInv, BuiltFromVersion, CloneIsRemoved, ReturnedFileIsThere

LEMMA StagedType == ASSUME CommandInv  PROVE \A f \in staged : f.of \in Commit \cup {Changed, None}
  BY DEF CommandInv, CommandTypeOK

LEMMA StepResolve == ASSUME CommandInv, Resolve  PROVE CommandInv'
  <1>0. /\ at = "resolve" /\ UNCHANGED <<repository, request, staged>>
        /\ UNCHANGED <<refs, head, worktree, named, pushes, tool, want, staged>>
    BY DEF Resolve, repository, request
  <1>1. CASE version' \in GitVersions /\ at' = "start" /\ UNCHANGED <<clone, warned, result>>
    <2>1. version' \in Version
      BY <1>1 DEF GitVersions, Version, CommandInv, CommandTypeOK
    <2>2. want = Current => version' = head
      BY <1>1 DEF GitVersions
    <2>3. CommandTypeOK'
      BY <1>0, <1>1, <2>1 DEF CommandInv, CommandTypeOK, States
    <2>4. Calls' /\ Cloned' /\ result.kind = "none"
      BY <1>0, <1>1, <2>1, <2>2 DEF CommandInv, CommandTypeOK, Calls, Cloned, Untouched, Failures
    <2> QED  BY <1>1, <2>3, <2>4 DEF CommandInv, BuiltFromVersion, CloneIsRemoved, ReturnedFileIsThere
  <1>2. CASE Fails("version") /\ UNCHANGED version
    BY <1>0, <1>2, CommandFailed, StagedType DEF Failures
  <1> QED  BY <1>1, <1>2 DEF Resolve

LEMMA StepGetSource == ASSUME CommandInv, GetSource  PROVE CommandInv'
  <1>0. /\ at = "start" /\ tool.kind = "go-build" /\ UNCHANGED <<repository, request, version, staged>>
        /\ UNCHANGED <<refs, head, worktree, named, pushes, tool, want, version, staged>>
        /\ version \in Version /\ result.kind = "none"
    BY DEF GetSource, repository, request, CommandInv, CommandTypeOK, Calls, Failures
  <1>1. CASE tool.local /\ at' = "template" /\ UNCHANGED <<clone, warned, result>>
    <2>1. Calls' /\ Cloned'
      BY <1>0, <1>1 DEF CommandInv, Calls, Cloned, Untouched
    <2>2. clone' \in CloneType
      BY <1>1 DEF CommandInv, CommandTypeOK, CloneType
    <2> QED  BY <1>0, <1>1, <2>1, <2>2, CommandGoesOn, StagedType DEF States
  <1>2. CASE Fails("source")
    BY <1>0, <1>2, CommandFailed, StagedType DEF Failures
  <1>3. CASE /\ ~tool.local /\ clone' = Empty /\ UNCHANGED <<warned, result>>
             /\ \/ NormalizeSourceMode(tool.source) = "git" /\ at' = "shallow"
                \/ NormalizeSourceMode(tool.source) = "go-proxy" /\ at' = "copy"
    <2>1. at' = "copy" => tool.source # "git"
      BY <1>3 DEF NormalizeSourceMode
    <2>2. Calls' /\ Cloned'
      BY <1>0, <1>3, <2>1 DEF CommandInv, Calls, Cloned, Untouched
    <2> QED  BY <1>0, <1>3, <2>2, CommandGoesOn, StagedType, EmptyTypes DEF States
  <1> QED  BY <1>1, <1>2, <1>3 DEF GetSource

\* The commits of a ref are among those it has named.
LEMMA RefIsNamed ==
    ASSUME CommandInv, NEW r \in Tag \cup Branch
    PROVE  refs[r] \in Names(r) /\ Names(r) = named[r]
  <1>1. r \notin Commit /\ r \in DOMAIN named
    BY CommandTypes DEF CommandInv, CommandTypeOK
  <1> QED  BY <1>1 DEF Names, CommandInv, Cloned

LEMMA StepShallowClone == ASSUME CommandInv, ShallowClone  PROVE CommandInv'
  <1>0. /\ at = "shallow" /\ UNCHANGED <<repository, request, version, warned, staged, result>>
        /\ UNCHANGED <<refs, head, worktree, named, pushes, tool, want, version, staged>>
        /\ version \in Version /\ tool.kind = "go-build" /\ ~tool.local
        /\ refs \in [Tag \cup Branch -> Commit \cup {None}]
    BY DEF ShallowClone, repository, request, CommandInv, CommandTypeOK, Calls
  <1>1. CASE /\ version \in DOMAIN refs /\ refs[version] # None
             /\ clone' = [Empty EXCEPT !.of = refs[version]] /\ at' = "template"
    <2>1. version \in Tag \cup Branch /\ refs[version] \in Commit
      BY <1>0, <1>1
    <2>2. clone' \in CloneType /\ clone'.of = refs[version]
      BY <1>1, <2>1 DEF Empty, CloneType
    <2>3. refs[version] \in Names(version)
      BY <2>1, RefIsNamed
    <2>4. refs[version] \in Names(version)'
      BY <1>0, <2>3 DEF Names
    <2>5. Calls'
      BY <1>0, <1>1 DEF CommandInv, Calls, Untouched
    <2>6. Cloned'
      BY <1>0, <1>1, <2>1, <2>2, <2>4 DEF CommandInv, Cloned
    <2> QED  BY <1>0, <1>1, <2>2, <2>5, <2>6, CommandGoesOn, StagedType DEF States
  <1>2. CASE clone' \in {Empty, Leftover} /\ at' = "full"
    <2>1. Calls' /\ Cloned'
      BY <1>0, <1>2 DEF CommandInv, Calls, Cloned, Untouched
    <2> QED  BY <1>0, <1>2, <2>1, CommandGoesOn, StagedType, EmptyTypes DEF States
  <1> QED  BY <1>1, <1>2 DEF ShallowClone

LEMMA StepFullClone == ASSUME CommandInv, FullClone  PROVE CommandInv'
  <1>0. /\ at = "full" /\ UNCHANGED <<repository, request, version, staged>>
        /\ UNCHANGED <<refs, head, worktree, named, pushes, tool, want, version, staged>>
        /\ version \in Version /\ tool.kind = "go-build" /\ ~tool.local
        /\ refs \in [Tag \cup Branch -> Commit \cup {None}] /\ head \in Commit
    BY DEF FullClone, repository, request, CommandInv, CommandTypeOK, Calls
  <1>1. CASE clone' = [left |-> TRUE, refs |-> refs, of |-> head] /\ at' = "checkout"
             /\ UNCHANGED <<warned, result>>
    <2>1. clone' \in [left : BOOLEAN, refs : [Tag \cup Branch -> Commit \cup {None}],
                      of : Commit \cup {None}] /\ clone'.refs = refs
      BY <1>0, <1>1
    <2>2. clone' \in CloneType
      BY <2>1 DEF CloneType
    <2>3. Calls'
      BY <1>0, <1>1 DEF CommandInv, Calls, Untouched
    <2>4. Cloned'
      BY <1>0, <1>1, <2>1 DEF CommandInv, Cloned
    <2> QED  BY <1>0, <1>1, <2>2, <2>3, <2>4, CommandGoesOn, StagedType DEF States
  <1>2. CASE Fails("source")
    BY <1>0, <1>2, CommandFailed, StagedType DEF Failures
  <1> QED  BY <1>1, <1>2 DEF FullClone

\* What git checks out is a commit its version has named.
LEMMA RevisionIsNamed ==
    ASSUME CommandInv, NEW names \in [Tag \cup Branch -> Commit \cup {None}],
           \A r \in Tag \cup Branch : names[r] \in named[r], NEW c \in Revision(names)
    PROVE  c \in Commit /\ c \in Names(version)
  <1>0. DOMAIN names = Tag \cup Branch /\ DOMAIN named = Tag \cup Branch
    BY DEF CommandInv, CommandTypeOK
  <1>1. CASE version \in Tag \cup Branch
    <2>1. c \in Commit /\ c \in named[version]
      BY <1>0, <1>1 DEF Revision
    <2> QED  BY <1>1, <2>1, RefIsNamed
  <1>2. CASE version \notin Tag \cup Branch /\ c \in {version} \cap Commit
    BY <1>2 DEF Names
  <1>3. CASE version \notin Tag \cup Branch /\ c \notin {version} \cap Commit
    <2>1. PICK t \in Tag : version = FullName(t) /\ c = names[t]
      BY <1>0, <1>3 DEF Revision
    <2>2. c # None
      BY <1>0, <1>3 DEF Revision
    <2>3. version \notin Commit
      BY <2>1, CommandTypes
    <2>4. c \in named[t] /\ c \in Commit
      BY <2>1, <2>2
    <2>5. c \in UNION {named[u] : u \in {u \in Tag : version = FullName(u)}}
      BY <2>1, <2>4
    <2> QED  BY <1>0, <1>3, <2>3, <2>4, <2>5 DEF Names
  <1> QED  BY <1>1, <1>2, <1>3

LEMMA StepCheckout == ASSUME CommandInv, Checkout  PROVE CommandInv'
  <1>0. /\ at = "checkout" /\ UNCHANGED <<repository, request, version, staged>>
        /\ UNCHANGED <<refs, head, worktree, named, pushes, tool, want, version, staged>>
        /\ version \in Version /\ tool.kind = "go-build" /\ ~tool.local
        /\ clone \in [left : BOOLEAN, refs : [Tag \cup Branch -> Commit \cup {None}],
                      of : Commit \cup {None}]
        /\ \A r \in Tag \cup Branch : clone.refs[r] \in named[r]
    BY DEF Checkout, repository, request, CommandInv, CommandTypeOK, Calls, Cloned
  <1>1. ASSUME NEW c \in Revision(clone.refs), clone' = [clone EXCEPT !.of = c], at' = "template",
               UNCHANGED <<warned, result>>
        PROVE  CommandInv'
    <2>1. c \in Commit /\ c \in Names(version)
      BY <1>0, RevisionIsNamed
    <2>2. clone' \in CloneType /\ clone'.of = c
      BY <1>0, <1>1, <2>1 DEF CloneType
    <2>3. Calls'
      BY <1>0, <1>1 DEF CommandInv, Calls, Untouched
    <2>4. c \in Names(version)'
      BY <1>0, <2>1 DEF Names
    <2>5. Cloned'
      BY <1>0, <1>1, <2>1, <2>2, <2>4 DEF CommandInv, Cloned
    <2> QED  BY <1>0, <1>1, <2>2, <2>3, <2>5, CommandGoesOn, StagedType DEF States
  <1>2. CASE Fails("source")
    BY <1>0, <1>2, CommandFailed, StagedType DEF Failures
  <1> QED  BY <1>1, <1>2 DEF Checkout

LEMMA StepCopyDir == ASSUME CommandInv, CopyDir  PROVE CommandInv'
  <1>0. /\ at = "copy" /\ UNCHANGED <<repository, request, version, staged>>
        /\ UNCHANGED <<refs, head, worktree, named, pushes, tool, want, version, staged>>
        /\ version \in Version /\ tool.kind = "go-build" /\ ~tool.local /\ tool.source # "git"
    BY DEF CopyDir, repository, request, CommandInv, CommandTypeOK, Calls
  <1>1. ASSUME NEW c \in Proxied[version], clone' = [Leftover EXCEPT !.of = c], at' = "template",
               UNCHANGED <<warned, result>>
        PROVE  CommandInv'
    <2>1. c \in Commit
      BY <1>0, CommandTypes
    <2>2. clone' \in CloneType /\ clone'.of = c
      BY <1>1, <2>1 DEF CloneType, Leftover
    <2>3. Calls'
      BY <1>0, <1>1 DEF CommandInv, Calls, Untouched
    <2>4. Cloned'
      BY <1>0, <1>1, <2>1, <2>2 DEF CommandInv, Cloned, FromGit
    <2> QED  BY <1>0, <1>1, <2>2, <2>3, <2>4, CommandGoesOn, StagedType DEF States
  <1>2. CASE Fails("source")
    BY <1>0, <1>2, CommandFailed, StagedType DEF Failures
  <1> QED  BY <1>1, <1>2 DEF CopyDir

LEMMA StepTemplate == ASSUME CommandInv, Template  PROVE CommandInv'
  <1>0. /\ \/ at = "template" /\ tool.kind = "go-build"
           \/ at = "start" /\ tool.kind = "go-install"
        /\ UNCHANGED <<repository, request, version, staged>>
        /\ UNCHANGED <<refs, head, worktree, named, pushes, tool, want, version, staged>>
        /\ version \in Version
    BY DEF Template, repository, request, CommandInv, CommandTypeOK, Calls
  <1>1. CASE at' = "build" /\ UNCHANGED <<clone, warned, result>>
    <2>1. Calls'
      BY <1>0, <1>1 DEF CommandInv, Calls, Untouched
    <2>2. Cloned'
      BY <1>0, <1>1 DEF CommandInv, Cloned, FromGit, Names
    <2>3. clone' \in CloneType
      BY <1>1 DEF CommandInv, CommandTypeOK, CloneType
    <2> QED  BY <1>0, <1>1, <2>1, <2>2, <2>3, CommandGoesOn, StagedType DEF States
  <1>2. CASE Fails("template")
    BY <1>0, <1>2, CommandFailed, StagedType DEF Failures
  <1> QED  BY <1>1, <1>2 DEF Template

\* A call that succeeds.
LEMMA CommandSucceeded ==
    ASSUME CommandInv, NEW name, Returns("ok", name), UNCHANGED <<repository, request, version>>,
           \A f \in staged' : f.of \in Commit \cup {Changed, None},
           FromGit => \A f \in staged' : f.of \in Names(version) \ {None},
           Untouched /\ tool.kind # "hosted-shell" => \A f \in staged' : f.of = version,
           NamedByGo \/ name \in {f.name : f \in staged'},
           tool.kind = "hosted-shell" => name \notin ScriptNames
    PROVE  CommandInv'
  <1>1. /\ at' = "done" /\ result'.kind = "ok" /\ result'.name = name
        /\ clone' \in {None, clone} /\ (clone' # None => warned') /\ warned' \in BOOLEAN
        /\ UNCHANGED <<refs, head, worktree, named, pushes, tool, want, version>>
    BY DEF Returns, Cleanup, repository, request, CommandInv, CommandTypeOK
  <1>2. CommandTypeOK'
    BY <1>1 DEF CommandInv, CommandTypeOK, States
  <1>3. Calls' /\ Cloned'
    BY <1>1 DEF CommandInv, Calls, Cloned, Untouched
  <1>4. BuiltFromVersion'
    BY <1>1 DEF BuiltFromVersion, FromGit, Untouched, Names
  <1>5. ReturnedFileIsThere'
    BY <1>1 DEF ReturnedFileIsThere, NamedByGo, BinName, Path, DeriveBinaryName, StripVersionSuffix
  <1> QED  BY <1>1, <1>2, <1>3, <1>4, <1>5 DEF CommandInv, CloneIsRemoved

LEMMA StepRunGo == ASSUME CommandInv, RunGo  PROVE CommandInv'
  <1>0. /\ at = "build" /\ UNCHANGED <<repository, request, version>>
        /\ version \in Version /\ tool.kind \in {"go-build", "go-install"}
        /\ tool.kind # "hosted-shell" /\ worktree \in Commit \cup {Changed}
    BY DEF RunGo, CommandInv, CommandTypeOK, Calls
  <1>1. ASSUME NEW c \in Compiled, staged' = {[name |-> Written, of |-> c]}, Returns("ok", BinName)
        PROVE  CommandInv'
    <2>1. c \in Commit \cup {Changed, None}
      BY <1>0, CommandTypes DEF Compiled, CommandInv, Cloned
    <2>2. FromGit => c \in Names(version) /\ c # None
      <3>1. FromGit => c = clone.of /\ clone.of \in Commit /\ clone.of \in Names(version)
        BY <1>0 DEF Compiled, FromGit, CommandInv, Cloned
      <3> QED  BY <3>1, CommandTypes DEF Version
    <2>3. Untouched => c = version
      <3>1. Untouched => c = worktree /\ worktree = head
        BY DEF Compiled, Untouched
      <3>2. version # None
        BY <1>0, CommandTypes
      <3> QED  BY <3>1, <3>2 DEF CommandInv, Calls
    <2>4. NamedByGo \/ BinName = Written
      BY <1>0 DEF NamedByGo, Written, BinName, StripVersionSuffix
    <2> QED  BY <1>0, <1>1, <2>1, <2>2, <2>3, <2>4, CommandSucceeded
  <1>2. CASE Fails("build") /\ UNCHANGED staged
    BY <1>0, <1>2, CommandFailed, StagedType DEF Failures
  <1> QED  BY <1>1, <1>2 DEF RunGo

LEMMA StepDownloadScript == ASSUME CommandInv, DownloadScript  PROVE CommandInv'
  <1>0. /\ at = "start" /\ tool.kind = "hosted-shell" /\ UNCHANGED <<repository, request, version>>
        /\ UNCHANGED <<refs, head, worktree, named, pushes, tool, want, version>>
        /\ version \in Version /\ \A f \in staged' : f.of \in Commit \cup {Changed, None}
    BY DEF DownloadScript, repository, request, CommandInv, CommandTypeOK, Calls
  <1>1. CASE Fails("network") \/ Fails("template")
    BY <1>0, <1>1, CommandFailed DEF Failures
  <1>2. CASE at' = "script" /\ UNCHANGED <<clone, warned, result>>
    <2>1. Calls' /\ Cloned'
      BY <1>0, <1>2 DEF CommandInv, Calls, Cloned, Untouched
    <2>2. clone' \in CloneType
      BY <1>2 DEF CommandInv, CommandTypeOK, CloneType
    <2> QED  BY <1>0, <1>2, <2>1, <2>2, CommandGoesOn DEF States
  <1> QED  BY <1>1, <1>2 DEF DownloadScript

LEMMA StepRunScript == ASSUME CommandInv, RunScript  PROVE CommandInv'
  <1>0. at = "script" /\ tool.kind = "hosted-shell" /\ UNCHANGED <<repository, request, version>>
    BY DEF RunScript, CommandInv, Calls
  <1>1. CASE Fails("build") /\ UNCHANGED staged
    BY <1>0, <1>1, CommandFailed, StagedType DEF Failures
  <1>2. ASSUME NEW names \in Stray, staged' = {[name |-> n, of |-> None] : n \in names},
               (\E n \in Result(names) : Returns("ok", n)) \/ Fails("files")
        PROVE  CommandInv'
    <2>1. \A f \in staged' : f.of \in Commit \cup {Changed, None}
      BY <1>2
    <2>2. CASE Fails("files")
      BY <1>0, <2>1, <2>2, CommandFailed DEF Failures
    <2>3. ASSUME NEW n \in Result(names), Returns("ok", n)
          PROVE  CommandInv'
      <3>1. n \in names /\ n \notin ScriptNames
        BY DEF Result
      <3>2. n \in {f.name : f \in staged'}
        <4>1. [name |-> n, of |-> None] \in staged'
          BY <1>2, <3>1
        <4> QED  BY <4>1
      <3>3. ~FromGit
        BY <1>0 DEF FromGit
      <3> QED  BY <1>0, <2>1, <2>3, <3>1, <3>2, <3>3, CommandSucceeded
    <2> QED  BY <1>2, <2>2, <2>3
  <1> QED  BY <1>1, <1>2 DEF RunScript

LEMMA StepPush == ASSUME CommandInv, Push  PROVE CommandInv'
  <1>0. /\ at \notin {"idle", "done", "killed"} /\ pushes' = pushes + 1 /\ pushes' # 0 /\ pushes' \in Nat
        /\ UNCHANGED <<tool, want, at, version, clone, warned, staged, result>>
        /\ result.kind = "none"
    BY DEF Push, request, CommandInv, CommandTypeOK, Calls
  <1>1. /\ refs' \in [Tag \cup Branch -> Commit \cup {None}]
        /\ named' \in [Tag \cup Branch -> SUBSET (Commit \cup {None})]
        /\ head' \in Commit /\ worktree' \in Commit \cup {Changed}
        /\ \A r \in Tag \cup Branch : named[r] \subseteq named'[r] /\ refs'[r] \in named'[r]
    <2>1. CASE /\ \E r \in Tag \cup Branch, c \in Commit \cup {None} :
                     /\ refs' = [refs EXCEPT ![r] = c]
                     /\ named' = [named EXCEPT ![r] = @ \cup {c}]
               /\ UNCHANGED <<head, worktree>>
      BY <2>1 DEF CommandInv, CommandTypeOK, Cloned
    <2>2. CASE head' \in Commit /\ worktree' \in {head', Changed} /\ UNCHANGED <<refs, named>>
      BY <2>2 DEF CommandInv, CommandTypeOK, Cloned
    <2> QED  BY <2>1, <2>2 DEF Push
  <1>2. \A c \in Names(version) : c \in Names(version)'
    <2>1. DOMAIN named = Tag \cup Branch /\ DOMAIN named' = Tag \cup Branch
      BY <1>1 DEF CommandInv, CommandTypeOK
    <2> QED  BY <1>0, <1>1, <2>1 DEF Names
  <1>3. CommandTypeOK'
    BY <1>0, <1>1 DEF CommandInv, CommandTypeOK
  <1>4. Calls'
    BY <1>0 DEF CommandInv, Calls, Untouched
  <1>5. Cloned'
    BY <1>0, <1>1, <1>2 DEF CommandInv, Cloned, FromGit
  <1> QED  BY <1>0, <1>3, <1>4, <1>5 DEF CommandInv, BuiltFromVersion, CloneIsRemoved,
           ReturnedFileIsThere

LEMMA StepKillCommand == ASSUME CommandInv, KillCommand  PROVE CommandInv'
  <1>0. /\ at' = "killed" /\ at # "done" /\ result.kind = "none"
        /\ UNCHANGED <<refs, head, worktree, named, pushes, tool, want, version, clone, warned, staged, result>>
    BY DEF KillCommand, repository, request, CommandInv, CommandTypeOK, Calls
  <1>1. CommandTypeOK' /\ Calls' /\ Cloned'
    BY <1>0 DEF CommandInv, CommandTypeOK, Calls, Cloned, Untouched, States
  <1> QED  BY <1>0, <1>1 DEF CommandInv, BuiltFromVersion, CloneIsRemoved, ReturnedFileIsThere

LEMMA CommandStep == CommandInv /\ [CommandNext]_commandVars => CommandInv'
  <1> SUFFICES ASSUME CommandInv, [CommandNext]_commandVars  PROVE CommandInv'
    OBVIOUS
  <1>1. CASE CommandNext
    BY <1>1, StepResolve, StepGetSource, StepShallowClone, StepFullClone, StepCheckout, StepCopyDir,
       StepTemplate, StepRunGo, StepDownloadScript, StepRunScript, StepPush, StepKillCommand
       DEF CommandNext, Command
  <1>2. CASE UNCHANGED commandVars
    <2>1. UNCHANGED <<refs, head, worktree, named, pushes, tool, want, at, version, clone, warned, staged, result>>
      BY <1>2 DEF commandVars, repository, request
    <2>2. CommandTypeOK' /\ Calls' /\ CloneIsRemoved'
      BY <2>1 DEF CommandInv, CommandTypeOK, Calls, Untouched, CloneIsRemoved
    <2>3. Cloned' /\ BuiltFromVersion'
      BY <2>1 DEF CommandInv, Cloned, BuiltFromVersion, FromGit, Untouched, Names
    <2>4. ReturnedFileIsThere'
      BY <2>1 DEF CommandInv, ReturnedFileIsThere, NamedByGo, BinName, Path, DeriveBinaryName,
         StripVersionSuffix
    <2> QED  BY <2>2, <2>3, <2>4 DEF CommandInv
  <1> QED  BY <1>1, <1>2

---------------------------------------------------------------------------
(* The theorems.                                                           *)

LEMMA Inductive == IInv /\ [Next]_installersVars => IInv'
  <1>1. IInv <=> ReleaseInv /\ CommandInv
    BY DEF IInv, TypeOK, ReleaseInv, CommandInv
  <1>2. [Next]_installersVars => [ReleaseNext]_releaseVars /\ [CommandNext]_commandVars
    BY DEF Next, installersVars
  <1>3. IInv' <=> ReleaseInv' /\ CommandInv'
    BY DEF IInv, TypeOK, ReleaseInv, CommandInv
  <1> QED  BY <1>1, <1>2, <1>3, ReleaseStep, CommandStep

\* The inductive invariant holds of every behaviour.
THEOREM Invariance == Spec => []IInv
  <1>1. Init => IInv
    BY ReleaseInitially, CommandInitially DEF IInv, TypeOK, ReleaseInv, CommandInv
  <1> QED  BY <1>1, Inductive, PTL DEF Spec

\* What the installers keep has its types, for any release, repository and tool
\* (tool/githubrelease, tool/gobuild, tool/goinstall, tool/hostedshell).
THEOREM TypeCorrectness == Spec => []TypeOK
  <1>1. IInv => TypeOK
    BY DEF IInv
  <1> QED  BY Invariance, <1>1, PTL

\* However often the release is replaced meanwhile, what is installed has the digest that
\* the manifest lists (getChecksumForAsset, DownloadFile).
THEOREM InstalledAsListed == Spec => []InstalledIsAsListed
  <1>1. IInv => InstalledIsAsListed
    <2> SUFFICES ASSUME IInv, answer.kind = "ok"
                 PROVE  \/ \A i \in DOMAIN sums : sums[i].fields = 2 /\ sums[i].name # asset
                        \/ \E i \in DOMAIN sums :
                              /\ sums[i].fields = 2 /\ sums[i].name = asset /\ sums[i].digest.of = got
                              /\ \A j \in 1..(i - 1) : sums[j].fields = 2 /\ sums[j].name # asset
      BY DEF InstalledIsAsListed
    <2>1. sums \in Seq(Line) /\ checksum \in GetChecksumForAsset(sums) /\ Matches(got, checksum)
      BY ManifestLines DEF IInv, TypeOK, ReleaseTypeOK, Compared
    <2>2. checksum \in Digest => checksum.of = got
      BY <2>1, ReleaseTypes DEF Matches
    <2> QED  BY <2>1, <2>2, ChecksumIs
  <1> QED  BY Invariance, <1>1, PTL

\* A mismatch is only reported of a file that differs from what the manifest lists, or of a
\* digest of another kind (DownloadFile).
THEOREM MismatchTrue == Spec => []MismatchIsTrue
  <1>1. IInv => MismatchIsTrue
    <2> SUFFICES ASSUME IInv, answer.kind = "mismatch"
                 PROVE  \E i \in DOMAIN sums :
                           /\ sums[i].fields = 2 /\ sums[i].name = asset
                           /\ \A j \in 1..(i - 1) : sums[j].fields = 2 /\ sums[j].name # asset
                           /\ sums[i].digest.of # got \/ sums[i].digest.algorithm # "sha256"
      BY DEF MismatchIsTrue
    <2>1. sums \in Seq(Line) /\ checksum \in GetChecksumForAsset(sums) /\ ~Matches(got, checksum)
      BY ManifestLines DEF IInv, TypeOK, ReleaseTypeOK, Compared
    <2>2. checksum # NoSum
      BY <2>1 DEF Matches
    <2>3. PICK i \in DOMAIN sums :
             /\ sums[i].fields = 2 /\ sums[i].name = asset /\ sums[i].digest = checksum
             /\ checksum \in Digest
             /\ \A j \in 1..(i - 1) : sums[j].fields = 2 /\ sums[j].name # asset
      BY <2>1, <2>2, ChecksumIs
    <2>4. checksum.of # got \/ checksum.algorithm # "sha256"
      BY <2>1, <2>3 DEF Matches, Digest
    <2> QED  BY <2>3, <2>4
  <1> QED  BY Invariance, <1>1, PTL

\* A tool is built from a commit its version has named, whatever moves while it is fetched
\* and built (cloneSource, fullCloneAndCheckout).
THEOREM BuiltOfVersion == Spec => []BuiltFromVersion
  <1>1. IInv => BuiltFromVersion
    BY DEF IInv
  <1> QED  BY Invariance, <1>1, PTL

\* A call that returns leaves no temporary clone that it does not warn of (InstallTo).
THEOREM CloneRemoved == Spec => []CloneIsRemoved
  <1>1. IInv => CloneIsRemoved
    BY DEF IInv
  <1> QED  BY Invariance, <1>1, PTL

\* The path that is returned is a file's, for modules and scripts of any name
\* (deriveBinaryName, hostedshell.InstallTo).
THEOREM ReturnedFileThere == Spec => []ReturnedFileIsThere
  <1>1. IInv => ReturnedFileIsThere
    BY DEF IInv
  <1> QED  BY Invariance, <1>1, PTL
=============================================================================
