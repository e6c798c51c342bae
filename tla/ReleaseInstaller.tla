-------------------------- MODULE ReleaseInstaller --------------------------
(***************************************************************************)
(* The github-release installer (tool/githubrelease/installer.go): one     *)
(* InstallTo into an empty staging directory.  It scrapes the release's    *)
(* asset list, picks an asset for the host, downloads it against the       *)
(* release's checksum manifest, and finds the binary.  Between its         *)
(* requests the maintainer may replace what the release holds.             *)
(***************************************************************************)
EXTENDS Integers, Sequences, FiniteSets

CONSTANTS
    Name,        \* asset names
    Archive,     \* those with an archive's extension
    Executable,  \* those with a binary's, or none
    HostAsset,   \* those whose text has the host's OS and architecture, or an alias of it
    Sums,        \* the names that end in checksums.txt
    Patterns,    \* what assets: may be: patterns in order, each as the names it matches
    Content,     \* what a file may hold
    Binary,      \* InstallerParameters.Binary, never "" for ToConfig fills it in
    File,        \* base names of files in archives
    Page,        \* what the asset list may be: sequences of names
    Manifest,    \* what a checksum manifest may hold: sequences of Line
    Tree,        \* what an archive may hold: sequences of [base, binary]
    Missing,     \* 404 Not Found
    NoSum,       \* the checksum ""
    MaxUploads   \* bound on changes of the release

\* a line of a manifest: without two fields, or a digest and a name
Digest == [algorithm : {"sha256", "sha512"}, of : Content]
Line == [fields : {0, 1}] \cup [fields : {2}, digest : Digest, name : Name]

ASSUME ReleaseTypes ==
    /\ Archive \subseteq Name /\ Executable \subseteq Name /\ Archive \cap Executable = {}
    /\ HostAsset \subseteq Name /\ Sums \subseteq Name
    /\ Sums \cap (Archive \cup Executable) = {}
    /\ Patterns \subseteq Seq(SUBSET Name)
    /\ Page \subseteq Seq(Name) /\ Manifest \subseteq Seq(Line)
    /\ Tree \subseteq Seq([base : File, binary : BOOLEAN])
    /\ Binary \in File /\ Missing \notin Page /\ NoSum \notin Digest /\ MaxUploads \in Nat

VARIABLES
    page, body, manifest, tree,  \* the release: list, asset bodies, manifest, archive
    uploads,                     \* how often it was changed
    patterns,                    \* InstallerParameters.Assets
    pc,                          \* where in InstallTo the call is
    assets,                      \* release.Assets
    asset,                       \* the chosen asset, or Missing
    sums,                        \* the manifest in the staging directory
    checksum,                    \* the digest to compare with, or NoSum
    got,                         \* the content of the asset in the staging directory
    files,                       \* what was extracted
    answer                       \* what InstallTo returned: [kind, base]

release == <<page, body, manifest, tree, uploads>>
call == <<patterns, assets, asset, sums, checksum, got, files>>
releaseVars == <<release, pc, call, answer>>

Kinds == {"none", "ok", "no release", "no asset", "network", "manifest", "mismatch",
          "no binary"}

ReleaseTypeOK ==
    /\ page \in Page \cup {Missing} /\ body \in [Name -> Content]
    /\ manifest \in Manifest /\ tree \in Tree /\ uploads \in Nat
    /\ pc \in {"idle", "fetch", "spin", "select", "sums", "download", "extract", "done"}
    /\ patterns \in Patterns
    /\ assets \in Seq(Name) /\ asset \in HostAsset \cup {Missing}
    /\ sums \in Manifest \cup {<<>>} /\ checksum \in Digest \cup {NoSum}
    /\ got \in Content \cup {Missing}
    /\ files \in Tree \cup {<<>>}
    /\ answer \in [kind : Kinds, base : File \cup Name \cup {Missing}]

ReleaseInit ==
    /\ page \in Page \cup {Missing} /\ body \in [Name -> Content]
    /\ manifest \in Manifest /\ tree \in Tree /\ uploads = 0
    /\ patterns \in Patterns
    /\ pc = "fetch" /\ assets = <<>> /\ asset = Missing
    /\ sums = <<>> /\ checksum = NoSum /\ got = Missing /\ files = <<>>
    /\ answer = [kind |-> "none", base |-> Missing]

\* the maintainer uploads an asset again, or another manifest
Upload ==
    /\ uploads < MaxUploads /\ pc \notin {"idle", "done"} /\ uploads' = uploads + 1
    /\ \/ \E n \in Name, c \in Content : body' = [body EXCEPT ![n] = c] /\ UNCHANGED manifest
       \/ manifest' \in Manifest /\ UNCHANGED body
    /\ UNCHANGED <<page, tree, pc, call, answer>>

Return(kind, base) == pc' = "done" /\ answer' = [kind |-> kind, base |-> base]
Fail(kind) == Return(kind, Missing)

---------------------------------------------------------------------------
(* The release.                                                            *)

\* fetchRelease and fetchReleaseByScrape.  DownloadURL answers any status but OK with an
\* error, never with a nil reader, so what follows the scrape in fetchRelease is not
\* reached.  A body that breaks off leaves processExpandedAssets in its loop: the
\* tokenizer returns the same ErrorToken for ever.
FetchRelease ==
    /\ pc = "fetch"
    /\ \/ Fail("no release") /\ UNCHANGED assets
       \/ page # Missing /\ assets' = page /\ pc' = "select" /\ UNCHANGED answer
       \/ page # Missing /\ pc' = "spin" /\ UNCHANGED <<assets, answer>>
    /\ UNCHANGED <<release, patterns, asset, sums, checksum, got, files>>

First(s, Fits) == {i \in DOMAIN s : s[i] \in Fits /\ \A j \in 1..(i - 1) : s[j] \notin Fits}

\* the assets that pass the first pass of selectBinaryAsset
Candidates == HostAsset \cap (Archive \cup Executable)

\* A bug: any asset that can be installed, for whatever host.
SelectBinaryAssetAnyHost == {assets[i] : i \in First(assets, Archive \cup Executable)}

\* selectBinaryAsset: at most one name
SelectBinaryAsset ==
    IF patterns = <<>> THEN {assets[i] : i \in First(assets, Candidates)}
    ELSE LET fits == {k \in DOMAIN patterns :
                        \E i \in DOMAIN assets : assets[i] \in Candidates \cap patterns[k]}
         IN  {assets[i] : i \in UNION {First(assets, Candidates \cap patterns[k]) :
                                         k \in {k \in fits : \A j \in fits : k <= j}}}

\* selectBinaryAsset, and selectChecksumAsset
Select ==
    /\ pc = "select"
    /\ \/ SelectBinaryAsset = {} /\ Fail("no asset") /\ UNCHANGED asset
       \/ /\ asset' \in SelectBinaryAsset
          /\ pc' = IF First(assets, Sums) = {} THEN "download" ELSE "sums"
          /\ UNCHANGED answer
    /\ UNCHANGED <<release, patterns, assets, sums, checksum, got, files>>

---------------------------------------------------------------------------
(* downloadAndExtractAsset.                                                *)

\* A bug: a line that is no pair is skipped over, and the asset's last line counts.
GetChecksumForAssetLenient(lines) ==
    LET at == {i \in DOMAIN lines : lines[i].fields = 2 /\ lines[i].name = asset}
    IN  IF at = {} THEN {NoSum}
        ELSE {lines[CHOOSE i \in at : \A j \in at : i >= j].digest}

\* getChecksumForAsset: {} for an error, which a line without two fields is unless the
\* asset's comes before it
GetChecksumForAsset(lines) ==
    LET bad == {i \in DOMAIN lines : lines[i].fields # 2}
        at == {i \in DOMAIN lines \ bad : lines[i].name = asset}
        first == CHOOSE i \in at \cup bad : \A j \in at \cup bad : i <= j
    IN  IF at \cup bad = {} THEN {NoSum}
        ELSE IF first \in bad THEN {} ELSE {lines[first].digest}

DownloadSums ==
    /\ pc = "sums"
    /\ \/ Fail("network") /\ UNCHANGED <<sums, checksum>>
       \/ /\ sums' = manifest
          /\ \/ /\ checksum' \in GetChecksumForAsset(manifest)
                /\ pc' = "download" /\ UNCHANGED answer
             \/ GetChecksumForAsset(manifest) = {} /\ Fail("manifest") /\ UNCHANGED checksum
    /\ UNCHANGED <<release, patterns, assets, asset, got, files>>

\* what DownloadFile compares: the digest has no prefix, so it hashes with sha256
Matches(content, digest) ==
    digest = NoSum \/ digest = [algorithm |-> "sha256", of |-> content]

\* A bug: the file is there, so it is taken.
DownloadAssetUnverified ==
    /\ pc = "download"
    /\ \/ Fail("network") /\ UNCHANGED got
       \/ /\ got' = body[asset]
          /\ \/ asset \in Archive /\ pc' = "extract" /\ UNCHANGED answer
             \/ asset \in Executable /\ Return("ok", asset)
    /\ UNCHANGED <<release, patterns, assets, asset, sums, checksum, files>>

\* DownloadFile of the asset, and the switch on its kind
DownloadAsset ==
    /\ pc = "download"
    /\ \/ Fail("network") /\ UNCHANGED got
       \/ /\ got' = body[asset]
          /\ \/ ~Matches(body[asset], checksum) /\ Fail("mismatch")
             \/ /\ Matches(body[asset], checksum)
                /\ \/ asset \in Archive /\ pc' = "extract" /\ UNCHANGED answer
                   \/ asset \in Executable /\ Return("ok", asset)
    /\ UNCHANGED <<release, patterns, assets, asset, sums, checksum, files>>

\* the files findBinaryAssetInDir looks at
Ignored == {"LICENSE", "README.md", "checksums.txt"}

\* findBinaryAssetInDir and filterMultipleArchiveBinaries: a file that is alone is not
\* looked at further than its name, of several only binaries are
FindBinary(fs) ==
    LET kept == SelectSeq(fs, LAMBDA f : f.base \notin Ignored)
    IN  {kept[i].base : i \in {i \in DOMAIN kept :
            kept[i].base = Binary /\ (Len(kept) = 1 \/ kept[i].binary)}}

\* extractArchive; the archive may not be one
Extract ==
    /\ pc = "extract"
    /\ \/ Fail("no binary") /\ UNCHANGED files
       \/ /\ files' = tree
          /\ \/ \E base \in FindBinary(tree) : Return("ok", base)
             \/ FindBinary(tree) = {} /\ Fail("no binary")
    /\ UNCHANGED <<release, patterns, assets, asset, sums, checksum, got>>

InstallTo == FetchRelease \/ Select \/ DownloadSums \/ DownloadAsset \/ Extract

ReleaseNext == InstallTo \/ Upload

ReleaseSpec == ReleaseInit /\ [][ReleaseNext]_releaseVars

---------------------------------------------------------------------------
(* Properties.                                                             *)

\* Whatever was uploaded between the requests: what is installed has the digest of the
\* asset's first line in the manifest that was read, and a manifest that is unreadable
\* before it lets nothing through (getChecksumForAsset, DownloadFile).
InstalledIsAsListed ==
    (answer.kind = "ok" /\ sums # <<>>) =>
        \/ \A i \in DOMAIN sums : sums[i].fields = 2 /\ sums[i].name # asset
        \/ \E i \in DOMAIN sums :
              /\ sums[i].fields = 2 /\ sums[i].name = asset /\ sums[i].digest.of = got
              /\ \A j \in 1..(i - 1) : sums[j].fields = 2 /\ sums[j].name # asset

\* A mismatch is reported only of a file that differs from the first one the manifest
\* lists for it, or whose digest is not a sha256.
MismatchIsTrue ==
    answer.kind = "mismatch" =>
        \E i \in DOMAIN sums :
            /\ sums[i].fields = 2 /\ sums[i].name = asset
            /\ \A j \in 1..(i - 1) : sums[j].fields = 2 /\ sums[j].name # asset
            /\ sums[i].digest.of # got \/ sums[i].digest.algorithm # "sha256"

=============================================================================
