# A verification project for binny

binny installs pinned versions of command line tools into a directory of a
project. This directory holds TLA+ modules translated from its source, the
configurations that check them with TLC, and theorems about every modelled
component proved with TLAPS. Paths are relative to the repository;
`PROJECT.json` maps every definition to the lines it models, lists the runs, the
mutants that show that each property can fail, the hazards and the findings.

    tlc -config Store.cfg MCStoreShared     check one run
    tlapm StoreProofs.tla                   check the proofs of one component

## The system

| component | state | operations | module | status |
|---|---|---|---|---|
| tool store, `store.go` | the entries in memory, an RWMutex, the state file, the binaries | `NewStore`, `AddTool` (`loadState`, `saveState`), `Get`, `GetByName`, `Entries`, digests | StoreEntries, Store, StoreShared, StoreAbs, StoreSequential; StoreProofs | modelled, proved |
| `binny install`, `command/install.go`, `tool/install.go`, `tool/check.go` | result lists, an errgroup with a limit, a staging area per tool | `runInstall`, `Install`, `Check` | Install; InstallProofs | modelled, safety proved |
| `binny update`, `command/update.go` | new pins, failures, a mutex | `runUpdate`, `getUpdatedConfig`, `getUpdatedToolVersion` | Update; UpdateProofs | modelled, safety proved |
| `binny add`, `command/add_*.go`, `command/utils.go` | the configuration file | `updateConfiguration` | AddCommand; UpdateProofs | modelled, proved |
| YAML patching, `internal/yamlpatch` | the configuration file | `Write`, `updateLockYamlPatcher.PatchYaml`, `yamlToolAppender.PatchYaml` | Update, AddCommand | partly |
| `binny check`, `binny list`, `command/check.go`, `command/list.go` | rows, a list of failures | `runCheck`, `runList`, `getAllStatuses`, `renderListJSON`, `renderListUpdatesTable` | List; ListProofs | modelled, proved |
| version resolution, `tool/resolve_version.go` | none | `ResolveVersion` | Resolution | modelled |
| github-release resolver | a candidate, the releases fetched | `ResolveVersion`, `UpdateVersion` | GithubResolver; GithubResolverProofs | modelled, proved |
| go-proxy resolver | the versions listed | `ResolveVersion`, `UpdateVersion` | GoProxyResolver; GoProxyResolverProofs | modelled, proved |
| git resolver | none (reads a repository) | `ResolveVersion`, `headCommit`, `byReference` | CommandInstallers; InstallersProofs | modelled, proved |
| tool configuration, `option/`, `tool/config.go` | none | `ToolVersionConfig.PostLoad`, `ToTool`, `New` | ToolConfig; ToolConfigProofs | partly, proved |
| github-release installer | the files downloaded | `InstallTo` | ReleaseInstaller, Installers; InstallersProofs | partly, proved |
| go-install, go-build, hosted-shell installers | a temporary clone, the staging directory | `InstallTo`, `getSource`, `cloneSource` | CommandInstallers, Installers; InstallersProofs | partly, proved |
| `binny run`, `command/run.go` | none | lookup and exec | StoreSequential (`RunEntry` of StoreEntries); StoreProofs | partly, proved |
| cooldown error, HTTP client, logging, redaction, events, terminal UI, set-up of commands | of libraries | | - | not modelled |

How they interact. `install` starts a goroutine per tool, at most `SetLimit` at
once. Each resolves its version over the network (the resolvers), asks the store
whether the tool is in place (`Check`), lets an installer fill a staging area
inside the store root and hands the binary to `AddTool`. The goroutines share one
`Store` value, two result slices and a mutex. `update` resolves in the same way
and patches the configuration file at the end; `add` makes that file or appends
a tool to it. `check` and `list` read the store while other programs may change
it; `run` executes what the store's entry names. The state file and the
configuration file are the only things that outlive a process, and no process
locks them against another.

What is hard here: goroutines that share `s.entries` without a lock; value
receivers that copy the store; a state file truncated before it is written; a
binary renamed into place before its entry is saved; a second process on the
same files; one tool of many failing; an early return under a mutex; a
configuration file edited, or written by another command, under the command;
releases, assets, tags and branches replaced between two requests; cooldowns
whose arithmetic and whose fallbacks must not let a young version through; and
programs (git, go, scripts) that leave something else than was asked for.

What makes each component correct:

* store: entries tell the truth about the binary, unless another process writes the file into a read of it; a call that returned nil has
  put the binary in place and recorded it; the lock is never left behind; a crash
  loses no more than it must; `run` finds what was installed;
* install: every tool ends in exactly one result list, success means in place,
  no staging area is left behind without a crash or a warning, and the command ends
  but for requests that never return;
* update and add: nothing is written unless every tool succeeded, what is written
  are the versions found, edits of others survive, no tool is lost by a command that is
  neither interrupted nor fails to write, the command ends;
* resolvers: no answer younger than the cooldown, none outside the constraint,
  no admitted newer version passed over, a cooldown error only when the cooldown
  is to blame;
* check and list: each configured and stored tool listed once, no pass for a
  tool that is not in place, no update left out of `--updates`;
* configuration: no half-built tool, the cooldown asked for is in force;
* installers: what is installed has the digest listed, a mismatch is reported
  only for one, what is built is the version, the temporary clone is removed, and
  the path returned is a file that is there.

## Modules

### StoreEntries, Store

`StoreEntries` has entries, contents and the pure lookups (`Get`, `GetByName`,
`Check`, and `RunEntry`, the entry that `binny run` executes). `Store` is
`AddTool`, step by step. A worker is one goroutine; `pc` says where in `AddTool`
it is:

| pc | action | code |
|---|---|---|
| idle | `AddTool` | the call, when fewer than `Limit` run |
| load | `LoadState` | `loadState` under RLock: a missing file changes nothing, a torn one is an error, a whole one replaces `s.entries`; opening and reading may fail |
| move | `MoveBinary` | mkdir, digest of the staged file, rename, chmod |
| scan | `ScanEntries` | the range for an entry of the name |
| put | `ReplaceEntry`, `AppendEntry`, `Panic` | the assignment, without a lock |
| receiver | `CopyReceiver` | the call of `saveState` copies the `Store` |
| open | `OpenStateFile` | Lock, open with O_TRUNC |
| write | `WriteStateFile` | keep entries whose binary exists, encode, close, Unlock |

A slice header copied into `saveState`'s receiver shares its array with
`s.entries` until that is replaced or grown: `alias` is the set of such
receivers, and `ReplaceEntry` writes through to them. `AppendEntry` may or may
not reallocate. `Crash` may come at any step, failed system calls at those that
make one; both and panics are counted in `faults` and bounded by `MaxFaults`.
`file` is absent, whole or torn (truncated, or cut off half way). `bin` is the
content at each tool's path, identified with the version it was built for;
`Foreign` is anything put there by hand. Digests are taken as collision-free, so
the digest of a content is the content. The assignment of a slice header and
the range over it are each one step (no word tearing).

### StoreShared, StoreAbs, StoreSequential

`StoreShared` EXTENDS `Store` with a second binny process. `other` is that
process's call of `AddTool`: it loads the file, moves its binary, truncates the
file and writes it, one access to the disk a step, between any two steps of
ours, whose lock does not hold it back; it may fail or be killed at each. A
process writes its document in one call at offset 0 and a reader decodes one
value, so of two writes after a truncation the later one is what is read. A write
that is cut off half way may tear what the other wrote. A call of the other
process counts as one of `faults`.

The decoder reads the file in pieces. A read that no write of the other process
falls into is one step (`LoadState`, `OtherLoads`). One that a write falls into is two,
`BeginRead` with a first piece of the text that is there and `FinishRead` with the rest of
the text that is there then (`FinishNewStore` and `OtherFinishesRead` for the other
readers); the result is an error, or what decodes: `Mixed` is the entries of the one text
up to a cut and those of the other from there on, and a cut inside an entry gives it
the name and version of the first text and the digest of the second. `first` holds what a
reader has read, `mixed` says that this has happened. Our own goroutines cannot
write into each other's reads, the RWMutex keeps them apart: so `Ours` has no
truncation while a worker reads. `TrustedUnlessMixed` is what is left to rely on.

`StoreAbs` is what a store promises: which version of each tool is registered,
that is, would pass `binny check`. A call registers or unregisters its own tool at a
stroke, and a save that is cut short loses them all. `StoreSequential` maps the
store, with calls that do not overlap, onto it, and says what `binny run` finds. A
registration is read off the file or, from its truncation on, off the entries that
the save under way is about to write: `OpenStateFile` is the step that registers.
Its next-state relation is that of `Store` without the panic, which one call at a
time cannot reach (`NoPanicAlone` in StoreProofs).

### Install

`Install` EXTENDS `Store` and puts the command around it: the loop of
`runInstall` blocks at the errgroup's limit, each goroutine resolves, checks,
makes a staging area, installs, adds, removes the staging area and takes the
mutex to list its result. Its actions conjoin the store's: each step is a step of
`Store` or leaves the store alone (`UsesStore` in InstallProofs). stop-on-error has
no effect on install's control, and the model has none. An empty list of tools
returns before anything happens and is left out. In this module a resolver is
any version or an error, an installer the version's content or an error, and either may
never return: the HTTP client and the commands have no deadline, and the page of a
release is tokenized for ever when its body breaks off. `Cleanup` is the deferred
removal of a staging area; when it fails the code logs a warning and goes on
(`warnings`, bounded like the faults).

### Update, AddCommand

`Update` is the loop, the goroutines and the critical section of `runUpdate`
(`lock` is the mutex that stop-on-error leaves locked), then the write in the
order of the code: read the file again, find each tool's want node (a missing one
is a nil dereference), write the pins, truncate, write. Each call may fail: before the
truncation the file stays as it is; after it (`CutOff`) the file is empty, a part that
is no document, or a document of the first tools, and the command ends as `unwritten`. An
editor may save another file (`EditorFile`, `MaxEdits`), and a kill may come at any step. Pins of
selected tools are written back even when unchanged.

`AddCommand` EXTENDS it with any number of `binny add` commands on the same file:
the name is looked up in the configuration as loaded, the file's existence and
size decide between a new file and an append, and then the file is truncated and
written, or read, appended to, truncated and written; each of these may fail. `config.status`
is absent, empty, whole, or broken: a text cut off, or the end of the longer of two texts that were
written into one file behind the shorter. Two history variables: `overlap`, that somebody
touched the file while another command had read and not yet written it, and `prior`, the
tools of the last document that the file held, which EditsOfOthersSurvive compares with the
file that is written.

### Resolution, GithubResolver, GoProxyResolver

`Resolution` is what both share: tags as numbers or unparsable ones, a
constraint as the set of numbers it admits, and `tool.ResolveVersion`'s check of
the answer. Each resolver is a state machine over its requests: the
world (releases published, dates) may change or a request fail between two.
`GithubResolver` has the facade for the latest release, the page of releases,
its sort by date (`sort.Slice` is unstable: any permutation sorted by date; a
draft has the zero date) and the filter, one action per turn of its loop.
`GoProxyResolver` has the listing, the sort of the candidates, the date of each of the first
`MaxCooldownCandidates`, and the answers without a cooldown.

### List

`getAllStatuses` as the loop it is, with a snapshot of the entries, the binaries
read one by one while they change, the rows of configured and then of remaining
entries, the filters for updates and names; and `runCheck` over the same
statuses. `--updates` decides twice: `HasUpdate` is the filter of the JSON output,
`HasCommentary` the table's, which has nothing to say of a digest that does not match. What the filters leave is a set of rows: its order is layout.

### ToolConfig

`PostLoad` of a cooldown (time, days, number, unset, malformed) with integers
from `-Limit` to `Limit - 1` that wrap, `ToTool` for each command with its install
method, source, version method and cooldown, and `tool.New`. Aliases of method
names count as one name; fractional numbers are left out, and a number of
nanoseconds beyond an int64 is assumed away (what its conversion from a float64
gives depends on the machine).

### ReleaseInstaller, CommandInstallers, Installers

`Installers` is the choice of `getInstaller`: one call of `InstallTo`, of the
method that the tool has; the installers that are not called stay as they are.

`ReleaseInstaller` is that of github-release: scrape the page of assets, choose
an asset (by patterns, else by host), fetch the manifest, download, compare,
extract, look for the binary. An `Upload` may replace the asset or the manifest
between two requests. A name is a model value; what the code tells of a name by
looking into it (an archive, a checksums file, names the host) is a set it
belongs to. The scrape may be answered with an error, or break off.
`fetchReleaseByChecksums` and the v4 API cannot be reached and are not in the
model.

`CommandInstallers` has the others. For a module in the file system the git
resolver runs first. `GetSource`, `ShallowClone`, `FullClone`, `Checkout` and
`CopyDir` are `getSource` of go-build with its fallback from a shallow to a full
clone; `Template` the rendering of flags, arguments and environment; `RunGo` the
command of go-build and go-install with the name that binny expects
(`deriveBinaryName`, the last segment) beside the one that go writes;
`DownloadScript` and `RunScript` hosted-shell with whatever files a script
leaves. `Push` moves refs, HEAD or the work tree between any two steps, a command
may fail or be killed at each. git, go, sh and the module proxy are modelled by
how the code uses them.

## Runs

| run | instance | shows |
|---|---|---|
| Store | 2 workers at a time and a second process, 4 tools, 2 versions, 2 faults or foreign calls; a fresh store, and one with two binaries removed and one replaced | TypeOK; TrustedUnlessMixed: no entry and no check lies, unless a write fell into a read; LockDiscipline, TornHasCause: the lock, and what tears the file |
| StoreSequential | 2 workers, one at a time, any version, 2 faults; a fresh store, one with binaries replaced, one with a binary removed, one intact | calls that do not overlap implement StoreAbs, and `binny run` finds the tool |
| StoreLost | the same kinds of stores, overlapping calls, no faults | **violated**: a tool whose call returned nil is not recorded |
| Install | 3 workers, two of them for tools of one name, 2 at a time, a store with two binaries removed and one replaced, 1 fault, 1 failed removal | results in their lists, success means in place, staging areas removed or warned of, what was added is on disk, what was found installed is (CheckIsSound), a torn file stays torn, the command ends but for requests |
| Update | 3 workers for 3 of 4 tools, a name twice and a tool without a pin; an `add` command; 1 edit, of two kinds; a kill of each, a failed call of each, with and without stop-on-error | when and what is written, edits of others, that no tool is lost, that it ends without stop-on-error |
| UpdateStops | with stop-on-error | **violated**: the command waits for its own mutex for ever |
| GithubResolver | up to 3 releases, pages of 2, 2 days | cooldown, constraint, newest, blame |
| GithubUnparsable | the same | **violated**: an unparsable tag replaces an admitted version |
| GoProxyResolver | 3 versions and an odd one, 3 days, 2 candidates | the same questions, with failing requests |
| List | 3 tools, 4 stores, 4 configurations, 1 tampering | each tool and entry has its row; no pass for a tool not in place; what `--updates` leaves out, in either output, is up to date |
| ToolConfig | integers from -32 to 31, days of 3 | tools are whole, the cooldown asked for is in force |
| Installers | 4 pages, 5 manifests, 6 archives, 1 upload, an arm host; 15 tools of the other methods, a tag, a branch, 2 commits, 2 pushes | digests, and what a mismatch means; what is built is the version, clones are removed, the file returned is there |

Why the bounds are enough. Two workers are what it takes for a race of the
store, and the stale index past the end of the slice takes a third (its load
shortens the slice after another worker's save, while the first is between its
scan and its assignment): the run Install has three, and the panic is among its
steps. In the run Store a second process is the third actor. Two versions
distinguish old from new: one tool goes back and forth between them. A worker
that never called stands for a tool that is not asked for; restarts have no
bound, so a later command starts from whatever any earlier one left. Two faults
allow a crash after a failed call, or after a call of the other process, or two
of its calls. For the resolvers a page of two with three releases puts a
release beyond the page, as a hundred and first would be; three numbers give one
below, in and above a constraint; two days and a cooldown of one give a release
before, at and after the cutoff; two candidates with three versions reach the
limit that is ten in the code. Thirty-two units hold ten days of three, as an
int64 of nanoseconds holds 106751 of 24 hours: the property fails at one day
more, and 22 days wrap to a negative number. Releases published after the list
was fetched are not seen by the code and end the interest of the model in them.
An `add` beside an update is what it takes for a lost tool or a broken file, one edit
for a want node that is gone; more commands at once are left to the proofs, which have any
number. A read of the state file is mixed of two pieces: a
third text would need a second write within one read. Entries are of one length, and a cut falls
between two of them or before a digest, the place that gives one a digest that is not its
own. Two pushes move a ref away and back, or a ref and
HEAD, between the three commands of a clone; the tools have every source, one
without a URL, templates that fail, and paths that end in a major version or in a
directory.

What is proved (below) does not depend on any of these bounds.

Deadlock is not checked: each model ends where its command ends, and a store
whose file is torn cannot be opened again.

Fairness. CommandEnds of Install, and EndsWithoutStopOnError and UpdateEnds of
Update, assume weak fairness of the command's loop and of what each goroutine
does by itself (`OwnStep`): the Go scheduler runs what can run. The requests
of resolvers and installers (`Request`, `GetUpdatedToolVersion`) have none, as the
code gives them no deadline: the properties say that a command ends or, from some time on,
only waits for such requests (`OnlyRequestsAreLeft`), so that one that hangs holds up
itself alone and no mutex is held over it. Faults, kills, edits and `add` commands
have no fairness either. A mutex that is free now and then could be lost to others again and
again only if they were infinitely many; here each goroutine takes it once, so
weak fairness suffices.

## Proofs

Each component has a module of proofs, for every value of its constants under
the assumptions that its modules name: special values are no members of the sets
they complement, parameters have their types, a loop starts each worker once,
sets to choose from are not empty, and earlier commands left honest entries, no
torn file and, where there is no file, no entries (`PriorIsHonest`; the invariant shows that a command keeps the
entries honest, and the run's later commands start from torn files too). In each,
`IInv` (or `CommandIInv`) is the inductive invariant, `Invariance` its theorem,
and the properties follow from it. The proof that a step preserves it has one step
per action.

* `StoreProofs`. `IInv` is `Safe`, that is TypeOK, Given (a worker inside
  `AddTool` has a version), LockDiscipline and TornHasCause, with EntriesHonest.
  EntriesHonest is not inductive without the type of `req`, which `Given` sharpens to a
  version inside a call; TornHasCause needs LockDiscipline, which says that the one who
  releases the lock is the one that wrote the file. The soundness of a check follows from
  honesty: the digest compared is that of the version named. `TornFileStays`: once
  the file is torn and no worker is past `loadState`, none ever is again, in this
  command or a later one. `AddedToolIsOnDisk`, through `PlacedIsOnDisk`: the binary
  of a worker past the rename is in place as long as no other worker has its tool.
  With a second process, of whatever tools and interleaved anywhere, `SharedIInv` is
  `SharedSafe`, which every step keeps (`SharedTornFile`), and honesty, of what the other
  process holds too, until a read is mixed (`SharedSoundness`). The
  lemmas about `Store` therefore say separately what a step does to `Safe` and to honesty.
* Calls that do not overlap, in `StoreProofs`, under two assumptions: `OneAtATime`
  and that the state files of earlier commands name no tool twice, which such calls keep.
  `OneAtATime` is a limit of one, or one worker. The code's limit is three, so of a single
  command it is the second that applies (one tool asked for); the first is that of
  commands for one tool each, of several tools, one command after another. `NoPanicAlone`: the index stays within
  the slice, so every behaviour is one of SequentialSpec. The invariant `Sequential`
  follows one call: the file decodes from its load to its truncation (FileOfCall), the
  index is that of the entry in what `s.entries` still is (RangeFound), the new entry is in
  memory, then in the receiver, and its binary in place (OwnIsListed, OwnIsInPlace),
  and so are the entries of the other tools that the file has (OthersAreKept); of the
  calls before it, AddedIsListed says that what they recorded is in the file, or in the
  receiver that is about to be written. None of these is inductive without the others:
  the save writes the receiver, the receiver is a copy of memory, and memory is what was
  loaded and one entry. `KeptIsWhole`, a lemma about the filter of saveState, says
  that an increasing enumeration of finitely many positions reaches each of them. From
  `Sequential` follow `Refinement` (the steps of StoreAbs: a rename registers or
  unregisters, a truncation registers, a save that is cut short corrupts, all others
  stutter), `RunFinds`, and `AddedAloneIsRecorded`, the promise that StoreLost shows
  broken when two calls overlap.
* `InstallProofs`. `UsesStore`: each step of the command, of a goroutine and of a
  fault is a step of `Store` or leaves it alone, so the theorems above hold of the
  command. `CommandIInv` adds Queue (what the loop has started), Exclusion (who
  holds the mutex has read the list as it is: no append is lost), Listed, and for
  each worker what it holds at its stage (`Own`: its staging area, its version, the
  entry it verifies, its binary when it is done). `ResultsListed`, `SuccessInPlace`
  and `StagingTidied` follow, the last from a count of crashes and failed removals. `OneToolIsRegistered`: `binny install name` of one
  tool, whatever is killed or fails and however often it is repeated, implements StoreAbs, and
  `binny run` finds what it left.
* `UpdateProofs`. Updating says who failed is in the multierror and that past
  `g.Wait` nobody did; Alone and Knowing what a command may rely on of the file
  while nobody overlaps; Documents what an `add` will write. From them
  `WritesOnlyOfSuccess`, `ToolsKept` and `DamageCaused`. `OthersEditsKept` needs Remembered
  besides: `prior` is what the file holds or last held, and who has it open for
  writing, alone, has those tools in what it will write (an update all but the pins it
  is for, an `add` each at its place); the file that is written is then compared.
  `PinsFound` has an invariant of its own, `PinInv`: Collected relates the entries of
  `newCfgs`, in whatever order the goroutines appended them, to the workers that are done
  and what each found; Pinning says that, as long as nobody has disturbed the file, it and
  every document about to be written starts with the configuration as the command
  read it, patched by `newCfgs` once the command has patched (others only append).
* `GithubResolverProofs`, `GoProxyResolverProofs`. Called says which method is
  under way at each place; Kept, Newest (or Candidates, Sorted, Greatest) what a
  loop has kept of those it has passed; Blame and Answered what an answer is worth
  before the last check. All the properties of their runs follow.
* `ListProofs`. Both loops: a configured tool that was passed has its row or
  failed, an entry is shown or still to come, a tool that `check` passed was in
  place. `EachListedOnce`, by the invariant ListedOnce: the entries left are entries of
  the store, each at a place of its own (Part); without a failure each tool passed has
  one row and no entry left (OneRowEach), and the rows of installed tools and the entries
  still to be listed add up to the entries of the store (CountedOnce). `LeftOutUpToDate`,
  by UpdatesTold: of each tool passed there is an error, or a row that claims no more
  than its check, and the entries, would show.
* `ToolConfigProofs`. What was accepted went through every derivation, and a
  multiplication that fits does not wrap.
* `InstallersProofs`. Compared: the checksum at hand is one of the manifest that
  was read; Calls and Cloned: what is in the temporary directory when it is built
  is a commit the version has named since the call began.

Facts of numbers that need well-founded induction (a set of numbers has a least
one) rest on the library's theorem that `<` on Nat is well-founded; lemmas about
sequences and finite sets on its theorems about those.

Only model-checked: liveness, that is, CommandEnds and EndsWithoutStopOnError.
Every invariant and every action property of a passing run is a theorem, and so is
the refinement. Where a loop over a sequence would need induction over data, the
invariant follows the loop instead, one element a step. The
type invariants of the resolvers, of `List`, `ToolConfig` and `AddCommand` are
proved and in no run. No module uses a RECURSIVE operator, so all can be proved
about.

## Findings

Three are runs that TLC finds violated; `PROJECT.json` quotes what the code says of them:

1. `AddTool` loses updates (store.go:179): two concurrent calls, both return
   nil, one tool is not recorded. StoreLost.
2. `update` with stop-on-error never ends (update.go:142): the goroutine returns
   between Lock and Unlock. UpdateStops.
3. An unparsable tag replaces an admitted version
   (tool/githubrelease/version_resolver.go:211). GithubUnparsable.

The models also have these behaviours, which no run is about:

* a stale index overwrites another tool's entry, which leaves a name in the
  store twice, or is past the end of the slice, a panic (store.go:171); it takes
  binaries removed by hand and overlapping calls, so RunFindsTheTool is checked
  of calls that do not overlap;
* a second process that writes the state file into our read of it may leave an entry with
  one version and the digest of another, which `check` then passes (store.go:205);
* `binny list --updates` shows a tool with an invalid digest as JSON and not in its table
  (list.go:291, list.go:393);
* a staging area whose removal fails stays in the store root with a warning
  (tool/install.go:108), and a configuration file whose write fails after the truncation has lost its
  tools (patcher.go:77);
* a tool whose install was reported as failed at the save may be recorded by
  another worker's save; a torn state file is repaired by no command, and a second
  process that reads while the first writes fails without any fault;
* `binny run` executes the binary without verifying it (run.go:89);
* an update may lower a pin under a cooldown, one failing tool discards what the
  others found, and a selected tool that has lost its want node since the file was
  read is a nil dereference (update.go:80);
* two commands that write the configuration file at once drop one's tool, or
  leave the end of the longer text behind the shorter one (patcher.go:70); an
  empty file left by a kill is a new one for `add` (utils.go:73); two `add`
  commands for one name both append it; a file whose `tools` is null cannot be
  appended to;
* under a cooldown allow-unresolved-version has no effect
  (tool/goproxy/version_resolver.go:154);
* a configured tool whose version cannot be resolved is listed once more as a
  stored one (list.go:171);
* a cooldown of more days than a time.Duration holds wraps, and may be off
  (duration.go:37); `version.method: git` is refused, only defaults reach it
  (tool.go:178); `check` and `list` apply the cooldown, as their comments say
  and the README (line 80), which has it for `install` and `update` only, does not:
  CooldownIsInForce is about these two;
* the git resolver answers a branch with an error: go-git reports an unknown hash
  with ErrObjectNotFound, and byReference lets only ErrReferenceNotFound pass
  (tool/git/version_resolver.go:103);
* go-install returns the last segment of the path, which for a module that ends
  in its major version is not the file go wrote (goinstall/installer.go:41); a
  module given as a directory makes go-install and go-build return the staging
  directory itself;
* on an arm host an arm64 asset that comes first is chosen, arm is a part of its
  name (installer.go:515); an error of the scrape ends the search, so the checksums
  and the API are never asked (installer.go:623); a response that breaks off
  leaves the scraper in a loop (installer.go:808);
* an asset the manifest does not list (or lists as `*name`) is installed without
  a comparison; a digest without a prefix is taken as sha256, so a manifest of
  sha512 sums always mismatches.

## Not modelled

Events and the terminal UI, which display progress and keep no state that a
command reads; the HTTP client with its retries (a request of the models is what
it returns in the end), logging and redaction; the cooldown error's wording; the
registration of commands and flags with a library. Of the components that are
modelled: the wording of errors, tables and logs; JSON and jq; comments and
formatting of YAML; the parsing of semantic versions and constraints (a library);
the text that a template or a repository URL expands to; the extraction of an
archive and the copy of a directory file by file; the terminal and the exit
status of the program that `run` starts; the network beyond what a request answers.

## Plan

1. (done) Store, its abstract specification, and its proofs; Install over it.
2. (done) Update; the two resolvers; List; ToolConfig; ReleaseInstaller.
3. (done) CommandInstallers with the git resolver, and Installers over both;
   AddCommand on one file with Update; StoreShared, two processes on one store.
4. (done) Proofs of safety for each of them.
5. (done) The refinement of StoreAbs, with an invariant of calls that do not overlap;
   PinsAreTheVersionsFound; EachIsListedOnce and LeftOutIsUpToDate; reads that writes fall into, and calls that
   fail after a file was truncated.
6. Left: two processes of `binny install` in place of one call at a time by the
   other; an abstract configuration file that `add` and `update` implement; the extraction of
   an archive.
