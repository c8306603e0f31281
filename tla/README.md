# Verification of TracePod

TracePod traces which files a container really uses and builds a smaller image
from what it saw. Two programs carry the logic:

* the **sensor** (`cmd/sensor`, `internal/`, `manifest/`), a node daemon that
  attaches eBPF kprobes, follows container starts and stops over NRI, collects
  one profile per container and posts it to a controller;
* the **hardener** (`cmd/harden`, `hardener/`, `ai/`), a command that pulls an
  image and rebuilds it from a profile.

The sensor is concurrent, runs inside containerd's hooks and claims things about
its own completeness ("not observed => not loaded"); its core was modelled
first, and the safety properties of every part of it are proved. The hardener is
sequential, but for one writer goroutine, and its difficulty is in file trees:
layers, links, names for the same file, the closure over libraries. It is
modelled step by step and checked over all small images; the closure, the writer
of the layer and the loop of builds and diagnoses around it are proved about for
images of any size.

## Inventory

| part | state it keeps | operations | what is hard | what makes it correct |
|---|---|---|---|---|
| router, profile lifecycle (`cmd/sensor/main.go`) | maps `aggs`, `targets`, `cgroupFSPath` under `r.mu`; per container a `postTarget` with `postMu`, `closed`, `resolveDone`, the cached owner | `onContainerStart`, `resolveWorkloadAsync`, `onContainerStop`, `flush`, `flushAll`, `registerManualCgroup`, the signal goroutine | NRI hooks, resolver goroutines, the interim loop and the signal goroutine meet on one container; locks are held across network calls | the final snapshot is the last one issued; one flush per container; one address; hooks return; a signal ends the process and loses nothing |
| interim snapshots (`cmd/sensor/snapshot.go`) | the loop, its context, `nextSnapshotAt` | `snapshotPass`, `postInterim`, `startSnapshots` and its stop function | a pass works on targets collected earlier; cancellation against a tick | nothing posted after a flush or after `flushAll`; no burst, no drift |
| event path (`internal/probe`, `internal/ringbuf`, handlers in `main.go`) | `allowed_cgroups`, the ring buffer, loss counters | kprobes, `Consumer.Run`, `handle`, `handleOpenat`, `handleExecve`, `handleStat`, `handleMmap` | full ring, undecodable records, events in flight when a container stops, paths resolved after the fact | what is lost is counted; what is recorded was accessed |
| aggregator (`manifest/aggregator.go`, `eventloss.go`) | files, first exec, loss baseline | `RecordFile`, `SetLossReader`, `Snapshot`, `SnapshotFinal` | process-wide counters, unreadable stages | a zero is a claim; `process_start_observed` only with evidence |
| NRI plugin (`internal/container/nri.go`) | `paths`, `ids`, `podMeta` | `CreateContainer`, `StartContainer`, `Synchronize`, `StopContainer` | hooks interleave, the sensor restarts under running containers | every started container is adopted once and retired once |
| manifest schema, confidence, deny list (`manifest/`) | none | decode, gates, `Allow` | old schema versions, longest prefix | toward-false gates |
| POST client, workload resolver (`internal/sensor`) | none | `PostProfile`, `ResolveWorkload` | timeouts | one request per call; the owner chain |
| image pull, build, in-root paths (`hardener/puller.go`, `builder.go`, `inroot.go`) | a directory tree, tar layers | extraction with whiteouts, symlink resolution, copy | order of layers, links out of the root | the tree is what a container runtime would show; nothing resolves outside it |
| ELF closure, runtime companions (`hardener/elf.go`, `runtime.go`) | the Go call stack, `visited`, the manifest | `resolve`, `parseLdSoConf`, `ResolveRuntimeCompanions` | cycles, links, search paths, errors dropped on the way | the closure is closed and minimal, what is missing is reported |
| safe mode, removal, inventory (`hardener/`) | the manifest, `inventory.json` | `--include`, `--mkdir`, `--touch`, the removed packages, the inventory | links, two names for one file, probes below files | what is asked for is there; what is reported removed is gone |
| command lines, AI clients (`cmd/`, `ai/`) | the output directory, the `response_format` latch | `build`, smoke test, `diagnose`, `CompleteJSON` | a directory used again after a failure; nested retries | one build's files; suggestions that help; bounded requests |

The interactions: containerd calls the NRI plugin, which calls the router's
`onContainerStart` and `AllowCgroup`, later `DenyCgroup` and `onContainerStop`;
the kprobes write to the ring, the consumer calls `handle`, which records into
an aggregator; the interim loop and `flush` read aggregators and post; the
signal goroutine stops the loop, calls `flushAll` and closes the probe. The
profile is the hardener's input: `harden build` pulls the image into a staging
directory, completes the manifest (libraries, companions, what FROM scratch
needs, what the user asks for, link targets), writes one layer, then the removal
manifest, the inventory and the SBOMs next to it, and starts the image once;
`harden diagnose` reads the inventory and the log and suggests flags for the next
build.

## Modules

| module | models | status |
|---|---|---|
| `ProfileWindow` | abstract specification: what the controller is promised about one container's profile | done |
| `ProfilePost` | the router's profile lifecycle, the interim loop, the signal path, the process and the network; implements `ProfileWindow` | done |
| `ProfilePostProofs` | theorems about `ProfilePost` | done |
| `EventPath` | one file access from kprobe to profile, the allowlist, the loss counters, against start, stop and signal | done |
| `Observation` | the four event handlers, what the aggregator makes of their records, the interim schedule on a clock; extends `Confidence` | done |
| `Confidence` | the score of a profile, as a function | done |
| `ImageTree` | file trees, and the hardener's ways of walking them, as functions | done |
| `LayerExtract` | tar entries to staging directory, next to what a container runtime would have; the copy of a file set; extends `ImageTree` | done |
| `ElfClosure` | the closure over interpreters and libraries, with the parse of `ld.so.conf` | done |
| `LayerBuild` | `BuildImage` from extracted tree and manifest to layer and result; extends `ImageTree`, `Confidence` | done |
| `RepairLoop` | builds into one directory, smoke test, diagnose, the build again; extends `LayerBuild`, each build is a run of it | done |
| `EventPathProofs`, `ObservationProofs`, `ElfClosureProofs`, `LayerExtractProofs`, `LayerBuildProofs`, `RepairLoopProofs` | theorems about these six | done |
| `ImageTreeProofs` | lemmas on paths, trees and walks, used by the last three | done |
| `MC*` | instances for TLC | done |

### ProfilePost and the code

Goroutines and where they stand: `hook[c]` is the NRI hooks of a container,
`resolve[c]` its `resolveWorkloadAsync`, `loop`/`due`/`cur` the interim loop,
`sig` the signal goroutine, and `flush[w][c]` the position inside
`flush(agg, target, terminal)` of its two callers, `w = "stop"`
(`onContainerStop`, terminal) and `w = "shutdown"` (`flushAll`, not terminal).
Data: `tracked` is the key set of the router's maps, `postMu`, `closed` and
`owner` are fields of the `postTarget`, `recorded` the aggregator's files,
`final` the snapshot `flush` took, `disk` the file under `--profile-dir`, `sent`
every POST issued, `wire` and `received` the network.

A step is what a goroutine does between two points where another can get in.
`flush` is therefore cut at `postMu.Lock()` (`FlushBegin`), at file creation and
writing (`FlushCreate`, `FlushEncode` and their failures), at the wait for
`resolveDone` (`FlushSettle`), at the live lookup (`FlushLookup`,
`FlushLookupFails`), and at the POST and its answer (`FlushPost`,
`FlushReply`). `onContainerStart` is cut where it releases `r.mu`: `Register`
publishes the target and `LaunchResolve` assigns `resolveDone` and starts the
resolution, which is the order of the code. `RecordFile` may act on an
aggregator that has left the maps since the consumer looked it up (`held`).

Files are opaque, a snapshot is the set of files, an owner a model value. Image
references, timestamps and log lines are left out; when a container is due for
an interim snapshot is a free choice.

### EventPath and the code

`Access` is the process and the kprobe in one step (the kprobe runs in the
process's system call): the allowlist lookup, `bpf_ringbuf_reserve`, the path
read. `ConsumerRead` is `Consumer.Run`, `Handle` the first `aggFor` of `handle`,
`HandlePath` the handler up to its second `aggFor` (a relative open is joined to
the working directory of the process at that moment), `HandleRecord` is
`RecordFile`. `Register`/`Allow` are the two halves of `adopt`, `Deny`/`Drop`/
`FlushStopped` those of `StopContainer` with `onContainerStop`, and
`FlushAll`/`FlushClaimed` the signal path. `Snapshot` is the delta of
`eventLossLocked` for the stages read and `processStartObservedLocked`;
`Readable` lets the in-kernel counters fail to be read. `accessed`, `missed` and
`drained` are history variables: the truth against which a profile is judged.
A process accesses its entrypoint first, and each path once.

### Observation and the code

`Open`, `Stat`, `Exec`, `MapExec` are processes with the kprobe that fires;
`Handle` is `handleOpenat`, `handleStat` and `handleExecve` up to the records
they make, `Record` one call of `RecordFile`, so that `Pass` (`snapshotPass`)
gets between an executable and its interpreter. `HandleMmap` is
`MergeAccessModeByBasename`: the event has only the name of the mapped file.
Paths keep the structure the deny list and `filepath.Clean` look at: components
made of dot-separated parts. Nothing is lost here; loss is `EventPath`'s.

### The hardener's modules and the code

`ImageTree`: a path is a sequence of components, a tree a function from paths to
nodes. `Walk` is `resolveInRoot`, and with `rooted = FALSE` the kernel following
links from the build host's root, which is what `os.Stat` and `os.MkdirAll` do on
a joined path; which of the two the code uses at each place is kept. Where the
rooted walk of a parent fails, `inRootHostPath` falls back on the joined path
(inroot.go:97). In the tree that finds nothing the rooted walk does not
(`WalkKept`), so `EntryAt` says absent; an absolute link to a directory that is
missing in the image but there on the build host is left out.

`LayerExtract`: `Extract` is the body of the loop over tar entries, one case per
type; the os calls are functions on trees with `Failed` for an error. `runtime`
is the tree containerd's layer application has after the same entries, and
`quirks` notes where the code is known to differ. `CopyOne` takes any path of the
manifest next, as ranging over a map does.

`ElfClosure`: `stack` is Go's call stack; a frame holds what `resolve` has in its
locals. `Call`, `ResolveInterp`, `ResolveLib`, `LibResolved`, `ResolveReturns`
are the pieces between recursive calls; `Fail` unwinds, up to the caller that
drops the error of an interpreter. `reading` is the recursion of
`parseLdSoConfFile`.

`LayerBuild`: one action per step of `BuildImage`, in its order, each completing
`files` as the code completes the manifest. `WriteEntry` is one turn of
`writeTarEntriesCounting`, `Written` the whole of it. The layer is written twice
and peeked at once: `OpenLayer` and `PeekStores` are the goroutine whose pipe is
closed early and which stores the skip count when it gets there, before the layer
is digested or (`peek = "late"`) between the digest and the reading of the result.
`ResolveRuntimeCompanions` takes the transient names of a `.pyc` in any order, as
ranging over a map does: which of several gives the final name its source
(`FirstNames`) is open, and only a direct one becomes inferred-runtime.

`RepairLoop`: `step` is the point in `runBuild`; `dir` has, for each file of the
output directory, the number of the build it is of. `BuildStep` takes a step of
`LayerBuild`; `BuildReturns`, `WriteRemovalManifest`, `WriteInventory`,
`GenerateSBOM`/`SyftFails`, `SmokeTest`, `Verdict` are what follows, each with
its failure and whether that is a warning or an exit. `SmokeTest` leaves the log
of the entrypoint; or, when `docker run` fails for reasons of its own, Docker's
error as the log (smoketest.go:72), taken to name no path of the image; or no log,
when Docker fails before that or the log cannot be saved. The build is run with
`--sbom`, a signing key and `--smoke-test`. `Diagnose` is `runDiagnoseWith` with
the candidates as sets, `Complete` one round of `CompleteJSON` over
`OpenAIComplete`. `Rerun` and `RerunAllowed` are the operator following the
suggestions, or trying again when there is nothing to diagnose or the log names no
path.

## Runs

Passing:

| run | instance | properties |
|---|---|---|
| `PostOne` | 1 container, 2 files, 2 workloads, profile directory, unowned-pod exception, signal, crash, late requests, slow resolution, at most 2 interim POSTs; 0.7 M states | `SentInOrder`, `OneAddressee`, `FlushedExactlyOnce`, `PostInv` (inductive), `ImplementsWindow` (refinement) |
| `PostRace` | 2 interchangeable pods, interim loop, signal; 0.6 M states | `ResolvedOwnerIsUsed`, `ReceivedInOrder`, `NoInterimAfterFlushAll` |
| `PostLive` | 2 containers, interim loop, signal, with fairness | `StopHookReturns`, `SignalEndsProcess` |
| `EventLoss` | 2 containers, one found by Synchronize, a ring of 1, undecodable records and unreadable counters; 0.6 M states | `LossNeverUnderstated`, `AllowedHasAggregator`, `UntrackedOnlyAfterStop`, `DrainedCleanIsComplete` |
| `EventMarker` | 1 container, relative opens, a denied directory, faults, signal | `TypeOK`, `StartMarkerSound` |
| `Observation` | 2 accesses of any kind by 4 names, 4 units of time; 0.7 M states | `RecordsWhatWasDone`, `SnapshotsGrow`, `SnapshotPace` |
| `ElfAll` | 5 ELF files, 3 library names, 2 directories, 2304 images | `TypeOK`, `OnlyNeeded`, `EveryNeedAccounted`, `InterpreterIncluded`, `AuditTrail`, `ResolutionEnds` |
| `Extract` | 14 entries, a relative and an absolute link to a directory and whiteouts through them among them, at most 6 in an image, 2 layers; 0.4 M states | `TypeOK`, `ExtractsWhatRuntimeHas`, `CopyComplete` |
| `BuildAll` | 2 images (with and without merged /usr), 256 manifests, two transient names of one `.pyc` among them, 10 sets of options; 0.2 M states | `TypeOK`, `KindsAgree`, `ManifestResolves`, `RemovedExact`, `EnsuredUnlessListed`, `SkipCountBounded`, `ScoreIsTheProfiles` |
| `Repair` | the same images, 6 workloads, 5 builds, 1 fault, 2 picks; 0.62 M states | `OutputOfOneBuild`, `NothingSuggestedTwice`, `ModelOnlyChooses`, `AtMostThreeRequests`, `RepairConverges` |

Runs in which TLC refutes what a comment of the code says:

| run | property | what happens |
|---|---|---|
| `PostExit` | `GracefulExitFlushesAll` | SIGTERM while a stop hook is in `flush`: `flushAll` finds nothing left to claim, the probe closes, `main` returns, the profile is lost. |
| `EventInFlight` | `CleanTerminalIsComplete` | `StopContainer` takes the final snapshot while the container's last events are still in the ring; they are counted as loss only afterwards. `DrainedCleanIsComplete`, in `EventLoss`, shows that this is the only way a clean start-anchored profile lacks a file. |

Smaller disagreements have no run of their own. For those with a property it is
defined next to the ones that hold; named in the configuration given, TLC finds
the counterexample:

| property, configuration | the code, and what it says of itself |
|---|---|
| `NoLookupWhileResolving`, `PostRace` | SIGTERM between the unlock of `onContainerStart` and its assignment of `resolveDone` (main.go:460): `flush` sees nil and looks the owner up live while the resolution starts. main.go:575: it waits "rather than racing ahead to the live fallback". |
| `EveryDropCounted`, `EventLoss` | the aggregator leaves the map between `handle`'s lookup and `handleOpenat`'s (main.go:748), or an exec path is relative (main.go:894): dropped uncounted. main.go:701: "a lost observation -- count it". |
| `ReceivedInOrder`, `PostRace` with `LateDelivery = TRUE` | an interim POST times out at its client, `flush` posts the final snapshot, and the abandoned request arrives after it: `postMu` orders the calls of `PostProfile` only (main.go:634). main.go:337: it serialises them "so snapshots reach the controller in increasing profile_end order". `PostRace` shows the order without such requests. |
| `NoneAllowedAlone`, `EventMarker` | `flushAll` comes between `onContainerStart` and `AllowCgroup` of a starting container (nri.go:247): its cgroup stays allowed without an aggregator. flushall_deny_test.go:34: "no cgroup may remain allowlisted without a live aggregator". `AllowedHasAggregator` shows that without SIGTERM none is. |
| `StatRecorded`, `Observation` | `handleStat` records the mode `s` (main.go:821), but `dedupeAccessModes` has no place for it in what it returns (aggregator.go:417): no profile ever has it. docs/profile-schema/README.md:325: the mode "records stat-family existence checks"; manifest.go:138 says the same. `RecordsWhatWasDone` leaves the mode out. |
| `RecordedWasAccessed`, `EventInFlight` with `Relative = TRUE` and `Dirs = {app, etc}` | a process changes directory before its relative open is handled: the profile names a file it never opened. main.go:726: "the /proc entry is always valid". |
| `WhiteoutDeletes`, `Extract` | a whiteout of a directory with something in it is left, since `os.Remove` fails and its error is dropped (puller.go:212). puller.go:42: it deletes the sibling. |
| `NoDanglingLink`, `BuildAll` | a link named through a linked directory is expanded from that name: /lib/l -> ../share/s to /share/s. builder.go:612: expansion prevents dangling links. |
| `SkipCountStable`, `BuildAll` | the writer whose pipe was closed after the peek stores what it has counted so far (builder.go:595) after the layer has been digested and before the result is read (builder.go:365): the reported count is too small. builder.go:292: "each run stores the same skip count, so the value is stable once the layer has been digested". `SkipCountBounded` shows that this is the only way, and that the count is never too large. |
| `RemovedAbsent`, `BuildAll` | merged /usr: the manifest names /lib/x, the package /usr/lib/x, one file of the image. The set difference (removal.go:110) finds nothing retained, and a package is reported as removed whose content is in the layer. docs/removal-manifest-schema/README.md:38: "a false absence claim, since some of its content still ships". `RemovedExact` shows that two names are the only way. |
| `EnsuredPathsExist`, `BuildAll` | `--mkdir` of a path the manifest lists as a failed probe: the entry is there, so nothing is ensured, and the image does not have it. builder.go:68: it must exist in the layer. |
| `HardenerEntriesFree`, `BuildAll` | link targets the hardener adds are scored as the user's manual entries, build.go:133 scoring the manifest after they are added. confidence.go:98: they must not count. |

And, read off the code: an mmap is merged by the mapped file's own name, so a library opened through a link of another name does
not get `m`; the interpreter of a script in a denied directory is never recorded
(main.go:764 returns before it); `dropCovered` drops a suggested empty directory
below another suggested directory, "--include of a directory already restores
everything under it" (diagnose.go:166), which it does for files only, and the
`--mkdir` of an empty one does for nothing. The dropped directory is suggested the
next time, so an entrypoint that needs one empty directory below others of the same
name may cost a build for each of them: `RepairConverges` counts them (`Wanted`); a signature made
for the SBOM of an earlier build stays when cosign fails, next to the new SBOM,
as do the removal manifest and inventory, each with a warning
(`OutputOfOneBuild` names the warnings).

**Bounds.** Interference between containers happens only in the interim loop
(one container at a time), in `flushAll` (serial) and in the shared ring and
counters, so two containers show every pairwise race, and one container with
everything switched on shows the rest. For the safety properties of
`ProfilePost`, `EventPath`, `Observation`, `ElfClosure` and of the loop around
the builds in `RepairLoop` the theorems remove these bounds altogether; what
follows is why they are enough for the rest. `MaxPosts` stops interim snapshots after one or two: the third is
handled like the second. Two files are enough for a snapshot to differ from the
next. A ring of one event is full as often as possible; two events let an
overtaken event exist beside another. `MapEntries` is at least the number of
containers: when the allowlist is full `AllowCgroup` fails, is logged and
ignored, and the container runs unwatched. Nothing in its profile says so but
the missing process-start marker, which is what `StartedCleanIsComplete` in
`EventPathProofs` states and proves for an allowlist of any size.
Two accesses are enough for `Observation`: entries of different paths do not
touch, but for the mmap merge, which needs an open and a map; four units of time
at an interval of two hold a late pass and the two after it. Five ELF files give
cycles of length two and three, a diamond, a library in two directories, an
interpreter with needs of its own. Six entries in two layers are enough for a
directory, something in it, a link to it and their removal; longer images repeat
one of these situations elsewhere in the tree. In `LayerBuild` a step looks at a
path, its ancestors and its link, and the eight observable paths have every
combination of those the code distinguishes; the two transient names, one observed
and one not, are in a manifest together or not at all. One fault at any point of up to
four rebuilds gives every mixture of two builds' files; the workload that needs
`/app/tmp/tmp` alone takes a build more than it has needs, and with the fault there
is one left.
Deadlock checking is off because the sensor really stops: the process exits,
containers need not start, and delivery is not forced.

**Fairness** (`FairSpec`). Weak fairness for a started hook
(`LaunchResolve`), for the end of a lookup and each step of `flush` (each waits
at most for a call with a 10 s context), for the interim pass, `flushAll` and
`Exit`: these are runnable goroutines or bounded calls. Strong fairness for
`FlushBegin`, because a `sync.Mutex` hands itself to a waiter that has starved
for a millisecond, and for `LoopExit`, because `select` chooses at random
between a tick and `ctx.Done()`. Nothing is assumed of containers, files,
signals, ticks, crashes or the delivery of requests. `ElfClosure` has weak
fairness of its whole next-state relation: it is one goroutine that keeps
running.

## Proofs

Eight modules hold theorems and lemmas, for every value of the constants that
their named assumptions allow. `ConfigAssumption` (`ProfilePost`),
`ObservationAssumption` (`Observation`), `WindowAssumption` (`LayerBuild`) and
the assumptions of the other models give the constants their types;
`ImagesAssumption`, `OrderAssumption` and `ListedAssumption` (`LayerBuild`) say
that an image's tree is one (`IsTree`), and that `Order` lists cleaned paths once,
each after those above it, and all there are: those of images, manifests and
options, what a manifest can be completed with, and with a link its target (the
model writes the layer along `Order`, the code along the sorted manifest; a finite
`Order` suffices, because a name that leads through more than 40 links is not
found). `EntriesAssumption` and `ManifestsAssumption` (`LayerExtract`) say that
paths are clean, as `filepath.Join` leaves them, and `WorkloadsAssumption`
(`RepairLoop`) that an entrypoint opens finitely many paths. A theorem that needs more says so
as a hypothesis: `TransientsObserved`, that no user has listed a transient `.pyc`
name by hand; and `IncludesHoldFiles`, that no `--include` of the first build names
a directory with nothing but directories in it, of which the build includes
nothing. Both hold
in the runs' instances. Each proof has the same layout: invariants with names, a
lemma for what each helper does, then for every invariant one step per action. The
invariants were checked by TLC on the runs' instances before they were proved.

**`ProfilePostProofs`**: the router against hooks, resolver, interim loop,
signal, crash and network.

* `TypeCorrect`, `PostInvariant`, and from it `SentInOrderHolds`,
  `OneAddresseeHolds`, `FlushedExactlyOnceHolds`.
* `WindowRefinement`: `Spec => ImplementsWindow`.
* `NoInterimAfterFlushAllHolds`.
* `ResolvedOwnerIsUsedHolds`, given `~SlowResolve`: the 15 s wait of `flush`
  does not run out. With it, the live lookup may fail after all.
* `ReceivedInOrderHolds`, given `~LateDelivery`: a request whose client gave it
  up does not arrive. With it, the order is lost, as said above.

`SentInOrder` is not inductive: that nothing is sent after a final POST depends
on who may still send. `PostInv` adds, per container, `ClaimOK` (at most one
flusher has claimed it, `closed` says exactly that one is past the lock, a
tracked container is unclaimed), `Collected` (what the loop holds is resolved to
an owner) and `SentOK` (an interim POST implies a cached owner and was addressed
to it, so no flush of that container ever reaches the live lookup; a final POST
is the last and its flusher is past it; every POST holds no more than the final
snapshot, or than the aggregator while the target is open). `ClaimsInductive`,
`CollectedInductive` and `PostsInductive` take them one at a time; `FlushEffect`
and `QuietStep` say once what the many steps inside `flush` have in common. For
the refinement, `Register` opens the window, `RecordFile` observes,
`PostInterim` publishes, `FlushBegin` closes, `FlushPost` publishes what was
frozen, and every other step stutters (`OthersStutter`). The last three need
more: `LoopGone` (the signal goroutine is in `flushAll` only once the loop has
exited), `LookupsOK` (a stop flush is at the live lookup only where resolution
had failed or was not started), and for the order of arrival `LocksOK` (who
holds `postMu`) with `Wires` (at most the last request of a container is on its
way, and only while its client waits; what was received is older and ordered).

**`EventPathProofs`**: events between kprobe and profile, for any number of
containers, any ring, any allowlist.

* `TypeCorrect`; `AllowedHasAggregatorHolds`; `UntrackedOnlyAfterStopHolds`.
* `LossNeverUnderstatedHolds`. `LossInv` is its strengthening: the paths missed
  at a stage, a finite set, number at most what the counter has moved since the
  container's baseline. The counters are shared, so a step of one container may
  move them for all; that they only grow carries the others.
* `StartMarkerSoundHolds`. `EntryInv` follows the entrypoint's event through
  ring and consumer: it stays ahead of every other event of its container, so
  when a later one is recorded the entrypoint is recorded or its loss counted.
* `DrainedCleanIsCompleteHolds`, given absolute opens, and an allowlist with room for a
  finite set of containers. `CompleteInv` says where each accessed file is: in
  the profile, counted, on its way, or left behind in a way that no complete
  profile can follow. Both hypotheses are needed: with `MapEntries = 0`, or with
  `Relative = TRUE`, TLC finds a clean profile that lacks a file.
* `StartedCleanIsCompleteHolds`, given absolute opens: the same for an allowlist
  of any size, of a profile that carries the process-start marker.

**`ObservationProofs`**: handlers and aggregator, for any paths, scripts,
interval and number of accesses.

* `TypeCorrect`; `RecordsWhatWasDoneHolds`; `SnapshotsGrowHolds`;
  `SnapshotPaceHolds`.

`RecordsWhatWasDone` speaks of the moment everything is handled. In between,
`OrderInv` says which events have been handled and that the records in hand are
of the last of them, and `EntryInv` that a path is in the profile with the modes
and the count of exactly the events whose record of it has been made. The mode
`m` is apart: `MapInv` has the open or exec of a file before its map, so that
the merge by basename finds the entry. Of the mode `s` the theorem says nothing:
`StatRecorded` says what should hold of it and does not.

**`ElfClosureProofs`**: `resolve`, for every set of files, names and directories
and every link structure between them, cycles included.

* `TypeCorrect`; `OnlyNeededHolds`; `AuditTrailHolds`.
* `EveryNeedAccountedHolds`, `InterpreterIncludedHolds`: `resolve` marks a file
  visited when it enters it, long before its needs are in the manifest.
  `DoneInv` says what of its needs each active call has settled (`FrameOK`), and
  that every visited ELF file is being resolved, has failed or is done with
  (`Settled`). A call that awaits another is at a library that was found, is in
  the manifest and has been visited, so that nothing is left to do about it
  when the other returns, in a cycle at once.

**`ImageTreeProofs`**: what `resolveInRoot` and `inRootHostPath` compute, for
every tree. `Walk` is a recursive function over what is resolved, what is
pending and the links followed; it is well defined because each step follows a
link or consumes a component (`WalkIs`). What holds of a walk that has ended and
is kept by going one step back holds of every walk (`NeverWrong`): the library's
induction theorems cannot be used, so every induction is by a least
counterexample. From it follow that a walk ends at something of the tree that is
no link (`WalkLands`), that a longer path is walked like its beginning and then
the rest (`WalkLonger`), that nothing is found below what is absent
(`BelowAbsent`), and that what the tree has is found under its own path
(`FoundInPlace`).

**`LayerExtractProofs`**: every image, of any entries in any order, and every
manifest.

* `TypeCorrect`: the staging tree, the runtime's and the copy stay trees.
* `ExtractsWhatRuntimeHasHolds`, with no further hypothesis.
* `CopyCompleteNamedDirectly`: `CopyComplete` in every state where `NamedDirectly`
  holds, that is, where no path of the manifest that the image has goes through a
  link. It is not true of every image (see below).

Each os call keeps `IsTree` (`MkdirAllKeepsTree`, `CreateKeepsTree`, ...):
`os.MkdirAll` adds a chain below the longest prefix that leads to something
(`MkdirAllMakes`), everything of which is new (`ChainIsNew`). The second theorem
needs `Same`, that the trees are one as long as nothing went wrong, and with it
that code and runtime make the same of each entry (`ExtractSame`). The code walks
as the host does, the runtime within the root. What the host's walk finds, the
rooted one finds too, and still finds in a larger tree (`WalkKept`, `EntryKept`);
so the same directories are made (`MkdirAllSame`), and removing an entry before
its successor is created does not change where the parent is (`CreateIsPut`). The
reverse fails at a link that leads out of the staging directory: a whiteout
through one removes something in the runtime and nothing here, which is the quirk
`outside`. A directory entry meets a link only if the link was there before the
entry's parents were made (`LinkWasThere`), the quirk `dirOverLink`. The third
needs `CopyInv`: as long as `NamedDirectly` holds, the destination is a part of the
staging tree and has every path dealt with so far. In a part of a tree a walk finds
what it finds in the whole or nothing, so `os.MkdirAll` on the way to such a path
makes directories that are there in the staging tree too (`MkdirAllInside`), and no
round writes anywhere but at its own path (`CopyInside`).

**`LayerBuildProofs`**: the build, and what the writer of the layer keeps, entry
by entry, for every image, manifest and set of options.

* `TypeCorrect`: the layer is a tree, everything in it lying in a directory.
* `EnsuredUnlessListedHolds`, `KindsAgreeHolds`.
* `SkipCountBoundedHolds`; `RemovedExactHolds`; `ManifestResolvesHolds`.
* `ScoreIsTheProfilesHolds`, under `TransientsObserved`.

`Written` is a recursive function over the entries; that it exists, and that
what each entry keeps holds after all of them, is again shown by a least
counterexample (`RunExists`, `WholeLayer`). `Good` is what each entry keeps:
everything in the layer is an entry written so far or above one, so that, the
paths being sorted, the next entry is new and nothing lies below it
(`LayerOK`, `NextIsNew`); an entry that is neither skipped nor a failure is there
(`EntriesThere`); what is there is what the image has under that name, or a
directory for a link to one (`AllAgree`, from `DirsAbove`: above a path that no
non-directory blocks the image has only directories); and an entry is skipped
exactly if it is `Hidden` (`CountOK`, `BlockedIsHidden`). `AskedInv` and `KeptInv`
carry an ensured path from `EnsurePaths` through the expansion of links to the
layer, `SkipInv` the count past the writer that was cut short (the reported count is
exact unless that writer stores late), and `SourcesInv`
says where each entry of the manifest comes from, so that those the score counts
are the profile's and the targets of links. `FlagsInv` has, for what follows,
that the layer contains every path of the image the options name. `Listed` is
`ListedAssumption` carried through the build: the manifest has no path that `Order`
lacks, so the writer leaves none out.

`RemovedExact` is `AllAgree` read from the package's side: a file of the package
that the layer has under any name is an entry of the manifest, and under
`OneName` that entry is the name the package gives it. Without `OneName` it fails:
the manifest may have `/lib/x` and the package `/usr/lib/x`, one file of an image
with merged /usr, and the package is reported as removed.

`ManifestResolves` takes three steps. The manifest is closed under the targets of
its links (`ExpandedCloses`: the loop ends because each round adds a path of the
finite order). For a plain link the name that `filepath.Join` cleans is the place
the walk reaches (`TargetFrom` against `Walk`), so that the target of a link is an
entry too. And a walk that follows `k` more links in the image ends at the same
content in the layer, by induction on `k`: a directory on the way is a directory of
the layer, a linked directory has become one or leads on through an entry, a file
or link is as it was. `DirInBoth`, `FileInBoth` and `LinkInBoth` are the three
cases, `AllSame` the induction.

**`RepairLoopProofs`**: builds, failures, diagnoses and reruns, for any number
of each.

* `OutputOfOneBuildHolds`: `OutputInv` says, for each step `runBuild` has
  reached, which files are of this build or have been warned about.
* `AtMostThreeRequestsHolds`: an attempt that took two requests has set the
  `response_format` latch (`CallInv`).
* `ModelOnlyChoosesHolds`: `ChoiceInv`, with the lemma that `dropCovered` drops
  a path only below one it keeps.
* `SuggestsWhatTheLayerLacksHolds`: the inventory that `diagnose` reads is that
  of the layer which failed (`InventoryInv`), so what it suggests is a path the
  source image has and the layer has not. It is the second half of
  `NothingSuggestedTwice`, with no further hypothesis.
* `NothingSuggestedTwiceHolds`, under `IncludesHoldFiles`: what
  the flags of a build name, and the image has, is in its layer (`FlagsInv`, kept
  across `Rerun` because a suggestion that is no directory without files holds
  one, `SuggestedHolds`), so it is not in the inventory's candidates. The
  hypothesis is needed: an operator's `--include` of an empty directory includes
  nothing, and `diagnose` suggests that directory as `--mkdir`.
* `RepairConvergesHolds`, for every image, manifest and workload, and any number of
  faults. Five invariants carry it from one build to the next. `NamesInv` says what
  the manifest names at each phase of a build as a function of its options, so the
  names only grow from build to build (`AllNamesGrow`), and `FinishedInv` that a
  finished layer has what they keep: themselves and the directories on the way
  (`Kept`). Hence an inventory, even one an earlier build left, has in the layer only
  what is still kept (`EntriesInv`). What the entrypoint does not find is not kept, a
  path that is findable and kept being one the layer resolves (`ResolvesInLayer`,
  from the walk that `ManifestResolves` rests on); so the log quotes candidates of
  the inventory only, or nothing at all if it is Docker's own (`LogInv`), and of each it
  quotes the suggestions have it or a directory above it (`SuggInv`). `RerunAsks` is the step that counts: the next build is told
  to include or create something wanted that no flag asked for before -- if one had,
  the layer would have it. `CreditInv` has the sum: every build but the running one
  is paid for by a fault, which is also where Docker's own log comes from, or by a
  wanted path that the flags now ask for. What is
  wanted is finite, which bounds the builds.

**Model-checked only.** The liveness properties `StopHookReturns`,
`SignalEndsProcess` and `ResolutionEnds`: fairness and `ENABLED` are beyond the
prover.
`CopyComplete` of `LayerExtract` for manifests that name a path through a link, of
which it is not true in every image: with `d -> e/g` and
`e/g/l -> ../h`, a manifest of `d/l`, `d/l/x` and `h/x` has `l` copied into a real
directory `d`, where it leads to `/h` instead of `/e/h`, and `h/x` ends up with the
content of `d/l/x` if that comes second. In the run's images a link leads to the
same place under each of its names, so the run covers manifests the theorem does not.

## Mutants

Definitions whose comment begins with "mutant" are seeded bugs, each next to the
definition it would replace: an unlock forgotten, a guard dropped, two steps
swapped. With one in place TLC refutes the property it is listed with in
`PROJECT.json`; no specification uses them.

## Not modelled

* The NRI plugin's maps `paths`, `ids`, `podMeta`, and Synchronize's choice of
  containers. containerd's adaptation calls the hooks of one plugin one at a
  time, so the unguarded accesses to `podMeta` (nri.go:390) meet only across a
  reconnect; what is left is bookkeeping. Two observations: the early return of
  `StopContainer` leaves a `podMeta` entry behind, and a sensor restart starts a
  new profile, nothing of the old one being read.
* The owner walk of the workload resolver: three API reads in a row.
* Schema decoding, confidence levels and their wording, image config, modes and
  times in layers, the redaction of logs and the matching of words in them
  (`candidates.Generate` is modelled by which paths a log refers to).
* `explain` and `cmd/tracepod`: they format, or poll one server from one
  goroutine.
* What an absolute link of the image leads to on the build host (inroot.go:97).
* eBPF program loading, registries, syft, cosign and Docker beyond success and
  failure, packaging.
