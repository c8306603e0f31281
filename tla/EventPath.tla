------------------------------ MODULE EventPath ------------------------------
(***************************************************************************)
(* The path of one file access from a container's process to its profile:  *)
(* the kprobe and its cgroup allowlist (internal/probe), the shared ring   *)
(* buffer, the consumer (internal/ringbuf), the router's per-container     *)
(* aggregators (cmd/sensor), and the loss counters kept along the way      *)
(* (manifest/eventloss.go, manifest/aggregator.go), against the NRI hooks  *)
(* that open and close a container's window (internal/container) and the   *)
(* SIGTERM path that closes all of them.                                   *)
(*                                                                         *)
(* A path is a directory and a name.  A process opens it by its absolute   *)
(* path, or by the name alone when it is in its working directory.         *)
(***************************************************************************)
EXTENDS Naturals, Sequences, FiniteSets

CONSTANTS
    Containers,
    Synced,      \* those already running when the sensor registers with NRI
    Dirs, Names, \* what paths are made of
    Home,        \* the working directory processes start in
    Denied,      \* directories the deny list filters out
    Entrypoint,  \* the path a container's runtime execs
    RingSize,    \* events the ring buffer holds
    MapEntries,  \* max_entries of allowed_cgroups
    Signals,     \* SIGINT/SIGTERM may arrive
    Relative,    \* processes open files relative to their directory
    Faults       \* records may not decode, paths fault, counters not be read

Paths == Dirs \X Names

ASSUME EventPathAssumption ==
    /\ Synced \subseteq Containers
    /\ Home \in Dirs
    /\ Denied \subseteq Dirs
    /\ Entrypoint \in Paths /\ Entrypoint[1] \notin Denied
    /\ RingSize \in Nat \ {0}
    /\ MapEntries \in Nat
    /\ {Signals, Relative, Faults} \subseteq BOOLEAN

VARIABLES
    hook,       \* how far the NRI hooks of each container have come
    allowed,    \* the in-kernel allowlist
    ring,       \* the ring buffer
    hand,       \* the event the consumer is handling, with where it stands
    tracked,    \* keys of the router's aggs
    files,      \* paths in each container's aggregator
    execSeen,   \* aggregators with a firstExecTime
    counters,   \* cumulative process-wide loss, per stage
    baseline,   \* each aggregator's lossBaseline
    claimed,    \* containers flushAll has yet to flush
    sig,        \* flushAll has run
    profiles,   \* the snapshots flush() took
    cwd,        \* working directory of each container's process
    accessed,   \* what the process really accessed
    missed,     \* its events that were dropped, per stage
    drained     \* containers with no event on its way when they left aggs

routerVars == <<tracked, files, execSeen, baseline>>
flushVars  == <<claimed, sig, profiles, drained>>
truthVars  == <<cwd, accessed>>
vars == <<hook, allowed, ring, hand, routerVars, counters, flushVars, truthVars,
          missed>>

BPFStages == {"bpf_reserve_failed", "path_read_failed"}
Hard      == {"bpf_reserve_failed", "decode_failed", "untracked_cgroup"}
Stages    == BPFStages \cup Hard

Event == [ctr : Containers, kind : {"exec", "open"}, path : Paths, rel : BOOLEAN]

-----------------------------------------------------------------------------
Init ==
    /\ hook = [c \in Containers |-> "none"]
    /\ allowed = {}
    /\ ring = <<>>
    /\ hand = {}
    /\ tracked = {}
    /\ files = [c \in Containers |-> {}]
    /\ execSeen = {}
    /\ counters = [s \in Stages |-> 0]
    /\ baseline = [c \in Containers |-> [s \in Stages |-> 0]]
    /\ claimed = {}
    /\ sig = FALSE
    /\ profiles = {}
    /\ cwd = [c \in Containers |-> Home]
    /\ accessed = [c \in Containers |-> {}]
    /\ missed = [c \in Containers |-> [s \in Stages \cup {"uncounted"} |-> {}]]
    /\ drained = {}

\* The counter of a stage goes up for an event of c; the "uncounted" stage has
\* no counter.
Count(c, stage, p) ==
    /\ counters' = IF stage \in Stages THEN [counters EXCEPT ![stage] = @ + 1]
                                       ELSE counters
    /\ missed' = [missed EXCEPT ![c][stage] = @ \cup {p}]

-----------------------------------------------------------------------------
(***************************************************************************)
(* The process and the kprobes.                                            *)
(***************************************************************************)

\* containerd starts the process once the start hook has returned, and calls
\* the stop hook after it has exited.
Alive(c) == hook[c] = "running" \/ (c \in Synced /\ hook[c] \in {"none", "registered"})

\* Mutant: a reserve that fails is not counted.
EmitUncounted(e) ==
    \/ /\ e.ctr \notin allowed
       /\ UNCHANGED <<ring, counters, missed>>
    \/ /\ e.ctr \in allowed
       /\ Len(ring) >= RingSize
       /\ Count(e.ctr, "uncounted", e.path)
       /\ UNCHANGED ring
    \/ /\ e.ctr \in allowed
       /\ Len(ring) < RingSize
       /\ ring' = Append(ring, e)
       /\ UNCHANGED <<counters, missed>>

\* What an access leads to in the kprobe: nothing unless the cgroup is allowed,
\* a reserve failure when the ring is full, an unreadable path, or a record.
Emit(e) ==
    \/ /\ e.ctr \notin allowed
       /\ UNCHANGED <<ring, counters, missed>>
    \/ /\ e.ctr \in allowed
       /\ Len(ring) >= RingSize
       /\ Count(e.ctr, "bpf_reserve_failed", e.path)
       /\ UNCHANGED ring
    \/ /\ e.ctr \in allowed
       /\ Len(ring) < RingSize
       /\ Faults /\ e.kind = "open"
       /\ Count(e.ctr, "path_read_failed", e.path)
       /\ UNCHANGED ring
    \/ /\ e.ctr \in allowed
       /\ Len(ring) < RingSize
       /\ ring' = Append(ring, e)
       /\ UNCHANGED <<counters, missed>>

\* The process accesses a path for the first time; its entrypoint comes first.
Access(e) ==
    /\ Alive(e.ctr)
    /\ e.path \notin accessed[e.ctr]
    /\ (accessed[e.ctr] = {}) <=> (e.path = Entrypoint)
    /\ e.path = Entrypoint => e.kind = "exec" /\ ~e.rel
    /\ e.rel => Relative /\ e.path[1] = cwd[e.ctr]
    /\ accessed' = [accessed EXCEPT ![e.ctr] = @ \cup {e.path}]
    /\ Emit(e)
    /\ UNCHANGED <<hook, allowed, hand, routerVars, flushVars, cwd>>

\* The process changes directory (bound: once).
Chdir(c, d) ==
    /\ Relative
    /\ Alive(c)
    /\ cwd[c] = Home
    /\ d # Home
    /\ cwd' = [cwd EXCEPT ![c] = d]
    /\ UNCHANGED <<hook, allowed, ring, hand, routerVars, counters, flushVars,
                   accessed, missed>>

-----------------------------------------------------------------------------
(***************************************************************************)
(* The consumer: Run, handle, handleOpenat / handleExecve, RecordFile.     *)
(***************************************************************************)

\* Mutants: a record that does not decode is skipped silently; a second consumer
\* reads while the first still handles.
ConsumerReadSkips ==
    /\ hand = {}
    /\ ring # <<>>
    /\ ring' = Tail(ring)
    /\ \/ hand' = {[event |-> Head(ring), at |-> "handle"]}
       \/ Faults /\ UNCHANGED hand
    /\ UNCHANGED <<hook, allowed, routerVars, flushVars, truthVars, counters, missed>>

ConsumerReadConcurrent ==
    /\ ring # <<>>
    /\ ring' = Tail(ring)
    /\ hand' = hand \cup {[event |-> Head(ring), at |-> "handle"]}
    /\ UNCHANGED <<hook, allowed, routerVars, flushVars, truthVars, counters, missed>>

\* Read the next record and decode it, or fail to.
ConsumerRead ==
    /\ hand = {}
    /\ ring # <<>>
    /\ ring' = Tail(ring)
    /\ \/ /\ hand' = {[event |-> Head(ring), at |-> "handle"]}
          /\ UNCHANGED <<counters, missed>>
       \/ /\ Faults
          /\ Count(Head(ring).ctr, "decode_failed", Head(ring).path)
          /\ UNCHANGED hand
    /\ UNCHANGED <<hook, allowed, routerVars, flushVars, truthVars>>

\* The consumer is done with the event it had in hand.
Done == hand' = {}

\* handle: an event without a live aggregator is counted, any other dispatched.
Handle(h) ==
    /\ h.at = "handle"
    /\ \/ /\ h.event.ctr \notin tracked
          /\ Count(h.event.ctr, "untracked_cgroup", h.event.path)
          /\ Done
       \/ /\ h.event.ctr \in tracked
          /\ hand' = {[h EXCEPT !.at = "path"]}
          /\ UNCHANGED <<counters, missed>>
    /\ UNCHANGED <<hook, allowed, ring, routerVars, flushVars, truthVars>>

\* The path an event is recorded under: a relative open is joined to the working
\* directory its process has NOW, which is unknown once it has exited; a
\* relative exec and a denied path give none.
ResolvedPath(e) ==
    LET p == IF e.rel THEN <<cwd[e.ctr], e.path[2]>> ELSE e.path
    IN  IF (e.rel /\ (e.kind = "exec" \/ ~Alive(e.ctr))) \/ p[1] \in Denied
        THEN {} ELSE {p}

\* handleOpenat / handleExecve up to the second aggFor, which may find the
\* aggregator gone since handle looked.
HandlePath(h) ==
    /\ h.at = "path"
    /\ LET e == h.event
       IN  \/ /\ ResolvedPath(e) # {} /\ e.ctr \in tracked
              /\ \E p \in ResolvedPath(e) :
                    hand' = {[event |-> [e EXCEPT !.path = p], at |-> "record"]}
              /\ UNCHANGED <<counters, missed>>
           \/ /\ ResolvedPath(e) = {} \/ e.ctr \notin tracked
              /\ IF e.path[1] \in Denied THEN UNCHANGED <<counters, missed>>
                                         ELSE Count(e.ctr, "uncounted", e.path)
              /\ Done
    /\ UNCHANGED <<hook, allowed, ring, routerVars, flushVars, truthVars>>

\* RecordFile, on the aggregator handleOpenat got hold of.
HandleRecord(h) ==
    /\ h.at = "record"
    /\ files' = [files EXCEPT ![h.event.ctr] = @ \cup {h.event.path}]
    /\ execSeen' = IF h.event.kind = "exec" THEN execSeen \cup {h.event.ctr}
                                            ELSE execSeen
    /\ Done
    /\ UNCHANGED <<hook, allowed, ring, tracked, baseline, counters, flushVars,
                   truthVars, missed>>

-----------------------------------------------------------------------------
(***************************************************************************)
(* The window: Plugin.adopt, Plugin.StopContainer, onContainerStart,       *)
(* onContainerStop, flushAll, and the loss report of a snapshot.           *)
(***************************************************************************)

\* ReadLoss: the stages that could be read at this instant.
Readable == {Stages} \cup (IF Faults THEN {Stages \ BPFStages} ELSE {})

\* Mutant: the cgroup is allowed before its aggregator exists.
RegisterAllowsFirst(c) ==
    /\ hook[c] = "none"
    /\ hook' = [hook EXCEPT ![c] = "registered"]
    /\ allowed' = allowed \cup {c}
    /\ UNCHANGED <<ring, hand, routerVars, counters, flushVars, truthVars, missed>>

\* adopt, first half: onContainerStart creates the aggregator, captures the
\* loss baseline (SetLossReader) and puts it in the map.
Register(c) ==
    /\ hook[c] = "none"
    /\ hook' = [hook EXCEPT ![c] = "registered"]
    /\ tracked' = tracked \cup {c}
    /\ \E read \in Readable :
          baseline' = [baseline EXCEPT ![c] =
                         [s \in Stages |-> IF s \in read THEN counters[s] ELSE 0]]
    /\ UNCHANGED <<allowed, ring, hand, files, execSeen, counters, flushVars,
                   truthVars, missed>>

\* adopt, second half: AllowCgroup, whose failure (the map is full) is logged
\* and otherwise ignored.
Allow(c) ==
    /\ hook[c] = "registered"
    /\ hook' = [hook EXCEPT ![c] = "running"]
    /\ allowed' = IF Cardinality(allowed) < MapEntries THEN allowed \cup {c}
                                                       ELSE allowed
    /\ UNCHANGED <<ring, hand, routerVars, counters, flushVars, truthVars, missed>>

\* Mutant: the stop hook drops the aggregator of a cgroup still allowed.
DenyForgotten(c) ==
    /\ hook[c] = "running"
    /\ hook' = [hook EXCEPT ![c] = "denied"]
    /\ UNCHANGED <<allowed, ring, hand, routerVars, counters, flushVars, truthVars,
                   missed>>

\* StopContainer: DenyCgroup first ...
Deny(c) ==
    /\ hook[c] = "running"
    /\ hook' = [hook EXCEPT ![c] = "denied"]
    /\ allowed' = allowed \ {c}
    /\ UNCHANGED <<ring, hand, routerVars, counters, flushVars, truthVars, missed>>

\* No event of c is in the ring or in hand.
NothingPending(c) ==
    /\ \A i \in 1 .. Len(ring) : ring[i].ctr # c
    /\ \A h \in hand : h.event.ctr # c

\* ... then onContainerStop takes the aggregator out of the map, if it is there.
Drop(c) ==
    /\ hook[c] = "denied"
    /\ hook' = [hook EXCEPT ![c] = IF c \in tracked THEN "dropped" ELSE "flushed"]
    /\ tracked' = tracked \ {c}
    /\ drained' = IF NothingPending(c) THEN drained \cup {c} ELSE drained
    /\ UNCHANGED <<allowed, ring, hand, files, execSeen, baseline, counters,
                   claimed, sig, profiles, truthVars, missed>>

\* Mutant: a stage that could not be read is reported as zero.
SnapshotZeroFills(c, terminal) ==
    \E read \in Readable :
        profiles' = profiles \cup
            {[ctr |-> c, terminal |-> terminal, files |-> files[c],
              byStage |-> [s \in Stages |-> IF s \in read /\ counters[s] > baseline[c][s]
                                            THEN counters[s] - baseline[c][s] ELSE 0],
              startObserved |-> c \notin Synced /\ c \in execSeen,
              lost |-> missed[c]]}

\* Snapshot / SnapshotFinal: the loss since the baseline of each stage read, the
\* stages not read named, the process-start marker.  "lost" is what was really
\* dropped so far.
Snapshot(c, terminal) ==
    \E read \in Readable :
        profiles' = profiles \cup
            {[ctr |-> c, terminal |-> terminal, files |-> files[c],
              byStage |-> [s \in read |-> IF counters[s] > baseline[c][s]
                                          THEN counters[s] - baseline[c][s] ELSE 0],
              startObserved |-> c \notin Synced /\ c \in execSeen,
              lost |-> missed[c]]}

\* flush(agg, target, true), after the claim.
FlushStopped(c) ==
    /\ hook[c] = "dropped"
    /\ hook' = [hook EXCEPT ![c] = "flushed"]
    /\ Snapshot(c, TRUE)
    /\ UNCHANGED <<allowed, ring, hand, routerVars, counters, claimed, sig,
                   drained, truthVars, missed>>

\* flushAll under r.mu: every tracked cgroup is denied, then dropped.
FlushAll ==
    /\ Signals
    /\ ~sig
    /\ sig' = TRUE
    /\ claimed' = tracked
    /\ allowed' = allowed \ tracked
    /\ tracked' = {}
    /\ UNCHANGED <<hook, ring, hand, files, execSeen, baseline, counters,
                   profiles, drained, truthVars, missed>>

\* flushAll's flush(agg, target, false) of one of them.
FlushClaimed(c) ==
    /\ c \in claimed
    /\ claimed' = claimed \ {c}
    /\ Snapshot(c, FALSE)
    /\ UNCHANGED <<hook, allowed, ring, hand, routerVars, counters, sig, drained,
                   truthVars, missed>>

-----------------------------------------------------------------------------
HookStep(c) ==
    Register(c) \/ Allow(c) \/ Deny(c) \/ Drop(c) \/ FlushStopped(c)

Consume ==
    \/ ConsumerRead
    \/ \E h \in hand : Handle(h) \/ HandlePath(h) \/ HandleRecord(h)

Next ==
    \/ \E e \in Event : Access(e)
    \/ \E c \in Containers : \/ \E d \in Dirs : Chdir(c, d)
                             \/ HookStep(c)
                             \/ FlushClaimed(c)
    \/ Consume
    \/ FlushAll

Spec == Init /\ [][Next]_vars

-----------------------------------------------------------------------------
Profile == UNION {[ctr : Containers, terminal : BOOLEAN, files : SUBSET Paths,
                   byStage : [read -> Nat], startObserved : BOOLEAN,
                   lost : [Stages \cup {"uncounted"} -> SUBSET Paths]] :
                     read \in {Stages, Stages \ BPFStages}}

TypeOK ==
    /\ hook \in [Containers -> {"none", "registered", "running", "denied",
                                "dropped", "flushed"}]
    /\ allowed \subseteq Containers
    /\ ring \in Seq(Event) /\ Len(ring) <= RingSize
    /\ \A h \in hand : h.event \in Event /\ h.at \in {"handle", "path", "record"}
    /\ Cardinality(hand) <= 1
    /\ tracked \subseteq Containers
    /\ files \in [Containers -> SUBSET Paths]
    /\ execSeen \subseteq Containers
    /\ counters \in [Stages -> Nat]
    /\ baseline \in [Containers -> [Stages -> Nat]]
    /\ claimed \subseteq Containers
    /\ sig \in BOOLEAN
    /\ cwd \in [Containers -> Dirs]
    /\ accessed \in [Containers -> SUBSET Paths]
    /\ missed \in [Containers -> [Stages \cup {"uncounted"} -> SUBSET Paths]]
    /\ drained \subseteq Containers

\* No cgroup is allowlisted without a live aggregator: the aggregator is there
\* before AllowCgroup (adopt) and until after DenyCgroup (StopContainer,
\* flushAll), so that no event is counted as loss for want of a destination.
\* After SIGTERM it may: adopt does not look whether flushAll has taken the
\* aggregator before it calls AllowCgroup.
AllowedHasAggregator == ~sig => allowed \subseteq tracked

\* The same with SIGTERM: flushall_deny_test.go:34 pins that no cgroup may
\* remain allowlisted without a live aggregator.  It does not hold when flushAll
\* comes between onContainerStart and AllowCgroup (nri.go:247) of a container.
NoneAllowedAlone == allowed \subseteq tracked

\* No event of a container whose window is open is dropped as untracked: only
\* one that was still on its way when the stop hook, or flushAll, took the
\* aggregator.
UntrackedOnlyAfterStop ==
    \A c \in Containers :
        missed[c]["untracked_cgroup"] # {} => hook[c] \in {"dropped", "flushed"} \/ sig

\* event_loss never understates: for every stage a profile reports, the count
\* covers each of the container's own events dropped there so far, whatever was
\* unreadable when the baseline was taken (a zero is a claim).
LossNeverUnderstated ==
    \A m \in profiles : \A s \in DOMAIN m.byStage :
        Cardinality(m.lost[s]) <= m.byStage[s]

\* A profile with every stage read and nothing lost, tolerated stages included.
Clean(m) == DOMAIN m.byStage = Stages /\ \A s \in Stages : m.byStage[s] = 0

\* process_start_observed in a clean profile means what it says: the container's
\* entrypoint is among the files, not just some later exec.
StartMarkerSound ==
    \A m \in profiles :
        m.startObserved /\ Clean(m) => Entrypoint \in m.files

\* What a complete profile holds.
Observable(c) == {p \in accessed[c] : p[1] \notin Denied}

\* A clean terminal profile of a start-anchored container holds every file the
\* container accessed (eventloss.go: "not observed => not loaded").
CleanTerminalIsComplete ==
    \A m \in profiles :
        m.terminal /\ Clean(m) /\ m.ctr \notin Synced
            => Observable(m.ctr) \subseteq m.files

\* The same when nothing was in flight as the stop hook took the aggregator:
\* the only events a clean start-anchored profile lacks are those.
DrainedCleanIsComplete ==
    \A m \in profiles :
        m.terminal /\ Clean(m) /\ m.ctr \in drained \ Synced
            => Observable(m.ctr) \subseteq m.files

\* Every event the router drops, other than by the deny list, is counted.
EveryDropCounted == \A c \in Containers : missed[c]["uncounted"] = {}

\* A path in a profile is one the container accessed.
RecordedWasAccessed == \A c \in Containers : files[c] \subseteq accessed[c]
=============================================================================
