----------------------------- MODULE ProfilePost -----------------------------
(***************************************************************************)
(* The life of a container's profile inside the sensor's cgroupRouter      *)
(* (cmd/sensor/main.go, cmd/sensor/snapshot.go): it is registered when the *)
(* NRI start hook fires, posted in interim snapshots while the container   *)
(* runs, and flushed once, by the NRI stop hook or by the SIGTERM path.    *)
(*                                                                         *)
(* The goroutines are the NRI hooks (one per container), the start-time    *)
(* workload resolution (one per container), the interim snapshot loop, and *)
(* the signal goroutine.  A step is what a goroutine does between two      *)
(* points where another one can get in: a lock it has to wait for, a call  *)
(* to the Kubernetes API or the controller, a channel, the file system.    *)
(***************************************************************************)
EXTENDS Naturals, Sequences, FiniteSets

CONSTANTS
    Containers,        \* container IDs, each with its own cgroup
    Files,             \* paths a container's processes may access
    Workloads,         \* names of tracked owners (Deployment / StatefulSet)
    NoOwner,           \* the empty deployment name of a bare pod
    Pods,              \* containers with pod metadata (a namespace)
    UnownedNS,         \* those in --post-unowned-pods-namespace
    ControllerURL,     \* --controller-url is set (then a resolver exists)
    ProfileDir,        \* --profile-dir is set
    SnapshotInterval,  \* --snapshot-interval is positive
    MaxPosts,          \* bound: interim snapshots stop when this many are sent
    Signals,           \* SIGINT/SIGTERM may arrive
    Crashes,           \* the sensor may be killed (SIGKILL, OOM, node loss)
    LateDelivery,      \* a request its client gave up on may still arrive
    SlowResolve        \* the 15 s wait for a start-time resolve may run out

ASSUME ConfigAssumption ==
    /\ Pods \subseteq Containers
    /\ UnownedNS \subseteq Pods
    /\ {ControllerURL, ProfileDir, SnapshotInterval} \subseteq BOOLEAN
    /\ {Signals, Crashes, LateDelivery, SlowResolve} \subseteq BOOLEAN
    /\ SnapshotInterval => ControllerURL
    /\ NoOwner \notin Workloads
    /\ MaxPosts \in Nat

VARIABLES
    hook,       \* the NRI lifecycle of each container, as its hooks ran
    tracked,    \* keys of the router maps aggs, targets, cgroupFSPath
    held,       \* the container whose aggregator the consumer has in hand
    recorded,   \* files in each container's aggregator
    resolve,    \* the start-time resolution and its resolveDone channel
    owner,      \* target.deployment
    postMu,     \* holder of target.postMu
    closed,     \* target.closed
    flush,      \* where each flusher stands in flush() for each container
    final,      \* the snapshot flush() took
    addressee,  \* the deployment flush() decided to post under
    disk,       \* <profile-dir>/<container>/files.json
    loop,       \* the interim snapshot loop
    due,        \* containers the running snapshotPass has yet to post
    cur,        \* the one postInterim is working on
    cancelled,  \* the loop's context
    sig,        \* the signal goroutine
    proc,       \* the process
    sent,       \* POST requests issued for each container, in order
    wire,       \* indices in sent of requests not yet at the controller
    received    \* indices in sent, in the order the controller got them

trackVars == <<hook, tracked, held, recorded>>
ownerVars == <<resolve, owner>>
flushVars == <<flush, final, addressee, disk>>
loopVars  == <<loop, due, cur, cancelled>>
netVars   == <<sent, wire, received>>
vars == <<trackVars, ownerVars, postMu, closed, flushVars, loopVars, sig, proc,
          netVars>>

Flushers == {"stop", "shutdown"}       \* callers of flush()
\* What the owner walk answers: a Deployment (by way of its ReplicaSet), a
\* StatefulSet, or no name for any other pod.
Owners == Workloads \cup {NoOwner}
\* A request: the snapshot, and the workload of the URL it is posted to.
Addressees == Workloads \cup Containers \cup {NoOwner}
Kinds == {"interim", "truncated", "terminal"}
Message == [kind : Kinds, files : SUBSET Files, to : Addressees]

\* Inside flush(), holding postMu / returned from it.
InFlush  == {"create", "encode", "settle", "lookup", "post", "reply"}
Finished == {"local", "lost", "skipped", "posted", "postFailed"}
FlushPCs == {"idle", "lock"} \cup InFlush \cup Finished

Up == proc = "up"

-----------------------------------------------------------------------------
Init ==
    /\ hook = [c \in Containers |-> "none"]
    /\ tracked = {}
    /\ held = {}
    /\ recorded = [c \in Containers |-> {}]
    /\ resolve = [c \in Containers |-> "none"]
    /\ owner = [c \in Containers |-> NoOwner]
    /\ postMu = [c \in Containers |-> "free"]
    /\ closed = [c \in Containers |-> FALSE]
    /\ flush = [w \in Flushers |-> [c \in Containers |-> "idle"]]
    /\ final = [c \in Containers |-> {}]
    /\ addressee = [c \in Containers |-> NoOwner]
    /\ disk = [c \in Containers |-> "absent"]
    /\ loop = IF SnapshotInterval THEN "waiting" ELSE "exited"
    /\ due = {}
    /\ cur = {}
    /\ cancelled = FALSE
    /\ sig = "none"
    /\ proc = "up"
    /\ sent = [c \in Containers |-> <<>>]
    /\ wire = [c \in Containers |-> {}]
    /\ received = [c \in Containers |-> <<>>]

-----------------------------------------------------------------------------
(***************************************************************************)
(* NRI hooks and the events of a tracked container.                        *)
(***************************************************************************)

\* onContainerStart up to r.mu.Unlock(): the maps gain the container.
Register(c) ==
    /\ Up
    /\ hook[c] = "none"
    /\ hook' = [hook EXCEPT ![c] = "registered"]
    /\ tracked' = tracked \cup {c}
    /\ UNCHANGED <<held, recorded, ownerVars, postMu, closed, flushVars, loopVars,
                   sig, proc, netVars>>

\* The rest of onContainerStart, outside the lock: resolveDone is made and the
\* resolution launched only now, when other goroutines can see the target.
LaunchResolve(c) ==
    /\ Up
    /\ hook[c] = "registered"
    /\ hook' = [hook EXCEPT ![c] = "running"]
    /\ resolve' = [resolve EXCEPT ![c] =
                     IF ControllerURL /\ c \in Pods THEN "running" ELSE "none"]
    /\ UNCHANGED <<tracked, held, recorded, owner, postMu, closed, flushVars,
                   loopVars, sig, proc, netVars>>

\* The API answers: the owner, or no owner for a bare pod, is cached.
ResolveSucceeds(c, dep) ==
    /\ Up
    /\ resolve[c] = "running"
    /\ resolve' = [resolve EXCEPT ![c] = "resolved"]
    /\ owner' = [owner EXCEPT ![c] = dep]
    /\ UNCHANGED <<trackVars, postMu, closed, flushVars, loopVars, sig, proc,
                   netVars>>

\* The API errs or the 10 s context expires: the target stays unresolved.
ResolveFails(c) ==
    /\ Up
    /\ resolve[c] = "running"
    /\ resolve' = [resolve EXCEPT ![c] = "failed"]
    /\ UNCHANGED <<trackVars, owner, postMu, closed, flushVars, loopVars, sig,
                   proc, netVars>>

\* The consumer looks an event's aggregator up (aggFor) ...
AggFor(c) ==
    /\ Up
    /\ held = {}
    /\ c \in tracked
    /\ held' = {c}
    /\ UNCHANGED <<hook, tracked, recorded, ownerVars, postMu, closed, flushVars,
                   loopVars, sig, proc, netVars>>

\* ... and records into it, which by then may have left the maps.
RecordFile(c, f) ==
    /\ Up
    /\ c \in held
    /\ recorded' = [recorded EXCEPT ![c] = @ \cup {f}]
    /\ held' = {}
    /\ UNCHANGED <<hook, tracked, ownerVars, postMu, closed, flushVars,
                   loopVars, sig, proc, netVars>>

\* Mutant: the stop hook forgets to take the container out of the maps.
OnContainerStopKeepsEntry(c) ==
    /\ Up
    /\ hook[c] = "running"
    /\ c \in tracked
    /\ hook' = [hook EXCEPT ![c] = "stopping"]
    /\ flush' = [flush EXCEPT !["stop"][c] = "lock"]
    /\ UNCHANGED <<tracked, held, recorded, ownerVars, postMu, closed, final,
                   addressee, disk, loopVars, sig, proc, netVars>>

\* onContainerStop of a container still in the maps: claim it by deleting it.
OnContainerStop(c) ==
    /\ Up
    /\ hook[c] = "running"
    /\ c \in tracked
    /\ hook' = [hook EXCEPT ![c] = "stopping"]
    /\ tracked' = tracked \ {c}
    /\ flush' = [flush EXCEPT !["stop"][c] = "lock"]
    /\ UNCHANGED <<held, recorded, ownerVars, postMu, closed, final, addressee, disk,
                   loopVars, sig, proc, netVars>>

\* onContainerStop of a container flushAll already claimed: nothing to do.
OnContainerStopUnknown(c) ==
    /\ Up
    /\ hook[c] = "running"
    /\ c \notin tracked
    /\ hook' = [hook EXCEPT ![c] = "stopped"]
    /\ UNCHANGED <<tracked, held, recorded, ownerVars, postMu, closed, flushVars,
                   loopVars, sig, proc, netVars>>

-----------------------------------------------------------------------------
(***************************************************************************)
(* flush(agg, target, terminal), by the stop hook (terminal) or, serially  *)
(* over what it claimed, by flushAll (not terminal).                       *)
(***************************************************************************)

\* Where flush() goes once the profile is on disk.
AfterWrite(c) == IF ControllerURL /\ c \in Pods THEN "settle" ELSE "local"

\* flush() returns: postMu is released, a stop hook answers containerd.
Return(w, c, result) ==
    /\ flush' = [flush EXCEPT ![w][c] = result]
    /\ postMu' = [postMu EXCEPT ![c] = "free"]
    /\ hook' = IF w = "stop" THEN [hook EXCEPT ![c] = "stopped"] ELSE hook

\* flushAll flushes one container at a time.
MyTurn(w) == w = "stop" \/ \A d \in Containers : flush[w][d] \notin InFlush

\* Mutant: flush() does not wait for an interim POST in flight.
FlushBeginUnserialised(w, c) ==
    /\ Up
    /\ flush[w][c] = "lock"
    /\ MyTurn(w)
    /\ closed' = [closed EXCEPT ![c] = TRUE]
    /\ final' = [final EXCEPT ![c] = recorded[c]]
    /\ flush' = [flush EXCEPT ![w][c] = IF ProfileDir THEN "create" ELSE AfterWrite(c)]
    /\ postMu' = [postMu EXCEPT ![c] = w]
    /\ UNCHANGED <<trackVars, ownerVars, addressee, disk, loopVars, sig, proc,
                   netVars>>

\* postMu.Lock(); closed = true; Snapshot or SnapshotFinal.
FlushBegin(w, c) ==
    /\ Up
    /\ flush[w][c] = "lock"
    /\ MyTurn(w)
    /\ postMu[c] = "free"
    /\ closed' = [closed EXCEPT ![c] = TRUE]
    /\ final' = [final EXCEPT ![c] = recorded[c]]
    /\ \/ /\ ~ProfileDir
          /\ AfterWrite(c) = "local"
          /\ Return(w, c, "local")
       \/ /\ ProfileDir \/ AfterWrite(c) # "local"
          /\ flush' = [flush EXCEPT ![w][c] =
                         IF ProfileDir THEN "create" ELSE AfterWrite(c)]
          /\ postMu' = [postMu EXCEPT ![c] = w]
          /\ UNCHANGED hook
    /\ UNCHANGED <<tracked, held, recorded, ownerVars, addressee, disk, loopVars, sig,
                   proc, netVars>>

\* After the file is written, or could not be: go on to the POST or return.
LeaveWrite(w, c) ==
    IF AfterWrite(c) = "local"
    THEN Return(w, c, "local")
    ELSE /\ flush' = [flush EXCEPT ![w][c] = "settle"]
         /\ UNCHANGED <<postMu, hook>>

\* MkdirAll and os.Create: an existing profile is truncated here.
FlushCreate(w, c) ==
    /\ Up
    /\ flush[w][c] = "create"
    /\ disk' = [disk EXCEPT ![c] = "torn"]
    /\ flush' = [flush EXCEPT ![w][c] = "encode"]
    /\ UNCHANGED <<trackVars, ownerVars, postMu, closed, final, addressee,
                   loopVars, sig, proc, netVars>>

\* MkdirAll or os.Create fails: logged, and flush() goes on without a file.
FlushCreateFails(w, c) ==
    /\ Up
    /\ flush[w][c] = "create"
    /\ LeaveWrite(w, c)
    /\ UNCHANGED <<tracked, held, recorded, ownerVars, closed, final, addressee, disk,
                   loopVars, sig, proc, netVars>>

\* Encode writes the snapshot, or fails half way through.
FlushEncode(w, c) ==
    /\ Up
    /\ flush[w][c] = "encode"
    /\ \/ disk' = [disk EXCEPT ![c] = "whole"]
       \/ UNCHANGED disk
    /\ LeaveWrite(w, c)
    /\ UNCHANGED <<tracked, held, recorded, ownerVars, closed, final, addressee,
                   loopVars, sig, proc, netVars>>

\* What flush() does with the owner it knows: post under it, under the pod's
\* own name in the one excepted namespace, or not at all.
Address(w, c, dep) ==
    \/ /\ dep # NoOwner \/ c \in UnownedNS
       /\ addressee' = [addressee EXCEPT ![c] = IF dep # NoOwner THEN dep ELSE c]
       /\ flush' = [flush EXCEPT ![w][c] = "post"]
       /\ UNCHANGED <<postMu, hook>>
    \/ /\ dep = NoOwner /\ c \notin UnownedNS
       /\ Return(w, c, "skipped")
       /\ UNCHANGED addressee

\* Mutant: flush() goes on whether or not the resolution has settled.
SettledAtOnce(c) == TRUE

\* The select on resolveDone falls through: nil, closed, or 15 s elapsed.
Settled(c) == resolve[c] # "running" \/ SlowResolve

\* Mutant: flush() looks the owner up again although it is cached.
FlushSettleUncached(w, c) ==
    /\ Up
    /\ flush[w][c] = "settle"
    /\ Settled(c)
    /\ flush' = [flush EXCEPT ![w][c] = "lookup"]
    /\ UNCHANGED <<trackVars, ownerVars, postMu, closed, final, addressee, disk,
                   loopVars, sig, proc, netVars>>

\* Wait for the start-time resolve, then read what it cached.
FlushSettle(w, c) ==
    /\ Up
    /\ flush[w][c] = "settle"
    /\ Settled(c)
    /\ \/ resolve[c] = "resolved" /\ Address(w, c, owner[c])
       \/ /\ resolve[c] # "resolved"
          /\ flush' = [flush EXCEPT ![w][c] = "lookup"]
          /\ UNCHANGED <<postMu, hook, addressee>>
    /\ UNCHANGED <<tracked, held, recorded, ownerVars, closed, final, disk, loopVars,
                   sig, proc, netVars>>

\* The best-effort live lookup answers ...
FlushLookup(w, c, dep) ==
    /\ Up
    /\ flush[w][c] = "lookup"
    /\ Address(w, c, dep)
    /\ UNCHANGED <<tracked, held, recorded, ownerVars, closed, final, disk, loopVars,
                   sig, proc, netVars>>

\* ... or fails, the pod or its ReplicaSet being gone: the POST is given up.
FlushLookupFails(w, c) ==
    /\ Up
    /\ flush[w][c] = "lookup"
    /\ Return(w, c, "lost")
    /\ UNCHANGED <<tracked, held, recorded, ownerVars, closed, final, addressee, disk,
                   loopVars, sig, proc, netVars>>

\* A request leaves for the controller.
Send(c, m) ==
    /\ sent' = [sent EXCEPT ![c] = Append(@, m)]
    /\ wire' = [wire EXCEPT ![c] = @ \cup {Len(sent[c]) + 1}]
    /\ UNCHANGED received

FlushKind(w) == IF w = "stop" THEN "terminal" ELSE "truncated"

\* Mutant: the snapshot is taken again, with the image reference in it.
FlushPostRetaken(w, c) ==
    /\ Up
    /\ flush[w][c] = "post"
    /\ flush' = [flush EXCEPT ![w][c] = "reply"]
    /\ Send(c, [kind |-> FlushKind(w), files |-> recorded[c], to |-> addressee[c]])
    /\ UNCHANGED <<trackVars, ownerVars, postMu, closed, final, addressee, disk,
                   loopVars, sig, proc>>

\* postSnapshot issues the final POST.
FlushPost(w, c) ==
    /\ Up
    /\ flush[w][c] = "post"
    /\ flush' = [flush EXCEPT ![w][c] = "reply"]
    /\ Send(c, [kind |-> FlushKind(w), files |-> final[c], to |-> addressee[c]])
    /\ UNCHANGED <<trackVars, ownerVars, postMu, closed, final, addressee, disk,
                   loopVars, sig, proc>>

\* The client stops waiting for the last request of c: it was answered, or the
\* connection failed, or its 10 s ran out with the request still on its way.
EndPost(c) ==
    /\ \/ wire' = [wire EXCEPT ![c] = @ \ {Len(sent[c])}]
       \/ LateDelivery /\ UNCHANGED wire
    /\ UNCHANGED <<sent, received>>

\* PostProfile returns: nil only if the controller got the request.
FlushReply(w, c) ==
    /\ Up
    /\ flush[w][c] = "reply"
    /\ EndPost(c)
    /\ \/ Len(sent[c]) \notin wire[c] /\ Return(w, c, "posted")
       \/ Return(w, c, "postFailed")
    /\ UNCHANGED <<tracked, held, recorded, ownerVars, closed, final, addressee, disk,
                   loopVars, sig, proc>>

FlushStep(w, c) ==
    \/ FlushBegin(w, c)
    \/ FlushCreate(w, c)
    \/ FlushCreateFails(w, c)
    \/ FlushEncode(w, c)
    \/ FlushSettle(w, c)
    \/ \E dep \in Owners : FlushLookup(w, c, dep)
    \/ FlushLookupFails(w, c)
    \/ FlushPost(w, c)
    \/ FlushReply(w, c)

-----------------------------------------------------------------------------
(***************************************************************************)
(* The interim snapshot loop (snapshot.go).                                *)
(***************************************************************************)

\* Containers a pass may post: resolved to an owner, with a namespace.
Eligible == {c \in tracked : /\ resolve[c] = "resolved"
                             /\ owner[c] # NoOwner
                             /\ c \in Pods
                             /\ Len(sent[c]) < MaxPosts}

\* A tick: collect the containers whose nextSnapshotAt has come.  The select
\* may pick the tick even after the context is cancelled.
SnapshotPass(d) ==
    /\ Up
    /\ loop = "waiting"
    /\ d # {}
    /\ loop' = "passing"
    /\ due' = d
    /\ UNCHANGED <<trackVars, ownerVars, postMu, closed, flushVars, cur,
                   cancelled, sig, proc, netVars>>

\* The pass goes on to its next container, unless the context is cancelled.
SnapshotNext(c) ==
    /\ Up
    /\ loop = "passing"
    /\ c \in due
    /\ ~cancelled
    /\ loop' = "locking"
    /\ cur' = {c}
    /\ due' = due \ {c}
    /\ UNCHANGED <<trackVars, ownerVars, postMu, closed, flushVars, cancelled,
                   sig, proc, netVars>>

\* The pass ends: nothing left, or the context is cancelled.
SnapshotPassEnds ==
    /\ Up
    /\ loop = "passing"
    /\ due = {} \/ cancelled
    /\ loop' = "waiting"
    /\ due' = {}
    /\ UNCHANGED <<trackVars, ownerVars, postMu, closed, flushVars, cur,
                   cancelled, sig, proc, netVars>>

\* postInterim returns to the pass.
NextInPass == loop' = "passing" /\ cur' = {}

\* postInterim gets postMu and finds the target flushed, or, the context being
\* cancelled, cannot issue the request.
PostInterimRefused(c) ==
    /\ Up
    /\ loop = "locking"
    /\ c \in cur
    /\ postMu[c] = "free"
    /\ closed[c] \/ cancelled
    /\ NextInPass
    /\ UNCHANGED <<trackVars, ownerVars, postMu, closed, flushVars, due,
                   cancelled, sig, proc, netVars>>

\* Mutant: postInterim does not look at closed.
PostInterimUnchecked(c) ==
    /\ Up
    /\ loop = "locking"
    /\ c \in cur
    /\ postMu[c] = "free"
    /\ ~cancelled
    /\ postMu' = [postMu EXCEPT ![c] = "loop"]
    /\ loop' = "posting"
    /\ Send(c, [kind |-> "interim", files |-> recorded[c], to |-> owner[c]])
    /\ UNCHANGED <<trackVars, ownerVars, closed, flushVars, due, cur, cancelled,
                   sig, proc>>

\* postInterim gets postMu, snapshots and posts.  The owner is the one the pass
\* collected; owner[c] is written once, so it is still that one.
PostInterim(c) ==
    /\ Up
    /\ loop = "locking"
    /\ c \in cur
    /\ postMu[c] = "free"
    /\ ~closed[c]
    /\ ~cancelled
    /\ postMu' = [postMu EXCEPT ![c] = "loop"]
    /\ loop' = "posting"
    /\ Send(c, [kind |-> "interim", files |-> recorded[c], to |-> owner[c]])
    /\ UNCHANGED <<trackVars, ownerVars, closed, flushVars, due, cur, cancelled,
                   sig, proc>>

\* Mutant: postInterim returns from a failed POST without unlocking postMu.
InterimReplyKeepsLock(c) ==
    /\ Up
    /\ loop = "posting"
    /\ c \in cur
    /\ EndPost(c)
    /\ postMu' = [postMu EXCEPT ![c] = IF Len(sent[c]) \in wire[c] THEN @ ELSE "free"]
    /\ NextInPass
    /\ UNCHANGED <<trackVars, ownerVars, closed, flushVars, due, cancelled, sig,
                   proc>>

\* The interim POST returns, by an answer, an error, its timeout or the
\* cancellation; postMu is released.
InterimReply(c) ==
    /\ Up
    /\ loop = "posting"
    /\ c \in cur
    /\ EndPost(c)
    /\ postMu' = [postMu EXCEPT ![c] = "free"]
    /\ NextInPass
    /\ UNCHANGED <<trackVars, ownerVars, closed, flushVars, due, cancelled, sig,
                   proc>>

\* runSnapshots sees ctx.Done() and the goroutine closes its done channel.
LoopExit ==
    /\ Up
    /\ loop = "waiting"
    /\ cancelled
    /\ loop' = "exited"
    /\ UNCHANGED <<trackVars, ownerVars, postMu, closed, flushVars, due, cur,
                   cancelled, sig, proc, netVars>>

-----------------------------------------------------------------------------
(***************************************************************************)
(* The signal goroutine of main, the process, and the network.             *)
(***************************************************************************)

\* Mutant: stopSnapshots waits for the loop without cancelling it.
SignalWithoutCancel ==
    /\ Up
    /\ Signals
    /\ sig = "none"
    /\ sig' = "stopping"
    /\ UNCHANGED <<trackVars, ownerVars, postMu, closed, flushVars, loopVars, proc,
                   netVars>>

\* SIGINT or SIGTERM: stopSnapshots cancels the loop's context.
Signal ==
    /\ Up
    /\ Signals
    /\ sig = "none"
    /\ sig' = "stopping"
    /\ cancelled' = TRUE
    /\ UNCHANGED <<trackVars, ownerVars, postMu, closed, flushVars, loop, due,
                   cur, proc, netVars>>

\* Mutants: flushAll does not wait for the interim loop to end; flushAll leaves
\* what it claims in the maps.
FlushAllAtOnce ==
    /\ Up
    /\ sig = "stopping"
    /\ sig' = "flushing"
    /\ flush' = [flush EXCEPT !["shutdown"] =
                   [c \in Containers |-> IF c \in tracked THEN "lock" ELSE @[c]]]
    /\ tracked' = {}
    /\ UNCHANGED <<hook, held, recorded, ownerVars, postMu, closed, final, addressee,
                   disk, loopVars, proc, netVars>>

FlushAllKeepsEntries ==
    /\ Up
    /\ sig = "stopping"
    /\ loop = "exited"
    /\ sig' = "flushing"
    /\ flush' = [flush EXCEPT !["shutdown"] =
                   [c \in Containers |-> IF c \in tracked THEN "lock" ELSE @[c]]]
    /\ UNCHANGED <<trackVars, ownerVars, postMu, closed, final, addressee, disk,
                   loopVars, proc, netVars>>

\* stopSnapshots has seen done closed; flushAll claims what is tracked.
FlushAll ==
    /\ Up
    /\ sig = "stopping"
    /\ loop = "exited"
    /\ sig' = "flushing"
    /\ flush' = [flush EXCEPT !["shutdown"] =
                   [c \in Containers |-> IF c \in tracked THEN "lock" ELSE @[c]]]
    /\ tracked' = {}
    /\ UNCHANGED <<hook, held, recorded, ownerVars, postMu, closed, final, addressee,
                   disk, loopVars, proc, netVars>>

\* flushAll has returned: p.Close() ends consumer.Run and main returns,
\* whatever the NRI hooks are doing.
Exit ==
    /\ Up
    /\ sig = "flushing"
    /\ \A c \in Containers : flush["shutdown"][c] \in {"idle"} \cup Finished
    /\ proc' = "exited"
    /\ UNCHANGED <<trackVars, ownerVars, postMu, closed, flushVars, loopVars,
                   sig, netVars>>

Crash ==
    /\ Up
    /\ Crashes
    /\ proc' = "crashed"
    /\ UNCHANGED <<trackVars, ownerVars, postMu, closed, flushVars, loopVars,
                   sig, netVars>>

\* A request reaches the controller, whatever became of the sensor.
Deliver(c, i) ==
    /\ i \in wire[c]
    /\ wire' = [wire EXCEPT ![c] = @ \ {i}]
    /\ received' = [received EXCEPT ![c] = Append(@, i)]
    /\ UNCHANGED <<trackVars, ownerVars, postMu, closed, flushVars, loopVars,
                   sig, proc, sent>>

-----------------------------------------------------------------------------
SnapshotStep ==
    \/ \E d \in SUBSET Eligible : SnapshotPass(d)
    \/ SnapshotPassEnds
    \/ LoopExit
    \/ \E c \in Containers : \/ SnapshotNext(c)
                             \/ PostInterimRefused(c)
                             \/ PostInterim(c)
                             \/ InterimReply(c)

Next ==
    \/ \E c \in Containers :
          \/ Register(c)
          \/ LaunchResolve(c)
          \/ \E dep \in Owners : ResolveSucceeds(c, dep)
          \/ ResolveFails(c)
          \/ AggFor(c)
          \/ \E f \in Files : RecordFile(c, f)
          \/ OnContainerStop(c)
          \/ OnContainerStopUnknown(c)
          \/ \E w \in Flushers : FlushStep(w, c)
          \/ \E i \in wire[c] : Deliver(c, i)
    \/ SnapshotStep
    \/ Signal
    \/ FlushAll
    \/ Exit
    \/ Crash

Spec == Init /\ [][Next]_vars

(***************************************************************************)
(* Fairness.  Every goroutine that can go on eventually does: a lock is    *)
(* granted (sync.Mutex hands itself to a waiter that starves, hence SF), a *)
(* lookup or POST ends by its 10 s context, and the runtime's random       *)
(* select cannot prefer the tick to ctx.Done() for ever (SF on LoopExit).  *)
(* Nothing is assumed of containers, files, signals, ticks or delivery.    *)
(***************************************************************************)
ResolveEnds(c) ==
    ResolveFails(c) \/ \E dep \in Owners : ResolveSucceeds(c, dep)

LoopStep ==
    \/ SnapshotPassEnds
    \/ \E c \in Containers : \/ SnapshotNext(c)
                             \/ PostInterimRefused(c)
                             \/ PostInterim(c)
                             \/ InterimReply(c)

Fairness ==
    /\ \A c \in Containers :
          /\ WF_vars(LaunchResolve(c))
          /\ WF_vars(ResolveEnds(c))
          /\ \A w \in Flushers : /\ WF_vars(FlushStep(w, c))
                                 /\ SF_vars(FlushBegin(w, c))
    /\ WF_vars(LoopStep)
    /\ SF_vars(LoopExit)
    /\ WF_vars(FlushAll)
    /\ WF_vars(Exit)

FairSpec == Spec /\ Fairness

-----------------------------------------------------------------------------
TypeOK ==
    /\ hook \in [Containers ->
                   {"none", "registered", "running", "stopping", "stopped"}]
    /\ tracked \subseteq Containers
    /\ held \subseteq Containers
    /\ recorded \in [Containers -> SUBSET Files]
    /\ resolve \in [Containers -> {"none", "running", "resolved", "failed"}]
    /\ owner \in [Containers -> Owners]
    /\ postMu \in [Containers -> {"free", "loop"} \cup Flushers]
    /\ closed \in [Containers -> BOOLEAN]
    /\ flush \in [Flushers -> [Containers -> FlushPCs]]
    /\ final \in [Containers -> SUBSET Files]
    /\ addressee \in [Containers -> Addressees]
    /\ disk \in [Containers -> {"absent", "torn", "whole"}]
    /\ loop \in {"waiting", "passing", "locking", "posting", "exited"}
    /\ due \subseteq Containers
    /\ cur \subseteq Containers
    /\ cancelled \in BOOLEAN
    /\ sig \in {"none", "stopping", "flushing"}
    /\ proc \in {"up", "exited", "crashed"}
    /\ sent \in [Containers -> Seq(Message)]
    /\ wire \in [Containers -> SUBSET Nat]
    /\ received \in [Containers -> Seq(Nat)]

-----------------------------------------------------------------------------
(***************************************************************************)
(* What the router promises: ProfileWindow, in which a container's window  *)
(* is open from its registration until a flush closes its target.          *)
(***************************************************************************)
WindowOf(c) ==
    IF closed[c] THEN "closed" ELSE IF hook[c] = "none" THEN "none" ELSE "open"

Window == INSTANCE ProfileWindow
            WITH Addresses <- Addressees,
                 window <- [c \in Containers |-> WindowOf(c)],
                 seen <- recorded,
                 frozen <- final,
                 published <- sent

\* The router implements ProfileWindow: every interleaving of the hooks, the
\* interim loop, the late resolution and the SIGTERM path looks to the
\* controller like one window per container, closed once.
ImplementsWindow == Window!WSpec

\* The POSTs a container's goroutines issue form one growing record that ends
\* with its final snapshot: nothing follows a final POST, whichever of the
\* interim loop, the stop hook and the SIGTERM path issued them, and no snapshot
\* holds less than the one before it (postTarget.postMu and closed).
SentInOrder ==
    \A c \in Containers : \A i \in 1 .. Len(sent[c]) - 1 :
        /\ sent[c][i].kind = "interim"
        /\ sent[c][i].files \subseteq sent[c][i + 1].files

\* All POSTs of one container go to one workload, although the interim loop
\* and flush() decide on it separately and flush() may ask the API again.
OneAddressee ==
    \A c \in Containers : \A i \in 1 .. Len(sent[c]) - 1 :
        sent[c][i].to = sent[c][i + 1].to

\* A stop hook and flushAll racing for a container never both flush it, and one
\* of them has claimed it by the time its stop hook returns.
FlushedExactlyOnce ==
    \A c \in Containers :
        LET claims == {w \in Flushers : flush[w][c] # "idle"}
        IN  /\ \A v, w \in claims : v = w
            /\ hook[c] = "stopped" => claims # {}

\* OSS-5: a stopping container is never given up for want of an owner that its
\* start-time resolution has found, however soon after its start it stops.
ResolvedOwnerIsUsed ==
    \A c \in Containers : flush["stop"][c] = "lost" => resolve[c] # "resolved"

\* The controller gets a container's snapshots in the order they were taken,
\* so that the final one is the last word (postTarget.postMu).
ReceivedInOrder ==
    \A c \in Containers : \A i \in 1 .. Len(received[c]) - 1 :
        received[c][i] < received[c][i + 1]

\* Once flushAll has claimed the tracked containers no interim POST is issued,
\* not even for a container that starts afterwards, and none is still under way
\* (startSnapshots: its stop function waits for the loop to exit).
NoInterimAfterFlushAll ==
    [][sig' = "flushing" =>
         /\ loop' # "posting"
         /\ \A c \in Containers :
               sent'[c] # sent[c] => sent'[c][Len(sent'[c])].kind # "interim"]_vars

\* A graceful exit cuts no flush short: the generation of a container that was
\* claimed, by flushAll or by its stop hook, has been dealt with (main, OSS-5
\* secondary loss).
GracefulExitFlushesAll ==
    proc = "exited" =>
        \A c \in Containers : \A w \in Flushers : flush[w][c] \in {"idle"} \cup Finished

\* flush() never looks an owner up live while the start-time resolution of the
\* same container is still in flight.
NoLookupWhileResolving ==
    \A c \in Containers : \A w \in Flushers :
        ~(flush[w][c] = "lookup" /\ resolve[c] = "running")

-----------------------------------------------------------------------------
(***************************************************************************)
(* The inductive invariant behind SentInOrder, OneAddressee,               *)
(* FlushedExactlyOnce and the refinement of ProfileWindow.                 *)
(***************************************************************************)

\* Who has claimed a container agrees with its hook and its target.
ClaimOK(c) ==
    /\ closed[c] <=> \E w \in Flushers : flush[w][c] \in InFlush \cup Finished
    /\ \A v, w \in Flushers : v = w \/ flush[v][c] = "idle" \/ flush[w][c] = "idle"
    /\ c \in tracked => /\ hook[c] \in {"registered", "running"}
                        /\ \A w \in Flushers : flush[w][c] = "idle"
    /\ hook[c] = "none" => \A w \in Flushers : flush[w][c] = "idle"
    /\ hook[c] \in {"none", "registered"} => resolve[c] = "none"
    /\ hook[c] # "none" /\ c \notin tracked
         => \E w \in Flushers : flush[w][c] # "idle"

Claims == \A c \in Containers : ClaimOK(c)

\* What a goroutine has in hand was registered, and, for the interim loop,
\* resolved to an owner.
Collected ==
    /\ \A c \in held : hook[c] # "none"
    /\ \A c \in due \cup cur :
          hook[c] # "none" /\ resolve[c] = "resolved" /\ owner[c] # NoOwner

\* What has been sent for a container agrees with where its flush stands.
SentOK(c, i) ==
    /\ sent[c][i].kind = "interim"
         => /\ resolve[c] = "resolved"
            /\ owner[c] # NoOwner
            /\ sent[c][i].to = owner[c]
    /\ sent[c][i].kind # "interim"
         => /\ i = Len(sent[c])
            /\ \E w \in Flushers : flush[w][c] \in {"reply", "posted", "postFailed"}
    /\ sent[c][i].files \subseteq IF closed[c] THEN final[c] ELSE recorded[c]
    /\ \A w \in Flushers : /\ flush[w][c] # "lookup"
                           /\ flush[w][c] = "post" => sent[c][i].to = addressee[c]
    /\ \A j \in 1 .. i : /\ sent[c][j].files \subseteq sent[c][i].files
                         /\ sent[c][j].to = sent[c][i].to

Posts == \A c \in Containers : \A i \in 1 .. Len(sent[c]) : SentOK(c, i)

PostInv == TypeOK /\ Claims /\ Collected /\ Posts

-----------------------------------------------------------------------------
\* A stop hook, which runs inside containerd's StopContainer, always returns
\* while the sensor lives: flush() cannot wait for ever on postMu, on
\* resolveDone, on the API or on the controller.
StopHookReturns ==
    \A c \in Containers : hook[c] = "stopping" ~> hook[c] = "stopped" \/ ~Up

\* A signal ends the process: stopSnapshots, waiting for a loop that may itself
\* wait for a postMu held by a flush, and flushAll both return.
SignalEndsProcess == sig = "stopping" ~> ~Up
=============================================================================
