--------------------------- MODULE EventPathProofs ---------------------------
(***************************************************************************)
(* Proofs about EventPath, for every set of containers and paths, every    *)
(* size of the ring buffer and of the allowlist, with and without signals, *)
(* faults and relative opens.                                              *)
(***************************************************************************)
EXTENDS EventPath, FiniteSetTheorems, TLAPS

Fates  == Stages \cup {"uncounted"}
InHand == [event : Event, at : {"handle", "path", "record"}]

\* The consumer is one goroutine: it has one event in hand at most.
TypeInv == TypeOK /\ (hand = {} \/ \E h \in InHand : hand = {h})

\* The hooks of a container, its key in aggs and its entry in the allowlist.
\* Its aggregator is there from the start hook until the stop hook, unless
\* flushAll takes it; its cgroup is allowed only in between; and only then do
\* events of it come into being.
WindowInv ==
    \A c \in Containers :
        /\ ~sig /\ hook[c] \in {"registered", "running", "denied"} => c \in tracked
        /\ c \in tracked => hook[c] \in {"registered", "running", "denied"}
        /\ c \in allowed => hook[c] = "running"
        /\ hook[c] \in {"none", "registered"} => NothingPending(c)

\* Each path of a container that was dropped at a stage has moved its counter
\* since the container's baseline.
LossInv ==
    \A c \in Containers : \A s \in Stages :
        /\ IsFiniteSet(missed[c][s])
        /\ Cardinality(missed[c][s]) + baseline[c][s] <= counters[s]
        /\ hook[c] = "none" => missed[c][s] = {}

\* c's entrypoint is in the profile, or its loss was counted ...
EntrySafe(c) == Entrypoint \in files[c] \/ \E s \in Stages : Entrypoint \in missed[c][s]
\* ... or it came too late, and so will every later event.
EntrySettled(c) == EntrySafe(c) \/ (c \notin tracked /\ hook[c] # "none")

EntryInHand(c) == \E h \in hand : h.event.ctr = c /\ h.event.path = Entrypoint
EntryBefore(c, i) ==
    \E j \in 1 .. Len(ring) : j < i /\ ring[j].ctr = c /\ ring[j].path = Entrypoint
EntryAhead(c, i) == EntrySettled(c) \/ EntryInHand(c) \/ EntryBefore(c, i)

EntryOnRing(c) ==
    \A i \in 1 .. Len(ring) :
        ring[i].ctr = c => IF ring[i].path = Entrypoint THEN ~ring[i].rel
                                                        ELSE EntryAhead(c, i)
EntryOnHand(c) ==
    \A h \in hand :
        h.event.ctr = c =>
          /\ h.event.path # Entrypoint =>
               IF h.at = "record" THEN EntrySafe(c) ELSE EntrySettled(c)
          /\ h.event.path = Entrypoint /\ h.at # "record" => ~h.event.rel

\* The entrypoint of a container whose start was observed is the first of its
\* events, and stays ahead of the others all the way into the aggregator.
EntryInv ==
    \A c \in Containers \ Synced :
        /\ hook[c] \in {"none", "registered"} => accessed[c] = {}
        /\ c \in allowed /\ accessed[c] # {} => EntryAhead(c, Len(ring) + 1)
        /\ EntryOnRing(c)
        /\ EntryOnHand(c)
        /\ c \in execSeen => EntrySafe(c)

\* AllowCgroup of some container may find the map full.
MapTooSmall == ~(IsFiniteSet(Containers) /\ Cardinality(Containers) <= MapEntries)

\* c's process is not watched, and none of its events has got anywhere.
Silent(c) == c \notin allowed /\ c \notin execSeen /\ NothingPending(c)

\* A running container with an aggregator is watched, unless the map was full
\* when its turn came; then nothing of it is ever recorded.
WatchedInv ==
    \A c \in Containers :
        /\ hook[c] \in {"none", "registered"} => c \notin execSeen
        /\ c \in tracked \ allowed /\ hook[c] = "running" => MapTooSmall /\ Silent(c)

OnItsWay(c, p) ==
    \/ \E i \in 1 .. Len(ring) : ring[i].ctr = c /\ ring[i].path = p
    \/ \E h \in hand : h.event.ctr = c /\ h.event.path = p

\* c's aggregator was taken by flushAll, or had events of c on their way to it
\* when the stop hook took it, or is flushed: no complete profile of c can follow.
LeftBehind(c) ==
    \/ hook[c] \in {"registered", "running", "denied"} /\ c \notin tracked
    \/ hook[c] = "dropped" /\ c \notin drained
    \/ hook[c] = "flushed"

Accounted(c, p) ==
    \/ p \in files[c]
    \/ \E s \in Stages : p \in missed[c][s]
    \/ OnItsWay(c, p)
    \/ LeftBehind(c)

\* Every file a container accesses is in the profile, counted as lost, or still
\* on its way, unless the container is not watched; an aggregator that left the
\* map with nothing on its way lacks nothing that was not counted.
CompleteInv ==
    /\ \A c \in Containers :
         c \in drained => hook[c] \in {"dropped", "flushed"} /\ NothingPending(c)
    /\ \A i \in 1 .. Len(ring) : ~ring[i].rel
    /\ \A h \in hand : ~h.event.rel
    /\ \A c \in Containers \ Synced : \A p \in Observable(c) :
         Accounted(c, p) \/ (MapTooSmall /\ Silent(c))

\* A clean profile with the start marker, of a container with nothing in flight
\* as its stop hook took the aggregator, holds every file it accessed.
StartedCleanIsComplete ==
    \A m \in profiles :
        m.terminal /\ Clean(m) /\ m.startObserved /\ m.ctr \in drained
            => Observable(m.ctr) \subseteq m.files

ProfilesInv ==
    \A m \in profiles :
        /\ m.ctr \in Containers
        /\ m.terminal => hook[m.ctr] = "flushed"
        /\ m.startObserved => m.ctr \notin Synced
        /\ m.terminal /\ Clean(m) /\ m.ctr \in drained \ Synced
           /\ (MapTooSmall => m.startObserved)
             => Observable(m.ctr) \subseteq m.files

-----------------------------------------------------------------------------
(***************************************************************************)
(* What the parts of the actions do.                                       *)
(***************************************************************************)

\* The ring buffer is first in, first out.
LEMMA Appended ==
    ASSUME NEW e \in Event, ring \in Seq(Event), ring' = Append(ring, e)
    PROVE  /\ ring' \in Seq(Event)
           /\ Len(ring') = Len(ring) + 1
           /\ ring'[Len(ring) + 1] = e
           /\ \A i \in 1 .. Len(ring) : ring'[i] = ring[i]
  OBVIOUS

LEMMA Consumed ==
    ASSUME ring \in Seq(Event), ring # <<>>, ring' = Tail(ring)
    PROVE  /\ ring' \in Seq(Event)
           /\ Len(ring) \in Nat \ {0}
           /\ Len(ring') = Len(ring) - 1
           /\ Head(ring) = ring[1] /\ ring[1] \in Event
           /\ \A i \in 1 .. Len(ring') : ring'[i] = ring[i + 1]
  OBVIOUS

\* A drop is noted for one container and one stage, and moves one counter.
LEMMA Counted ==
    ASSUME NEW c \in Containers, NEW stage \in Fates, NEW p \in Paths,
           counters \in [Stages -> Nat],
           missed \in [Containers -> [Fates -> SUBSET Paths]],
           Count(c, stage, p)
    PROVE  /\ counters' \in [Stages -> Nat]
           /\ missed' \in [Containers -> [Fates -> SUBSET Paths]]
           /\ missed'[c][stage] = missed[c][stage] \cup {p}
           /\ \A d \in Containers, s \in Fates :
                 d # c \/ s # stage => missed'[d][s] = missed[d][s]
           /\ \A s \in Stages :
                 counters'[s] = IF s = stage THEN counters[s] + 1 ELSE counters[s]
<1>1. /\ counters' \in [Stages -> Nat]
      /\ \A s \in Stages :
            counters'[s] = IF s = stage THEN counters[s] + 1 ELSE counters[s]
  BY DEF Count
<1>2. missed[c] \in [Fates -> SUBSET Paths]
  OBVIOUS
<1> DEFINE row == [missed[c] EXCEPT ![stage] = @ \cup {p}]
<1>3. /\ row \in [Fates -> SUBSET Paths]
      /\ row[stage] = missed[c][stage] \cup {p}
      /\ \A s \in Fates : s # stage => row[s] = missed[c][s]
  BY <1>2
<1>4. missed' = [missed EXCEPT ![c] = row]
  BY DEF Count
<1> HIDE DEF row
<1>5. /\ missed' \in [Containers -> [Fates -> SUBSET Paths]]
      /\ missed'[c] = row
      /\ \A d \in Containers : d # c => missed'[d] = missed[d]
  BY <1>3, <1>4
<1>6. QED
  BY <1>1, <1>3, <1>5

\* The path an event is recorded under is one path at most.
LEMMA ResolvedPathType ==
    ASSUME TypeOK, NEW e \in Event, NEW p \in ResolvedPath(e)
    PROVE  p \in Paths /\ p[1] \notin Denied /\ (~e.rel => p = e.path)
<1>1. e.path \in Dirs \X Names /\ cwd[e.ctr] \in Dirs
  BY DEF Event, Paths, TypeOK
<1>2. <<cwd[e.ctr], e.path[2]>> \in Dirs \X Names
  BY <1>1
<1>3. QED
  BY <1>1, <1>2 DEF ResolvedPath, Paths

-----------------------------------------------------------------------------
(***************************************************************************)
(* Types.                                                                  *)
(***************************************************************************)

LEMMA TypeInit == Init => TypeInv
<1> SUFFICES ASSUME Init PROVE TypeInv
  OBVIOUS
<1>1. Cardinality(hand) = 0
  BY FS_EmptySet DEF Init
<1>2. /\ missed \in [Containers -> [Stages \cup {"uncounted"} -> SUBSET Paths]]
      /\ baseline \in [Containers -> [Stages -> Nat]]
  BY DEF Init
<1>3. ring \in Seq(Event) /\ Len(ring) <= RingSize
  BY EventPathAssumption DEF Init
<1>4. cwd \in [Containers -> Dirs]
  BY EventPathAssumption DEF Init
<1>5. /\ hook \in [Containers -> {"none", "registered", "running", "denied",
                                 "dropped", "flushed"}]
      /\ files \in [Containers -> SUBSET Paths]
      /\ counters \in [Stages -> Nat]
      /\ accessed \in [Containers -> SUBSET Paths]
  BY DEF Init
<1>6. /\ allowed \subseteq Containers /\ tracked \subseteq Containers
      /\ execSeen \subseteq Containers /\ claimed \subseteq Containers
      /\ drained \subseteq Containers /\ sig \in BOOLEAN
      /\ hand = {}
  BY DEF Init
<1>7. Cardinality(hand) <= 1
  BY <1>1
<1>8. \A h \in hand : h.event \in Event /\ h.at \in {"handle", "path", "record"}
  BY <1>6
<1>9. TypeOK
  BY <1>2, <1>3, <1>4, <1>5, <1>6, <1>7, <1>8 DEF TypeOK
<1>10. QED
  BY <1>6, <1>9 DEF TypeInv

\* What hand may become, and what TypeInv says of it.
LEMMA HandTypes ==
    ASSUME hand' = {} \/ \E h \in InHand : hand' = {h}
    PROVE  /\ Cardinality(hand') <= 1
           /\ \A h \in hand' : h.event \in Event /\ h.at \in {"handle", "path", "record"}
<1>1. CASE hand' = {}
  BY <1>1, FS_EmptySet
<1>2. ASSUME NEW h \in InHand, hand' = {h}
      PROVE  Cardinality(hand') <= 1
  BY <1>2, FS_Singleton
<1>3. QED
  BY <1>1, <1>2 DEF InHand

LEMMA AccessTypes ==
    ASSUME TypeInv, NEW e \in Event, Access(e)
    PROVE  TypeInv'
<1> USE DEF TypeInv, TypeOK, routerVars, flushVars
<1>1. e.ctr \in Containers /\ e.path \in Paths
  BY DEF Event
<1>2. accessed' \in [Containers -> SUBSET Paths]
  BY <1>1 DEF Access
<1> DEFINE Moved == /\ ring' \in Seq(Event) /\ Len(ring') <= RingSize
                    /\ counters' \in [Stages -> Nat]
                    /\ missed' \in [Containers -> [Fates -> SUBSET Paths]]
<1>3. Moved
  <2>1. CASE ring' = ring /\ UNCHANGED <<counters, missed>>
    BY <2>1 DEF Fates
  <2>2. ASSUME NEW stage \in BPFStages, Count(e.ctr, stage, e.path), UNCHANGED ring
        PROVE  Moved
    <3>1. stage \in Fates
      BY DEF Fates, Stages
    <3>2. QED
      BY <1>1, <2>2, <3>1, Counted DEF Fates
  <2>3. CASE Len(ring) < RingSize /\ ring' = Append(ring, e) /\ UNCHANGED <<counters, missed>>
    <3>1. RingSize \in Nat
      BY EventPathAssumption
    <3>2. ring' \in Seq(Event) /\ Len(ring') = Len(ring) + 1 /\ Len(ring) \in Nat
      BY <2>3, Appended
    <3>3. Len(ring') <= RingSize
      BY <2>3, <3>1, <3>2
    <3>4. QED
      BY <2>3, <3>2, <3>3 DEF Fates
  <2>4. QED
    BY <2>1, <2>2, <2>3 DEF Access, Emit, BPFStages
<1>4. UNCHANGED <<hook, allowed, hand, tracked, files, execSeen, baseline, claimed,
                  sig, profiles, drained, cwd>>
  BY DEF Access
<1>5. QED
  BY <1>2, <1>3, <1>4 DEF Fates

\* A consumer step that puts the event away, counting it or not.
LEMMA PutAwayTypes ==
    ASSUME TypeInv, Done, UNCHANGED <<hook, allowed, ring, routerVars, flushVars, truthVars>>,
           \/ UNCHANGED <<counters, missed>>
           \/ \E e \in Event : \E stage \in Fates : Count(e.ctr, stage, e.path)
    PROVE  TypeInv'
<1> USE DEF TypeInv, TypeOK, routerVars, flushVars, truthVars
<1>1. counters' \in [Stages -> Nat] /\ missed' \in [Containers -> [Fates -> SUBSET Paths]]
  <2>1. ASSUME NEW e \in Event, NEW stage \in Fates, Count(e.ctr, stage, e.path)
        PROVE  <1>1
    BY <2>1, Counted DEF Event, Fates
  <2>2. QED
    BY <2>1 DEF Fates
<1>2. hand' = {}
  BY DEF Done
<1>3. QED
  BY <1>1, <1>2, HandTypes DEF Fates

LEMMA ConsumeTypes ==
    ASSUME TypeInv, Consume
    PROVE  TypeInv'
<1> USE DEF routerVars, flushVars, truthVars
<1>1. CASE ConsumerRead
  <2>1. /\ ring' \in Seq(Event) /\ Len(ring') <= RingSize /\ Head(ring) \in Event
    <3>1. RingSize \in Nat
      BY EventPathAssumption
    <3>2. ring \in Seq(Event) /\ Len(ring) <= RingSize
      BY DEF TypeInv, TypeOK
    <3>3. QED
      BY <1>1, <3>1, <3>2, Consumed DEF ConsumerRead
  <2>2. CASE hand' = {[event |-> Head(ring), at |-> "handle"]} /\ UNCHANGED <<counters, missed>>
    <3>1. [event |-> Head(ring), at |-> "handle"] \in InHand
      BY <2>1 DEF InHand
    <3>2. hand' = {} \/ \E h \in InHand : hand' = {h}
      BY <2>2, <3>1
    <3>3. QED
      BY <1>1, <2>1, <2>2, <3>2, HandTypes DEF ConsumerRead, TypeInv, TypeOK
  <2>3. CASE Count(Head(ring).ctr, "decode_failed", Head(ring).path) /\ UNCHANGED hand
    <3>1. /\ Head(ring).ctr \in Containers /\ Head(ring).path \in Paths
          /\ "decode_failed" \in Fates
      BY <2>1 DEF Event, Fates, Stages, Hard
    <3>2. /\ counters' \in [Stages -> Nat]
          /\ missed' \in [Containers -> [Fates -> SUBSET Paths]]
      BY <2>3, <3>1, Counted DEF TypeInv, TypeOK, Fates
    <3>3. QED
      BY <1>1, <2>1, <2>3, <3>2 DEF ConsumerRead, TypeInv, TypeOK, Fates
  <2>4. QED
    BY <1>1, <2>2, <2>3 DEF ConsumerRead
<1>2. ASSUME NEW h \in hand, Handle(h) PROVE TypeInv'
  <2>1. h \in InHand /\ h.event \in Event
    BY DEF TypeInv, InHand
  <2>2. CASE Count(h.event.ctr, "untracked_cgroup", h.event.path) /\ Done
    <3>1. "untracked_cgroup" \in Fates
      BY DEF Fates, Stages, Hard
    <3>2. QED
      BY <1>2, <2>1, <2>2, <3>1, PutAwayTypes DEF Handle
  <2>3. CASE hand' = {[h EXCEPT !.at = "path"]} /\ UNCHANGED <<counters, missed>>
    <3>1. [h EXCEPT !.at = "path"] \in InHand
      BY <2>1 DEF InHand
    <3>2. hand' = {} \/ \E g \in InHand : hand' = {g}
      BY <2>3, <3>1
    <3>3. QED
      BY <1>2, <2>3, <3>2, HandTypes DEF Handle, TypeInv, TypeOK
  <2>4. QED
    BY <1>2, <2>2, <2>3 DEF Handle
<1>3. ASSUME NEW h \in hand, HandlePath(h) PROVE TypeInv'
  <2>1. h \in InHand /\ h.event \in Event
    BY DEF TypeInv, InHand
  <2>2. ASSUME NEW p \in ResolvedPath(h.event),
               hand' = {[event |-> [h.event EXCEPT !.path = p], at |-> "record"]},
               UNCHANGED <<counters, missed>>
        PROVE  TypeInv'
    <3>1. p \in Paths
      BY <2>1, ResolvedPathType DEF TypeInv
    <3>2. [h.event EXCEPT !.path = p] \in Event
      BY <2>1, <3>1 DEF Event
    <3>3. [event |-> [h.event EXCEPT !.path = p], at |-> "record"] \in InHand
      BY <3>2 DEF InHand
    <3>4. hand' = {} \/ \E g \in InHand : hand' = {g}
      BY <2>2, <3>3
    <3>5. QED
      BY <1>3, <2>2, <3>4, HandTypes DEF HandlePath, TypeInv, TypeOK
  <2>3. CASE Done /\ (UNCHANGED <<counters, missed>> \/ Count(h.event.ctr, "uncounted", h.event.path))
    <3>1. "uncounted" \in Fates
      BY DEF Fates
    <3>2. QED
      BY <1>3, <2>1, <2>3, <3>1, PutAwayTypes DEF HandlePath
  <2>4. QED
    BY <1>3, <2>2, <2>3 DEF HandlePath
<1>4. ASSUME NEW h \in hand, HandleRecord(h) PROVE TypeInv'
  <2>1. h \in InHand /\ h.event.ctr \in Containers /\ h.event.path \in Paths
    BY DEF TypeInv, InHand, Event
  <2>2. files' \in [Containers -> SUBSET Paths] /\ execSeen' \subseteq Containers
    BY <1>4, <2>1 DEF HandleRecord, TypeInv, TypeOK
  <2>3. hand' = {}
    BY <1>4 DEF HandleRecord, Done
  <2>4. QED
    BY <1>4, <2>2, <2>3, HandTypes DEF HandleRecord, TypeInv, TypeOK
<1>5. QED
  BY <1>1, <1>2, <1>3, <1>4 DEF Consume

LEMMA TypeStep == TypeInv /\ [Next]_vars => TypeInv'
<1> SUFFICES ASSUME TypeInv, [Next]_vars PROVE TypeInv'
  OBVIOUS
<1> USE DEF routerVars, flushVars, truthVars
<1>1. ASSUME NEW e \in Event, Access(e) PROVE TypeInv'
  BY <1>1, AccessTypes
<1>2. CASE Consume
  BY <1>2, ConsumeTypes
<1>3. ASSUME NEW c \in Containers, NEW d \in Dirs, Chdir(c, d) PROVE TypeInv'
  BY <1>3 DEF Chdir, TypeInv, TypeOK
<1>4. ASSUME NEW c \in Containers, Register(c) PROVE TypeInv'
  <2>1. baseline' \in [Containers -> [Stages -> Nat]]
    BY <1>4 DEF Register, TypeInv, TypeOK
  <2>2. QED
    BY <1>4, <2>1 DEF Register, TypeInv, TypeOK
<1>5. ASSUME NEW c \in Containers, Allow(c) \/ Deny(c) \/ Drop(c) \/ FlushStopped(c)
      PROVE  TypeInv'
  BY <1>5 DEF Allow, Deny, Drop, FlushStopped, TypeInv, TypeOK
<1>6. ASSUME NEW c \in Containers, FlushClaimed(c) PROVE TypeInv'
  BY <1>6 DEF FlushClaimed, TypeInv, TypeOK
<1>7. CASE FlushAll
  BY <1>7 DEF FlushAll, TypeInv, TypeOK
<1>8. CASE UNCHANGED vars
  BY <1>8 DEF vars, TypeInv, TypeOK
<1>9. QED
  BY <1>1, <1>2, <1>3, <1>4, <1>5, <1>6, <1>7, <1>8 DEF Next, HookStep

LEMMA TypeInvariant == Spec => []TypeInv
  BY TypeInit, TypeStep, PTL DEF Spec

\* Every variable keeps its type, and the one consumer goroutine has one event
\* in hand at most.
THEOREM TypeCorrect == Spec => []TypeOK
<1>1. TypeInv => TypeOK
  BY DEF TypeInv
<1>2. QED
  BY <1>1, TypeInvariant, PTL

-----------------------------------------------------------------------------
(***************************************************************************)
(* The window of a container.                                              *)
(***************************************************************************)

\* What the consumer, and the process, leave alone.
LEMMA ConsumeFrame ==
    Consume => UNCHANGED <<hook, allowed, tracked, baseline, flushVars, truthVars>>
  BY DEF Consume, ConsumerRead, Handle, HandlePath, HandleRecord, routerVars

LEMMA AccessFrame ==
    ASSUME NEW e, Access(e)
    PROVE  UNCHANGED <<hook, allowed, hand, routerVars, flushVars, cwd>>
  BY DEF Access

\* The container of the event in hand has not changed when it has been looked at.
LEMMA HandOrigin ==
    ASSUME TypeInv, Consume, NEW g \in hand'
    PROVE  \/ ring # <<>> /\ ring' = Tail(ring) /\ g.event = ring[1]
           \/ ring' = ring /\ \E h \in hand : g.event.ctr = h.event.ctr
<1>1. CASE ConsumerRead
  BY <1>1, Consumed DEF ConsumerRead, TypeInv, TypeOK
<1>2. ASSUME NEW h \in hand, Handle(h)
      PROVE  ring' = ring /\ g.event.ctr = h.event.ctr
  BY <1>2 DEF Handle, Done, TypeInv, InHand
<1>3. ASSUME NEW h \in hand, HandlePath(h)
      PROVE  ring' = ring /\ g.event.ctr = h.event.ctr
  BY <1>3 DEF HandlePath, Done, TypeInv, InHand, Event
<1>4. ASSUME NEW h \in hand, HandleRecord(h) PROVE FALSE
  BY <1>4 DEF HandleRecord, Done
<1>5. QED
  BY <1>1, <1>2, <1>3, <1>4 DEF Consume

\* Only an allowed container comes to have events on their way.
LEMMA NothingNewPending ==
    ASSUME TypeInv, [Next]_vars, NEW c \in Containers, c \notin allowed, NothingPending(c)
    PROVE  NothingPending(c)'
<1>1. CASE UNCHANGED <<ring, hand>>
  BY <1>1 DEF NothingPending
<1>2. ASSUME NEW e \in Event, Access(e) PROVE NothingPending(c)'
  <2>1. CASE ring' = ring
    BY <1>2, <2>1, <1>1 DEF Access
  <2>2. CASE e.ctr \in allowed /\ ring' = Append(ring, e)
    <3>1. /\ Len(ring') = Len(ring) + 1 /\ Len(ring) \in Nat
          /\ ring'[Len(ring) + 1] = e
          /\ \A i \in 1 .. Len(ring) : ring'[i] = ring[i]
      BY <2>2, Appended DEF TypeInv, TypeOK
    <3>2. \A i \in 1 .. Len(ring') : ring'[i].ctr # c
      BY <2>2, <3>1 DEF NothingPending
    <3>3. QED
      BY <1>2, <3>2 DEF Access, NothingPending
  <2>3. QED
    BY <1>2, <2>1, <2>2 DEF Access, Emit
<1>3. CASE Consume
  <2>1. CASE ring' = ring
    <3>1. ~(ring # <<>> /\ ring' = Tail(ring))
      <4>1. Len(ring') # Len(ring) - 1
        BY <2>1 DEF TypeInv, TypeOK
      <4>2. QED
        BY <4>1, Consumed DEF TypeInv, TypeOK
    <3>2. \A g \in hand' : \E h \in hand : g.event.ctr = h.event.ctr
      BY <1>3, <3>1, HandOrigin
    <3>3. QED
      BY <2>1, <3>2 DEF NothingPending
  <2>2. CASE ring # <<>> /\ ring' = Tail(ring)
    <3>1. /\ Len(ring) \in Nat \ {0} /\ Len(ring') = Len(ring) - 1
          /\ \A i \in 1 .. Len(ring') : ring'[i] = ring[i + 1]
      BY <2>2, Consumed DEF TypeInv, TypeOK
    <3>2. \A i \in 1 .. Len(ring') : ring'[i].ctr # c
      BY <3>1 DEF NothingPending
    <3>3. \A g \in hand' : g.event = ring[1] \/ \E h \in hand : g.event.ctr = h.event.ctr
      BY <1>3, HandOrigin
    <3>4. QED
      BY <3>1, <3>2, <3>3 DEF NothingPending
  <2>3. QED
    BY <1>3, <2>1, <2>2 DEF Consume, ConsumerRead, Handle, HandlePath, HandleRecord
<1>4. QED
  BY <1>1, <1>2, <1>3 DEF Next, HookStep, Chdir, Register, Allow, Deny, Drop, FlushStopped,
       FlushClaimed, FlushAll, vars

LEMMA WindowInit == Init => WindowInv
  BY DEF Init, WindowInv, NothingPending

LEMMA WindowStep == TypeInv /\ WindowInv /\ [Next]_vars => WindowInv'
<1> SUFFICES ASSUME TypeInv, WindowInv, [Next]_vars, NEW c \in Containers
             PROVE  /\ ~sig' /\ hook'[c] \in {"registered", "running", "denied"} => c \in tracked'
                    /\ c \in tracked' => hook'[c] \in {"registered", "running", "denied"}
                    /\ c \in allowed' => hook'[c] = "running"
                    /\ hook'[c] \in {"none", "registered"} => NothingPending(c)'
  BY DEF WindowInv
<1> DEFINE Open == {"registered", "running", "denied"}
           Agree == /\ ~sig' /\ hook'[c] \in Open => c \in tracked'
                    /\ c \in tracked' => hook'[c] \in Open
                    /\ c \in allowed' => hook'[c] = "running"
                    /\ hook'[c] \in {"none", "registered"} => hook[c] \in {"none", "registered"}
<1>1. /\ ~sig /\ hook[c] \in Open => c \in tracked
      /\ c \in tracked => hook[c] \in Open
      /\ c \in allowed => hook[c] = "running"
      /\ hook[c] \in {"none", "registered"} => c \notin allowed /\ NothingPending(c)
  BY DEF WindowInv
<1>2. Agree
  <2> USE DEF flushVars, routerVars
  <2>1. CASE Consume \/ \E e \in Event : Access(e)
    BY <1>1, <2>1, ConsumeFrame, AccessFrame
  <2>2. CASE UNCHANGED vars \/ \E d \in Containers : FlushClaimed(d) \/ \E x \in Dirs : Chdir(d, x)
    BY <1>1, <2>2 DEF FlushClaimed, Chdir, vars
  <2>3. ASSUME NEW d \in Containers, Register(d) PROVE Agree
    BY <1>1, <2>3 DEF Register, TypeInv, TypeOK
  <2>4. ASSUME NEW d \in Containers, Allow(d) \/ Deny(d) \/ Drop(d) \/ FlushStopped(d)
        PROVE  Agree
    BY <1>1, <2>4 DEF Allow, Deny, Drop, FlushStopped, TypeInv, TypeOK
  <2>5. CASE FlushAll
    BY <1>1, <2>5 DEF FlushAll
  <2>6. QED
    BY <2>1, <2>2, <2>3, <2>4, <2>5 DEF Next, HookStep
<1>3. QED
  BY <1>1, <1>2, NothingNewPending

LEMMA WindowInvariant == Spec => [](TypeInv /\ WindowInv)
<1>1. TypeInv /\ WindowInv /\ [Next]_vars => WindowInv'
  BY WindowStep
<1>2. QED
  BY <1>1, WindowInit, TypeInvariant, PTL DEF Spec

\* AllowedHasAggregator: no cgroup is allowlisted without a live aggregator,
\* however the hooks of the containers and the consumer interleave.
THEOREM AllowedHasAggregatorHolds == Spec => []AllowedHasAggregator
<1>1. TypeInv /\ WindowInv => AllowedHasAggregator
  BY DEF TypeInv, TypeOK, WindowInv, AllowedHasAggregator
<1>2. QED
  BY <1>1, WindowInvariant, PTL

-----------------------------------------------------------------------------
(***************************************************************************)
(* Loss.                                                                   *)
(***************************************************************************)

\* An event is dropped for one reason, of a container past its start hook:
\* as untracked only when there is no aggregator.
Dropping(c, stage, p) ==
    /\ Count(c, stage, p)
    /\ hook[c] \notin {"none", "registered"}
    /\ stage = "untracked_cgroup" => c \notin tracked
    /\ UNCHANGED <<hook, tracked, baseline, flushVars>>

\* Loss only comes about in the kprobe and in the consumer.
LEMMA OnlyDropsCount ==
    ASSUME TypeInv, WindowInv, [Next]_vars
    PROVE  \/ UNCHANGED <<counters, missed>>
           \/ \E c \in Containers, stage \in Fates, p \in Paths : Dropping(c, stage, p)
<1> DEFINE Goal == \/ UNCHANGED <<counters, missed>>
                   \/ \E c \in Containers, stage \in Fates, p \in Paths : Dropping(c, stage, p)
<1> USE DEF routerVars, flushVars, Fates, Stages, Hard, BPFStages
<1>1. ASSUME NEW e \in Event, Access(e) PROVE Goal
  <2>1. e.ctr \in Containers /\ e.path \in Paths
    BY DEF Event
  <2>2. e.ctr \in allowed => hook[e.ctr] \notin {"none", "registered"}
    BY <2>1 DEF WindowInv
  <2>3. CASE UNCHANGED <<counters, missed>>
    BY <2>3
  <2>4. ASSUME NEW stage \in BPFStages, e.ctr \in allowed, Count(e.ctr, stage, e.path)
        PROVE  Goal
    <3>1. stage \in Fates /\ stage # "untracked_cgroup"
      OBVIOUS
    <3>2. Dropping(e.ctr, stage, e.path)
      BY <1>1, <2>2, <2>4, <3>1 DEF Dropping, Access
    <3>3. QED
      BY <2>1, <3>1, <3>2
  <2>5. QED
    BY <1>1, <2>3, <2>4 DEF Access, Emit
<1>2. CASE Consume
  <2>1. UNCHANGED <<hook, tracked, baseline, flushVars>>
    BY <1>2, ConsumeFrame
  <2>2. ASSUME NEW e \in Event, ~NothingPending(e.ctr), NEW stage \in Fates,
               stage = "untracked_cgroup" => e.ctr \notin tracked,
               Count(e.ctr, stage, e.path)
        PROVE  Goal
    <3>1. e.ctr \in Containers /\ e.path \in Paths
      BY DEF Event
    <3>2. Dropping(e.ctr, stage, e.path)
      BY <2>1, <2>2, <3>1 DEF Dropping, WindowInv
    <3>3. QED
      BY <3>1, <3>2
  <2>3. CASE ConsumerRead
    <3>1. ring # <<>> => Head(ring) \in Event /\ ~NothingPending(Head(ring).ctr)
      <4>1. ring # <<>> => Head(ring) = ring[1] /\ 1 \in 1 .. Len(ring) /\ ring[1] \in Event
        BY DEF TypeInv, TypeOK
      <4>2. QED
        BY <4>1 DEF NothingPending
    <3>2. QED
      BY <2>2, <2>3, <3>1 DEF ConsumerRead
  <2>4. ASSUME NEW h \in hand, Handle(h) \/ HandlePath(h) PROVE Goal
    <3>1. h.event \in Event /\ ~NothingPending(h.event.ctr)
      BY DEF TypeInv, TypeOK, NothingPending
    <3>2. QED
      BY <2>2, <2>4, <3>1 DEF Handle, HandlePath
  <2>5. ASSUME NEW h \in hand, HandleRecord(h) PROVE Goal
    BY <2>5 DEF HandleRecord
  <2>6. QED
    BY <1>2, <2>3, <2>4, <2>5 DEF Consume
<1>3. QED
  BY <1>1, <1>2 DEF Next, HookStep, Chdir, Register, Allow, Deny, Drop, FlushStopped,
       FlushClaimed, FlushAll, vars

\* What has been dropped goes for good; a hook is not undone, nor a SIGTERM.
LEMMA Progress ==
    ASSUME TypeInv, [Next]_vars, NEW c \in Containers
    PROVE  /\ hook[c] # "none" => hook'[c] # "none"
           /\ hook[c] \in {"dropped", "flushed"} => hook'[c] \in {"dropped", "flushed"}
           /\ hook[c] = "flushed" => hook'[c] = "flushed"
           /\ sig => sig'
<1> DEFINE Goal == /\ hook[c] # "none" => hook'[c] # "none"
                   /\ hook[c] \in {"dropped", "flushed"} => hook'[c] \in {"dropped", "flushed"}
                   /\ hook[c] = "flushed" => hook'[c] = "flushed"
                   /\ sig => sig'
<1> USE DEF flushVars
<1>1. CASE UNCHANGED <<hook, sig>>
  BY <1>1
<1>2. ASSUME NEW d \in Containers, HookStep(d) PROVE Goal
  BY <1>2 DEF HookStep, Register, Allow, Deny, Drop, FlushStopped, TypeInv, TypeOK
<1>3. CASE FlushAll
  BY <1>3 DEF FlushAll
<1>4. CASE Consume \/ \E e \in Event : Access(e)
  BY <1>1, <1>4, ConsumeFrame, AccessFrame
<1>5. QED
  BY <1>1, <1>2, <1>3, <1>4 DEF Next, Chdir, FlushClaimed, vars

\* UntrackedOnlyAfterStop: an event is only ever dropped as untracked after the
\* stop hook, or flushAll, has taken its aggregator.
THEOREM UntrackedOnlyAfterStopHolds == Spec => []UntrackedOnlyAfterStop
<1>1. Init => UntrackedOnlyAfterStop
  BY DEF Init, UntrackedOnlyAfterStop, Stages, Hard
<1>2. TypeInv /\ WindowInv /\ UntrackedOnlyAfterStop /\ [Next]_vars => UntrackedOnlyAfterStop'
  <2> SUFFICES ASSUME TypeInv, WindowInv, UntrackedOnlyAfterStop, [Next]_vars,
                      NEW d \in Containers, missed'[d]["untracked_cgroup"] # {}
               PROVE  hook'[d] \in {"dropped", "flushed"} \/ sig'
    BY DEF UntrackedOnlyAfterStop
  <2> USE DEF Fates, Stages, Hard
  <2>1. CASE missed[d]["untracked_cgroup"] # {}
    BY <2>1, Progress DEF UntrackedOnlyAfterStop
  <2>2. CASE missed[d]["untracked_cgroup"] = {}
    <3>1. PICK c \in Containers, stage \in Fates, p \in Paths : Dropping(c, stage, p)
      BY <2>2, OnlyDropsCount
    <3>2. c = d /\ stage = "untracked_cgroup"
      <4>1. "untracked_cgroup" \in Fates
        OBVIOUS
      <4>2. /\ missed \in [Containers -> [Fates -> SUBSET Paths]]
            /\ counters \in [Stages -> Nat]
        BY DEF TypeInv, TypeOK
      <4>3. \A e \in Containers, s \in Fates :
                  e # c \/ s # stage => missed'[e][s] = missed[e][s]
        BY <3>1, <4>2, Counted DEF Dropping
      <4>4. QED
        BY <2>2, <4>1, <4>3
    <3>3. hook[d] \in {"dropped", "flushed"} \/ sig
      BY <3>1, <3>2 DEF Dropping, WindowInv, TypeInv, TypeOK
    <3>4. QED
      BY <3>3, Progress
  <2>3. QED
    BY <2>1, <2>2
<1>3. QED
  BY <1>1, <1>2, WindowInvariant, PTL DEF Spec

LEMMA LossInit == Init => LossInv
<1> SUFFICES ASSUME Init, NEW c \in Containers, NEW s \in Stages
             PROVE  /\ IsFiniteSet(missed[c][s])
                    /\ Cardinality(missed[c][s]) + baseline[c][s] <= counters[s]
                    /\ hook[c] = "none" => missed[c][s] = {}
  BY DEF LossInv
<1>1. missed[c][s] = {} /\ baseline[c][s] = 0 /\ counters[s] = 0
  BY DEF Init
<1>2. QED
  BY <1>1, FS_EmptySet

LEMMA LossStep == TypeInv /\ WindowInv /\ LossInv /\ [Next]_vars => LossInv'
<1> SUFFICES ASSUME TypeInv, WindowInv, LossInv, [Next]_vars,
                    NEW c \in Containers, NEW s \in Stages
             PROVE  /\ IsFiniteSet(missed'[c][s])
                    /\ Cardinality(missed'[c][s]) + baseline'[c][s] <= counters'[s]
                    /\ hook'[c] = "none" => missed'[c][s] = {}
  BY DEF LossInv
<1> DEFINE lost == Cardinality(missed[c][s])
<1>1. /\ IsFiniteSet(missed[c][s]) /\ lost \in Nat
      /\ counters[s] \in Nat /\ baseline[c][s] \in Nat
      /\ lost + baseline[c][s] <= counters[s]
      /\ hook[c] = "none" => missed[c][s] = {}
  BY FS_CardinalityType DEF LossInv, TypeInv, TypeOK
<1>2. CASE UNCHANGED <<counters, missed>>
  <2>1. hook'[c] = "none" => missed'[c][s] = {}
    BY <1>1, <1>2, Progress
  <2>2. CASE baseline'[c] = baseline[c]
    BY <1>1, <1>2, <2>1, <2>2
  <2>3. CASE Register(c)
    <3>1. baseline'[c][s] \in {0, counters[s]}
      BY <2>3 DEF Register, TypeInv, TypeOK
    <3>2. missed[c][s] = {}
      BY <1>1, <2>3 DEF Register
    <3>3. Cardinality(missed'[c][s]) = 0
      BY <1>2, <3>2, FS_EmptySet
    <3>4. QED
      BY <1>1, <1>2, <2>1, <3>1, <3>3
  <2>4. baseline'[c] = baseline[c] \/ Register(c)
    <3> USE DEF routerVars
    <3>1. ASSUME NEW d \in Containers, Register(d) PROVE <2>4
      BY <3>1 DEF Register, TypeInv, TypeOK
    <3>2. CASE Consume \/ \E e \in Event : Access(e)
      BY <3>2, ConsumeFrame, AccessFrame
    <3>3. QED
      BY <3>1, <3>2 DEF Next, HookStep, Chdir, Allow, Deny, Drop, FlushStopped, FlushClaimed,
         FlushAll, vars
  <2>5. QED
    BY <2>2, <2>3, <2>4
<1>3. ASSUME NEW d \in Containers, NEW stage \in Fates, NEW p \in Paths, Dropping(d, stage, p)
      PROVE  /\ IsFiniteSet(missed'[c][s])
             /\ Cardinality(missed'[c][s]) + baseline'[c][s] <= counters'[s]
             /\ hook'[c] = "none" => missed'[c][s] = {}
  <2>1. /\ missed'[d][stage] = missed[d][stage] \cup {p}
        /\ d # c \/ s # stage => missed'[c][s] = missed[c][s]
        /\ counters'[s] = IF s = stage THEN counters[s] + 1 ELSE counters[s]
    <3>1. /\ missed \in [Containers -> [Fates -> SUBSET Paths]]
          /\ counters \in [Stages -> Nat] /\ s \in Fates
      BY DEF TypeInv, TypeOK, Fates
    <3>2. QED
      BY <1>3, <3>1, Counted DEF Dropping
  <2>2. hook' = hook /\ baseline' = baseline /\ hook[d] # "none"
    BY <1>3 DEF Dropping
  <2>3. CASE d = c /\ s = stage
    <3>1. /\ IsFiniteSet(missed'[c][s])
          /\ Cardinality(missed'[c][s]) = IF p \in missed[c][s] THEN lost ELSE lost + 1
      <4>1. missed'[c][s] = missed[c][s] \cup {p} /\ IsFiniteSet(missed[c][s])
        BY <1>1, <2>1, <2>3
      <4>2. /\ IsFiniteSet(missed[c][s] \cup {p})
            /\ Cardinality(missed[c][s] \cup {p})
                 = IF p \in missed[c][s] THEN lost ELSE lost + 1
        BY <4>1, FS_AddElement
      <4>3. QED
        BY <4>1, <4>2
    <3> HIDE DEF lost
    <3>2. QED
      BY <1>1, <2>1, <2>2, <2>3, <3>1
  <2>4. CASE ~(d = c /\ s = stage)
    BY <1>1, <2>1, <2>2, <2>4
  <2>5. QED
    BY <2>3, <2>4
<1>4. QED
  BY <1>2, <1>3, OnlyDropsCount

LEMMA LossInvariant == Spec => [](TypeInv /\ WindowInv /\ LossInv)
<1>1. TypeInv /\ WindowInv /\ LossInv /\ [Next]_vars => LossInv'
  BY LossStep
<1>2. QED
  BY <1>1, LossInit, WindowInvariant, PTL DEF Spec

\* What a snapshot of c says of its loss.
Reports(m, c) ==
    /\ m.ctr = c
    /\ m.files = files[c]
    /\ m.lost = missed[c]
    /\ m.startObserved = (c \notin Synced /\ c \in execSeen)
    /\ DOMAIN m.byStage \subseteq Stages
    /\ \A s \in DOMAIN m.byStage :
         m.byStage[s] = IF counters[s] > baseline[c][s] THEN counters[s] - baseline[c][s] ELSE 0

\* A profile is one that was there, or the snapshot of a container as it is.
LEMMA ProfilesGrow ==
    ASSUME [Next]_vars, NEW m \in profiles'
    PROVE  \/ m \in profiles
           \/ \E c \in Containers :
                /\ Reports(m, c)
                /\ \/ FlushStopped(c) /\ m.terminal = TRUE
                   \/ FlushClaimed(c) /\ m.terminal = FALSE
<1>1. ASSUME NEW c \in Containers, NEW terminal, Snapshot(c, terminal)
      PROVE  m \in profiles \/ (Reports(m, c) /\ m.terminal = terminal)
  <2>1. \A read \in Readable : read \subseteq Stages
    BY DEF Readable
  <2>2. PICK read \in Readable :
           profiles' = profiles \cup
             {[ctr |-> c, terminal |-> terminal, files |-> files[c],
               byStage |-> [s \in read |-> IF counters[s] > baseline[c][s]
                                           THEN counters[s] - baseline[c][s] ELSE 0],
               startObserved |-> c \notin Synced /\ c \in execSeen,
               lost |-> missed[c]]}
    BY <1>1 DEF Snapshot
  <2>3. QED
    BY <2>1, <2>2 DEF Reports
<1>2. ASSUME NEW c \in Containers, FlushStopped(c) \/ FlushClaimed(c)
      PROVE  m \in profiles \/ (Reports(m, c) /\ \/ FlushStopped(c) /\ m.terminal = TRUE
                                                 \/ FlushClaimed(c) /\ m.terminal = FALSE)
  BY <1>1, <1>2 DEF FlushStopped, FlushClaimed
<1>3. CASE UNCHANGED profiles
  BY <1>3
<1>4. CASE Consume \/ \E e \in Event : Access(e)
  BY <1>3, <1>4, ConsumeFrame, AccessFrame DEF flushVars
<1>5. QED
  BY <1>2, <1>3, <1>4 DEF Next, HookStep, Chdir, Register, Allow, Deny, Drop, FlushAll, vars,
     flushVars

\* LossNeverUnderstated: what a profile reports for a stage covers every event of
\* its container that was dropped there, for any number of containers that share
\* the counters and whatever could not be read when the baseline was taken.
THEOREM LossNeverUnderstatedHolds == Spec => []LossNeverUnderstated
<1>1. Init => LossNeverUnderstated
  BY DEF Init, LossNeverUnderstated
<1>2. TypeInv /\ LossInv /\ LossNeverUnderstated /\ [Next]_vars => LossNeverUnderstated'
  <2> SUFFICES ASSUME TypeInv, LossInv, LossNeverUnderstated, [Next]_vars,
                      NEW m \in profiles', NEW s \in DOMAIN m.byStage
               PROVE  Cardinality(m.lost[s]) <= m.byStage[s]
    BY DEF LossNeverUnderstated
  <2>1. CASE m \in profiles
    BY <2>1 DEF LossNeverUnderstated
  <2>2. ASSUME NEW c \in Containers, Reports(m, c)
        PROVE  Cardinality(m.lost[s]) <= m.byStage[s]
    <3>1. s \in Stages /\ m.lost[s] = missed[c][s]
      BY <2>2 DEF Reports
    <3>2. /\ Cardinality(missed[c][s]) \in Nat
          /\ counters[s] \in Nat /\ baseline[c][s] \in Nat
          /\ Cardinality(missed[c][s]) + baseline[c][s] <= counters[s]
      BY <3>1, FS_CardinalityType DEF LossInv, TypeInv, TypeOK
    <3>3. m.byStage[s] = IF counters[s] > baseline[c][s]
                         THEN counters[s] - baseline[c][s] ELSE 0
      BY <2>2 DEF Reports
    <3>4. QED
      BY <3>1, <3>2, <3>3
  <2>3. QED
    BY <2>1, <2>2, ProfilesGrow
<1>3. QED
  BY <1>1, <1>2, LossInvariant, PTL DEF Spec

-----------------------------------------------------------------------------
(***************************************************************************)
(* The process-start marker.                                               *)
(***************************************************************************)

\* What is recorded or counted stays so.
LEMMA Grows ==
    ASSUME TypeInv, WindowInv, [Next]_vars, NEW c \in Containers
    PROVE  /\ files[c] \subseteq files'[c]
           /\ \A s \in Fates : missed[c][s] \subseteq missed'[c][s]
           /\ c \notin tracked /\ hook[c] # "none" => c \notin tracked'
<1>1. files[c] \subseteq files'[c]
  <2>1. CASE UNCHANGED files
    BY <2>1
  <2>2. ASSUME NEW h \in hand, HandleRecord(h) PROVE files[c] \subseteq files'[c]
    BY <2>2 DEF HandleRecord, TypeInv, TypeOK
  <2>3. QED
    BY <2>1, <2>2, AccessFrame DEF Next, HookStep, Consume, Chdir, Register, Allow, Deny, Drop,
       FlushStopped, FlushClaimed, FlushAll, vars, ConsumerRead, Handle, HandlePath, routerVars
<1>2. ASSUME NEW s \in Fates PROVE missed[c][s] \subseteq missed'[c][s]
  <2>1. ASSUME NEW d \in Containers, NEW stage \in Fates, NEW p \in Paths, Dropping(d, stage, p)
        PROVE  missed[c][s] \subseteq missed'[c][s]
    <3>1. /\ missed \in [Containers -> [Fates -> SUBSET Paths]]
          /\ counters \in [Stages -> Nat]
      BY DEF TypeInv, TypeOK, Fates
    <3>2. /\ missed'[d][stage] = missed[d][stage] \cup {p}
          /\ d # c \/ s # stage => missed'[c][s] = missed[c][s]
      BY <2>1, <3>1, Counted DEF Dropping
    <3>3. QED
      BY <3>2
  <2>2. QED
    BY <2>1, OnlyDropsCount
<1>3. c \notin tracked /\ hook[c] # "none" => c \notin tracked'
  BY AccessFrame, ConsumeFrame DEF Next, HookStep, Chdir, Register, Allow, Deny, Drop,
     FlushStopped, FlushClaimed, FlushAll, vars, routerVars, flushVars
<1>4. QED
  BY <1>1, <1>2, <1>3

LEMMA EntryStays ==
    ASSUME TypeInv, WindowInv, [Next]_vars, NEW c \in Containers
    PROVE  /\ EntrySafe(c) => EntrySafe(c)'
           /\ EntrySettled(c) => EntrySettled(c)'
  BY Grows, Progress DEF EntrySafe, EntrySettled, Fates

\* Where the entrypoint's event is, when the ring buffer is as it was.
LEMMA EntryAheadKept ==
    ASSUME TypeInv, WindowInv, [Next]_vars, NEW c \in Containers, ring' = ring,
           EntryInHand(c) => EntryInHand(c)' \/ EntrySettled(c)'
    PROVE  /\ \A i : EntryAhead(c, i) => EntryAhead(c, i)'
           /\ EntryOnRing(c) => EntryOnRing(c)'
<1>1. \A i : EntryAhead(c, i) => EntryAhead(c, i)'
  BY EntryStays DEF EntryAhead, EntryBefore
<1>2. QED
  BY <1>1 DEF EntryOnRing

\* The parts of EntryInv for one container.
EntryOK(c) ==
    /\ hook[c] \in {"none", "registered"} => accessed[c] = {}
    /\ c \in allowed /\ accessed[c] # {} => EntryAhead(c, Len(ring) + 1)
    /\ EntryOnRing(c)
    /\ EntryOnHand(c)
    /\ c \in execSeen => EntrySafe(c)

\* The hooks, flushAll and a process that changes directory.
LEMMA EntryHooks ==
    ASSUME TypeInv, WindowInv, [Next]_vars, NEW c \in Containers \ Synced, EntryOK(c),
           UNCHANGED <<ring, hand, files, execSeen, accessed>>
    PROVE  EntryOK(c)'
<1> USE DEF EntryOK
<1>1. EntryInHand(c) => EntryInHand(c)'
  BY DEF EntryInHand
<1>2. hook'[c] \in {"none", "registered"} => hook[c] \in {"none", "registered"}
  BY ConsumeFrame, AccessFrame DEF Next, HookStep, Chdir, Register, Allow, Deny, Drop,
     FlushStopped, FlushClaimed, FlushAll, vars, routerVars, flushVars, TypeInv, TypeOK
<1>3. c \in allowed' => c \in allowed \/ hook[c] = "registered"
  BY ConsumeFrame, AccessFrame DEF Next, HookStep, Chdir, Register, Allow, Deny, Drop,
     FlushStopped, FlushClaimed, FlushAll, vars
<1>4. /\ EntryAhead(c, Len(ring) + 1) => EntryAhead(c, Len(ring) + 1)'
      /\ EntryOnRing(c)'
  BY <1>1, EntryAheadKept
<1>5. EntryOnHand(c)'
  BY EntryStays DEF EntryOnHand
<1>6. c \in execSeen' => EntrySafe(c)'
  BY EntryStays
<1>7. QED
  BY <1>2, <1>3, <1>4, <1>5, <1>6

\* A process accesses a file; its first access is its entrypoint.
LEMMA EntryAccess ==
    ASSUME TypeInv, WindowInv, [Next]_vars, NEW c \in Containers \ Synced, EntryOK(c),
           NEW e \in Event, Access(e)
    PROVE  EntryOK(c)'
<1> USE DEF routerVars, flushVars
<1>1. /\ UNCHANGED <<hook, allowed, hand, execSeen>>
      /\ e.ctr \in Containers /\ e.path \in Paths
      /\ e.path = Entrypoint => ~e.rel
      /\ e.ctr = c => hook[c] = "running" /\ ((accessed[c] = {}) <=> (e.path = Entrypoint))
      /\ e.ctr # c => accessed'[c] = accessed[c]
  BY DEF Access, Alive, Event, TypeInv, TypeOK
<1>2. EntryInHand(c) => EntryInHand(c)'
  BY <1>1 DEF EntryInHand
<1>3. EntryOnHand(c)' /\ (c \in execSeen' => EntrySafe(c)')
  BY <1>1, EntryStays DEF EntryOK, EntryOnHand
<1>4. hook'[c] \in {"none", "registered"} => accessed'[c] = {}
  BY <1>1 DEF EntryOK
<1>5. CASE ring' = ring
  <2>1. CASE e.ctr = c /\ c \in allowed /\ accessed[c] = {}
    <3>1. \E stage \in BPFStages : Count(c, stage, Entrypoint)
      <4>1. ring' # Append(ring, e)
        <5>1. Len(ring') # Len(ring) + 1
          BY <1>5 DEF TypeInv, TypeOK
        <5>2. QED
          BY <5>1, Appended DEF TypeInv, TypeOK
      <4>2. QED
        BY <1>1, <2>1, <4>1 DEF Access, Emit, BPFStages
    <3>2. EntrySafe(c)'
      <4>1. PICK stage \in BPFStages : Count(c, stage, Entrypoint)
        BY <3>1
      <4>2. stage \in Stages /\ stage \in Fates
        BY DEF Fates, Stages
      <4>3. /\ missed \in [Containers -> [Fates -> SUBSET Paths]]
            /\ counters \in [Stages -> Nat]
        BY DEF TypeInv, TypeOK, Fates
      <4>4. Entrypoint \in missed'[c][stage]
        BY <1>1, <2>1, <4>1, <4>2, <4>3, Counted
      <4>5. QED
        BY <4>2, <4>4 DEF EntrySafe
    <3>3. EntryAhead(c, Len(ring) + 1)'
      BY <3>2 DEF EntryAhead, EntrySettled
    <3>4. EntryOnRing(c)'
      BY <1>2, <1>5, EntryAheadKept DEF EntryOK
    <3>5. QED
      BY <1>3, <1>4, <3>3, <3>4 DEF EntryOK
  <2>2. CASE ~(e.ctr = c /\ c \in allowed /\ accessed[c] = {})
    <3>1. c \in allowed /\ accessed'[c] # {} => EntryAhead(c, Len(ring) + 1)
      BY <1>1, <2>2 DEF EntryOK
    <3>2. /\ EntryAhead(c, Len(ring) + 1) => EntryAhead(c, Len(ring) + 1)'
          /\ EntryOnRing(c)'
      BY <1>2, <1>5, EntryAheadKept DEF EntryOK
    <3>3. QED
      BY <1>1, <1>3, <1>4, <3>1, <3>2 DEF EntryOK
  <2>3. QED
    BY <2>1, <2>2
<1>6. CASE e.ctr \in allowed /\ ring' = Append(ring, e)
  <2>1. /\ Len(ring') = Len(ring) + 1 /\ Len(ring) \in Nat
        /\ ring'[Len(ring) + 1] = e
        /\ \A i \in 1 .. Len(ring) : ring'[i] = ring[i]
    BY <1>6, Appended DEF TypeInv, TypeOK
  <2>2. ASSUME NEW i PROVE EntryAhead(c, i) => EntryAhead(c, i)'
    <3>1. EntryBefore(c, i) => EntryBefore(c, i)'
      BY <2>1 DEF EntryBefore
    <3>2. QED
      BY <1>2, <3>1, EntryStays DEF EntryAhead
  <2>3. e.ctr = c /\ e.path # Entrypoint => EntryAhead(c, Len(ring) + 1)
    BY <1>1, <1>6 DEF EntryOK
  <2>4. EntryOnRing(c)'
    <3> SUFFICES ASSUME NEW i \in 1 .. Len(ring'), ring'[i].ctr = c
                 PROVE  IF ring'[i].path = Entrypoint THEN ~ring'[i].rel ELSE EntryAhead(c, i)'
      BY DEF EntryOnRing
    <3>1. CASE i \in 1 .. Len(ring)
      BY <2>1, <2>2, <3>1 DEF EntryOK, EntryOnRing
    <3>2. CASE i = Len(ring) + 1
      BY <1>1, <2>1, <2>2, <2>3, <3>2
    <3>3. QED
      BY <2>1, <3>1, <3>2
  <2>5. c \in allowed' /\ accessed'[c] # {} => EntryAhead(c, Len(ring) + 1)'
    <3> SUFFICES ASSUME c \in allowed, accessed'[c] # {}
                 PROVE  EntryAhead(c, Len(ring) + 1)'
      BY <1>1
    <3>1. CASE e.ctr = c /\ e.path = Entrypoint
      <4>1. EntryBefore(c, Len(ring) + 1)'
        BY <2>1, <3>1 DEF EntryBefore
      <4>2. QED
        BY <4>1 DEF EntryAhead
    <3>2. CASE ~(e.ctr = c /\ e.path = Entrypoint)
      <4>1. EntryAhead(c, Len(ring) + 1)
        BY <1>1, <3>2 DEF EntryOK
      <4>2. EntryBefore(c, Len(ring) + 1) => EntryBefore(c, Len(ring) + 1)'
        BY <2>1 DEF EntryBefore
      <4>3. QED
        BY <1>2, <4>1, <4>2, EntryStays DEF EntryAhead
    <3>3. QED
      BY <3>1, <3>2
  <2>6. QED
    BY <1>3, <1>4, <2>4, <2>5 DEF EntryOK
<1>7. QED
  BY <1>5, <1>6 DEF Access, Emit

\* The consumer takes the first event of the ring buffer.
LEMMA EntryRead ==
    ASSUME TypeInv, WindowInv, [Next]_vars, NEW c \in Containers \ Synced, EntryOK(c),
           ConsumerRead
    PROVE  EntryOK(c)'
<1> USE DEF routerVars, flushVars, truthVars
<1>1. /\ UNCHANGED <<hook, allowed, accessed, execSeen>>
      /\ hand = {} /\ ring # <<>> /\ ring' = Tail(ring)
  BY DEF ConsumerRead
<1>2. /\ Len(ring) \in Nat \ {0} /\ Len(ring') = Len(ring) - 1
      /\ Head(ring) = ring[1] /\ ring[1] \in Event
      /\ \A i \in 1 .. Len(ring') : ring'[i] = ring[i + 1]
  BY <1>1, Consumed DEF TypeInv, TypeOK
<1>3. ring[1].ctr = c =>
         IF ring[1].path = Entrypoint THEN ~ring[1].rel ELSE EntrySettled(c)
  BY <1>1, <1>2 DEF EntryOK, EntryOnRing, EntryAhead, EntryInHand, EntryBefore
<1>4. ring[1].ctr = c /\ ring[1].path = Entrypoint => EntryInHand(c)' \/ EntrySettled(c)'
  <2>1. CASE hand' = {[event |-> Head(ring), at |-> "handle"]}
    BY <1>2, <2>1 DEF EntryInHand
  <2>2. CASE Count(Head(ring).ctr, "decode_failed", Head(ring).path)
    <3>1. /\ missed \in [Containers -> [Fates -> SUBSET Paths]]
          /\ counters \in [Stages -> Nat]
          /\ "decode_failed" \in Stages /\ "decode_failed" \in Fates
      BY DEF TypeInv, TypeOK, Fates, Stages, Hard
    <3>2. ring[1].path \in missed'[ring[1].ctr]["decode_failed"]
      BY <1>2, <2>2, <3>1, Counted DEF Event
    <3>3. QED
      BY <3>1, <3>2 DEF EntrySettled, EntrySafe
  <2>3. QED
    BY <2>1, <2>2 DEF ConsumerRead
<1>5. ASSUME NEW i \in Nat, EntryAhead(c, i + 1) PROVE EntryAhead(c, i)'
  <2>1. CASE EntrySettled(c)
    BY <2>1, EntryStays DEF EntryAhead
  <2>2. CASE EntryBefore(c, i + 1)
    <3>1. PICK j \in 1 .. Len(ring) : j < i + 1 /\ ring[j].ctr = c /\ ring[j].path = Entrypoint
      BY <2>2 DEF EntryBefore
    <3>2. CASE j = 1
      BY <1>4, <3>1, <3>2 DEF EntryAhead
    <3>3. CASE j # 1
      <4>1. j - 1 \in 1 .. Len(ring') /\ j - 1 < i /\ ring'[j - 1] = ring[j]
        BY <1>2, <3>1, <3>3
      <4>2. EntryBefore(c, i)'
        BY <3>1, <4>1 DEF EntryBefore
      <4>3. QED
        BY <4>2 DEF EntryAhead
    <3>4. QED
      BY <3>2, <3>3
  <2>3. QED
    BY <1>1, <1>5, <2>1, <2>2 DEF EntryAhead, EntryInHand
<1>6. c \in allowed' /\ accessed'[c] # {} => EntryAhead(c, Len(ring) + 1)'
  <2> SUFFICES ASSUME c \in allowed, accessed[c] # {}
               PROVE  EntryAhead(c, Len(ring) + 1)'
    BY <1>1
  <2>1. PICK k \in Nat : k = Len(ring) /\ k = Len(ring') + 1
    BY <1>2
  <2>2. EntryAhead(c, k + 1)
    BY <2>1 DEF EntryOK
  <2>3. EntryAhead(c, k)'
    BY <1>5, <2>2
  <2>4. QED
    BY <2>1, <2>3 DEF EntryAhead, EntryBefore
<1>7. EntryOnRing(c)'
  <2> SUFFICES ASSUME NEW i \in 1 .. Len(ring'), ring'[i].ctr = c
               PROVE  IF ring'[i].path = Entrypoint THEN ~ring'[i].rel ELSE EntryAhead(c, i)'
    BY DEF EntryOnRing
  <2>1. ring'[i] = ring[i + 1] /\ i + 1 \in 1 .. Len(ring) /\ i \in Nat
    BY <1>2
  <2>2. QED
    BY <1>5, <2>1 DEF EntryOK, EntryOnRing
<1>8. EntryOnHand(c)'
  <2>1. \A h \in hand' : h.event = ring[1] /\ h.at = "handle"
    BY <1>1, <1>2 DEF ConsumerRead
  <2>2. QED
    BY <1>3, <2>1, EntryStays DEF EntryOnHand
<1>9. QED
  BY <1>1, <1>6, <1>7, <1>8, EntryStays DEF EntryOK

\* The consumer handles the event it has in hand: the entrypoint goes on, is
\* recorded, is counted as lost, or finds its aggregator gone.
LEMMA EntryHandled ==
    ASSUME TypeInv, WindowInv, [Next]_vars, NEW c \in Containers \ Synced, EntryOK(c),
           NEW h \in hand, Handle(h) \/ HandlePath(h) \/ HandleRecord(h)
    PROVE  EntryOK(c)'
<1> USE DEF routerVars, flushVars, truthVars
<1>1. /\ UNCHANGED <<hook, allowed, ring, accessed, tracked>>
      /\ hand = {h} /\ h \in InHand /\ h.event \in Event
  BY DEF Handle, HandlePath, HandleRecord, TypeInv, InHand
<1>2. h.event.ctr = c => hook[c] # "none"
  BY <1>1 DEF WindowInv, NothingPending
<1>3. h.event.ctr = c => /\ h.event.path # Entrypoint =>
                              IF h.at = "record" THEN EntrySafe(c) ELSE EntrySettled(c)
                         /\ h.event.path = Entrypoint /\ h.at # "record" => ~h.event.rel
  BY DEF EntryOK, EntryOnHand
<1>4. ASSUME EntryInHand(c) => EntryInHand(c)' \/ EntrySettled(c)', EntryOnHand(c)',
             c \in execSeen' => EntrySafe(c)'
      PROVE  EntryOK(c)'
  BY <1>1, <1>4, EntryAheadKept DEF EntryOK
<1>5. CASE Handle(h)
  <2>1. execSeen' = execSeen
    BY <1>5 DEF Handle
  <2>2. CASE Count(h.event.ctr, "untracked_cgroup", h.event.path) /\ hand' = {}
    <3>1. EntryInHand(c) => EntrySafe(c)'
      <4> SUFFICES ASSUME h.event.ctr = c, h.event.path = Entrypoint PROVE EntrySafe(c)'
        BY <1>1 DEF EntryInHand
      <4>1. /\ missed \in [Containers -> [Fates -> SUBSET Paths]]
            /\ counters \in [Stages -> Nat]
            /\ "untracked_cgroup" \in Stages /\ "untracked_cgroup" \in Fates
        BY DEF TypeInv, TypeOK, Fates, Stages, Hard
      <4>2. Entrypoint \in missed'[c]["untracked_cgroup"]
        BY <1>1, <2>2, <4>1, Counted DEF Event
      <4>3. QED
        BY <4>1, <4>2 DEF EntrySafe
    <3>2. EntryOnHand(c)'
      BY <2>2 DEF EntryOnHand
    <3>3. QED
      BY <1>4, <2>1, <3>1, <3>2, EntryStays DEF EntryOK, EntrySettled
  <2>3. CASE hand' = {[h EXCEPT !.at = "path"]} /\ h.at = "handle"
    <3>1. [h EXCEPT !.at = "path"].event = h.event /\ [h EXCEPT !.at = "path"].at = "path"
      BY <1>1 DEF InHand
    <3>2. EntryInHand(c) => EntryInHand(c)'
      BY <1>1, <2>3, <3>1 DEF EntryInHand
    <3>3. EntryOnHand(c)'
      BY <1>3, <2>3, <3>1, EntryStays DEF EntryOnHand
    <3>4. QED
      BY <1>4, <2>1, <3>2, <3>3, EntryStays DEF EntryOK
  <2>4. QED
    BY <1>5, <2>2, <2>3 DEF Handle, Done
<1>6. CASE HandlePath(h)
  <2>1. execSeen' = execSeen /\ h.at = "path"
    BY <1>6 DEF HandlePath
  <2>2. ASSUME h.event.ctr \in tracked, NEW p \in ResolvedPath(h.event),
               hand' = {[event |-> [h.event EXCEPT !.path = p], at |-> "record"]}
        PROVE  EntryOK(c)'
    <3> DEFINE e == [h.event EXCEPT !.path = p]
    <3>1. /\ e.ctr = h.event.ctr /\ e.path = p
          /\ ~h.event.rel => p = h.event.path
      BY <1>1, ResolvedPathType DEF Event, TypeInv
    <3>2. EntryInHand(c) => EntryInHand(c)'
      BY <1>1, <1>3, <2>1, <2>2, <3>1 DEF EntryInHand
    <3>3. h.event.ctr = c /\ p # Entrypoint => EntrySafe(c)
      BY <1>3, <2>1, <2>2, <3>1 DEF EntrySettled
    <3>4. EntryOnHand(c)'
      <4>1. \A g \in hand' : g.event = e /\ g.at = "record"
        BY <2>2
      <4> HIDE DEF e
      <4>2. QED
        BY <3>1, <3>3, <4>1, EntryStays DEF EntryOnHand
    <3>5. QED
      BY <1>4, <2>1, <3>2, <3>4, EntryStays DEF EntryOK
  <2>3. CASE (ResolvedPath(h.event) = {} \/ h.event.ctr \notin tracked) /\ hand' = {}
    <3>1. EntryInHand(c) => EntrySettled(c)
      <4> SUFFICES ASSUME h.event.ctr = c, h.event.path = Entrypoint PROVE EntrySettled(c)
        BY <1>1 DEF EntryInHand
      <4>1. ResolvedPath(h.event) # {}
        <5>1. Entrypoint[1] \notin Denied
          BY EventPathAssumption
        <5>2. QED
          BY <1>3, <2>1, <5>1 DEF ResolvedPath
      <4>2. QED
        BY <1>2, <2>3, <4>1 DEF EntrySettled
    <3>2. EntryOnHand(c)'
      BY <2>3 DEF EntryOnHand
    <3>3. QED
      BY <1>4, <2>1, <3>1, <3>2, EntryStays DEF EntryOK
  <2>4. QED
    BY <1>6, <2>2, <2>3 DEF HandlePath, Done
<1>7. CASE HandleRecord(h)
  <2>1. hand' = {} /\ h.at = "record"
    BY <1>7 DEF HandleRecord, Done
  <2>2. h.event.ctr = c /\ h.event.path = Entrypoint => EntrySafe(c)'
    BY <1>7 DEF HandleRecord, EntrySafe, TypeInv, TypeOK
  <2>3. EntryInHand(c) => EntrySettled(c)'
    BY <1>1, <2>2 DEF EntryInHand, EntrySettled
  <2>4. c \in execSeen' => EntrySafe(c)'
    <3>1. c \in execSeen' => c \in execSeen \/ h.event.ctr = c
      BY <1>7 DEF HandleRecord
    <3>2. QED
      BY <1>3, <2>1, <2>2, <3>1, EntryStays DEF EntryOK
  <2>5. EntryOnHand(c)'
    BY <2>1 DEF EntryOnHand
  <2>6. QED
    BY <1>4, <2>3, <2>4, <2>5
<1>8. QED
  BY <1>5, <1>6, <1>7

LEMMA EntryInit == Init => EntryInv
  BY DEF Init, EntryInv, EntryOnRing, EntryOnHand

LEMMA EntryStep == TypeInv /\ WindowInv /\ EntryInv /\ [Next]_vars => EntryInv'
<1> SUFFICES ASSUME TypeInv, WindowInv, EntryInv, [Next]_vars, NEW c \in Containers \ Synced
             PROVE  EntryOK(c)'
  BY DEF EntryInv, EntryOK
<1>1. EntryOK(c)
  BY DEF EntryInv, EntryOK
<1>2. ASSUME NEW e \in Event, Access(e) PROVE EntryOK(c)'
  BY <1>1, <1>2, EntryAccess
<1>3. CASE ConsumerRead
  BY <1>1, <1>3, EntryRead
<1>4. ASSUME NEW h \in hand, Handle(h) \/ HandlePath(h) \/ HandleRecord(h)
      PROVE  EntryOK(c)'
  BY <1>1, <1>4, EntryHandled
<1>5. CASE UNCHANGED <<ring, hand, files, execSeen, accessed>>
  BY <1>1, <1>5, EntryHooks
<1>6. QED
  BY <1>2, <1>3, <1>4, <1>5 DEF Next, Consume, HookStep, Chdir, Register, Allow, Deny, Drop,
     FlushStopped, FlushClaimed, FlushAll, vars, routerVars, flushVars, truthVars

LEMMA EntryInvariant == Spec => [](TypeInv /\ WindowInv /\ LossInv /\ EntryInv)
<1>1. TypeInv /\ WindowInv /\ EntryInv /\ [Next]_vars => EntryInv'
  BY EntryStep
<1>2. QED
  BY <1>1, EntryInit, LossInvariant, PTL DEF Spec

\* A snapshot that is clean has lost nothing of its container.
LEMMA CleanLostNothing ==
    ASSUME TypeInv, LossInv, NEW c \in Containers, NEW m, Reports(m, c), Clean(m),
           NEW s \in Stages
    PROVE  missed[c][s] = {}
<1>1. /\ IsFiniteSet(missed[c][s])
      /\ Cardinality(missed[c][s]) \in Nat
      /\ counters[s] \in Nat /\ baseline[c][s] \in Nat
      /\ Cardinality(missed[c][s]) + baseline[c][s] <= counters[s]
  BY FS_CardinalityType DEF LossInv, TypeInv, TypeOK
<1>2. m.byStage[s] = 0
      /\ m.byStage[s] = IF counters[s] > baseline[c][s] THEN counters[s] - baseline[c][s] ELSE 0
  BY DEF Clean, Reports
<1>3. Cardinality(missed[c][s]) = 0
  BY <1>1, <1>2
<1>4. QED
  BY <1>1, <1>3, FS_EmptySet

\* StartMarkerSound: a clean profile that says it saw the process start holds the
\* container's entrypoint, whatever execs came later, and however registration,
\* the consumer, the stop hook and SIGTERM interleave.
THEOREM StartMarkerSoundHolds == Spec => []StartMarkerSound
<1>1. Init => StartMarkerSound
  BY DEF Init, StartMarkerSound
<1>2. TypeInv /\ LossInv /\ EntryInv /\ StartMarkerSound /\ [Next]_vars => StartMarkerSound'
  <2> SUFFICES ASSUME TypeInv, LossInv, EntryInv, StartMarkerSound, [Next]_vars,
                      NEW m \in profiles', m.startObserved, Clean(m)
               PROVE  Entrypoint \in m.files
    BY DEF StartMarkerSound, Clean
  <2>1. CASE m \in profiles
    BY <2>1 DEF StartMarkerSound
  <2>2. ASSUME NEW c \in Containers, Reports(m, c) PROVE Entrypoint \in m.files
    <3>1. c \notin Synced /\ c \in execSeen /\ m.files = files[c]
      BY <2>2 DEF Reports
    <3>2. \A s \in Stages : missed[c][s] = {}
      BY <2>2, CleanLostNothing
    <3>3. QED
      BY <3>1, <3>2 DEF EntryInv, EntrySafe
  <2>3. QED
    BY <2>1, <2>2, ProfilesGrow
<1>3. QED
  BY <1>1, <1>2, EntryInvariant, PTL DEF Spec

-----------------------------------------------------------------------------
(***************************************************************************)
(* Complete profiles.                                                      *)
(***************************************************************************)

\* The map that is big enough for every container is never full.
LEMMA MapHasRoom ==
    ASSUME NEW S \in SUBSET Containers, NEW c \in Containers \ S, ~MapTooSmall
    PROVE  Cardinality(S) < MapEntries
<1>1. IsFiniteSet(Containers) /\ Cardinality(Containers) <= MapEntries
  BY DEF MapTooSmall
<1>2. /\ IsFiniteSet(Containers \ {c})
      /\ Cardinality(Containers \ {c}) = Cardinality(Containers) - 1
  BY <1>1, FS_RemoveElement
<1>3. S \in SUBSET (Containers \ {c})
  OBVIOUS
<1>4. Cardinality(S) <= Cardinality(Containers \ {c}) /\ Cardinality(S) \in Nat
  BY <1>2, <1>3, FS_Subset, FS_CardinalityType
<1>5. Cardinality(Containers) \in Nat /\ MapEntries \in Nat
  BY <1>1, FS_CardinalityType, EventPathAssumption
<1>6. QED
  BY <1>1, <1>2, <1>4, <1>5

\* A first exec is recorded of a container that has events on their way.
LEMMA ExecSeenFrom ==
    ASSUME TypeInv, [Next]_vars, NEW c \in Containers, NothingPending(c)
    PROVE  c \in execSeen' => c \in execSeen
<1>1. CASE UNCHANGED execSeen
  BY <1>1
<1>2. ASSUME NEW h \in hand, HandleRecord(h) PROVE c \in execSeen' => c \in execSeen
  BY <1>2 DEF HandleRecord, NothingPending
<1>3. QED
  BY <1>1, <1>2, AccessFrame DEF Next, HookStep, Consume, Chdir, Register, Allow, Deny, Drop,
     FlushStopped, FlushClaimed, FlushAll, vars, ConsumerRead, Handle, HandlePath, routerVars

LEMMA SilentStays ==
    ASSUME TypeInv, [Next]_vars, NEW c \in Containers, Silent(c), c \notin allowed'
    PROVE  Silent(c)'
  BY NothingNewPending, ExecSeenFrom DEF Silent

LEMMA WatchedInit == Init => WatchedInv
  BY DEF Init, WatchedInv

LEMMA WatchedStep == TypeInv /\ WindowInv /\ WatchedInv /\ [Next]_vars => WatchedInv'
<1> SUFFICES ASSUME TypeInv, WindowInv, WatchedInv, [Next]_vars, NEW c \in Containers
             PROVE  /\ hook'[c] \in {"none", "registered"} => c \notin execSeen'
                    /\ c \in tracked' \ allowed' /\ hook'[c] = "running"
                         => MapTooSmall /\ Silent(c)'
  BY DEF WatchedInv
<1> USE DEF routerVars, flushVars
<1>1. hook'[c] \in {"none", "registered"} => c \notin execSeen'
  <2>1. hook'[c] \in {"none", "registered"} => hook[c] \in {"none", "registered"}
    BY ConsumeFrame, AccessFrame DEF Next, HookStep, Chdir, Register, Allow, Deny, Drop,
       FlushStopped, FlushClaimed, FlushAll, vars, TypeInv, TypeOK
  <2>2. QED
    BY <2>1, ExecSeenFrom DEF WatchedInv, WindowInv
<1>2. CASE Allow(c)
  <2>1. /\ c \notin allowed /\ NothingPending(c) /\ c \notin execSeen
        /\ allowed \in SUBSET Containers
    BY <1>2 DEF Allow, WindowInv, WatchedInv, TypeInv, TypeOK
  <2>2. c \notin allowed' => MapTooSmall
    BY <1>2, <2>1, MapHasRoom DEF Allow
  <2>3. c \notin allowed' => Silent(c)'
    BY <1>2, <2>1 DEF Allow, Silent, NothingPending
  <2>4. QED
    BY <1>1, <2>2, <2>3
<1>3. CASE ~Allow(c)
  <2>1. c \in tracked' \ allowed' /\ hook'[c] = "running"
          => c \in tracked \ allowed /\ hook[c] = "running"
    <3>1. CASE Consume \/ \E e \in Event : Access(e)
      BY <3>1, ConsumeFrame, AccessFrame
    <3>2. ASSUME NEW d \in Containers, HookStep(d) PROVE <2>1
      BY <1>3, <3>2 DEF HookStep, Register, Allow, Deny, Drop, FlushStopped, TypeInv, TypeOK
    <3>3. QED
      BY <3>1, <3>2 DEF Next, Chdir, FlushClaimed, FlushAll, vars
  <2>2. QED
    BY <1>1, <2>1, SilentStays DEF WatchedInv
<1>4. QED
  BY <1>2, <1>3

\* An aggregator that is left behind stays so.
LEMMA LeftBehindStays ==
    ASSUME TypeInv, [Next]_vars, NEW c \in Containers, LeftBehind(c)
    PROVE  LeftBehind(c)'
<1> USE DEF routerVars, flushVars
<1>1. CASE Consume \/ \E e \in Event : Access(e)
  BY <1>1, ConsumeFrame, AccessFrame DEF LeftBehind
<1>2. ASSUME NEW d \in Containers, HookStep(d) PROVE LeftBehind(c)'
  BY <1>2, ZenonT(40) DEF HookStep, Register, Allow, Deny, Drop, FlushStopped, TypeInv, TypeOK, LeftBehind
<1>3. QED
  BY <1>1, <1>2 DEF Next, Chdir, FlushClaimed, FlushAll, vars, LeftBehind

\* An event that leaves the ring buffer is in hand, or was counted.
LEMMA ReadAccounted ==
    ASSUME TypeInv, WindowInv, [Next]_vars, NEW c \in Containers, NEW p,
           ConsumerRead, OnItsWay(c, p)
    PROVE  OnItsWay(c, p)' \/ \E s \in Stages : p \in missed'[c][s]
<1>1. hand = {} /\ ring # <<>> /\ ring' = Tail(ring)
  BY DEF ConsumerRead
<1>2. /\ Len(ring) \in Nat \ {0} /\ Len(ring') = Len(ring) - 1
      /\ Head(ring) = ring[1] /\ ring[1] \in Event
      /\ \A i \in 1 .. Len(ring') : ring'[i] = ring[i + 1]
  BY <1>1, Consumed DEF TypeInv, TypeOK
<1>3. PICK i \in 1 .. Len(ring) : ring[i].ctr = c /\ ring[i].path = p
  BY <1>1 DEF OnItsWay
<1>4. CASE i # 1
  <2>1. i - 1 \in 1 .. Len(ring') /\ ring'[i - 1] = ring[i]
    BY <1>2, <1>3, <1>4
  <2>2. QED
    BY <1>3, <2>1 DEF OnItsWay
<1>5. CASE i = 1
  <2>1. CASE hand' = {[event |-> Head(ring), at |-> "handle"]}
    BY <1>2, <1>3, <1>5, <2>1 DEF OnItsWay
  <2>2. CASE Count(Head(ring).ctr, "decode_failed", Head(ring).path)
    <3>1. /\ missed \in [Containers -> [Fates -> SUBSET Paths]]
          /\ counters \in [Stages -> Nat]
          /\ "decode_failed" \in Stages /\ "decode_failed" \in Fates
      BY DEF TypeInv, TypeOK, Fates, Stages, Hard
    <3>2. p \in missed'[c]["decode_failed"]
      BY <1>2, <1>3, <1>5, <2>2, <3>1, Counted DEF Event
    <3>3. QED
      BY <3>1, <3>2
  <2>3. QED
    BY <2>1, <2>2 DEF ConsumerRead
<1>6. QED
  BY <1>4, <1>5

\* The event in hand goes on, is recorded or counted; when it is not, the
\* aggregator has been left behind.
LEMMA HandAccounted ==
    ASSUME TypeInv, WindowInv, CompleteInv, [Next]_vars,
           NEW c \in Containers, NEW p \in Paths, p[1] \notin Denied,
           NEW h \in hand, h.event.ctr = c, h.event.path = p,
           Handle(h) \/ HandlePath(h) \/ HandleRecord(h)
    PROVE  Accounted(c, p)'
<1>1. hand = {h} /\ h \in InHand /\ h.event \in Event /\ ~h.event.rel
  BY DEF TypeInv, InHand, CompleteInv
<1>2. ~NothingPending(c)
  BY DEF NothingPending
<1>3. CASE Handle(h)
  <2>1. CASE Count(c, "untracked_cgroup", p)
    <3>1. /\ missed \in [Containers -> [Fates -> SUBSET Paths]]
          /\ counters \in [Stages -> Nat]
          /\ "untracked_cgroup" \in Stages /\ "untracked_cgroup" \in Fates
      BY DEF TypeInv, TypeOK, Fates, Stages, Hard
    <3>2. p \in missed'[c]["untracked_cgroup"]
      BY <2>1, <3>1, Counted
    <3>3. QED
      BY <3>1, <3>2 DEF Accounted
  <2>2. CASE hand' = {[h EXCEPT !.at = "path"]}
    <3>1. [h EXCEPT !.at = "path"].event = h.event
      BY <1>1 DEF InHand
    <3>2. QED
      BY <2>2, <3>1 DEF OnItsWay, Accounted
  <2>3. QED
    BY <1>3, <2>1, <2>2 DEF Handle
<1>4. CASE HandlePath(h)
  <2>1. CASE c \in tracked
    <3>1. ResolvedPath(h.event) = {p}
      BY <1>1 DEF ResolvedPath
    <3>2. hand' = {[event |-> [h.event EXCEPT !.path = p], at |-> "record"]}
      BY <1>4, <2>1, <3>1 DEF HandlePath
    <3>3. /\ [h.event EXCEPT !.path = p].ctr = c
          /\ [h.event EXCEPT !.path = p].path = p
      BY <1>1 DEF Event
    <3>4. QED
      BY <3>2, <3>3 DEF OnItsWay, Accounted
  <2>2. CASE c \notin tracked
    <3>1. LeftBehind(c)
      BY <1>2, <2>2 DEF LeftBehind, WindowInv, CompleteInv, TypeInv, TypeOK
    <3>2. QED
      BY <3>1, LeftBehindStays DEF Accounted
  <2>3. QED
    BY <2>1, <2>2
<1>5. CASE HandleRecord(h)
  BY <1>5 DEF HandleRecord, Accounted, TypeInv, TypeOK
<1>6. QED
  BY <1>3, <1>4, <1>5

LEMMA AccountedStays ==
    ASSUME TypeInv, WindowInv, CompleteInv, [Next]_vars,
           NEW c \in Containers, NEW p \in Paths, p[1] \notin Denied, Accounted(c, p)
    PROVE  Accounted(c, p)'
<1>1. CASE p \in files[c] \/ \E s \in Stages : p \in missed[c][s]
  BY <1>1, Grows DEF Accounted, Fates
<1>2. CASE LeftBehind(c)
  BY <1>2, LeftBehindStays DEF Accounted
<1>3. CASE OnItsWay(c, p)
  <2>1. CASE UNCHANGED <<ring, hand>>
    BY <1>3, <2>1 DEF OnItsWay, Accounted
  <2>2. CASE ConsumerRead
    BY <1>3, <2>2, ReadAccounted DEF Accounted
  <2>3. ASSUME NEW h \in hand, Handle(h) \/ HandlePath(h) \/ HandleRecord(h)
        PROVE  Accounted(c, p)'
    <3>1. CASE h.event.ctr = c /\ h.event.path = p
      BY <2>3, <3>1, HandAccounted
    <3>2. CASE ~(h.event.ctr = c /\ h.event.path = p)
      <4>1. hand = {h} /\ ring' = ring
        BY <2>3 DEF TypeInv, Handle, HandlePath, HandleRecord
      <4>2. QED
        BY <1>3, <3>2, <4>1 DEF OnItsWay, Accounted
    <3>3. QED
      BY <3>1, <3>2
  <2>4. ASSUME NEW e \in Event, Access(e), ring' = Append(ring, e) PROVE Accounted(c, p)'
    <3>1. /\ Len(ring') = Len(ring) + 1 /\ Len(ring) \in Nat
          /\ \A i \in 1 .. Len(ring) : ring'[i] = ring[i]
          /\ hand' = hand
      BY <2>4, Appended DEF Access, TypeInv, TypeOK
    <3>2. QED
      BY <1>3, <3>1 DEF OnItsWay, Accounted
  <2>5. QED
    BY <2>1, <2>2, <2>3, <2>4 DEF Next, HookStep, Consume, Access, Emit, Chdir, Register, Allow,
       Deny, Drop, FlushStopped, FlushClaimed, FlushAll, vars
<1>4. QED
  BY <1>1, <1>2, <1>3 DEF Accounted

\* A container that was drained stays so: its cgroup is no longer allowed.
LEMMA DrainedStays ==
    ASSUME TypeInv, WindowInv, CompleteInv, [Next]_vars, NEW c \in drained'
    PROVE  hook'[c] \in {"dropped", "flushed"} /\ NothingPending(c)'
<1> USE DEF flushVars
<1>1. CASE c \in drained
  <2>1. /\ c \in Containers /\ hook[c] \in {"dropped", "flushed"} /\ NothingPending(c)
        /\ c \notin allowed
    BY <1>1 DEF CompleteInv, TypeInv, TypeOK, WindowInv
  <2>2. QED
    BY <2>1, Progress, NothingNewPending
<1>2. CASE c \notin drained
  <2>1. c \in Containers /\ Drop(c) /\ NothingPending(c)
    BY <1>2, ConsumeFrame, AccessFrame DEF Next, HookStep, Chdir, Register, Allow, Deny, Drop,
       FlushStopped, FlushClaimed, FlushAll, vars
  <2>2. QED
    BY <2>1 DEF Drop, NothingPending, TypeInv, TypeOK
<1>3. QED
  BY <1>1, <1>2

\* Without relative opens no event on its way is relative.
LEMMA NoRelativeEvents ==
    ASSUME ~Relative, TypeInv, CompleteInv, [Next]_vars
    PROVE  /\ \A i \in 1 .. Len(ring') : ~ring'[i].rel
           /\ \A h \in hand' : ~h.event.rel
<1> DEFINE Goal == /\ \A i \in 1 .. Len(ring') : ~ring'[i].rel
                   /\ \A h \in hand' : ~h.event.rel
<1>1. CASE UNCHANGED <<ring, hand>>
  BY <1>1 DEF CompleteInv
<1>2. ASSUME NEW e \in Event, Access(e), ring' = Append(ring, e) PROVE Goal
  <2>1. /\ Len(ring') = Len(ring) + 1 /\ Len(ring) \in Nat
        /\ ring'[Len(ring) + 1] = e /\ ~e.rel
        /\ \A i \in 1 .. Len(ring) : ring'[i] = ring[i]
        /\ hand' = hand
    BY <1>2, Appended DEF Access, TypeInv, TypeOK
  <2>2. QED
    BY <2>1 DEF CompleteInv
<1>3. CASE ConsumerRead
  <2>1. /\ hand = {} /\ ring' = Tail(ring)
        /\ Len(ring) \in Nat \ {0} /\ Len(ring') = Len(ring) - 1
        /\ Head(ring) = ring[1]
        /\ \A i \in 1 .. Len(ring') : ring'[i] = ring[i + 1]
    BY <1>3, Consumed DEF ConsumerRead, TypeInv, TypeOK
  <2>2. \A h \in hand' : h.event = ring[1]
    BY <1>3, <2>1 DEF ConsumerRead
  <2>3. QED
    BY <2>1, <2>2 DEF CompleteInv
<1>4. ASSUME NEW h \in hand, Handle(h) \/ HandlePath(h) \/ HandleRecord(h) PROVE Goal
  <2>1. ring' = ring /\ h \in InHand /\ h.event \in Event /\ ~h.event.rel
    BY <1>4 DEF Handle, HandlePath, HandleRecord, TypeInv, InHand, CompleteInv
  <2>2. \A g \in hand' : g.event.rel = h.event.rel
    BY <1>4, <2>1 DEF Handle, HandlePath, HandleRecord, Done, InHand, Event
  <2>3. QED
    BY <2>1, <2>2 DEF CompleteInv
<1>5. QED
  BY <1>1, <1>2, <1>3, <1>4 DEF Next, HookStep, Consume, Access, Emit, Chdir, Register, Allow,
     Deny, Drop, FlushStopped, FlushClaimed, FlushAll, vars

\* A file is accessed by a process that runs: its event goes into the ring
\* buffer or is counted, unless its cgroup is not allowed.
LEMMA AccessAccounted ==
    ASSUME TypeInv, WindowInv, WatchedInv, [Next]_vars,
           NEW e \in Event, Access(e), e.ctr \notin Synced
    PROVE  Accounted(e.ctr, e.path)' \/ (MapTooSmall /\ Silent(e.ctr)')
<1> DEFINE c == e.ctr
           p == e.path
<1>1. c \in Containers /\ p \in Paths /\ hook[c] = "running"
  BY DEF Event, Access, Alive
<1>2. UNCHANGED <<hook, allowed, tracked, hand>>
  BY AccessFrame DEF routerVars
<1>3. CASE c \in allowed /\ ring' = Append(ring, e)
  <2>1. Len(ring') = Len(ring) + 1 /\ Len(ring) \in Nat /\ ring'[Len(ring) + 1] = e
    BY <1>3, Appended DEF TypeInv, TypeOK
  <2>2. Len(ring) + 1 \in 1 .. Len(ring')
    BY <2>1
  <2>3. OnItsWay(c, p)'
    BY <2>1, <2>2 DEF OnItsWay
  <2>4. QED
    BY <2>3 DEF Accounted
<1>4. ASSUME NEW stage \in BPFStages, Count(c, stage, p) PROVE Accounted(c, p)'
  <2>1. /\ stage \in Stages /\ stage \in Fates
        /\ missed \in [Containers -> [Fates -> SUBSET Paths]]
        /\ counters \in [Stages -> Nat]
    BY DEF TypeInv, TypeOK, Fates, Stages
  <2>2. p \in missed'[c][stage]
    BY <1>1, <1>4, <2>1, Counted
  <2>3. QED
    BY <2>1, <2>2 DEF Accounted
<1>5. CASE c \notin allowed
  <2>1. CASE c \notin tracked
    BY <1>1, <1>2, <2>1 DEF LeftBehind, Accounted
  <2>2. CASE c \in tracked
    <3>1. MapTooSmall /\ Silent(c)
      BY <1>1, <1>5, <2>2 DEF WatchedInv
    <3>2. QED
      BY <1>1, <1>2, <1>5, <3>1, SilentStays
  <2>3. QED
    BY <2>1, <2>2
<1>6. QED
  BY <1>3, <1>4, <1>5 DEF Access, Emit, BPFStages

LEMMA ObservableAccounted ==
    ASSUME TypeInv, WindowInv, EntryInv, WatchedInv, CompleteInv, [Next]_vars,
           NEW c \in Containers \ Synced, NEW p \in Observable(c)'
    PROVE  Accounted(c, p)' \/ (MapTooSmall /\ Silent(c)')
<1>1. p \in accessed'[c] /\ p[1] \notin Denied
  BY DEF Observable
<1>2. CASE p \in accessed[c]
  <2>1. p \in Observable(c) /\ p \in Paths
    BY <1>1, <1>2 DEF Observable, TypeInv, TypeOK
  <2>2. CASE Accounted(c, p)
    BY <1>1, <2>1, <2>2, AccountedStays
  <2>3. CASE MapTooSmall /\ Silent(c)
    <3>1. c \notin allowed'
      <4>1. hook[c] # "registered" /\ c \notin allowed
        BY <1>2, <2>3 DEF EntryInv, Silent
      <4>2. QED
        BY <4>1, AccessFrame, ConsumeFrame DEF Next, HookStep, Chdir, Register, Allow, Deny, Drop,
           FlushStopped, FlushClaimed, FlushAll, vars
    <3>2. QED
      BY <2>3, <3>1, SilentStays
  <2>4. QED
    BY <2>1, <2>2, <2>3 DEF CompleteInv
<1>3. CASE p \notin accessed[c]
  <2>1. PICK e \in Event : Access(e) /\ e.ctr = c /\ e.path = p
    <3>1. accessed' # accessed
      BY <1>1, <1>3
    <3>2. \E e \in Event : Access(e)
      BY <3>1, ConsumeFrame DEF Next, HookStep, Chdir, Register, Allow, Deny, Drop,
         FlushStopped, FlushClaimed, FlushAll, vars, truthVars
    <3>3. PICK e \in Event : Access(e)
      BY <3>2
    <3>4. e.ctr = c /\ e.path = p
      BY <1>1, <1>3, <3>3 DEF Access, TypeInv, TypeOK
    <3>5. QED
      BY <3>3, <3>4
  <2>2. QED
    BY <2>1, AccessAccounted
<1>4. QED
  BY <1>2, <1>3

LEMMA CompleteInit == Init => CompleteInv
  BY DEF Init, CompleteInv, Observable

LEMMA CompleteStep ==
    ASSUME ~Relative
    PROVE  TypeInv /\ WindowInv /\ EntryInv /\ WatchedInv /\ CompleteInv /\ [Next]_vars
             => CompleteInv'
<1> SUFFICES ASSUME TypeInv, WindowInv, EntryInv, WatchedInv, CompleteInv, [Next]_vars
             PROVE  CompleteInv'
  OBVIOUS
<1>1. \A c \in Containers \ Synced : \A p \in Observable(c)' :
         Accounted(c, p)' \/ (MapTooSmall /\ Silent(c)')
  BY ObservableAccounted
<1>2. \A c \in drained' : hook'[c] \in {"dropped", "flushed"} /\ NothingPending(c)'
  BY DrainedStays
<1>3. /\ \A i \in 1 .. Len(ring') : ~ring'[i].rel
      /\ \A h \in hand' : ~h.event.rel
  BY NoRelativeEvents
<1>4. MapTooSmall' = MapTooSmall
  BY DEF MapTooSmall
<1>5. QED
  BY <1>1, <1>2, <1>3, <1>4 DEF CompleteInv

LEMMA WatchedInvariant == Spec => [](TypeInv /\ WindowInv /\ LossInv /\ EntryInv /\ WatchedInv)
<1>1. TypeInv /\ WindowInv /\ WatchedInv /\ [Next]_vars => WatchedInv'
  BY WatchedStep
<1>2. QED
  BY <1>1, WatchedInit, EntryInvariant, PTL DEF Spec

\* A clean snapshot of a container that was drained lacks nothing.
LEMMA FlushedIsComplete ==
    ASSUME TypeInv, WindowInv, LossInv, CompleteInv,
           NEW c \in drained \ Synced, FlushStopped(c), NEW m, Reports(m, c), Clean(m),
           MapTooSmall => m.startObserved
    PROVE  Observable(c) \subseteq m.files
<1>1. /\ c \in Containers /\ hook[c] = "dropped" /\ NothingPending(c)
      /\ m.files = files[c]
  BY DEF FlushStopped, CompleteInv, TypeInv, TypeOK, Reports
<1>2. ~LeftBehind(c)
  BY <1>1 DEF LeftBehind
<1>3. \A s \in Stages : missed[c][s] = {}
  BY <1>1, CleanLostNothing
<1>4. MapTooSmall => ~Silent(c)
  BY DEF Reports, Silent
<1>5. ASSUME NEW p \in Observable(c) PROVE p \in m.files
  <2>1. ~OnItsWay(c, p)
    BY <1>1 DEF OnItsWay, NothingPending
  <2>2. Accounted(c, p)
    BY <1>1, <1>4 DEF CompleteInv
  <2>3. QED
    BY <1>1, <1>2, <1>3, <2>1, <2>2 DEF Accounted
<1>6. QED
  BY <1>5

LEMMA ProfilesInit == Init => ProfilesInv
  BY DEF Init, ProfilesInv

\* A profile once sent stays complete: its container's process is gone.
LEMMA ProfilesStep ==
    TypeInv /\ WindowInv /\ LossInv /\ CompleteInv /\ ProfilesInv /\ [Next]_vars
      => ProfilesInv'
<1> SUFFICES ASSUME TypeInv, WindowInv, LossInv, CompleteInv, ProfilesInv, [Next]_vars,
                    NEW m \in profiles'
             PROVE  /\ m.ctr \in Containers
                    /\ m.terminal => hook'[m.ctr] = "flushed"
                    /\ m.startObserved => m.ctr \notin Synced
                    /\ m.terminal /\ Clean(m) /\ m.ctr \in drained' \ Synced
                       /\ (MapTooSmall => m.startObserved)
                         => Observable(m.ctr)' \subseteq m.files
  BY DEF ProfilesInv, Clean, MapTooSmall
<1> USE DEF flushVars
<1>1. ASSUME NEW c \in Containers, hook[c] \in {"dropped", "flushed"}
      PROVE  Observable(c)' = Observable(c)
  <2>1. accessed'[c] = accessed[c]
    <3>1. ASSUME NEW e \in Event, Access(e) PROVE accessed'[c] = accessed[c]
      BY <1>1, <3>1 DEF Access, Alive, TypeInv, TypeOK
    <3>2. CASE UNCHANGED accessed
      BY <3>2
    <3>3. QED
      BY <3>1, <3>2, ConsumeFrame DEF Next, HookStep, Chdir, Register, Allow, Deny, Drop,
         FlushStopped, FlushClaimed, FlushAll, vars, truthVars
  <2>2. QED
    BY <2>1 DEF Observable
<1>2. ASSUME NEW c \in Containers, hook[c] \in {"dropped", "flushed"}
      PROVE  c \in drained' => c \in drained
  BY <1>2, ConsumeFrame, AccessFrame DEF Next, HookStep, Chdir, Register, Allow, Deny, Drop,
     FlushStopped, FlushClaimed, FlushAll, vars
<1>3. CASE m \in profiles
  <2>1. /\ m.ctr \in Containers
        /\ m.terminal => hook[m.ctr] = "flushed" /\ hook'[m.ctr] = "flushed"
        /\ m.startObserved => m.ctr \notin Synced
    BY <1>3, Progress DEF ProfilesInv
  <2>2. QED
    BY <1>1, <1>2, <1>3, <2>1 DEF ProfilesInv
<1>4. ASSUME NEW c \in Containers, Reports(m, c), FlushStopped(c), m.terminal
      PROVE  /\ m.ctr = c /\ hook'[m.ctr] = "flushed"
             /\ m.startObserved => m.ctr \notin Synced
             /\ Clean(m) /\ m.ctr \in drained' \ Synced /\ (MapTooSmall => m.startObserved)
                  => Observable(m.ctr)' \subseteq m.files
  <2>1. /\ m.ctr = c /\ hook[c] = "dropped" /\ hook'[c] = "flushed"
        /\ m.startObserved => c \notin Synced
    BY <1>4 DEF Reports, FlushStopped, TypeInv, TypeOK
  <2>2. QED
    BY <1>1, <1>2, <1>4, <2>1, FlushedIsComplete
<1>5. ASSUME NEW c \in Containers, Reports(m, c), m.terminal = FALSE
      PROVE  m.ctr = c /\ (m.startObserved => m.ctr \notin Synced)
  BY <1>5 DEF Reports
<1>6. QED
  BY <1>3, <1>4, <1>5, ProfilesGrow

LEMMA ProfilesInvariant ==
    ASSUME ~Relative
    PROVE  Spec => [](TypeInv /\ ProfilesInv)
<1>1. TypeInv /\ WindowInv /\ EntryInv /\ WatchedInv /\ CompleteInv /\ [Next]_vars
        => CompleteInv'
  BY CompleteStep
<1>2. TypeInv /\ WindowInv /\ LossInv /\ CompleteInv /\ ProfilesInv /\ [Next]_vars
        => ProfilesInv'
  BY ProfilesStep
<1>3. QED
  BY <1>1, <1>2, CompleteInit, ProfilesInit, WatchedInvariant, PTL DEF Spec

\* DrainedCleanIsComplete: when nothing of the container is in flight as its stop
\* hook takes the aggregator, a clean profile whose start was not missed holds
\* every file the container accessed.  It takes an allowlist with room for every
\* container (AllowCgroup's failure is ignored) and absolute opens (a working
\* directory is read later than the open it is used for).
THEOREM DrainedCleanIsCompleteHolds ==
    ASSUME ~Relative, IsFiniteSet(Containers), Cardinality(Containers) <= MapEntries
    PROVE  Spec => []DrainedCleanIsComplete
<1>1. ~MapTooSmall
  BY DEF MapTooSmall
<1>2. ProfilesInv => DrainedCleanIsComplete
  BY <1>1 DEF ProfilesInv, DrainedCleanIsComplete
<1>3. QED
  BY <1>2, ProfilesInvariant, PTL

\* The same, however full the allowlist, of a profile that carries the
\* process-start marker: what AllowCgroup's ignored failure costs is the marker.
THEOREM StartedCleanIsCompleteHolds ==
    ASSUME ~Relative
    PROVE  Spec => []StartedCleanIsComplete
<1>1. ProfilesInv => StartedCleanIsComplete
  BY DEF ProfilesInv, StartedCleanIsComplete
<1>2. QED
  BY <1>1, ProfilesInvariant, PTL
=============================================================================
