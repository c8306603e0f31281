-------------------------- MODULE ProfilePostProofs --------------------------
(***************************************************************************)
(* Proofs about ProfilePost, for every set of containers, files and        *)
(* workloads and every configuration of the sensor.                        *)
(***************************************************************************)
EXTENDS ProfilePost, TLAPS

\* Moving one flusher of one container to another point of flush().
LEMMA FlushMoves ==
    ASSUME NEW w \in Flushers, NEW c \in Containers, NEW pc \in FlushPCs,
           flush \in [Flushers -> [Containers -> FlushPCs]],
           flush' = [flush EXCEPT ![w][c] = pc]
    PROVE  /\ flush' \in [Flushers -> [Containers -> FlushPCs]]
           /\ flush'[w][c] = pc
           /\ \A v \in Flushers, d \in Containers :
                 v # w \/ d # c => flush'[v][d] = flush[v][d]
<1>1. flush[w] \in [Containers -> FlushPCs]
  OBVIOUS
<1>2. [flush[w] EXCEPT ![c] = pc] \in [Containers -> FlushPCs]
  BY <1>1
<1>3. QED
  BY <1>1, <1>2

\* The types of what returning from flush() changes.
LEMMA ReturnTypes ==
    ASSUME NEW w \in Flushers, NEW c \in Containers, NEW result,
           TypeOK, Return(w, c, result)
    PROVE  /\ hook' \in [Containers ->
                   {"none", "registered", "running", "stopping", "stopped"}]
           /\ postMu' \in [Containers -> {"free", "loop"} \cup Flushers]
<1>1. postMu' \in [Containers -> {"free", "loop"} \cup Flushers]
  BY DEF TypeOK, Return
<1>2. hook' = hook \/ hook' = [hook EXCEPT ![c] = "stopped"]
  BY DEF Return
<1>3. QED
  BY <1>1, <1>2 DEF TypeOK

\* The types of what the end of a POST changes.
LEMMA EndPostTypes ==
    ASSUME NEW c \in Containers, wire \in [Containers -> SUBSET Nat], EndPost(c)
    PROVE  wire' \in [Containers -> SUBSET Nat] /\ sent' = sent /\ received' = received
<1>1. wire' = wire \/ wire' = [wire EXCEPT ![c] = @ \ {Len(sent[c])}]
  BY DEF EndPost
<1>2. QED
  BY <1>1 DEF EndPost

\* The types of what sending a message changes.
LEMMA SendTypes ==
    ASSUME NEW c \in Containers, NEW m \in Message,
           sent \in [Containers -> Seq(Message)], wire \in [Containers -> SUBSET Nat],
           Send(c, m)
    PROVE  /\ sent' \in [Containers -> Seq(Message)]
           /\ wire' \in [Containers -> SUBSET Nat]
           /\ received' = received
  BY DEF Send

\* Every variable keeps its type, in every configuration.
THEOREM TypeCorrect == Spec => []TypeOK
<1>1. Init => TypeOK
  <2> SUFFICES ASSUME Init PROVE TypeOK
    OBVIOUS
  <2>1. flush \in [Flushers -> [Containers -> FlushPCs]]
    BY DEF Init, FlushPCs
  <2>2. /\ sent \in [Containers -> Seq(Message)]
        /\ wire \in [Containers -> SUBSET Nat]
        /\ received \in [Containers -> Seq(Nat)]
    BY DEF Init
  <2>3. QED
    BY <2>1, <2>2 DEF Init, TypeOK, Addressees, Owners
<1>2. TypeOK /\ [Next]_vars => TypeOK'
  <2> SUFFICES ASSUME TypeOK, [Next]_vars PROVE TypeOK'
    OBVIOUS
  <2> USE DEF TypeOK, trackVars, ownerVars, flushVars, loopVars, netVars
  <2>1. ASSUME NEW c \in Containers, Register(c) PROVE TypeOK'
    BY <2>1 DEF Register
  <2>2. ASSUME NEW c \in Containers, LaunchResolve(c) PROVE TypeOK'
    BY <2>2 DEF LaunchResolve
  <2>3. ASSUME NEW c \in Containers, NEW dep \in Owners,
               ResolveSucceeds(c, dep)
        PROVE TypeOK'
    BY <2>3 DEF ResolveSucceeds
  <2>4. ASSUME NEW c \in Containers, ResolveFails(c) PROVE TypeOK'
    BY <2>4 DEF ResolveFails
  <2>5. ASSUME NEW c \in Containers, AggFor(c) PROVE TypeOK'
    BY <2>5 DEF AggFor
  <2>6. ASSUME NEW c \in Containers, NEW f \in Files, RecordFile(c, f) PROVE TypeOK'
    BY <2>6 DEF RecordFile
  <2>7. ASSUME NEW c \in Containers, OnContainerStop(c) PROVE TypeOK'
    <3>1. flush' \in [Flushers -> [Containers -> FlushPCs]]
      BY <2>7, FlushMoves DEF OnContainerStop, Flushers, FlushPCs
    <3>2. QED
      BY <2>7, <3>1 DEF OnContainerStop
  <2>8. ASSUME NEW c \in Containers, OnContainerStopUnknown(c) PROVE TypeOK'
    BY <2>8 DEF OnContainerStopUnknown
  <2>9. ASSUME NEW c \in Containers, NEW w \in Flushers, FlushStep(w, c) PROVE TypeOK'
    <3> DEFINE Goes(pc) == flush' = [flush EXCEPT ![w][c] = pc]
    <3>a. ASSUME NEW pc \in FlushPCs, Goes(pc)
          PROVE flush' \in [Flushers -> [Containers -> FlushPCs]]
      BY <3>a, FlushMoves
    <3>b. ASSUME NEW dep \in Owners, Address(w, c, dep)
          PROVE /\ hook' \in [Containers ->
                     {"none", "registered", "running", "stopping", "stopped"}]
                /\ postMu' \in [Containers -> {"free", "loop"} \cup Flushers]
                /\ addressee' \in [Containers -> Addressees]
      <4>1. CASE Return(w, c, "skipped") /\ UNCHANGED addressee
        BY <4>1, ReturnTypes
      <4>2. CASE /\ addressee' = [addressee EXCEPT ![c] = IF dep # NoOwner THEN dep ELSE c]
                 /\ UNCHANGED <<postMu, hook>>
        <5>1. (IF dep # NoOwner THEN dep ELSE c) \in Addressees
          BY DEF Addressees, Owners
        <5>2. QED
          BY <4>2, <5>1
      <4>3. QED
        BY <3>b, <4>1, <4>2 DEF Address
    <3> USE DEF FlushPCs, InFlush, Finished
    <3> HIDE DEF Goes
    <3>1. CASE FlushBegin(w, c)
      <4>1. \E pc \in {"local", "create", "settle"} : Goes(pc)
        BY <3>1 DEF FlushBegin, Return, AfterWrite, Goes
      <4>2. QED
        <5>1. CASE Return(w, c, "local")
          BY <3>1, <3>a, <4>1, <5>1, ReturnTypes, ZenonT(40) DEF FlushBegin
        <5>2. CASE postMu' = [postMu EXCEPT ![c] = w] /\ UNCHANGED hook
          BY <3>1, <3>a, <4>1, <5>2 DEF FlushBegin
        <5>3. QED
          BY <3>1, <5>1, <5>2 DEF FlushBegin
    <3>2. CASE FlushCreate(w, c)
      <4>1. Goes("encode")
        BY <3>2 DEF FlushCreate, Goes
      <4>2. QED
        BY <3>2, <3>a, <4>1 DEF FlushCreate
    <3>3. CASE FlushCreateFails(w, c) \/ FlushEncode(w, c)
      <4>1. \E pc \in {"local", "settle"} : Goes(pc)
        BY <3>3 DEF FlushCreateFails, FlushEncode, LeaveWrite, Return, Goes
      <4>2. QED
        <5>1. /\ hook' \in [Containers ->
                   {"none", "registered", "running", "stopping", "stopped"}]
              /\ postMu' \in [Containers -> {"free", "loop"} \cup Flushers]
          <6>1. CASE Return(w, c, "local")
            BY <6>1, ReturnTypes
          <6>2. CASE UNCHANGED <<postMu, hook>>
            BY <6>2
          <6>3. QED
            BY <3>3, <6>1, <6>2 DEF FlushCreateFails, FlushEncode, LeaveWrite
        <5>2. disk' \in [Containers -> {"absent", "torn", "whole"}]
          BY <3>3 DEF FlushCreateFails, FlushEncode
        <5>3. QED
          BY <3>3, <3>a, <4>1, <5>1, <5>2 DEF FlushCreateFails, FlushEncode
    <3>5. CASE FlushSettle(w, c)
      <4>1. \E pc \in {"post", "skipped", "lookup"} : Goes(pc)
        BY <3>5 DEF FlushSettle, Address, Return, Goes
      <4>2. QED
        BY <3>5, <3>a, <3>b, <4>1 DEF FlushSettle
    <3>6. ASSUME NEW dep \in Owners, FlushLookup(w, c, dep)
          PROVE TypeOK'
      <4>1. \E pc \in {"post", "skipped"} : Goes(pc)
        BY <3>6 DEF FlushLookup, Address, Return, Goes
      <4>2. QED
        BY <3>6, <3>a, <3>b, <4>1 DEF FlushLookup
    <3>7. CASE FlushLookupFails(w, c)
      <4>1. Goes("lost")
        BY <3>7 DEF FlushLookupFails, Return, Goes
      <4>2. QED
        BY <3>7, <3>a, <4>1, ReturnTypes DEF FlushLookupFails
    <3>8. CASE FlushPost(w, c)
      <4>1. Goes("reply")
        BY <3>8 DEF FlushPost, Goes
      <4>2. [kind |-> FlushKind(w), files |-> final[c], to |-> addressee[c]] \in Message
        BY DEF FlushKind, Message, Kinds
      <4>3. /\ sent' \in [Containers -> Seq(Message)]
            /\ wire' \in [Containers -> SUBSET Nat]
            /\ received' = received
        BY <3>8, <4>2, SendTypes DEF FlushPost
      <4>4. QED
        BY <3>8, <3>a, <4>1, <4>3 DEF FlushPost
    <3>9. CASE FlushReply(w, c)
      <4>1. wire' \in [Containers -> SUBSET Nat] /\ sent' = sent /\ received' = received
        BY <3>9, EndPostTypes DEF FlushReply
      <4>2. \E pc \in {"posted", "postFailed"} : Goes(pc)
        BY <3>9 DEF FlushReply, Return, Goes
      <4>3. QED
        BY <3>9, <3>a, <4>1, <4>2, ReturnTypes, ZenonT(40) DEF FlushReply
    <3>10. QED
      BY <2>9, <3>1, <3>2, <3>3, <3>5, <3>6, <3>7, <3>8, <3>9 DEF FlushStep
  <2>10. ASSUME NEW c \in Containers, NEW i \in wire[c], Deliver(c, i) PROVE TypeOK'
    BY <2>10 DEF Deliver
  <2>11. ASSUME NEW d \in SUBSET Eligible, SnapshotPass(d) PROVE TypeOK'
    BY <2>11 DEF SnapshotPass, Eligible
  <2>12. CASE SnapshotPassEnds
    BY <2>12 DEF SnapshotPassEnds
  <2>13. CASE LoopExit
    BY <2>13 DEF LoopExit
  <2>14. ASSUME NEW c \in Containers, SnapshotNext(c) PROVE TypeOK'
    BY <2>14 DEF SnapshotNext
  <2>15. ASSUME NEW c \in Containers, PostInterimRefused(c) PROVE TypeOK'
    BY <2>15 DEF PostInterimRefused, NextInPass
  <2>16. ASSUME NEW c \in Containers, PostInterim(c) PROVE TypeOK'
    <3>1. [kind |-> "interim", files |-> recorded[c], to |-> owner[c]] \in Message
      BY DEF Message, Kinds, Addressees, Owners
    <3>2. /\ sent' \in [Containers -> Seq(Message)]
          /\ wire' \in [Containers -> SUBSET Nat]
          /\ received' = received
      BY <2>16, <3>1, SendTypes DEF PostInterim
    <3>3. QED
      BY <2>16, <3>2 DEF PostInterim
  <2>17. ASSUME NEW c \in Containers, InterimReply(c) PROVE TypeOK'
    <3>1. wire' \in [Containers -> SUBSET Nat] /\ sent' = sent /\ received' = received
      BY <2>17, EndPostTypes DEF InterimReply
    <3>2. QED
      BY <2>17, <3>1 DEF InterimReply, NextInPass
  <2>18. CASE Signal
    BY <2>18 DEF Signal
  <2>19. CASE FlushAll
    <3>1. flush' \in [Flushers -> [Containers -> FlushPCs]]
      BY <2>19 DEF FlushAll, FlushPCs
    <3>2. QED
      BY <2>19, <3>1 DEF FlushAll
  <2>20. CASE Exit \/ Crash
    BY <2>20 DEF Exit, Crash
  <2>21. CASE UNCHANGED vars
    BY <2>21 DEF vars
  <2>22. QED
    BY <2>1, <2>2, <2>3, <2>4, <2>5, <2>6, <2>7, <2>8, <2>9, <2>10, <2>11, <2>12,
       <2>13, <2>14, <2>15, <2>16, <2>17, <2>18, <2>19, <2>20, <2>21
       DEF Next, SnapshotStep
<1>3. QED
  BY <1>1, <1>2, PTL DEF Spec

-----------------------------------------------------------------------------
(***************************************************************************)
(* The inductive invariant.                                                *)
(***************************************************************************)

\* What a step inside flush() does to the variables Claims speaks of.
LEMMA FlushEffect ==
    ASSUME NEW w \in Flushers, NEW c \in Containers, TypeOK, FlushStep(w, c)
    PROVE  /\ flush[w][c] \in {"lock"} \cup InFlush
           /\ \E pc \in InFlush \cup Finished : flush' = [flush EXCEPT ![w][c] = pc]
           /\ hook' = hook \/ hook' = [hook EXCEPT ![c] = "stopped"]
           /\ \/ flush[w][c] = "lock" /\ closed' = [closed EXCEPT ![c] = TRUE]
              \/ flush[w][c] \in InFlush /\ closed' = closed
           /\ UNCHANGED <<tracked, held, recorded, resolve, owner, loop, due, cur>>
<1> USE DEF InFlush, Finished, Return, LeaveWrite, Address, AfterWrite, trackVars,
            ownerVars, flushVars, loopVars, netVars
<1>1. CASE FlushBegin(w, c)
  BY <1>1 DEF FlushBegin
<1>2. CASE FlushCreate(w, c)
  BY <1>2 DEF FlushCreate
<1>3. CASE FlushCreateFails(w, c)
  BY <1>3 DEF FlushCreateFails
<1>4. CASE FlushEncode(w, c)
  BY <1>4 DEF FlushEncode
<1>5. CASE FlushSettle(w, c)
  BY <1>5 DEF FlushSettle
<1>6. ASSUME NEW dep \in Owners, FlushLookup(w, c, dep)
      PROVE  /\ flush[w][c] \in {"lock"} \cup InFlush
             /\ \E pc \in InFlush \cup Finished : flush' = [flush EXCEPT ![w][c] = pc]
             /\ hook' = hook \/ hook' = [hook EXCEPT ![c] = "stopped"]
             /\ flush[w][c] \in InFlush /\ closed' = closed
             /\ UNCHANGED <<tracked, held, recorded, resolve, owner, loop, due, cur>>
  BY <1>6 DEF FlushLookup
<1>7. CASE FlushLookupFails(w, c)
  BY <1>7 DEF FlushLookupFails
<1>8. CASE FlushPost(w, c)
  BY <1>8 DEF FlushPost
<1>9. CASE FlushReply(w, c)
  BY <1>9 DEF FlushReply
<1>10. QED
  BY <1>1, <1>2, <1>3, <1>4, <1>5, <1>6, <1>7, <1>8, <1>9 DEF FlushStep

\* Every step keeps claims, hooks and targets in agreement.
LEMMA ClaimsInductive ==
    ASSUME TypeOK, Claims, [Next]_vars
    PROVE  Claims'
<1> SUFFICES ASSUME NEW d \in Containers PROVE ClaimOK(d)'
  BY DEF Claims
<1>0. ClaimOK(d) /\ closed[d] \in BOOLEAN
  BY DEF Claims, TypeOK
<1>1. CASE UNCHANGED <<hook, tracked, resolve, closed, flush>>
  BY <1>0, <1>1 DEF ClaimOK
<1>2. ASSUME NEW c \in Containers, Register(c) PROVE ClaimOK(d)'
  BY <1>0, <1>2 DEF Register, ClaimOK, TypeOK, ownerVars, flushVars
<1>3. ASSUME NEW c \in Containers, LaunchResolve(c) PROVE ClaimOK(d)'
  BY <1>0, <1>3 DEF LaunchResolve, ClaimOK, TypeOK, flushVars
<1>4. ASSUME NEW c \in Containers, NEW dep \in Owners,
             ResolveSucceeds(c, dep) \/ ResolveFails(c)
      PROVE  ClaimOK(d)'
  BY <1>0, <1>4 DEF ResolveSucceeds, ResolveFails, ClaimOK, TypeOK, flushVars, trackVars
<1>5. ASSUME NEW c \in Containers, OnContainerStop(c) PROVE ClaimOK(d)'
  BY <1>0, <1>5 DEF OnContainerStop, ClaimOK, TypeOK, ownerVars, Flushers, InFlush, Finished
<1>6. ASSUME NEW c \in Containers, OnContainerStopUnknown(c) PROVE ClaimOK(d)'
  BY <1>0, <1>6 DEF OnContainerStopUnknown, ClaimOK, TypeOK, ownerVars, flushVars
<1>7. ASSUME NEW c \in Containers, NEW w \in Flushers, FlushStep(w, c)
      PROVE  ClaimOK(d)'
  <2>1. PICK pc \in InFlush \cup Finished : flush' = [flush EXCEPT ![w][c] = pc]
    BY <1>7, FlushEffect
  <2>2. /\ flush'[w][c] = pc
        /\ \A v \in Flushers, e \in Containers :
              v # w \/ e # c => flush'[v][e] = flush[v][e]
    BY <2>1, FlushMoves DEF TypeOK, FlushPCs
  <2>3. /\ flush[w][c] \in {"lock"} \cup InFlush
        /\ tracked' = tracked /\ resolve' = resolve
        /\ hook' = hook \/ hook' = [hook EXCEPT ![c] = "stopped"]
        /\ \/ flush[w][c] = "lock" /\ closed' = [closed EXCEPT ![c] = TRUE]
           \/ flush[w][c] \in InFlush /\ closed' = closed
    BY <1>7, FlushEffect
  <2>4. pc # "idle" /\ flush[w][c] # "idle"
    BY <2>3 DEF InFlush, Finished
  <2>5. CASE d # c
    <3>1. \A v \in Flushers : flush'[v][d] = flush[v][d]
      BY <2>2, <2>5
    <3>2. hook'[d] = hook[d] /\ closed'[d] = closed[d]
      BY <2>3, <2>5 DEF TypeOK
    <3>3. QED
      BY <1>0, <2>3, <3>1, <3>2 DEF ClaimOK
  <2>6. CASE d = c
    <3>1. closed'[c]
      BY <1>0, <2>3, <2>6 DEF ClaimOK, TypeOK
    <3>2. hook'[c] = hook[c] \/ hook'[c] = "stopped"
      BY <2>3 DEF TypeOK
    <3>3. hook[c] # "none" /\ c \notin tracked
      BY <1>0, <2>4, <2>6 DEF ClaimOK
    <3>4. \A u, v \in Flushers : u = v \/ flush'[u][c] = "idle" \/ flush'[v][c] = "idle"
      BY <1>0, <2>2, <2>4, <2>6 DEF ClaimOK
    <3>5. hook[c] \in {"none", "registered"} => resolve[c] = "none"
      BY <1>0, <2>6 DEF ClaimOK
    <3>6. QED
      BY <2>2, <2>3, <2>4, <2>6, <3>1, <3>2, <3>3, <3>4, <3>5 DEF ClaimOK
  <2>7. QED
    BY <2>5, <2>6
<1>8. CASE FlushAll
  BY <1>0, <1>8 DEF FlushAll, ClaimOK, TypeOK, ownerVars, Flushers, InFlush, Finished
<1>9. QED
  <2> USE DEF trackVars, ownerVars, flushVars, loopVars, netVars
  <2>1. ASSUME NEW c \in Containers,
               \/ AggFor(c)
               \/ \E f \in Files : RecordFile(c, f)
               \/ \E i \in wire[c] : Deliver(c, i)
        PROVE  UNCHANGED <<hook, tracked, resolve, closed, flush>>
    BY <2>1 DEF AggFor, RecordFile, Deliver
  <2>2. CASE SnapshotStep
    <3>1. ASSUME NEW c \in Containers,
                 SnapshotNext(c) \/ PostInterimRefused(c) \/ PostInterim(c) \/ InterimReply(c)
          PROVE  UNCHANGED <<hook, tracked, resolve, closed, flush>>
      BY <3>1 DEF SnapshotNext, PostInterimRefused, PostInterim, InterimReply
    <3>2. ASSUME NEW s \in SUBSET Eligible, SnapshotPass(s)
          PROVE  UNCHANGED <<hook, tracked, resolve, closed, flush>>
      BY <3>2 DEF SnapshotPass
    <3>3. QED
      BY <1>1, <2>2, <3>1, <3>2 DEF SnapshotStep, SnapshotPassEnds, LoopExit
  <2>3. CASE Signal \/ Exit \/ Crash \/ UNCHANGED vars
    BY <1>1, <2>3 DEF Signal, Exit, Crash, vars
  <2>4. QED
    BY <1>1, <1>2, <1>3, <1>4, <1>5, <1>6, <1>7, <1>8, <2>1, <2>2, <2>3 DEF Next, Owners

\* A hook is never undone, a resolved owner stays, an aggregator only grows.
LEMMA Monotone ==
    ASSUME TypeOK, Claims, [Next]_vars, NEW d \in Containers
    PROVE  /\ hook[d] # "none" => hook'[d] # "none"
           /\ resolve[d] = "resolved" => resolve'[d] = "resolved" /\ owner'[d] = owner[d]
           /\ recorded[d] \subseteq recorded'[d]
<1> DEFINE Grows == /\ hook[d] # "none" => hook'[d] # "none"
                    /\ resolve[d] = "resolved"
                         => resolve'[d] = "resolved" /\ owner'[d] = owner[d]
                    /\ recorded[d] \subseteq recorded'[d]
<1>0. hook[d] \in {"none", "registered"} => resolve[d] = "none"
  BY DEF Claims, ClaimOK
<1> USE DEF trackVars, ownerVars, flushVars, loopVars, netVars
<1>1. CASE UNCHANGED <<hook, resolve, owner, recorded>>
  BY <1>1
<1>2. ASSUME NEW c \in Containers, Register(c) \/ OnContainerStop(c) \/ OnContainerStopUnknown(c)
      PROVE  Grows
  BY <1>2 DEF Register, OnContainerStop, OnContainerStopUnknown, TypeOK
<1>3. ASSUME NEW c \in Containers, LaunchResolve(c) PROVE Grows
  BY <1>0, <1>3 DEF LaunchResolve, TypeOK
<1>4. ASSUME NEW c \in Containers, NEW dep \in Owners,
             ResolveSucceeds(c, dep) \/ ResolveFails(c)
      PROVE  Grows
  BY <1>4 DEF ResolveSucceeds, ResolveFails, TypeOK
<1>5. ASSUME NEW c \in Containers, NEW f \in Files, RecordFile(c, f) PROVE Grows
  BY <1>5 DEF RecordFile, TypeOK
<1>6. ASSUME NEW c \in Containers, NEW w \in Flushers, FlushStep(w, c) PROVE Grows
  <2>1. /\ hook' = hook \/ hook' = [hook EXCEPT ![c] = "stopped"]
        /\ UNCHANGED <<resolve, owner, recorded>>
    BY <1>6, FlushEffect
  <2>2. QED
    BY <2>1 DEF TypeOK
<1>7. ASSUME NEW c \in Containers,
             \/ AggFor(c)
             \/ \E i \in wire[c] : Deliver(c, i)
             \/ SnapshotNext(c) \/ PostInterimRefused(c) \/ PostInterim(c) \/ InterimReply(c)
      PROVE  Grows
  BY <1>7 DEF AggFor, Deliver, SnapshotNext, PostInterimRefused, PostInterim, InterimReply
<1>8. ASSUME NEW s \in SUBSET Eligible, SnapshotPass(s) PROVE Grows
  BY <1>8 DEF SnapshotPass
<1>9. CASE SnapshotPassEnds \/ LoopExit \/ Signal \/ FlushAll \/ Exit \/ Crash \/ UNCHANGED vars
  BY <1>9 DEF SnapshotPassEnds, LoopExit, Signal, FlushAll, Exit, Crash, vars
<1>10. QED
  BY <1>2, <1>3, <1>4, <1>5, <1>6, <1>7, <1>8, <1>9 DEF Next, SnapshotStep, Owners

\* The loop and the consumer only ever hold what Collected says.
LEMMA CollectedInductive ==
    ASSUME TypeOK, Claims, Collected, [Next]_vars
    PROVE  Collected'
<1>1. ASSUME NEW d \in held' PROVE hook'[d] # "none"
  <2>1. CASE d \in held
    BY <2>1, Monotone DEF Collected, TypeOK
  <2>2. CASE d \notin held
    <3>1. d \in Containers /\ AggFor(d)
      <4> USE DEF trackVars, ownerVars, flushVars, loopVars, netVars
      <4>1. ASSUME NEW c \in Containers, NEW w \in Flushers, FlushStep(w, c)
            PROVE  held' = held
        BY <4>1, FlushEffect
      <4>2. ASSUME NEW c \in Containers,
                   \/ Register(c) \/ LaunchResolve(c) \/ ResolveFails(c)
                   \/ \E dep \in Owners : ResolveSucceeds(c, dep)
                   \/ \E f \in Files : RecordFile(c, f)
                   \/ OnContainerStop(c) \/ OnContainerStopUnknown(c)
                   \/ \E i \in wire[c] : Deliver(c, i)
            PROVE  held' \subseteq held
        BY <4>2 DEF Register, LaunchResolve, ResolveFails, ResolveSucceeds, RecordFile,
             OnContainerStop, OnContainerStopUnknown, Deliver
      <4>3. ASSUME SnapshotStep PROVE held' \subseteq held
        BY <4>3 DEF SnapshotStep, SnapshotPass, SnapshotNext, SnapshotPassEnds,
             PostInterimRefused, PostInterim, InterimReply, LoopExit
      <4>4. ASSUME Signal \/ FlushAll \/ Exit \/ Crash \/ UNCHANGED vars
            PROVE  held' \subseteq held
        BY <4>4 DEF Signal, FlushAll, Exit, Crash, vars
      <4>5. PICK c \in Containers : AggFor(c)
        BY <1>1, <2>2, <4>1, <4>2, <4>3, <4>4 DEF Next
      <4>6. QED
        BY <1>1, <4>5 DEF AggFor
    <3>2. hook[d] # "none"
      BY <3>1 DEF AggFor, Claims, ClaimOK
    <3>3. QED
      BY <3>1, <3>2, Monotone
  <2>3. QED
    BY <2>1, <2>2
<1>2. ASSUME NEW d \in due' \cup cur'
      PROVE  hook'[d] # "none" /\ resolve'[d] = "resolved" /\ owner'[d] # NoOwner
  <2>1. /\ d \in Containers
        /\ hook[d] # "none" /\ resolve[d] = "resolved" /\ owner[d] # NoOwner
    <3>1. CASE d \in due \cup cur
      BY <3>1 DEF Collected, TypeOK
    <3>2. ASSUME NEW s \in SUBSET Eligible, SnapshotPass(s), d \notin cur
          PROVE  /\ d \in Containers
                 /\ hook[d] # "none" /\ resolve[d] = "resolved" /\ owner[d] # NoOwner
      <4>1. d \in Eligible
        BY <1>2, <3>2 DEF SnapshotPass
      <4>2. QED
        BY <4>1 DEF Eligible, Claims, ClaimOK, TypeOK
    <3>3. CASE \A s \in SUBSET Eligible : ~SnapshotPass(s)
      <4> USE DEF trackVars, ownerVars, flushVars, loopVars, netVars
      <4>1. ASSUME NEW c \in Containers, NEW w \in Flushers, FlushStep(w, c)
            PROVE  due' \cup cur' \subseteq due \cup cur
        BY <4>1, FlushEffect
      <4>2. ASSUME NEW c \in Containers,
                   \/ Register(c) \/ LaunchResolve(c) \/ ResolveFails(c)
                   \/ \E dep \in Owners : ResolveSucceeds(c, dep)
                   \/ AggFor(c) \/ \E f \in Files : RecordFile(c, f)
                   \/ OnContainerStop(c) \/ OnContainerStopUnknown(c)
                   \/ \E i \in wire[c] : Deliver(c, i)
            PROVE  due' \cup cur' \subseteq due \cup cur
        BY <4>2 DEF Register, LaunchResolve, ResolveFails, ResolveSucceeds, AggFor,
             RecordFile, OnContainerStop, OnContainerStopUnknown, Deliver
      <4>3. ASSUME NEW c \in Containers,
                   SnapshotNext(c) \/ PostInterimRefused(c) \/ PostInterim(c) \/ InterimReply(c)
            PROVE  due' \cup cur' \subseteq due \cup cur
        BY <4>3 DEF SnapshotNext, PostInterimRefused, PostInterim, InterimReply, NextInPass
      <4>4. ASSUME \/ SnapshotPassEnds \/ LoopExit \/ Signal \/ FlushAll
                   \/ Exit \/ Crash \/ UNCHANGED vars
            PROVE  due' \cup cur' \subseteq due \cup cur
        BY <4>4 DEF SnapshotPassEnds, LoopExit, Signal, FlushAll, Exit, Crash, vars
      <4>5. due' \cup cur' \subseteq due \cup cur
        BY <3>3, <4>1, <4>2, <4>3, <4>4 DEF Next, SnapshotStep
      <4>6. QED
        BY <1>2, <3>1, <4>5
    <3>4. QED
      BY <3>1, <3>2, <3>3
  <2>2. QED
    BY <2>1, Monotone
<1>3. QED
  BY <1>1, <1>2 DEF Collected

-----------------------------------------------------------------------------
\* The flushers that have issued their POST stand at one of these.
Replied == {"reply", "posted", "postFailed"}

\* Before a container's target is closed only interim snapshots have been sent.
LEMMA OnlyInterim ==
    ASSUME TypeOK, Claims, Posts, NEW d \in Containers, NEW i \in 1 .. Len(sent[d]),
           ~(\E w \in Flushers : flush[w][d] \in Replied)
    PROVE  /\ sent[d][i].kind = "interim"
           /\ resolve[d] = "resolved"
           /\ owner[d] # NoOwner
           /\ sent[d][i].to = owner[d]
  BY DEF Posts, SentOK, Replied

\* A step that sends nothing for d, and moves no flusher of d to where SentOK
\* asks something of what was sent, keeps SentOK.
LEMMA QuietStep ==
    ASSUME NEW d \in Containers, NEW i \in 1 .. Len(sent[d]), SentOK(d, i),
           resolve[d] = "resolved" => resolve'[d] = "resolved" /\ owner'[d] = owner[d],
           recorded[d] \subseteq recorded'[d],
           UNCHANGED <<sent[d], closed[d], final[d], addressee[d]>>,
           \A w \in Flushers :
               \/ flush'[w][d] = flush[w][d]
               \/ flush'[w][d] \in Replied
               \/ flush[w][d] \notin Replied /\ flush'[w][d] \notin {"lookup", "post"}
    PROVE  SentOK(d, i)'
<1>1. sent'[d] = sent[d]
  OBVIOUS
<1>2. (\E w \in Flushers : flush[w][d] \in Replied)
        => \E w \in Flushers : flush'[w][d] \in Replied
  OBVIOUS
<1>3. \A w \in Flushers : /\ flush'[w][d] # "lookup"
                          /\ flush'[w][d] = "post" => flush[w][d] = "post"
  BY DEF SentOK, Replied
<1>4. QED
  BY <1>1, <1>2, <1>3 DEF SentOK, Replied

\* A flusher that has closed the target is alone.
LEMMA Alone ==
    ASSUME TypeOK, Claims, NEW d \in Containers, NEW w \in Flushers,
           flush[w][d] # "idle"
    PROVE  \A v \in Flushers : v # w => flush[v][d] = "idle"
  BY DEF Claims, ClaimOK

\* The indices of a container's requests once one more has been issued.
LEMMA LastIndex ==
    ASSUME TypeOK, NEW c \in Containers
    PROVE  /\ Len(sent[c]) + 1 \in Nat
           /\ Len(sent[c]) + 1 \in 1 .. Len(sent[c]) + 1
           /\ \A i \in 1 .. Len(sent[c]) + 1 : i \in 1 .. Len(sent[c]) \/ i = Len(sent[c]) + 1
           /\ \A i \in 1 .. Len(sent[c]) : i # Len(sent[c]) + 1
<1>1. Len(sent[c]) \in Nat
  BY DEF TypeOK
<1>2. QED
  BY <1>1

\* A step inside flush() of c keeps SentOK for everything sent for c.
LEMMA FlushKeepsPosts ==
    ASSUME TypeOK, Claims, Posts, NEW w \in Flushers, NEW c \in Containers,
           FlushStep(w, c)
    PROVE  \A i \in 1 .. Len(sent'[c]) : SentOK(c, i)'
<1> USE DEF trackVars, ownerVars, flushVars, loopVars, netVars
<1>1. flush[w][c] # "idle" /\ UNCHANGED <<recorded, resolve, owner>>
  BY FlushEffect DEF InFlush
<1>2. \A v \in Flushers : v # w => flush[v][c] = "idle"
  BY <1>1, Alone
<1>3. PICK pc \in InFlush \cup Finished : flush' = [flush EXCEPT ![w][c] = pc]
  BY FlushEffect
<1>4. /\ flush'[w][c] = pc
      /\ \A v \in Flushers : v # w => flush'[v][c] = "idle"
  BY <1>2, <1>3, FlushMoves DEF TypeOK, FlushPCs
<1>5. ASSUME sent'[c] = sent[c], closed'[c] = closed[c], final'[c] = final[c],
             addressee'[c] = addressee[c],
             pc \in Replied \/ (flush[w][c] \notin Replied /\ pc \notin {"lookup", "post"})
      PROVE  \A i \in 1 .. Len(sent'[c]) : SentOK(c, i)'
  <2>1. \A v \in Flushers :
            \/ flush'[v][c] = flush[v][c]
            \/ flush'[v][c] \in Replied
            \/ flush[v][c] \notin Replied /\ flush'[v][c] \notin {"lookup", "post"}
    BY <1>2, <1>4, <1>5
  <2>2. ASSUME NEW i \in 1 .. Len(sent[c]) PROVE SentOK(c, i)'
    <3>1. SentOK(c, i)
      BY DEF Posts
    <3>2. QED
      BY <1>1, <1>5, <2>1, <3>1, QuietStep
  <2>3. QED
    BY <1>5, <2>2
<1>6. flush[w][c] \in {"lock", "create", "encode", "settle", "lookup", "post"}
        => \A i \in 1 .. Len(sent[c]) :
              /\ sent[c][i].kind = "interim"
              /\ resolve[c] = "resolved"
              /\ owner[c] # NoOwner
              /\ sent[c][i].to = owner[c]
  BY <1>2, OnlyInterim DEF Replied
<1>10. CASE FlushBegin(w, c)
  <2>1. /\ flush[w][c] = "lock" /\ sent' = sent /\ recorded' = recorded
        /\ final'[c] = recorded[c] /\ closed'[c]
        /\ pc \in {"local", "create", "settle"}
    BY <1>4, <1>10 DEF FlushBegin, Return, AfterWrite, TypeOK
  <2>2. ~closed[c]
    BY <1>2, <2>1 DEF Claims, ClaimOK, InFlush, Finished
  <2>3. ASSUME NEW i \in 1 .. Len(sent[c]) PROVE SentOK(c, i)'
    <3>1. SentOK(c, i)
      BY DEF Posts
    <3>2. /\ sent[c][i].kind = "interim"
          /\ resolve[c] = "resolved"
          /\ owner[c] # NoOwner
          /\ sent[c][i].to = owner[c]
      BY <1>6, <2>1
    <3>3. sent[c][i].files \subseteq final'[c]
      BY <2>1, <2>2, <3>1 DEF SentOK
    <3>4. \A v \in Flushers : flush'[v][c] \notin {"lookup", "post"}
      BY <1>4, <2>1
    <3>5. QED
      BY <1>1, <2>1, <3>1, <3>2, <3>3, <3>4 DEF SentOK
  <2>4. QED
    BY <2>1, <2>3
<1>11. CASE FlushCreate(w, c) \/ FlushCreateFails(w, c) \/ FlushEncode(w, c)
  <2>1. pc \in {"encode", "local", "settle"} /\ flush[w][c] \in {"create", "encode"}
    BY <1>4, <1>11 DEF FlushCreate, FlushCreateFails, FlushEncode, LeaveWrite, Return,
       TypeOK
  <2>2. UNCHANGED <<sent, closed, final, addressee>>
    BY <1>11 DEF FlushCreate, FlushCreateFails, FlushEncode
  <2>3. QED
    BY <1>5, <2>1, <2>2 DEF Replied
<1>12. CASE FlushSettle(w, c)
  <2>1. flush[w][c] = "settle" /\ UNCHANGED <<sent, closed, final>>
    BY <1>12 DEF FlushSettle
  <2>2. CASE resolve[c] = "resolved" /\ Address(w, c, owner[c])
    <3>1. CASE pc # "post"
      <4>1. pc = "skipped" /\ addressee' = addressee
        BY <1>4, <2>2, <3>1 DEF Address, Return, TypeOK
      <4>2. QED
        BY <1>5, <2>1, <4>1 DEF Replied
    <3>2. CASE pc = "post"
      <4>1. addressee'[c] = IF owner[c] # NoOwner THEN owner[c] ELSE c
        BY <1>4, <2>2, <3>2 DEF Address, Return, TypeOK
      <4>2. ASSUME NEW i \in 1 .. Len(sent[c]) PROVE SentOK(c, i)'
        <5>1. SentOK(c, i)
          BY DEF Posts
        <5>2. /\ sent[c][i].kind = "interim"
              /\ resolve[c] = "resolved"
              /\ owner[c] # NoOwner
              /\ sent[c][i].to = owner[c]
          BY <1>6, <2>1
        <5>3. sent[c][i].to = addressee'[c]
          BY <4>1, <5>2
        <5>4. \A v \in Flushers : flush'[v][c] # "lookup"
          BY <1>4, <3>2
        <5>5. QED
          BY <1>1, <2>1, <5>1, <5>2, <5>3, <5>4 DEF SentOK
      <4>3. QED
        BY <2>1, <4>2
    <3>3. QED
      BY <3>1, <3>2
  <2>3. CASE resolve[c] # "resolved"
    BY <1>6, <2>1, <2>3
  <2>4. QED
    BY <1>12, <2>2, <2>3 DEF FlushSettle
<1>13. CASE FlushLookupFails(w, c) \/ \E dep \in Owners : FlushLookup(w, c, dep)
  <2>1. flush[w][c] = "lookup" /\ sent' = sent
    BY <1>13 DEF FlushLookupFails, FlushLookup
  <2>2. ASSUME NEW i \in 1 .. Len(sent[c]) PROVE FALSE
    BY <2>1 DEF Posts, SentOK
  <2>3. QED
    BY <2>1, <2>2
<1>14. CASE FlushPost(w, c)
  <2> DEFINE m == [kind |-> FlushKind(w), files |-> final[c], to |-> addressee[c]]
  <2>1. /\ flush[w][c] = "post" /\ pc = "reply"
        /\ sent'[c] = Append(sent[c], m)
        /\ UNCHANGED <<closed, final, addressee>>
    BY <1>4, <1>14 DEF FlushPost, Send, TypeOK
  <2>2. closed[c] = TRUE
    BY <2>1 DEF Claims, ClaimOK, InFlush, TypeOK
  <2>3. sent[c] \in Seq(Message)
    BY DEF TypeOK
  <2>4. m.kind \notin {"interim"}
    BY DEF FlushKind
  <2>5. /\ Len(sent'[c]) = Len(sent[c]) + 1
        /\ sent'[c][Len(sent[c]) + 1] = m
        /\ \A i \in 1 .. Len(sent[c]) : sent'[c][i] = sent[c][i]
    BY <2>1, <2>3
  <2>6. \A v \in Flushers : flush'[v][c] \notin {"lookup", "post"}
    BY <1>4, <2>1
  <2>7. ASSUME NEW i \in 1 .. Len(sent[c])
        PROVE  SentOK(c, i)' /\ sent[c][i].files \subseteq m.files /\ sent[c][i].to = m.to
    <3>1. SentOK(c, i)
      BY DEF Posts
    <3>2. sent[c][i].kind = "interim"
      BY <1>6, <2>1
    <3>3. \A j \in 1 .. i : sent'[c][j] = sent[c][j]
      BY <2>3, <2>5
    <3>4. SentOK(c, i)'
      BY <1>1, <2>1, <2>5, <2>6, <3>1, <3>2, <3>3 DEF SentOK
    <3>5. QED
      BY <2>1, <2>2, <3>1, <3>4 DEF SentOK
  <2>8. ASSUME NEW i \in Nat, i = Len(sent[c]) + 1 PROVE SentOK(c, i)'
    <3>1. \A j \in 1 .. i : sent'[c][j].files \subseteq m.files /\ sent'[c][j].to = m.to
      BY <2>5, <2>7, <2>8, LastIndex
    <3>2. \E v \in Flushers : flush'[v][c] \in {"reply", "posted", "postFailed"}
      BY <1>4, <2>1
    <3>3. m.files \subseteq IF closed'[c] THEN final'[c] ELSE recorded'[c]
      BY <2>1, <2>2
    <3>4. QED
      BY <2>4, <2>5, <2>6, <2>8, <3>1, <3>2, <3>3 DEF SentOK
  <2>9. QED
    BY <2>5, <2>7, <2>8, LastIndex
<1>15. CASE FlushReply(w, c)
  <2>1. pc \in {"posted", "postFailed"} /\ UNCHANGED <<sent, closed, final, addressee>>
    BY <1>4, <1>15 DEF FlushReply, Return, EndPost, TypeOK
  <2>2. QED
    BY <1>5, <2>1 DEF Replied
<1>16. QED
  BY <1>10, <1>11, <1>12, <1>13, <1>14, <1>15 DEF FlushStep

\* An interim POST of c keeps SentOK for everything sent for c.
LEMMA InterimKeepsPosts ==
    ASSUME TypeOK, Claims, Collected, Posts, NEW c \in Containers, PostInterim(c)
    PROVE  \A i \in 1 .. Len(sent'[c]) : SentOK(c, i)'
<1> USE DEF trackVars, ownerVars, flushVars, loopVars, netVars
<1> DEFINE m == [kind |-> "interim", files |-> recorded[c], to |-> owner[c]]
<1>1. /\ ~closed[c] /\ c \in cur
      /\ sent'[c] = Append(sent[c], m)
      /\ UNCHANGED <<recorded, resolve, owner, closed, final, flush, addressee>>
  BY DEF PostInterim, Send, TypeOK
<1>2. \A w \in Flushers : flush[w][c] \notin InFlush \cup Finished
  BY <1>1 DEF Claims, ClaimOK
<1>3. resolve[c] = "resolved" /\ owner[c] # NoOwner
  BY <1>1 DEF Collected
<1>4. sent[c] \in Seq(Message)
  BY DEF TypeOK
<1>5. /\ Len(sent'[c]) = Len(sent[c]) + 1
      /\ sent'[c][Len(sent[c]) + 1] = m
      /\ \A i \in 1 .. Len(sent[c]) : sent'[c][i] = sent[c][i]
  BY <1>1, <1>4
<1>6. \A w \in Flushers : flush[w][c] \notin {"lookup", "post"} \cup Replied
  BY <1>2 DEF InFlush, Finished, Replied
<1>7. ASSUME NEW i \in 1 .. Len(sent[c])
      PROVE  SentOK(c, i)' /\ sent[c][i].files \subseteq m.files /\ sent[c][i].to = m.to
  <2>1. SentOK(c, i)
    BY DEF Posts
  <2>2. sent[c][i].kind = "interim" /\ sent[c][i].to = owner[c]
    BY <1>6, OnlyInterim
  <2>3. \A j \in 1 .. i : sent'[c][j] = sent[c][j]
    BY <1>4, <1>5
  <2>4. SentOK(c, i)'
    BY <1>1, <1>5, <1>6, <2>1, <2>2, <2>3 DEF SentOK
  <2>5. QED
    BY <1>1, <2>1, <2>2, <2>4 DEF SentOK
<1>8. ASSUME NEW i \in Nat, i = Len(sent[c]) + 1 PROVE SentOK(c, i)'
  <2>1. \A j \in 1 .. i : sent'[c][j].files \subseteq m.files /\ sent'[c][j].to = m.to
    BY <1>5, <1>7, <1>8, LastIndex
  <2>2. QED
    BY <1>1, <1>3, <1>5, <1>6, <1>8, <2>1 DEF SentOK
<1>9. QED
  BY <1>5, <1>7, <1>8, LastIndex

\* flush() of one container leaves what was decided and sent for the others.
LEMMA FlushLeavesOthers ==
    ASSUME TypeOK, NEW w \in Flushers, NEW c \in Containers, FlushStep(w, c),
           NEW d \in Containers, d # c
    PROVE  UNCHANGED <<sent[d], closed[d], final[d], addressee[d]>>
<1> USE DEF TypeOK, trackVars, ownerVars, flushVars, loopVars, netVars
<1>1. CASE FlushBegin(w, c)
  BY <1>1 DEF FlushBegin
<1>2. CASE FlushCreate(w, c) \/ FlushCreateFails(w, c) \/ FlushEncode(w, c)
  BY <1>2 DEF FlushCreate, FlushCreateFails, FlushEncode
<1>3. CASE FlushSettle(w, c) \/ FlushLookupFails(w, c)
  BY <1>3 DEF FlushSettle, FlushLookupFails, Address
<1>4. CASE \E dep \in Owners : FlushLookup(w, c, dep)
  BY <1>4 DEF FlushLookup, Address
<1>5. CASE FlushPost(w, c)
  BY <1>5 DEF FlushPost, Send
<1>6. CASE FlushReply(w, c)
  BY <1>6 DEF FlushReply, EndPost
<1>7. QED
  BY <1>1, <1>2, <1>3, <1>4, <1>5, <1>6 DEF FlushStep

\* Every step keeps what has been sent in agreement with where the flushes stand.
LEMMA PostsInductive ==
    ASSUME TypeOK, Claims, Collected, Posts, [Next]_vars
    PROVE  Posts'
<1> SUFFICES ASSUME NEW d \in Containers, NEW i \in 1 .. Len(sent'[d])
             PROVE  SentOK(d, i)'
  BY DEF Posts
<1> USE DEF trackVars, ownerVars, flushVars, loopVars, netVars
<1> DEFINE Quiet == /\ UNCHANGED <<sent[d], closed[d], final[d], addressee[d]>>
                    /\ \A w \in Flushers :
                          \/ flush'[w][d] = flush[w][d]
                          \/ flush[w][d] \notin Replied /\ flush'[w][d] \notin {"lookup", "post"}
<1>1. CASE Quiet
  <2>1. i \in 1 .. Len(sent[d]) /\ SentOK(d, i)
    BY <1>1 DEF Posts
  <2>2. QED
    BY <1>1, <2>1, Monotone, QuietStep
<1>2. CASE UNCHANGED <<sent, closed, final, addressee, flush>>
  BY <1>1, <1>2
<1>3. ASSUME NEW c \in Containers, OnContainerStop(c) PROVE SentOK(d, i)'
  <2>1. \A w \in Flushers : flush[w][c] = "idle"
    BY <1>3 DEF OnContainerStop, Claims, ClaimOK
  <2>2. \A w \in Flushers : \/ flush'[w][d] = flush[w][d]
                            \/ d = c /\ flush'[w][d] = "lock"
    BY <1>3 DEF OnContainerStop, TypeOK, Flushers
  <2>3. QED
    BY <1>1, <1>3, <2>1, <2>2 DEF OnContainerStop, Replied
<1>4. CASE FlushAll
  <2>1. d \in tracked => \A w \in Flushers : flush[w][d] = "idle"
    BY DEF Claims, ClaimOK
  <2>2. \A w \in Flushers : \/ flush'[w][d] = flush[w][d]
                            \/ d \in tracked /\ flush'[w][d] = "lock"
    BY <1>4 DEF FlushAll, TypeOK, Flushers
  <2>3. QED
    BY <1>1, <1>4, <2>1, <2>2 DEF FlushAll, Replied
<1>5. ASSUME NEW c \in Containers, NEW w \in Flushers, FlushStep(w, c) PROVE SentOK(d, i)'
  <2>1. CASE d = c
    BY <1>5, <2>1, FlushKeepsPosts
  <2>2. CASE d # c
    <3>1. UNCHANGED <<sent[d], closed[d], final[d], addressee[d]>>
      BY <1>5, <2>2, FlushLeavesOthers
    <3>2. \A v \in Flushers : flush'[v][d] = flush[v][d]
      <4>1. PICK pc \in InFlush \cup Finished : flush' = [flush EXCEPT ![w][c] = pc]
        BY <1>5, FlushEffect
      <4>2. QED
        BY <2>2, <4>1, FlushMoves DEF TypeOK, FlushPCs
    <3>3. QED
      BY <1>1, <3>1, <3>2
  <2>3. QED
    BY <2>1, <2>2
<1>6. ASSUME NEW c \in Containers, PostInterim(c) PROVE SentOK(d, i)'
  <2>1. CASE d = c
    BY <1>6, <2>1, InterimKeepsPosts
  <2>2. CASE d # c
    BY <1>1, <1>6, <2>2 DEF PostInterim, Send, TypeOK
  <2>3. QED
    BY <2>1, <2>2
<1>7. ASSUME NEW c \in Containers,
             \/ Register(c) \/ LaunchResolve(c) \/ ResolveFails(c)
             \/ \E dep \in Owners : ResolveSucceeds(c, dep)
             \/ AggFor(c) \/ \E f \in Files : RecordFile(c, f)
             \/ OnContainerStopUnknown(c)
             \/ \E j \in wire[c] : Deliver(c, j)
             \/ SnapshotNext(c) \/ PostInterimRefused(c) \/ InterimReply(c)
      PROVE  UNCHANGED <<sent, closed, final, addressee, flush>>
  BY <1>7 DEF Register, LaunchResolve, ResolveFails, ResolveSucceeds, AggFor, RecordFile,
     OnContainerStopUnknown, Deliver, SnapshotNext, PostInterimRefused, InterimReply, EndPost
<1>8. ASSUME NEW s \in SUBSET Eligible, SnapshotPass(s)
      PROVE  UNCHANGED <<sent, closed, final, addressee, flush>>
  BY <1>8 DEF SnapshotPass
<1>9. CASE SnapshotPassEnds \/ LoopExit \/ Signal \/ Exit \/ Crash \/ UNCHANGED vars
  BY <1>2, <1>9 DEF SnapshotPassEnds, LoopExit, Signal, Exit, Crash, vars
<1>10. QED
  BY <1>2, <1>3, <1>4, <1>5, <1>6, <1>7, <1>8, <1>9 DEF Next, SnapshotStep

\* PostInv is an invariant of the router in every configuration.
THEOREM PostInvariant == Spec => []PostInv
<1>1. Init => Claims /\ Collected /\ Posts
  <2> SUFFICES ASSUME Init PROVE Claims /\ Collected /\ Posts
    OBVIOUS
  <2>1. Claims
    BY DEF Init, Claims, ClaimOK, InFlush, Finished
  <2>2. Collected
    BY DEF Init, Collected
  <2>3. Posts
    BY DEF Init, Posts
  <2>4. QED
    BY <2>1, <2>2, <2>3
<1>2. TypeOK /\ Claims /\ Collected /\ Posts /\ [Next]_vars => (Claims /\ Collected /\ Posts)'
  BY ClaimsInductive, CollectedInductive, PostsInductive
<1>3. QED
  BY <1>1, <1>2, TypeCorrect, PTL DEF Spec, PostInv

\* The POSTs of a container, from whichever goroutine, form one growing record
\* that ends with its final snapshot.
THEOREM SentInOrderHolds == Spec => []SentInOrder
<1>1. PostInv => SentInOrder
  <2> SUFFICES ASSUME PostInv, NEW c \in Containers, NEW i \in 1 .. Len(sent[c]) - 1
               PROVE  /\ sent[c][i].kind = "interim"
                      /\ sent[c][i].files \subseteq sent[c][i + 1].files
    BY DEF SentInOrder
  <2>1. sent[c] \in Seq(Message)
    BY DEF PostInv, TypeOK
  <2>2. /\ i \in 1 .. Len(sent[c]) /\ i + 1 \in 1 .. Len(sent[c])
        /\ i \in 1 .. i + 1 /\ i # Len(sent[c])
    BY <2>1
  <2>3. SentOK(c, i) /\ SentOK(c, i + 1)
    BY <2>2 DEF PostInv, Posts
  <2>4. QED
    BY <2>2, <2>3 DEF SentOK
<1>2. QED
  BY <1>1, PostInvariant, PTL

\* All POSTs of a container go to one workload, though three goroutines decide
\* on it.
THEOREM OneAddresseeHolds == Spec => []OneAddressee
<1>1. PostInv => OneAddressee
  <2> SUFFICES ASSUME PostInv, NEW c \in Containers, NEW i \in 1 .. Len(sent[c]) - 1
               PROVE  sent[c][i].to = sent[c][i + 1].to
    BY DEF OneAddressee
  <2>1. sent[c] \in Seq(Message)
    BY DEF PostInv, TypeOK
  <2>2. i + 1 \in 1 .. Len(sent[c]) /\ i \in 1 .. i + 1
    BY <2>1
  <2>3. SentOK(c, i + 1)
    BY <2>2 DEF PostInv, Posts
  <2>4. QED
    BY <2>2, <2>3 DEF SentOK
<1>2. QED
  BY <1>1, PostInvariant, PTL

\* The stop hook and flushAll never both flush a container, and one of them has
\* claimed it by the time its stop hook returns.
THEOREM FlushedExactlyOnceHolds == Spec => []FlushedExactlyOnce
<1>1. PostInv => FlushedExactlyOnce
  <2> SUFFICES ASSUME PostInv, NEW c \in Containers
               PROVE  /\ \A v, w \in Flushers :
                           flush[v][c] # "idle" /\ flush[w][c] # "idle" => v = w
                      /\ hook[c] = "stopped" => \E w \in Flushers : flush[w][c] # "idle"
    BY DEF FlushedExactlyOnce
  <2>1. ClaimOK(c)
    BY DEF PostInv, Claims
  <2>2. QED
    BY <2>1 DEF ClaimOK
<1>2. QED
  BY <1>1, PostInvariant, PTL

-----------------------------------------------------------------------------
(***************************************************************************)
(* The refinement of ProfileWindow.                                        *)
(***************************************************************************)
windowMap == [c \in Containers |-> WindowOf(c)]

\* A step that closes no target and registers no container leaves every window.
LEMMA WindowStays ==
    ASSUME closed' = closed,
           \A d \in Containers : (hook'[d] = "none") <=> (hook[d] = "none")
    PROVE  windowMap' = windowMap
  BY DEF windowMap, WindowOf

\* Registration opens a container's window.
LEMMA RegisterOpens ==
    ASSUME PostInv, NEW c \in Containers, Register(c)
    PROVE  Window!Open(c)
<1>1. hook[c] = "none" /\ hook' = [hook EXCEPT ![c] = "registered"]
      /\ UNCHANGED <<recorded, closed, final, sent>>
  BY DEF Register, flushVars, netVars
<1>2. closed[c] = FALSE
  BY <1>1 DEF PostInv, TypeOK, Claims, ClaimOK, InFlush, Finished
<1>3. windowMap[c] = "none"
  BY <1>1, <1>2 DEF windowMap, WindowOf
<1>4. windowMap' = [windowMap EXCEPT ![c] = "open"]
  BY <1>1, <1>2 DEF windowMap, WindowOf, PostInv, TypeOK
<1>5. QED
  BY <1>1, <1>3, <1>4 DEF Window!Open, windowMap

\* A file recorded, even into a closed target, is an observation.
LEMMA RecordObserves ==
    ASSUME PostInv, NEW c \in Containers, NEW f \in Files, RecordFile(c, f)
    PROVE  Window!Observe(c, f)
<1>1. /\ recorded' = [recorded EXCEPT ![c] = @ \cup {f}]
      /\ UNCHANGED <<hook, closed, final, sent>>
  BY DEF RecordFile, flushVars, netVars
<1>2. hook[c] # "none"
  BY DEF RecordFile, PostInv, Collected
<1>3. windowMap[c] # "none" /\ windowMap' = windowMap
  BY <1>1, <1>2 DEF windowMap, WindowOf
<1>4. QED
  BY <1>1, <1>3 DEF Window!Observe, windowMap

\* An interim POST is published while the window is open, to the one address.
LEMMA InterimPublishes ==
    ASSUME PostInv, NEW c \in Containers, PostInterim(c)
    PROVE  Window!PublishInterim(c, owner[c])
<1>1. /\ c \in cur /\ ~closed[c]
      /\ UNCHANGED <<hook, recorded, closed, final>>
      /\ sent' = [sent EXCEPT ![c] =
                    Append(@, [kind |-> "interim", files |-> recorded[c], to |-> owner[c]])]
  BY DEF PostInterim, Send, trackVars, flushVars
<1>2. hook[c] # "none"
  BY <1>1 DEF PostInv, Collected
<1>3. windowMap[c] = "open" /\ windowMap' = windowMap
  BY <1>1, <1>2 DEF windowMap, WindowOf
<1>4. ~ \E w \in Flushers : flush[w][c] \in Replied
  BY <1>1 DEF PostInv, Claims, ClaimOK, Finished, InFlush, Replied
<1>5. Window!MayPublish(c, owner[c])
  BY <1>4, OnlyInterim DEF PostInv, Window!MayPublish, Window!FinalKinds
<1>6. QED
  BY <1>1, <1>3, <1>5 DEF Window!PublishInterim, Window!Publish, windowMap

\* Taking the final snapshot closes the window.
LEMMA FlushCloses ==
    ASSUME PostInv, NEW c \in Containers, NEW w \in Flushers, FlushBegin(w, c)
    PROVE  Window!Close(c)
<1>1. /\ flush[w][c] = "lock"
      /\ closed' = [closed EXCEPT ![c] = TRUE]
      /\ final' = [final EXCEPT ![c] = recorded[c]]
      /\ UNCHANGED <<recorded, sent>>
      /\ hook' = hook \/ hook' = [hook EXCEPT ![c] = "stopped"]
  BY DEF FlushBegin, Return, netVars
<1>2. hook[c] # "none" /\ closed[c] = FALSE
  <2>1. hook[c] # "none"
    BY <1>1 DEF PostInv, Claims, ClaimOK
  <2>2. \A v \in Flushers : flush[v][c] \notin InFlush \cup Finished
    BY <1>1, Alone DEF PostInv, InFlush, Finished
  <2>3. QED
    BY <2>1, <2>2 DEF PostInv, TypeOK, Claims, ClaimOK
<1>3. \A d \in Containers : (hook'[d] = "none") <=> (hook[d] = "none")
  BY <1>1, <1>2 DEF PostInv, TypeOK
<1>4. windowMap[c] = "open"
  BY <1>2 DEF windowMap, WindowOf
<1>5. windowMap' = [windowMap EXCEPT ![c] = "closed"]
  BY <1>1, <1>3 DEF windowMap, WindowOf, PostInv, TypeOK
<1>6. QED
  BY <1>1, <1>4, <1>5 DEF Window!Close, windowMap

\* The final POST publishes what was frozen, to the one address.
LEMMA FlushPublishes ==
    ASSUME PostInv, NEW c \in Containers, NEW w \in Flushers, FlushPost(w, c)
    PROVE  Window!PublishFinal(c, FlushKind(w), addressee[c])
<1>1. /\ flush[w][c] = "post"
      /\ UNCHANGED <<hook, recorded, closed, final>>
      /\ sent' = [sent EXCEPT ![c] = Append(@, [kind |-> FlushKind(w), files |-> final[c],
                                                to |-> addressee[c]])]
  BY DEF FlushPost, Send, trackVars
<1>2. closed[c] = TRUE
  BY <1>1 DEF PostInv, TypeOK, Claims, ClaimOK, InFlush
<1>3. windowMap[c] = "closed" /\ windowMap' = windowMap
  BY <1>1, <1>2 DEF windowMap, WindowOf
<1>4. ~ \E v \in Flushers : flush[v][c] \in Replied
  BY <1>1, Alone DEF PostInv, Replied
<1>5. Window!MayPublish(c, addressee[c])
  <2> SUFFICES ASSUME NEW i \in 1 .. Len(sent[c])
               PROVE  sent[c][i].to = addressee[c] /\ sent[c][i].kind = "interim"
    BY DEF Window!MayPublish, Window!FinalKinds
  <2>1. SentOK(c, i)
    BY DEF PostInv, Posts
  <2>2. QED
    BY <1>1, <1>4, <2>1, OnlyInterim DEF PostInv, SentOK
<1>6. QED
  BY <1>1, <1>3, <1>5 DEF Window!PublishFinal, Window!Publish, windowMap

\* Every other step stutters.
LEMMA OthersStutter ==
    ASSUME PostInv, [Next]_vars,
           \A c \in Containers :
               /\ ~Register(c)
               /\ \A f \in Files : ~RecordFile(c, f)
               /\ ~PostInterim(c)
               /\ \A w \in Flushers : ~FlushBegin(w, c) /\ ~FlushPost(w, c)
    PROVE  UNCHANGED <<windowMap, recorded, final, sent>>
<1> USE DEF trackVars, ownerVars, flushVars, loopVars, netVars
<1> SUFFICES /\ \A d \in Containers : (hook'[d] = "none") <=> (hook[d] = "none")
             /\ UNCHANGED <<closed, recorded, final, sent>>
  BY WindowStays
<1> DEFINE Stutter == /\ \A d \in Containers : (hook'[d] = "none") <=> (hook[d] = "none")
                      /\ UNCHANGED <<closed, recorded, final, sent>>
<1>0. hook \in [Containers -> {"none", "registered", "running", "stopping", "stopped"}]
  BY DEF PostInv, TypeOK
<1>1. ASSUME NEW c \in Containers,
             LaunchResolve(c) \/ OnContainerStop(c) \/ OnContainerStopUnknown(c)
      PROVE  Stutter
  BY <1>0, <1>1 DEF LaunchResolve, OnContainerStop, OnContainerStopUnknown
<1>2. ASSUME NEW c \in Containers, NEW w \in Flushers, FlushStep(w, c) PROVE Stutter
  <2>1. hook[c] # "none"
    <3>1. flush[w][c] # "idle"
      BY <1>2, FlushEffect DEF PostInv, InFlush
    <3>2. QED
      BY <3>1 DEF PostInv, Claims, ClaimOK
  <2>2. hook' = hook \/ hook' = [hook EXCEPT ![c] = "stopped"]
    BY <1>2, FlushEffect DEF PostInv
  <2>3. \A d \in Containers : (hook'[d] = "none") <=> (hook[d] = "none")
    BY <1>0, <2>1, <2>2
  <2>4. \/ FlushCreate(w, c) \/ FlushCreateFails(w, c) \/ FlushEncode(w, c)
        \/ FlushSettle(w, c) \/ FlushLookupFails(w, c) \/ FlushReply(w, c)
        \/ \E dep \in Owners : FlushLookup(w, c, dep)
    BY <1>2 DEF FlushStep
  <2>5. UNCHANGED <<closed, recorded, final, sent>>
    BY <2>4 DEF FlushCreate, FlushCreateFails, FlushEncode, FlushSettle, FlushLookupFails,
       FlushReply, FlushLookup, EndPost
  <2>6. QED
    BY <2>3, <2>5
<1>3. ASSUME NEW c \in Containers,
             \/ ResolveFails(c) \/ AggFor(c)
             \/ \E dep \in Owners : ResolveSucceeds(c, dep)
             \/ \E i \in wire[c] : Deliver(c, i)
             \/ SnapshotNext(c) \/ PostInterimRefused(c) \/ InterimReply(c)
      PROVE  Stutter
  BY <1>3 DEF ResolveFails, AggFor, ResolveSucceeds, Deliver, SnapshotNext,
     PostInterimRefused, InterimReply, EndPost
<1>4. ASSUME NEW s \in SUBSET Eligible, SnapshotPass(s) PROVE Stutter
  BY <1>4 DEF SnapshotPass
<1>5. CASE SnapshotPassEnds \/ LoopExit \/ Signal \/ FlushAll \/ Exit \/ Crash \/ UNCHANGED vars
  BY <1>5 DEF SnapshotPassEnds, LoopExit, Signal, FlushAll, Exit, Crash, vars
<1>6. QED
  BY <1>1, <1>2, <1>3, <1>4, <1>5 DEF Next, SnapshotStep

\* The router implements ProfileWindow, for every set of containers.
THEOREM WindowRefinement == Spec => ImplementsWindow
<1>1. Init => Window!WInit
  BY DEF Init, Window!WInit, WindowOf
<1>2. PostInv /\ [Next]_vars => [Window!WNext]_(Window!windowVars)
  <2> SUFFICES ASSUME PostInv, [Next]_vars
               PROVE  Window!WNext \/ UNCHANGED Window!windowVars
    OBVIOUS
  <2>1. ASSUME NEW c \in Containers, Register(c) PROVE Window!WNext
    BY <2>1, RegisterOpens DEF Window!WNext
  <2>2. ASSUME NEW c \in Containers, NEW f \in Files, RecordFile(c, f) PROVE Window!WNext
    BY <2>2, RecordObserves DEF Window!WNext
  <2>3. ASSUME NEW c \in Containers, PostInterim(c) PROVE Window!WNext
    <3>1. owner[c] \in Addressees
      BY DEF PostInv, TypeOK, Addressees, Owners
    <3>2. QED
      BY <2>3, <3>1, InterimPublishes DEF Window!WNext
  <2>4. ASSUME NEW c \in Containers, NEW w \in Flushers, FlushBegin(w, c) PROVE Window!WNext
    BY <2>4, FlushCloses DEF Window!WNext
  <2>5. ASSUME NEW c \in Containers, NEW w \in Flushers, FlushPost(w, c) PROVE Window!WNext
    <3>1. addressee[c] \in Addressees
      BY DEF PostInv, TypeOK
    <3>2. FlushKind(w) \in Window!FinalKinds
      BY DEF FlushKind, Window!FinalKinds
    <3>3. QED
      BY <2>5, <3>1, <3>2, FlushPublishes DEF Window!WNext
  <2>6. QED
    BY <2>1, <2>2, <2>3, <2>4, <2>5, OthersStutter DEF Window!windowVars, windowMap
<1>3. QED
  BY <1>1, <1>2, PostInvariant, PTL DEF Spec, ImplementsWindow, Window!WSpec

-----------------------------------------------------------------------------
(***************************************************************************)
(* postTarget.postMu, and what it is for.                                  *)
(***************************************************************************)

\* The interim loop works on one container at a time; a container's postMu is
\* held by the flusher inside flush(), or by the loop while its POST is out.
LocksOK ==
    /\ \A c, d \in cur : c = d
    /\ \A c \in Containers : \A w \in Flushers : flush[w][c] \in InFlush => postMu[c] = w
    /\ loop = "posting" => \A c \in cur : postMu[c] = "loop"

\* The loop has exited before flushAll claims anything, and for good.
LoopGone == sig = "flushing" => loop = "exited"

\* A stop hook's flush is after its hook, and looks the owner up, or has given
\* up, only if the start-time resolution has found none.
LookupsOK ==
    \A c \in Containers :
        /\ flush["stop"][c] # "idle" => hook[c] \in {"stopping", "stopped"}
        /\ flush["stop"][c] \in {"lookup", "lost"} => resolve[c] \in {"none", "failed"}

\* Its client waits for the answer to a request of c.
Waited(c) == (\E w \in Flushers : flush[w][c] = "reply") \/ (loop = "posting" /\ c \in cur)

\* At most the last request is on its way, and while it is its client waits; what
\* the controller has is older, and in order.
WireOK(c) ==
    /\ \A i \in wire[c] : i = Len(sent[c])
    /\ wire[c] # {} => Waited(c)
    /\ \A k \in 1 .. Len(received[c]) :
          received[c][k] =< Len(sent[c]) /\ received[c][k] \notin wire[c]
    /\ \A k \in 1 .. Len(received[c]) - 1 : received[c][k] < received[c][k + 1]

Wires == \A c \in Containers : WireOK(c)

\* What a step inside flush() does to postMu, to requests, and on what grounds it
\* looks an owner up or gives up.
FlushGoes(w, c, pc) ==
    /\ flush' = [flush EXCEPT ![w][c] = pc]
    /\ \/ flush[w][c] = "lock" /\ postMu[c] = "free"
       \/ flush[w][c] \in InFlush
    /\ \/ pc \in InFlush /\ flush[w][c] \in InFlush /\ postMu' = postMu
       \/ pc \in InFlush /\ postMu' = [postMu EXCEPT ![c] = w]
       \/ pc \in Finished /\ postMu' = [postMu EXCEPT ![c] = "free"]
    /\ pc = "lookup" => Settled(c) /\ resolve[c] # "resolved"
    /\ pc = "lost" => flush[w][c] = "lookup"
    /\ hook' = hook \/ hook' = [hook EXCEPT ![c] = "stopped"]
    /\ \/ flush[w][c] # "reply" /\ UNCHANGED netVars
       \/ flush[w][c] = "post" /\ pc = "reply"
          /\ \E m \in Message : m.kind # "interim" /\ Send(c, m)
       \/ flush[w][c] = "reply" /\ EndPost(c)
    /\ UNCHANGED <<resolve, loop, cur, sig>>

LEMMA FlushGoesOn ==
    ASSUME NEW w \in Flushers, NEW c \in Containers, TypeOK, FlushStep(w, c)
    PROVE  \E pc \in InFlush \cup Finished : FlushGoes(w, c, pc)
<1> USE DEF InFlush, Finished, Return, LeaveWrite, Address, trackVars,
            ownerVars, flushVars, loopVars
<1>1. CASE FlushBegin(w, c)
  <2>1. flush[w][c] = "lock" /\ postMu[c] = "free" /\ UNCHANGED netVars
        /\ UNCHANGED <<resolve, loop, cur, sig>>
    BY <1>1 DEF FlushBegin
  <2>2. \/ /\ flush' = [flush EXCEPT ![w][c] = "local"]
           /\ postMu' = [postMu EXCEPT ![c] = "free"]
           /\ hook' = hook \/ hook' = [hook EXCEPT ![c] = "stopped"]
        \/ \E pc \in {"create", "settle"} :
           /\ flush' = [flush EXCEPT ![w][c] = pc]
           /\ postMu' = [postMu EXCEPT ![c] = w]
           /\ hook' = hook
    <3>1. AfterWrite(c) \in {"settle", "local"}
      BY DEF AfterWrite
    <3>2. QED
      BY <1>1, <3>1 DEF FlushBegin
  <2>3. QED
    BY <2>1, <2>2 DEF FlushGoes
<1>2. CASE FlushCreate(w, c)
  <2>1. FlushGoes(w, c, "encode")
    BY <1>2 DEF FlushCreate, FlushGoes
  <2>2. QED
    BY <2>1
<1>3. ASSUME flush[w][c] \in {"create", "encode"}, LeaveWrite(w, c), UNCHANGED netVars,
             UNCHANGED <<resolve, loop, cur, sig>>
      PROVE  \E pc \in InFlush \cup Finished : FlushGoes(w, c, pc)
  <2>1. CASE AfterWrite(c) = "local"
    <3>1. FlushGoes(w, c, "local")
      BY <1>3, <2>1 DEF FlushGoes
    <3>2. QED
      BY <3>1
  <2>2. CASE AfterWrite(c) # "local"
    <3>1. FlushGoes(w, c, "settle")
      BY <1>3, <2>2 DEF FlushGoes
    <3>2. QED
      BY <3>1
  <2>3. QED
    BY <2>1, <2>2
<1>4. ASSUME flush[w][c] \in {"settle", "lookup"}, UNCHANGED netVars,
             UNCHANGED <<resolve, loop, cur, sig>>,
             NEW dep, Address(w, c, dep)
      PROVE  \E pc \in InFlush \cup Finished : FlushGoes(w, c, pc)
  <2>1. FlushGoes(w, c, "post") \/ FlushGoes(w, c, "skipped")
    BY <1>4 DEF FlushGoes
  <2>2. QED
    BY <2>1
<1>5. CASE FlushCreateFails(w, c)
  BY <1>3, <1>5 DEF FlushCreateFails, netVars
<1>6. CASE FlushEncode(w, c)
  BY <1>3, <1>6 DEF FlushEncode, netVars
<1>7. CASE FlushSettle(w, c)
  <2>1. /\ flush[w][c] = "settle" /\ Settled(c) /\ UNCHANGED netVars
        /\ UNCHANGED <<resolve, loop, cur, sig>>
    BY <1>7 DEF FlushSettle
  <2>2. CASE resolve[c] = "resolved"
    BY <1>4, <1>7, <2>1, <2>2 DEF FlushSettle
  <2>3. CASE resolve[c] # "resolved"
    <3>1. FlushGoes(w, c, "lookup")
      BY <1>7, <2>1, <2>3 DEF FlushSettle, FlushGoes
    <3>2. QED
      BY <3>1
  <2>4. QED
    BY <2>2, <2>3
<1>8. ASSUME NEW dep \in Owners, FlushLookup(w, c, dep)
      PROVE  \E pc \in InFlush \cup Finished : FlushGoes(w, c, pc)
  BY <1>4, <1>8 DEF FlushLookup, netVars
<1>9. CASE FlushLookupFails(w, c)
  <2>1. FlushGoes(w, c, "lost")
    BY <1>9 DEF FlushLookupFails, FlushGoes
  <2>2. QED
    BY <2>1
<1>10. CASE FlushPost(w, c)
  <2>1. PICK m : m = [kind |-> FlushKind(w), files |-> final[c], to |-> addressee[c]]
    OBVIOUS
  <2>2. final[c] \in SUBSET Files /\ addressee[c] \in Addressees
    BY DEF TypeOK
  <2>3. FlushKind(w) \in Kinds /\ FlushKind(w) # "interim"
    BY DEF FlushKind, Kinds
  <2>4. m \in Message /\ m.kind # "interim"
    BY <2>1, <2>2, <2>3 DEF Message
  <2>5. Send(c, m)
    BY <1>10, <2>1 DEF FlushPost
  <2>6. /\ flush[w][c] = "post" /\ flush' = [flush EXCEPT ![w][c] = "reply"]
        /\ UNCHANGED <<postMu, hook, resolve, loop, cur, sig>>
    BY <1>10 DEF FlushPost
  <2>7. FlushGoes(w, c, "reply")
    BY <2>4, <2>5, <2>6 DEF FlushGoes
  <2>8. QED
    BY <2>7
<1>11. CASE FlushReply(w, c)
  <2>1. FlushGoes(w, c, "posted") \/ FlushGoes(w, c, "postFailed")
    BY <1>11 DEF FlushReply, FlushGoes
  <2>2. QED
    BY <2>1
<1>12. QED
  BY <1>1, <1>2, <1>5, <1>6, <1>7, <1>8, <1>9, <1>10, <1>11 DEF FlushStep

\* The steps that touch neither flushers, locks, the loop nor the network.
LEMMA Bystanders ==
    ASSUME [Next]_vars
    PROVE  \/ UNCHANGED <<flush, postMu, loop, cur, sig, netVars>>
           \/ \E c \in Containers : \/ \E w \in Flushers : FlushStep(w, c)
                                    \/ OnContainerStop(c)
                                    \/ \E i \in wire[c] : Deliver(c, i)
           \/ SnapshotStep \/ Signal \/ FlushAll
<1> USE DEF trackVars, ownerVars, flushVars, loopVars
<1>1. ASSUME NEW c \in Containers,
             \/ Register(c) \/ LaunchResolve(c) \/ ResolveFails(c)
             \/ \E dep \in Owners : ResolveSucceeds(c, dep)
             \/ AggFor(c) \/ \E f \in Files : RecordFile(c, f)
             \/ OnContainerStopUnknown(c)
      PROVE  UNCHANGED <<flush, postMu, loop, cur, sig, netVars>>
  BY <1>1 DEF Register, LaunchResolve, ResolveFails, ResolveSucceeds, AggFor,
     RecordFile, OnContainerStopUnknown
<1>2. ASSUME Exit \/ Crash \/ UNCHANGED vars
      PROVE  UNCHANGED <<flush, postMu, loop, cur, sig, netVars>>
  BY <1>2 DEF Exit, Crash, vars
<1>3. QED
  BY <1>1, <1>2 DEF Next

\* A step of the loop: whose lock it takes and gives back, and what it sends.
LEMMA LoopGoesOn ==
    ASSUME TypeOK, SnapshotStep
    PROVE  /\ UNCHANGED <<flush, sig, hook, resolve>>
           /\ \/ /\ UNCHANGED <<postMu, cur, netVars>>
                 /\ loop # "posting" /\ loop' # "posting" /\ (loop = "exited" => loop' = "exited")
              \/ \E c \in Containers :
                    \/ /\ loop = "passing" /\ loop' = "locking" /\ cur' = {c}
                       /\ UNCHANGED <<postMu, netVars>>
                    \/ /\ loop = "locking" /\ loop' = "passing" /\ cur' = {}
                       /\ UNCHANGED <<postMu, netVars>>
                    \/ /\ loop = "locking" /\ loop' = "posting" /\ cur' = cur /\ c \in cur
                       /\ postMu[c] = "free" /\ postMu' = [postMu EXCEPT ![c] = "loop"]
                       /\ \E m \in Message : Send(c, m)
                    \/ /\ loop = "posting" /\ loop' = "passing" /\ c \in cur /\ cur' = {}
                       /\ postMu' = [postMu EXCEPT ![c] = "free"]
                       /\ EndPost(c)
<1> USE DEF trackVars, ownerVars, flushVars, NextInPass
<1>1. ASSUME NEW d \in SUBSET Eligible, SnapshotPass(d)
      PROVE  /\ UNCHANGED <<flush, sig, hook, resolve, postMu, cur, netVars>>
             /\ loop = "waiting" /\ loop' = "passing"
  BY <1>1 DEF SnapshotPass
<1>2. ASSUME SnapshotPassEnds
      PROVE  /\ UNCHANGED <<flush, sig, hook, resolve, postMu, cur, netVars>>
             /\ loop = "passing" /\ loop' = "waiting"
  BY <1>2 DEF SnapshotPassEnds
<1>3. ASSUME LoopExit
      PROVE  /\ UNCHANGED <<flush, sig, hook, resolve, postMu, cur, netVars>>
             /\ loop = "waiting" /\ loop' = "exited"
  BY <1>3 DEF LoopExit
<1>4. ASSUME NEW c \in Containers, SnapshotNext(c)
      PROVE  /\ UNCHANGED <<flush, sig, hook, resolve, postMu, netVars>>
             /\ loop = "passing" /\ loop' = "locking" /\ cur' = {c}
  BY <1>4 DEF SnapshotNext
<1>5. ASSUME NEW c \in Containers, PostInterimRefused(c)
      PROVE  /\ UNCHANGED <<flush, sig, hook, resolve, postMu, netVars>>
             /\ loop = "locking" /\ loop' = "passing" /\ cur' = {}
  BY <1>5 DEF PostInterimRefused
<1>6. ASSUME NEW c \in Containers, PostInterim(c)
      PROVE  /\ UNCHANGED <<flush, sig, hook, resolve, cur>>
             /\ loop = "locking" /\ loop' = "posting" /\ c \in cur
             /\ postMu[c] = "free" /\ postMu' = [postMu EXCEPT ![c] = "loop"]
             /\ \E m \in Message : Send(c, m)
  <2>1. PICK m : m = [kind |-> "interim", files |-> recorded[c], to |-> owner[c]]
    OBVIOUS
  <2>2. recorded[c] \in SUBSET Files /\ owner[c] \in Addressees
    BY DEF TypeOK, Owners, Addressees
  <2>3. m \in Message
    BY <2>1, <2>2 DEF Message, Kinds
  <2>4. Send(c, m)
    BY <1>6, <2>1 DEF PostInterim
  <2>5. QED
    BY <1>6, <2>3, <2>4 DEF PostInterim
<1>7. ASSUME NEW c \in Containers, InterimReply(c)
      PROVE  /\ UNCHANGED <<flush, sig, hook, resolve>>
             /\ loop = "posting" /\ loop' = "passing" /\ c \in cur /\ cur' = {}
             /\ postMu' = [postMu EXCEPT ![c] = "free"]
             /\ EndPost(c)
  BY <1>7 DEF InterimReply
<1>8. QED
  BY <1>1, <1>2, <1>3, <1>4, <1>5, <1>6, <1>7 DEF SnapshotStep

\* flushAll moves only flushers that were idle.
LEMMA FlushAllClaims ==
    ASSUME TypeOK, Claims, FlushAll
    PROVE  /\ UNCHANGED <<hook, resolve, postMu, loop, cur, netVars>>
           /\ loop = "exited" /\ sig = "stopping" /\ sig' = "flushing"
           /\ \A w \in Flushers, c \in Containers :
                 \/ flush'[w][c] = flush[w][c]
                 \/ w = "shutdown" /\ flush[w][c] = "idle" /\ flush'[w][c] = "lock"
<1>1. /\ UNCHANGED <<hook, resolve, postMu, loop, cur, netVars>>
      /\ loop = "exited" /\ sig = "stopping" /\ sig' = "flushing"
  BY DEF FlushAll, ownerVars, loopVars, netVars
<1>2. ASSUME NEW w \in Flushers, NEW c \in Containers
      PROVE  \/ flush'[w][c] = flush[w][c]
             \/ w = "shutdown" /\ flush[w][c] = "idle" /\ flush'[w][c] = "lock"
  <2>1. c \in tracked => flush[w][c] = "idle"
    BY DEF Claims, ClaimOK
  <2>2. flush' = [flush EXCEPT !["shutdown"] =
                     [d \in Containers |-> IF d \in tracked THEN "lock" ELSE @[d]]]
    BY DEF FlushAll
  <2>3. QED
    BY <2>1, <2>2 DEF TypeOK, Flushers
<1>3. QED
  BY <1>1, <1>2

LEMMA StopClaims ==
    ASSUME TypeOK, Claims, NEW c \in Containers, OnContainerStop(c)
    PROVE  /\ UNCHANGED <<resolve, postMu, loop, cur, sig, netVars>>
           /\ hook' = [hook EXCEPT ![c] = "stopping"]
           /\ \A w \in Flushers, d \in Containers :
                 \/ flush'[w][d] = flush[w][d]
                 \/ w = "stop" /\ d = c /\ flush[w][d] = "idle" /\ flush'[w][d] = "lock"
<1>1. /\ UNCHANGED <<resolve, postMu, loop, cur, sig, netVars>>
      /\ hook' = [hook EXCEPT ![c] = "stopping"] /\ c \in tracked
      /\ flush' = [flush EXCEPT !["stop"][c] = "lock"]
  BY DEF OnContainerStop, ownerVars, loopVars, netVars
<1>2. flush["stop"][c] = "idle"
  BY <1>1 DEF Claims, ClaimOK, Flushers
<1>3. "lock" \in FlushPCs /\ "stop" \in Flushers
  BY DEF FlushPCs, Flushers
<1>4. /\ flush'["stop"][c] = "lock"
      /\ \A v \in Flushers, d \in Containers : v # "stop" \/ d # c => flush'[v][d] = flush[v][d]
  BY <1>1, <1>3, FlushMoves DEF TypeOK
<1>5. QED
  BY <1>1, <1>2, <1>4

LEMMA LocksStep ==
    ASSUME TypeOK, Claims, LocksOK, [Next]_vars
    PROVE  LocksOK'
<1>0. /\ "lock" \notin InFlush /\ "loop" \notin Flushers /\ "free" \notin Flushers
      /\ InFlush \cap Finished = {}
  BY DEF InFlush, Flushers, Finished
<1>1. CASE UNCHANGED <<flush, postMu, loop, cur>>
  BY <1>1 DEF LocksOK
<1>2. ASSUME NEW w \in Flushers, NEW c \in Containers, FlushStep(w, c)
      PROVE  LocksOK'
  <2>1. PICK pc \in InFlush \cup Finished : FlushGoes(w, c, pc)
    BY <1>2, FlushGoesOn
  <2>2. /\ flush'[w][c] = pc
        /\ \A v \in Flushers, d \in Containers : v # w \/ d # c => flush'[v][d] = flush[v][d]
    BY <2>1, FlushMoves DEF FlushGoes, TypeOK, FlushPCs
  <2>3. UNCHANGED <<loop, cur>>
    BY <2>1 DEF FlushGoes
  <2>4. postMu[c] = "free" \/ postMu[c] = w
    BY <2>1 DEF FlushGoes, LocksOK
  <2>5. \A d \in Containers : d # c => postMu'[d] = postMu[d]
    BY <2>1 DEF FlushGoes, TypeOK
  <2>6. ASSUME NEW d \in Containers, NEW v \in Flushers, flush'[v][d] \in InFlush
        PROVE  postMu'[d] = v
    <3>1. CASE d # c
      BY <2>2, <2>5, <2>6, <3>1 DEF LocksOK
    <3>2. CASE d = c /\ v # w
      <4>1. postMu[c] = v
        BY <2>2, <2>6, <3>2 DEF LocksOK
      <4>2. QED
        BY <1>0, <2>4, <3>2, <4>1
    <3>3. CASE d = c /\ v = w
      <4>1. pc \in InFlush
        BY <2>2, <2>6, <3>3
      <4>2. \/ flush[w][c] \in InFlush /\ postMu' = postMu
            \/ postMu' = [postMu EXCEPT ![c] = w]
        BY <1>0, <2>1, <4>1 DEF FlushGoes
      <4>3. flush[w][c] \in InFlush => postMu[c] = w
        BY DEF LocksOK
      <4>4. QED
        BY <3>3, <4>2, <4>3 DEF TypeOK
    <3>4. QED
      BY <3>1, <3>2, <3>3
  <2>7. loop = "posting" => \A d \in cur : postMu'[d] = "loop"
    <3>1. SUFFICES ASSUME loop = "posting", NEW d \in cur PROVE postMu'[d] = "loop"
      OBVIOUS
    <3>2. postMu[d] = "loop" /\ d \in Containers
      BY <3>1 DEF LocksOK, TypeOK
    <3>3. d # c
      BY <1>0, <2>4, <3>2
    <3>4. QED
      BY <2>5, <3>2, <3>3
  <2>8. QED
    BY <2>3, <2>6, <2>7 DEF LocksOK
<1>3. ASSUME NEW c \in Containers, OnContainerStop(c) PROVE LocksOK'
  BY <1>0, <1>3, StopClaims DEF LocksOK
<1>4. CASE FlushAll
  BY <1>0, <1>4, FlushAllClaims DEF LocksOK
<1>5. CASE SnapshotStep
  <2>1. UNCHANGED flush
    BY <1>5, LoopGoesOn
  <2>2. CASE UNCHANGED <<postMu, cur>> /\ loop' # "posting"
    BY <2>1, <2>2 DEF LocksOK
  <2>3. ASSUME NEW c \in Containers, loop' # "posting", cur' \in {{c}, {}}, UNCHANGED postMu
        PROVE  LocksOK'
    BY <2>1, <2>3 DEF LocksOK
  <2>4. ASSUME NEW c \in Containers, loop' = "posting", cur' = cur, c \in cur,
               postMu[c] = "free", postMu' = [postMu EXCEPT ![c] = "loop"]
        PROVE  LocksOK'
    <3>1. \A d \in cur : d = c
      BY <2>4 DEF LocksOK
    <3>2. postMu'[c] = "loop" /\ \A d \in Containers : d # c => postMu'[d] = postMu[d]
      BY <2>4 DEF TypeOK
    <3>3. \A w \in Flushers : flush[w][c] \notin InFlush
      BY <1>0, <2>4 DEF LocksOK
    <3>4. QED
      BY <2>1, <2>4, <3>1, <3>2, <3>3 DEF LocksOK
  <2>5. ASSUME NEW c \in Containers, loop = "posting", loop' = "passing", c \in cur, cur' = {},
               postMu' = [postMu EXCEPT ![c] = "free"]
        PROVE  LocksOK'
    <3>1. postMu[c] = "loop"
      BY <2>5 DEF LocksOK
    <3>2. \A d \in Containers : d # c => postMu'[d] = postMu[d]
      BY <2>5 DEF TypeOK
    <3>3. \A w \in Flushers : flush[w][c] \notin InFlush
      BY <1>0, <3>1 DEF LocksOK
    <3>4. QED
      BY <2>1, <2>5, <3>2, <3>3 DEF LocksOK
  <2>6. QED
    BY <1>5, <2>2, <2>3, <2>4, <2>5, LoopGoesOn
<1>6. ASSUME NEW c \in Containers, NEW i \in wire[c], Deliver(c, i)
      PROVE  UNCHANGED <<flush, postMu, loop, cur>>
  BY <1>6 DEF Deliver, flushVars, loopVars
<1>7. ASSUME Signal PROVE UNCHANGED <<flush, postMu, loop, cur>>
  BY <1>7 DEF Signal, flushVars
<1>8. QED
  BY <1>1, <1>2, <1>3, <1>4, <1>5, <1>6, <1>7, Bystanders

LEMMA LoopGoneStep ==
    ASSUME TypeOK, Claims, LoopGone, [Next]_vars
    PROVE  LoopGone'
<1>1. ASSUME NEW c \in Containers, NEW w \in Flushers, FlushStep(w, c)
      PROVE  UNCHANGED <<loop, sig>>
  BY <1>1, FlushGoesOn DEF FlushGoes
<1>2. ASSUME NEW c \in Containers, OnContainerStop(c) PROVE UNCHANGED <<loop, sig>>
  BY <1>2, StopClaims
<1>3. ASSUME NEW c \in Containers, NEW i \in wire[c], Deliver(c, i)
      PROVE  UNCHANGED <<loop, sig>>
  BY <1>3 DEF Deliver, loopVars
<1>4. CASE SnapshotStep
  BY <1>4, LoopGoesOn DEF LoopGone
<1>5. CASE Signal
  BY <1>5 DEF Signal, LoopGone
<1>6. CASE FlushAll
  BY <1>6, FlushAllClaims DEF LoopGone
<1>7. QED
  BY <1>1, <1>2, <1>3, <1>4, <1>5, <1>6, Bystanders DEF LoopGone

\* Once flushAll has claimed the containers no interim POST is issued.
THEOREM NoInterimAfterFlushAllHolds == Spec => NoInterimAfterFlushAll
<1>1. Init => LoopGone
  BY DEF Init, LoopGone
<1>2. TypeOK /\ Claims /\ LoopGone /\ [Next]_vars => LoopGone'
  BY LoopGoneStep
<1>3. ASSUME TypeOK, Claims, LoopGone, [Next]_vars, sig' = "flushing"
      PROVE  /\ loop' # "posting"
             /\ \A c \in Containers :
                   sent'[c] # sent[c] => sent'[c][Len(sent'[c])].kind # "interim"
  <2>1. loop' = "exited"
    BY <1>3, LoopGoneStep DEF LoopGone
  <2>2. ASSUME NEW c \in Containers, sent'[c] # sent[c]
        PROVE  sent'[c][Len(sent'[c])].kind # "interim"
    <3>1. ASSUME NEW d \in Containers, NEW w \in Flushers, FlushStep(w, d)
          PROVE  sent'[c][Len(sent'[c])].kind # "interim"
      <4>1. PICK m \in Message : m.kind # "interim" /\ Send(d, m)
        BY <1>3, <2>2, <3>1, FlushGoesOn DEF FlushGoes, EndPost, netVars
      <4>2. sent' = [sent EXCEPT ![d] = Append(@, m)]
        BY <4>1 DEF Send
      <4>3. d = c
        BY <1>3, <2>2, <4>2 DEF TypeOK
      <4>4. PICK s, n : s = sent'[c] /\ n = Len(sent[c])
        OBVIOUS
      <4>5. sent[c] \in Seq(Message) /\ s = Append(sent[c], m)
        BY <1>3, <4>2, <4>3, <4>4 DEF TypeOK
      <4>6. Len(s) = n + 1 /\ s[n + 1] = m
        BY <4>4, <4>5
      <4>7. QED
        BY <4>1, <4>4, <4>6
    <3>2. CASE SnapshotStep
      <4>1. loop = "exited"
        BY <1>3, <3>2, LoopGoesOn DEF LoopGone
      <4>2. UNCHANGED netVars
        BY <1>3, <3>2, <4>1, LoopGoesOn
      <4>3. QED
        BY <2>2, <4>2 DEF netVars
    <3>3. ASSUME NEW d \in Containers, OnContainerStop(d) PROVE UNCHANGED sent
      BY <1>3, <3>3, StopClaims DEF netVars
    <3>4. ASSUME NEW d \in Containers, NEW i \in wire[d], Deliver(d, i) PROVE UNCHANGED sent
      BY <3>4 DEF Deliver
    <3>5. ASSUME Signal \/ FlushAll PROVE UNCHANGED sent
      BY <3>5 DEF Signal, FlushAll, netVars
    <3>6. QED
      BY <1>3, <2>2, <3>1, <3>2, <3>3, <3>4, <3>5, Bystanders DEF netVars
  <2>3. QED
    BY <2>1, <2>2
<1>4. TypeOK /\ Claims /\ LoopGone /\ [Next]_vars
        => [sig' = "flushing" =>
               /\ loop' # "posting"
               /\ \A c \in Containers :
                     sent'[c] # sent[c] => sent'[c][Len(sent'[c])].kind # "interim"]_vars
  BY <1>3
<1>5. PostInv => TypeOK /\ Claims
  BY DEF PostInv
<1>6. QED
  BY <1>1, <1>2, <1>4, <1>5, PostInvariant, PTL DEF Spec, NoInterimAfterFlushAll

\* A stop hook's flush stays with an owner the start-time resolution has found.
LEMMA LookupsStep ==
    ASSUME ~SlowResolve, TypeOK, Claims, LookupsOK, [Next]_vars
    PROVE  LookupsOK'
<1> DEFINE OK(d) == /\ flush["stop"][d] # "idle" => hook[d] \in {"stopping", "stopped"}
                    /\ flush["stop"][d] \in {"lookup", "lost"} => resolve[d] \in {"none", "failed"}
<1> SUFFICES ASSUME NEW d \in Containers PROVE OK(d)'
  BY DEF LookupsOK
<1>0. /\ OK(d)
      /\ hook[d] \in {"none", "registered"} => resolve[d] = "none"
      /\ hook[d] \in {"none", "registered"} => flush["stop"][d] = "idle"
      /\ "stop" \in Flushers
      /\ resolve[d] \in {"none", "running", "resolved", "failed"}
  BY DEF LookupsOK, Claims, ClaimOK, Flushers, TypeOK
<1> USE DEF trackVars, ownerVars, flushVars, loopVars
<1>1. CASE UNCHANGED <<hook, flush, resolve>>
  BY <1>0, <1>1
<1>2. ASSUME NEW c \in Containers,
             Register(c) \/ LaunchResolve(c) \/ OnContainerStopUnknown(c)
      PROVE  OK(d)'
  BY <1>0, <1>2 DEF Register, LaunchResolve, OnContainerStopUnknown, TypeOK
<1>3. ASSUME NEW c \in Containers, NEW dep \in Owners, ResolveSucceeds(c, dep) \/ ResolveFails(c)
      PROVE  OK(d)'
  BY <1>0, <1>3 DEF ResolveSucceeds, ResolveFails, TypeOK
<1>4. ASSUME NEW c \in Containers, OnContainerStop(c) PROVE OK(d)'
  <2>1. /\ resolve' = resolve /\ hook' = [hook EXCEPT ![c] = "stopping"]
        /\ \/ flush'["stop"][d] = flush["stop"][d]
           \/ d = c /\ flush'["stop"][d] = "lock"
    <3>1. /\ resolve' = resolve /\ hook' = [hook EXCEPT ![c] = "stopping"]
          /\ \A w \in Flushers, e \in Containers :
                \/ flush'[w][e] = flush[w][e]
                \/ w = "stop" /\ e = c /\ flush[w][e] = "idle" /\ flush'[w][e] = "lock"
      BY <1>4, StopClaims
    <3>2. QED
      BY <1>0, <3>1
  <2>2. hook'[d] = hook[d] \/ hook'[d] = "stopping"
    BY <2>1 DEF TypeOK
  <2>3. d = c => hook'[d] = "stopping"
    BY <2>1 DEF TypeOK
  <2>4. QED
    BY <1>0, <2>1, <2>2, <2>3
<1>5. ASSUME NEW c \in Containers, NEW w \in Flushers, FlushStep(w, c) PROVE OK(d)'
  <2>1. PICK pc \in InFlush \cup Finished : FlushGoes(w, c, pc)
    BY <1>5, FlushGoesOn
  <2>2. /\ flush'[w][c] = pc
        /\ \A v \in Flushers, e \in Containers : v # w \/ e # c => flush'[v][e] = flush[v][e]
    BY <2>1, FlushMoves DEF FlushGoes, TypeOK, FlushPCs
  <2>3. resolve' = resolve /\ (hook'[d] = hook[d] \/ hook'[d] = "stopped")
    BY <2>1 DEF FlushGoes, TypeOK
  <2>4. CASE d = c /\ w = "stop"
    <3>1. flush["stop"][d] # "idle"
      BY <2>1, <2>4 DEF FlushGoes, InFlush
    <3>2. pc = "lookup" => resolve[d] \in {"none", "failed"}
      BY <1>0, <2>1, <2>4 DEF FlushGoes, Settled
    <3>3. pc = "lost" => resolve[d] \in {"none", "failed"}
      BY <1>0, <2>1, <2>4 DEF FlushGoes
    <3>4. QED
      BY <1>0, <2>2, <2>3, <2>4, <3>1, <3>2, <3>3
  <2>5. CASE ~(d = c /\ w = "stop")
    BY <1>0, <2>2, <2>3, <2>5
  <2>6. QED
    BY <2>4, <2>5
<1>6. CASE FlushAll
  <2>1. UNCHANGED <<hook, resolve>> /\ flush'["stop"][d] = flush["stop"][d]
    BY <1>0, <1>6, FlushAllClaims
  <2>2. QED
    BY <1>0, <2>1
<1>7. ASSUME NEW c \in Containers,
             AggFor(c) \/ (\E f \in Files : RecordFile(c, f)) \/ (\E i \in wire[c] : Deliver(c, i))
      PROVE  UNCHANGED <<hook, flush, resolve>>
  BY <1>7 DEF AggFor, RecordFile, Deliver
<1>8. ASSUME SnapshotStep PROVE UNCHANGED <<hook, flush, resolve>>
  BY <1>8, LoopGoesOn
<1>9. ASSUME Signal \/ Exit \/ Crash \/ UNCHANGED vars PROVE UNCHANGED <<hook, flush, resolve>>
  BY <1>9 DEF Signal, Exit, Crash, vars
<1> HIDE DEF OK
<1>10. QED
  BY <1>1, <1>2, <1>3, <1>4, <1>5, <1>6, <1>7, <1>8, <1>9 DEF Next, Owners

\* When the 15 s suffice, a stopping container is never given up for want of an
\* owner that its start-time resolution has found.
THEOREM ResolvedOwnerIsUsedHolds ==
    ASSUME ~SlowResolve
    PROVE  Spec => []ResolvedOwnerIsUsed
<1>1. Init => LookupsOK
  BY DEF Init, LookupsOK, Flushers
<1>2. TypeOK /\ Claims /\ LookupsOK /\ [Next]_vars => LookupsOK'
  BY LookupsStep
<1>3. LookupsOK => ResolvedOwnerIsUsed
  BY DEF LookupsOK, ResolvedOwnerIsUsed
<1>4. PostInv => TypeOK /\ Claims
  BY DEF PostInv
<1>5. QED
  BY <1>1, <1>2, <1>3, <1>4, PostInvariant, PTL DEF Spec

\* A request is sent when none is on its way.
LEMMA SendKeepsOrder ==
    ASSUME TypeOK, NEW c \in Containers, NEW m \in Message, Send(c, m),
           WireOK(c), wire[c] = {}, Waited(c)'
    PROVE  WireOK(c)'
<1>1. PICK s, x, r, n : s = sent'[c] /\ x = wire'[c] /\ r = received'[c] /\ n = Len(sent[c])
  OBVIOUS
<1>2. s = Append(sent[c], m) /\ x = {n + 1} /\ r = received[c]
  BY <1>1 DEF Send, TypeOK
<1>3. n \in Nat /\ Len(s) = n + 1
  BY <1>1, <1>2 DEF TypeOK
<1>4. \A i \in x : i = Len(s)
  BY <1>2, <1>3
<1>5. \A k \in 1 .. Len(r) : r[k] =< Len(s) /\ r[k] \notin x
  <2>1. SUFFICES ASSUME NEW k \in 1 .. Len(r) PROVE r[k] =< n + 1 /\ r[k] # n + 1
    BY <1>2, <1>3
  <2>2. r[k] \in Nat /\ r[k] =< n
    BY <1>1, <1>2 DEF TypeOK, WireOK
  <2>3. QED
    BY <1>3, <2>2
<1>6. \A k \in 1 .. Len(r) - 1 : r[k] < r[k + 1]
  BY <1>2 DEF WireOK
<1>7. QED
  BY <1>1, <1>4, <1>5, <1>6 DEF WireOK

\* When a POST ends and nothing arrives later, nothing is on its way.
LEMMA EndKeepsOrder ==
    ASSUME ~LateDelivery, TypeOK, NEW c \in Containers, EndPost(c), WireOK(c)
    PROVE  WireOK(c)'
<1>1. UNCHANGED <<sent, received>> /\ wire' = [wire EXCEPT ![c] = @ \ {Len(sent[c])}]
  BY DEF EndPost
<1>2. wire'[c] = {}
  BY <1>1 DEF TypeOK, WireOK
<1>3. QED
  BY <1>1, <1>2 DEF WireOK

LEMMA DeliverKeepsOrder ==
    ASSUME TypeOK, NEW c \in Containers, NEW i \in wire[c], Deliver(c, i), WireOK(c)
    PROVE  WireOK(c)'
<1>1. PICK x, r, q, n : x = wire'[c] /\ r = received'[c] /\ q = received[c] /\ n = Len(sent[c])
  OBVIOUS
<1>2. /\ sent' = sent /\ x = wire[c] \ {i} /\ r = Append(q, i)
  BY <1>1 DEF Deliver, TypeOK
<1>3. n \in Nat /\ i = n /\ x = {} /\ q \in Seq(Nat)
  BY <1>1, <1>2 DEF TypeOK, WireOK
<1>4. /\ \A k \in 1 .. Len(q) : q[k] =< n /\ q[k] # n
      /\ \A k \in 1 .. Len(q) - 1 : q[k] < q[k + 1]
  BY <1>1, <1>3 DEF WireOK
<1>5. /\ Len(q) \in Nat /\ Len(r) = Len(q) + 1 /\ r[Len(q) + 1] = n
      /\ \A k \in 1 .. Len(q) : r[k] = q[k] /\ q[k] \in Nat
  BY <1>2, <1>3
<1>6. ASSUME NEW k \in 1 .. Len(r) PROVE r[k] =< n
  <2>1. CASE k \in 1 .. Len(q)
    BY <1>4, <1>5, <2>1
  <2>2. CASE k = Len(q) + 1
    BY <1>3, <1>5, <2>2
  <2>3. QED
    BY <1>5, <2>1, <2>2
<1>7. ASSUME NEW k \in 1 .. Len(r) - 1 PROVE r[k] < r[k + 1]
  <2>1. CASE k \in 1 .. Len(q) - 1
    BY <1>4, <1>5, <2>1
  <2>2. CASE k = Len(q)
    <3>1. k \in 1 .. Len(q)
      BY <1>5, <1>7, <2>2
    <3>2. r[k] = q[k] /\ q[k] \in Nat /\ q[k] =< n /\ q[k] # n /\ r[k + 1] = n
      BY <1>4, <1>5, <2>2, <3>1
    <3>3. QED
      BY <1>3, <3>2
  <2>3. QED
    BY <1>5, <2>1, <2>2
<1>8. QED
  BY <1>1, <1>2, <1>3, <1>6, <1>7 DEF WireOK

LEMMA QuietWire ==
    ASSUME NEW d \in Containers, WireOK(d), UNCHANGED <<sent[d], wire[d], received[d]>>,
           Waited(d) => Waited(d)'
    PROVE  WireOK(d)'
<1>1. UNCHANGED <<sent[d], wire[d], received[d]>>
  OBVIOUS
<1>2. QED
  BY <1>1 DEF WireOK

\* Whoever is to send holds the lock, or takes it: nobody waits for an answer.
LEMMA NobodyWaits ==
    ASSUME LocksOK, NEW c \in Containers, WireOK(c),
           \/ postMu[c] = "free" /\ loop = "locking"
           \/ \E w \in Flushers : flush[w][c] = "post"
    PROVE  wire[c] = {}
<1>1. SUFFICES ASSUME Waited(c) PROVE FALSE
  BY DEF WireOK
<1>2. \A w \in Flushers : flush[w][c] \in {"post", "reply"} => postMu[c] = w
  BY DEF LocksOK, InFlush
<1>3. \A w \in Flushers : w # "free" /\ w # "loop"
  BY DEF Flushers
<1>4. QED
  BY <1>1, <1>2, <1>3 DEF Waited, LocksOK

LEMMA WireStep ==
    ASSUME ~LateDelivery, TypeOK, Claims, LocksOK, Wires, [Next]_vars
    PROVE  Wires'
<1> SUFFICES ASSUME NEW d \in Containers PROVE WireOK(d)'
  BY DEF Wires
<1>0. WireOK(d)
  BY DEF Wires
<1>1. CASE UNCHANGED <<flush, postMu, loop, cur, sig, netVars>>
  <2>1. Waited(d) => Waited(d)'
    BY <1>1 DEF Waited
  <2>2. QED
    BY <1>0, <1>1, <2>1, QuietWire DEF netVars
<1>2. ASSUME NEW c \in Containers, NEW w \in Flushers, FlushStep(w, c) PROVE WireOK(d)'
  <2>1. PICK pc \in InFlush \cup Finished : FlushGoes(w, c, pc)
    BY <1>2, FlushGoesOn
  <2>2. /\ flush'[w][c] = pc
        /\ \A v \in Flushers, e \in Containers : v # w \/ e # c => flush'[v][e] = flush[v][e]
    BY <2>1, FlushMoves DEF FlushGoes, TypeOK, FlushPCs
  <2>3. UNCHANGED <<loop, cur>>
    BY <2>1 DEF FlushGoes
  <2>4. CASE d # c
    <3>1. UNCHANGED <<sent[d], wire[d], received[d]>>
      BY <2>1, <2>4 DEF FlushGoes, netVars, Send, EndPost, TypeOK
    <3>2. Waited(d) => Waited(d)'
      BY <2>2, <2>3, <2>4 DEF Waited
    <3>3. QED
      BY <1>0, <3>1, <3>2, QuietWire
  <2>5. CASE d = c /\ flush[w][c] # "reply" /\ UNCHANGED netVars
    <3>1. Waited(c) => Waited(c)'
      BY <2>2, <2>3, <2>5 DEF Waited
    <3>2. QED
      BY <1>0, <2>5, <3>1, QuietWire DEF netVars
  <2>6. ASSUME d = c, flush[w][c] = "post", pc = "reply", NEW m \in Message, Send(c, m)
        PROVE  WireOK(d)'
    <3>1. wire[c] = {}
      BY <1>0, <2>6, NobodyWaits
    <3>2. Waited(c)'
      BY <2>2, <2>6 DEF Waited
    <3>3. QED
      BY <1>0, <2>6, <3>1, <3>2, SendKeepsOrder
  <2>7. CASE d = c /\ EndPost(c)
    BY <1>0, <2>7, EndKeepsOrder
  <2>8. QED
    BY <2>1, <2>4, <2>5, <2>6, <2>7 DEF FlushGoes
<1>3. ASSUME NEW c \in Containers, OnContainerStop(c) PROVE WireOK(d)'
  <2>1. /\ UNCHANGED <<postMu, loop, cur, sig, netVars>>
        /\ \A w \in Flushers : flush[w][d] = "reply" => flush'[w][d] = "reply"
    BY <1>3, StopClaims
  <2>2. Waited(d) => Waited(d)'
    BY <2>1 DEF Waited
  <2>3. QED
    BY <1>0, <2>1, <2>2, QuietWire DEF netVars
<1>4. CASE FlushAll
  <2>1. /\ UNCHANGED <<loop, cur, netVars>>
        /\ \A w \in Flushers : flush[w][d] = "reply" => flush'[w][d] = "reply"
    BY <1>4, FlushAllClaims
  <2>2. Waited(d) => Waited(d)'
    BY <2>1 DEF Waited
  <2>3. QED
    BY <1>0, <2>1, <2>2, QuietWire DEF netVars
<1>5. CASE SnapshotStep
  <2>1. UNCHANGED flush
    BY <1>5, LoopGoesOn
  <2>2. ASSUME loop # "posting", UNCHANGED netVars PROVE WireOK(d)'
    <3>1. Waited(d) => Waited(d)'
      BY <2>1, <2>2 DEF Waited
    <3>2. QED
      BY <1>0, <2>2, <3>1, QuietWire DEF netVars
  <2>3. ASSUME NEW c \in Containers, loop = "locking", loop' = "posting", cur' = cur, c \in cur,
               postMu[c] = "free", NEW m \in Message, Send(c, m)
        PROVE  WireOK(d)'
    <3>1. CASE d = c
      <4>1. wire[c] = {}
        BY <1>0, <2>3, <3>1, NobodyWaits
      <4>2. Waited(c)'
        BY <2>3 DEF Waited
      <4>3. QED
        BY <1>0, <2>3, <3>1, <4>1, <4>2, SendKeepsOrder
    <3>2. CASE d # c
      <4>1. UNCHANGED <<sent[d], wire[d], received[d]>>
        BY <2>3, <3>2 DEF Send, TypeOK
      <4>2. Waited(d) => Waited(d)'
        BY <2>1, <2>3 DEF Waited
      <4>3. QED
        BY <1>0, <4>1, <4>2, QuietWire
    <3>3. QED
      BY <3>1, <3>2
  <2>4. ASSUME NEW c \in Containers, loop = "posting", c \in cur, EndPost(c)
        PROVE  WireOK(d)'
    <3>1. CASE d = c
      BY <1>0, <2>4, <3>1, EndKeepsOrder
    <3>2. CASE d # c
      <4>1. UNCHANGED <<sent[d], wire[d], received[d]>>
        BY <2>4, <3>2 DEF EndPost, TypeOK
      <4>2. d \notin cur
        BY <2>4, <3>2 DEF LocksOK
      <4>3. Waited(d) => Waited(d)'
        BY <2>1, <4>2 DEF Waited
      <4>4. QED
        BY <1>0, <4>1, <4>3, QuietWire
    <3>3. QED
      BY <3>1, <3>2
  <2>5. QED
    BY <1>5, <2>2, <2>3, <2>4, LoopGoesOn
<1>6. ASSUME NEW c \in Containers, NEW i \in wire[c], Deliver(c, i) PROVE WireOK(d)'
  <2>1. CASE d = c
    BY <1>0, <1>6, <2>1, DeliverKeepsOrder
  <2>2. CASE d # c
    <3>1. UNCHANGED <<sent[d], wire[d], received[d]>> /\ UNCHANGED <<flush, loop, cur>>
      BY <1>6, <2>2 DEF Deliver, TypeOK, flushVars, loopVars
    <3>2. Waited(d) => Waited(d)'
      BY <3>1 DEF Waited
    <3>3. QED
      BY <1>0, <3>1, <3>2, QuietWire
  <2>3. QED
    BY <2>1, <2>2
<1>7. CASE Signal
  <2>1. UNCHANGED <<flush, loop, cur, netVars>>
    BY <1>7 DEF Signal, flushVars
  <2>2. Waited(d) => Waited(d)'
    BY <2>1 DEF Waited
  <2>3. QED
    BY <1>0, <2>1, <2>2, QuietWire DEF netVars
<1>8. QED
  BY <1>1, <1>2, <1>3, <1>4, <1>5, <1>6, <1>7, Bystanders

\* When no request arrives after its client gave it up, the controller gets a
\* container's snapshots in the order they were taken.
THEOREM ReceivedInOrderHolds ==
    ASSUME ~LateDelivery
    PROVE  Spec => []ReceivedInOrder
<1>1. Init => LocksOK /\ Wires
  <2>1. SUFFICES ASSUME Init PROVE LocksOK /\ Wires
    OBVIOUS
  <2>2. LocksOK
    BY <2>1 DEF Init, LocksOK, InFlush
  <2>3. ASSUME NEW c \in Containers PROVE WireOK(c)
    <3>1. wire[c] = {} /\ received[c] = <<>>
      BY <2>1 DEF Init
    <3>2. Len(received[c]) = 0 /\ 1 .. 0 = {} /\ 1 .. 0 - 1 = {}
      BY <3>1
    <3>3. QED
      BY <3>1, <3>2 DEF WireOK
  <2>4. QED
    BY <2>2, <2>3 DEF Wires
<1>2. TypeOK /\ Claims /\ LocksOK /\ Wires /\ [Next]_vars => LocksOK' /\ Wires'
  BY LocksStep, WireStep
<1>3. Wires => ReceivedInOrder
  BY DEF Wires, WireOK, ReceivedInOrder
<1>4. PostInv => TypeOK /\ Claims
  BY DEF PostInv
<1>5. QED
  BY <1>1, <1>2, <1>3, <1>4, PostInvariant, PTL DEF Spec
=============================================================================
