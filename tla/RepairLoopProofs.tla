-------------------------- MODULE RepairLoopProofs --------------------------
(***************************************************************************)
(* Proofs about RepairLoop, for every set of images, manifests, options    *)
(* and workloads, any number of builds and faults, and any limit on the    *)
(* picks of the model.                                                     *)
(***************************************************************************)
EXTENDS RepairLoop, LayerBuildProofs

IsDir(d) ==
    d = [layout |-> d.layout, removal |-> d.removal, inventory |-> d.inventory,
         sbom |-> d.sbom, sig |-> d.sig, log |-> d.log]

IsCall(c) ==
    c = [weak |-> c.weak, strong |-> c.strong, attempt |-> c.attempt, requests |-> c.requests]

Ended == step = "idle" /\ exit \in {0, 2}

\* What has been written of the build that runs, by the step it has reached.
OutputInv ==
    /\ IsDir(dir)
    /\ step \in {"removal", "inventory", "sbom", "smoke", "verdict"} \/ Ended =>
           dir.layout = n
    /\ step \in {"inventory", "sbom", "smoke", "verdict"} \/ Ended =>
           dir.removal = n \/ "removal" \in warned
    /\ step \in {"sbom", "smoke", "verdict"} \/ Ended =>
           dir.inventory.of = n \/ "inventory" \in warned
    /\ step \in {"smoke", "verdict"} \/ Ended =>
           (\A s \in Sboms : dir.sbom[s] = n /\ dir.sig[s] = n) \/ "sbom" \in warned
    /\ step = "verdict" \/ Ended => dir.log.of = 0

\* The requests made so far: an attempt that needed two has set the latch.
CallInv ==
    /\ IsCall(call)
    /\ noFormat \in BOOLEAN
    /\ call.requests \in 0 .. 3
    /\ step = "ask" =>
           /\ call.attempt \in {1, 2}
           /\ call.attempt = 1 => call.requests = 0
           /\ call.attempt = 2 => call.requests \in {1, 2} /\ (call.requests = 2 => noFormat)

\* The inventory is of a build that has got that far, and if it is of the last
\* one it is the inventory of its layer.
InventoryInv ==
    LET entries == dir.inventory.entries
    IN /\ image \in Images
       /\ n \in Nat /\ dir.inventory.of \in 0 .. n
       /\ step \in {"start", "build", "removal", "inventory"} \/ (step = "idle" /\ exit = 3) =>
              dir.inventory.of # n
       /\ dir.inventory.of = n => entries = Inventory(layer)
       /\ \A p \in DOMAIN entries : entries[p].inHardened \/ p \in DOMAIN tree

\* The suggestions are candidates, and none of the strong ones is lost.
Covered == \A p \in call.strong : (Ancestors(p) \cup {p}) \cap sugg # {}

ChoiceInv ==
    /\ step \notin {"ask", "suggested"} => call = NoCall
    /\ step = "ask" => call.strong \cup call.weak \subseteq Universe
    /\ step = "suggested" =>
           /\ sugg \subseteq Universe
           /\ call # NoCall => sugg \subseteq call.strong \cup call.weak /\ Covered

-----------------------------------------------------------------------------
(* The output directory.                                                   *)

\* A step of the build itself leaves the loop's variables and the image alone.
LEMMA BuildLeaves == Next => UNCHANGED <<image, observed, opts>>
BY DEF Next, StepFails, ResolveELF, ResolveRuntimeCompanions, CheckScratchCompat,
       ApplyDirectoryInclusion, EnsurePaths, ExpandSymlinkTargets, OpenLayer, PeekStores,
       DigestLayer, Finish, Step, inputs

LEMMA OutputInit == LoopInit => OutputInv
BY DEF LoopInit, OutputInv, IsDir, Ended, Sboms

LEMMA OutputStep ==
    ASSUME OutputInv, [LoopNext]_loopVars
    PROVE  OutputInv'
<1> USE DEF OutputInv, IsDir, Ended
<1>1. CASE Start
  BY <1>1 DEF Start, Exit
<1>2. CASE BuildStep
  BY <1>2 DEF BuildStep
<1>3. CASE BuildReturns
  BY <1>3 DEF BuildReturns, Exit
<1>4. CASE WriteRemovalManifest
  BY <1>4 DEF WriteRemovalManifest
<1>5. CASE WriteInventory
  BY <1>5 DEF WriteInventory, Exit
<1>6. CASE GenerateSBOM
  <2>1. PICK signed \in {{}, {"cyclonedx"}, Sboms} :
            /\ dir' = [dir EXCEPT !.sbom = [s \in Sboms |-> n],
                                  !.sig = [s \in Sboms |-> IF s \in signed THEN n ELSE @[s]]]
            /\ IF signed = Sboms THEN UNCHANGED <<warned, faults>>
               ELSE Fault /\ warned' = warned \cup {"sbom"}
    BY <1>6 DEF GenerateSBOM
  <2>2. step = "sbom" /\ step' = "smoke" /\ UNCHANGED <<n, exit>>
    BY <1>6 DEF GenerateSBOM
  <2>3. CASE signed = Sboms
    BY <2>1, <2>2, <2>3
  <2>4. CASE signed # Sboms
    BY <2>1, <2>2, <2>4
  <2>5. QED
    BY <2>3, <2>4
<1>7. CASE SyftFails
  BY <1>7 DEF SyftFails
<1>8. CASE SmokeTest
  <2>1. PICK l : dir' = [dir EXCEPT !.log = l] /\ (step' = "verdict" => l.of = 0)
    BY <1>8 DEF SmokeTest, Exit, NoLog
  <2>2. step = "smoke" /\ UNCHANGED <<n, warned>> /\ (step' = "verdict" \/ (step' = "idle" /\ exit' = 1))
    BY <1>8 DEF SmokeTest, Exit
  <2>3. QED
    BY <2>1, <2>2
<1>9. CASE Verdict
  BY <1>9 DEF Verdict, Exit
<1>10. CASE Diagnose
  BY <1>10 DEF Diagnose
<1>11. CASE Complete
  BY <1>11 DEF Complete
<1>12. CASE Rerun
  BY <1>12 DEF Rerun
<1>13. CASE RerunAllowed
  BY <1>13 DEF RerunAllowed
<1>14. CASE UNCHANGED loopVars
  BY <1>14 DEF loopVars, cli
<1>15. QED
  BY <1>1, <1>2, <1>3, <1>4, <1>5, <1>6, <1>7, <1>8, <1>9, <1>10, <1>11, <1>12, <1>13,
     <1>14 DEF LoopNext

\* OutputOfOneBuild: however often the directory has been used before, and
\* wherever earlier builds failed, a build that runs to its end leaves its own
\* files there, but for those it warned about.
THEOREM OutputOfOneBuildHolds == LoopSpec => []OutputOfOneBuild
<1>1. OutputInv => OutputOfOneBuild
  BY DEF OutputInv, OutputOfOneBuild, Ended
<1>2. QED
  BY OutputInit, OutputStep, <1>1, PTL DEF LoopSpec

-----------------------------------------------------------------------------
(* The requests.                                                           *)

\* A call takes a second request exactly if it sets the latch, which was not set.
LEMMA Completions ==
    ASSUME noFormat \in BOOLEAN, NEW c \in OpenAIComplete
    PROVE  /\ c.requests \in {1, 2}
           /\ c.refused <=> c.requests = 2
           /\ c.requests = 2 => ~noFormat
BY DEF OpenAIComplete, Do

LEMMA CallInit == LoopInit => CallInv
<1> SUFFICES ASSUME LoopInit PROVE CallInv
  OBVIOUS
<1>1. call = NoCall /\ step = "start" /\ noFormat = FALSE
  BY DEF LoopInit
<1>2. IsCall(call)
  BY <1>1 DEF IsCall, NoCall
<1>3. call.requests = 0
  BY <1>1 DEF NoCall
<1>4. noFormat \in BOOLEAN /\ step # "ask"
  BY <1>1
<1>5. call.requests \in 0 .. 3
  BY <1>3
<1>6. QED
  BY <1>2, <1>4, <1>5 DEF CallInv

LEMMA CallStep ==
    ASSUME CallInv, [LoopNext]_loopVars
    PROVE  CallInv'
<1> USE DEF CallInv, IsCall
<1>1. CASE Start
  BY <1>1 DEF Start, Exit
<1>2. CASE BuildStep
  BY <1>2 DEF BuildStep
<1>3. CASE BuildReturns
  BY <1>3 DEF BuildReturns, Exit
<1>4. CASE WriteRemovalManifest
  BY <1>4 DEF WriteRemovalManifest
<1>5. CASE WriteInventory
  BY <1>5 DEF WriteInventory, Exit
<1>6. CASE GenerateSBOM
  BY <1>6 DEF GenerateSBOM
<1>7. CASE SyftFails
  BY <1>7 DEF SyftFails
<1>8. CASE SmokeTest
  BY <1>8 DEF SmokeTest, Exit
<1>9. CASE Verdict
  BY <1>9 DEF Verdict, Exit
<1>10. CASE Diagnose
  <2>1. noFormat' = FALSE /\ call.requests \in 0 .. 3
    BY <1>10 DEF Diagnose
  <2>2. CASE step' = "suggested" /\ UNCHANGED call
    BY <2>1, <2>2
  <2>3. CASE step' = "ask" /\ call' = [weak |-> Weak, strong |-> Strong, attempt |-> 1, requests |-> 0]
    <3>1. PICK w, s : call' = [weak |-> w, strong |-> s, attempt |-> 1, requests |-> 0]
      BY <2>3
    <3>2. IsCall(call)' /\ call'.attempt = 1 /\ call'.requests = 0
      BY <3>1
    <3>3. call'.requests \in 0 .. 3 /\ call'.attempt \in {1, 2} /\ call'.attempt # 2
      BY <3>2
    <3>4. noFormat' \in BOOLEAN
      BY <2>1
    <3>5. QED
      BY <3>2, <3>3, <3>4
  <2>4. QED
    BY <1>10, <2>2, <2>3 DEF Diagnose
<1>11. CASE Complete
  <2>1. PICK c \in OpenAIComplete :
            /\ IF c.refused THEN LatchFormat ELSE UNCHANGED noFormat
            /\ \/ /\ call' = [call EXCEPT !.requests = @ + c.requests]
                  /\ step' = "suggested"
               \/ /\ call.attempt = 1
                  /\ call' = [call EXCEPT !.requests = @ + c.requests, !.attempt = 2]
                  /\ UNCHANGED step
    BY <1>11 DEF Complete
  <2>2. /\ c.requests \in {1, 2}
        /\ c.refused <=> c.requests = 2
        /\ c.requests = 2 => ~noFormat
    BY Completions
  <2>3. noFormat' \in BOOLEAN /\ (c.requests = 2 => noFormat') /\ (noFormat => noFormat')
    BY <2>1, <2>2 DEF LatchFormat
  <2>4. step = "ask" /\ call.requests + c.requests \in 0 .. 3
    <3>1. step = "ask"
      BY <1>11 DEF Complete
    <3>2. QED
      BY <2>2, <3>1
  <2>5. CASE call' = [call EXCEPT !.requests = @ + c.requests] /\ step' = "suggested"
    BY <2>3, <2>4, <2>5
  <2>6. CASE /\ call.attempt = 1
             /\ call' = [call EXCEPT !.requests = @ + c.requests, !.attempt = 2]
    <3>1. call.requests = 0 /\ call.requests + c.requests = c.requests
      BY <2>2, <2>4, <2>6
    <3>2. /\ call'.requests = c.requests /\ call'.attempt = 2
          /\ call'.weak = call.weak /\ call'.strong = call.strong
      BY <2>6, <3>1
    <3>3. IsCall(call)'
      BY <2>6
    <3>4. QED
      BY <2>2, <2>3, <3>2, <3>3
  <2>7. QED
    BY <2>1, <2>5, <2>6
<1>12. CASE Rerun
  BY <1>12 DEF Rerun, NoCall
<1>13. CASE RerunAllowed
  BY <1>13 DEF RerunAllowed
<1>14. CASE UNCHANGED loopVars
  BY <1>14 DEF loopVars, cli
<1>15. QED
  BY <1>1, <1>2, <1>3, <1>4, <1>5, <1>6, <1>7, <1>8, <1>9, <1>10, <1>11, <1>12, <1>13,
     <1>14 DEF LoopNext

\* AtMostThreeRequests: the retry of an invalid answer and the retry without
\* response_format never multiply, since the refusal is remembered.
THEOREM AtMostThreeRequestsHolds == LoopSpec => []AtMostThreeRequests
<1>1. CallInv => AtMostThreeRequests
  BY DEF CallInv, AtMostThreeRequests
<1>2. QED
  BY CallInit, CallStep, <1>1, PTL DEF LoopSpec

-----------------------------------------------------------------------------
(* The inventory, and the candidates taken from it.                        *)

LEMMA InventoryInit == LoopInit => InventoryInv
<1> SUFFICES ASSUME LoopInit PROVE InventoryInv
  OBVIOUS
<1>1. dir.inventory.of = 0 /\ dir.inventory.entries = <<>> /\ n = 1 /\ image \in Images
  BY DEF LoopInit, Init
<1>2. DOMAIN dir.inventory.entries = {}
  BY <1>1
<1>3. QED
  BY <1>1, <1>2 DEF InventoryInv

LEMMA InventoryType ==
    ASSUME NEW hardened
    PROVE  /\ DOMAIN Inventory(hardened) = (DOMAIN tree \cup DOMAIN hardened) \ {<<>>}
           /\ \A p \in DOMAIN Inventory(hardened) :
                 Inventory(hardened)[p].inHardened <=> p \in DOMAIN hardened
BY DEF Inventory

LEMMA InventoryStep ==
    ASSUME InventoryInv, [LoopNext]_loopVars, IsDir(dir)
    PROVE  InventoryInv'
<1> DEFINE Same == UNCHANGED <<n, image, layer, dir>>
           Keeps == UNCHANGED <<n, image, layer>> /\ dir'.inventory = dir.inventory
           Before == {"start", "build", "removal", "inventory"}
\* A step that leaves the inventory, its build and its layer alone.
<1>a. ASSUME Keeps,
             step' \in Before \/ (step' = "idle" /\ exit' = 3) => dir.inventory.of # n
      PROVE  InventoryInv'
  <2>1. tree' = tree
    BY <1>a DEF tree
  <2>2. Inventory(layer)' = Inventory(layer)
    BY <1>a, <2>1 DEF Inventory
  <2>3. QED
    BY <1>a, <2>1, <2>2 DEF InventoryInv
<1>b. ASSUME NEW x, dir' = [dir EXCEPT !.layout = x] \/ dir' = [dir EXCEPT !.removal = x]
                    \/ dir' = [dir EXCEPT !.log = x]
      PROVE  dir'.inventory = dir.inventory
  BY <1>b DEF IsDir
<1>1. CASE Start
  BY <1>1, <1>a DEF Start, Exit, vars, InventoryInv
<1>2. CASE BuildStep
  <2>1. step = "build" /\ UNCHANGED <<step, n, image, dir>>
    BY <1>2, BuildLeaves DEF BuildStep
  <2>2. tree' = tree /\ dir.inventory.of # n
    BY <2>1 DEF tree, InventoryInv
  <2>3. QED
    BY <2>1, <2>2 DEF InventoryInv
<1>3. CASE BuildReturns
  <2>1. dir'.inventory = dir.inventory
    BY <1>3, <1>b DEF BuildReturns
  <2>2. UNCHANGED <<n, image, layer>> /\ step = "build" /\ (step' = "idle" => exit' = 1)
    BY <1>3 DEF BuildReturns, Exit, vars
  <2>3. QED
    BY <2>1, <2>2, <1>a DEF InventoryInv
<1>4. CASE WriteRemovalManifest
  <2>1. dir'.inventory = dir.inventory
    BY <1>4, <1>b DEF WriteRemovalManifest
  <2>2. UNCHANGED <<n, image, layer>> /\ step = "removal"
    BY <1>4 DEF WriteRemovalManifest, vars
  <2>3. QED
    BY <2>1, <2>2, <1>a DEF InventoryInv
<1>5. CASE WriteInventory
  <2>1. /\ UNCHANGED <<n, image, layer>>
        /\ step = "inventory"
        /\ step' = "sbom" \/ (step' = "idle" /\ exit' = 1)
    BY <1>5 DEF WriteInventory, Exit, vars
  <2>2. CASE UNCHANGED dir
    BY <2>1, <2>2, <1>a
  <2>3. CASE dir' = [dir EXCEPT !.inventory = [of |-> n, entries |-> Inventory(layer)]]
    <3>1. dir'.inventory.of = n /\ dir'.inventory.entries = Inventory(layer)
      BY <2>3 DEF IsDir
    <3>2. tree' = tree /\ Inventory(layer)' = Inventory(layer)
      BY <2>1 DEF tree, Inventory
    <3>3. \A p \in DOMAIN Inventory(layer) : Inventory(layer)[p].inHardened \/ p \in DOMAIN tree
      BY InventoryType
    <3>4. n \in Nat /\ image \in Images
      BY DEF InventoryInv
    <3>5. /\ image' \in Images /\ n' \in Nat /\ n' = n
          /\ step' \notin Before /\ ~(step' = "idle" /\ exit' = 3)
      BY <2>1, <3>4
    <3>6. dir'.inventory.of \in 0 .. n'
      BY <3>1, <3>4, <3>5
    <3>7. QED
      BY <3>1, <3>2, <3>3, <3>5, <3>6 DEF InventoryInv
  <2>4. QED
    BY <1>5, <2>2, <2>3 DEF WriteInventory
<1>6. CASE GenerateSBOM
  <2>1. PICK b, g : dir' = [dir EXCEPT !.sbom = b, !.sig = g]
    BY <1>6 DEF GenerateSBOM
  <2>2. dir'.inventory = dir.inventory
    BY <2>1 DEF IsDir
  <2>3. UNCHANGED <<n, image, layer>> /\ step' = "smoke"
    BY <1>6 DEF GenerateSBOM, vars
  <2>4. QED
    BY <2>2, <2>3, <1>a
<1>7. CASE SyftFails
  BY <1>7, <1>a DEF SyftFails, vars
<1>8. CASE SmokeTest
  <2>1. PICK l : dir' = [dir EXCEPT !.log = l]
    BY <1>8 DEF SmokeTest
  <2>2. UNCHANGED <<n, image, layer>> /\ (step' = "verdict" \/ (step' = "idle" /\ exit' = 1))
    BY <1>8 DEF SmokeTest, vars, Exit
  <2>3. QED
    BY <2>1, <2>2, <1>a, <1>b
<1>9. CASE Verdict
  <2>1. UNCHANGED <<n, image, layer, dir>> /\ step' = "idle" /\ exit' # 3
    BY <1>9 DEF Verdict, vars, Exit
  <2>2. QED
    BY <2>1, <1>a
<1>10. CASE Diagnose
  <2>1. UNCHANGED <<n, image, layer, dir>> /\ step' \in {"suggested", "ask"}
    BY <1>10 DEF Diagnose, vars
  <2>2. QED
    BY <2>1, <1>a
<1>11. CASE Complete
  <2>1. UNCHANGED <<n, image, layer, dir>> /\ step' \in {"suggested", "ask"}
    BY <1>11 DEF Complete, vars
  <2>2. QED
    BY <2>1, <1>a
<1>12. CASE Rerun
  <2>1. n' = n + 1 /\ UNCHANGED <<image, dir>>
    BY <1>12 DEF Rerun
  <2>2. n \in Nat /\ n' \in Nat /\ dir.inventory.of \in 0 .. n' /\ dir.inventory.of # n'
    BY <2>1 DEF InventoryInv
  <2>3. tree' = tree
    BY <2>1 DEF tree
  <2>4. QED
    BY <2>1, <2>2, <2>3 DEF InventoryInv
<1>13. CASE RerunAllowed
  BY <1>13, <1>a DEF RerunAllowed, vars, InventoryInv
<1>14. CASE UNCHANGED loopVars
  BY <1>14, <1>a DEF loopVars, cli, vars, InventoryInv
<1>15. QED
  BY <1>1, <1>2, <1>3, <1>4, <1>5, <1>6, <1>7, <1>8, <1>9, <1>10, <1>11, <1>12, <1>13,
     <1>14 DEF LoopNext

\* A candidate is a path of the source image, and not of the layer if the
\* inventory is of that layer.
LEMMA Candidates ==
    ASSUME InventoryInv
    PROVE  /\ Universe \subseteq DOMAIN tree
           /\ Universe \subseteq Seq(STRING)
           /\ dir.inventory.of = n => Universe \cap DOMAIN layer = {}
<1>1. Universe \subseteq DOMAIN tree
  BY DEF Universe, InventoryInv
<1>2. DOMAIN tree \subseteq Seq(STRING)
  BY ImagesAssumption DEF tree, InventoryInv, IsTree
<1>3. ASSUME dir.inventory.of = n PROVE Universe \cap DOMAIN layer = {}
  BY <1>3, InventoryType DEF Universe, InventoryInv
<1>4. QED
  BY <1>1, <1>2, <1>3

\* Of every suggestion that is dropped, something above it stays: the topmost.
LEMMA DropCoveredKeeps ==
    ASSUME NEW ps, NEW p \in ps, p \in Seq(STRING)
    PROVE  (Ancestors(p) \cup {p}) \cap DropCovered(ps) # {}
<1> DEFINE T == {i \in 1 .. Len(p) : SubSeq(p, 1, i) \in ps}
<1>0. Len(p) \in Nat
  OBVIOUS
<1>1. CASE Len(p) = 0
  <2>1. Ancestors(p) = {}
    BY <1>1 DEF Ancestors
  <2>2. QED
    BY <2>1 DEF DropCovered
<1>2. CASE Len(p) # 0
  <2>1. Len(p) \in T
    <3>1. SubSeq(p, 1, Len(p)) = p
      BY SubSeqFull
    <3>2. SubSeq(p, 1, Len(p)) \in ps
      BY <3>1, Zenon
    <3>3. Len(p) \in 1 .. Len(p)
      BY <1>0, <1>2
    <3>4. QED
      BY <3>2, <3>3, Zenon
  <2>2. PICK i \in T : \A j \in T : i =< j
    <3>1. T \in SUBSET Nat
      BY <1>0
    <3>2. QED
      BY <2>1, <3>1, Least
  <2>3. PICK q : q = SubSeq(p, 1, i)
    OBVIOUS
  <2>4. q \in ps /\ i \in 1 .. Len(p)
    BY <2>3
  <2>5. Len(q) = i /\ q \in Seq(STRING)
    BY <2>3, <2>4, <1>0
  <2>6. \A j \in 1 .. (i - 1) : SubSeq(q, 1, j) = SubSeq(p, 1, j) /\ j \in 1 .. Len(p)
    BY <2>3, <2>4, <1>0
  <2>7. Ancestors(q) \cap ps = {}
    <3>1. SUFFICES ASSUME NEW j \in 1 .. (i - 1) PROVE SubSeq(q, 1, j) \notin ps
      BY <2>5 DEF Ancestors
    <3>2. SubSeq(q, 1, j) = SubSeq(p, 1, j) /\ j \in 1 .. Len(p) /\ ~(i =< j)
      BY <2>4, <2>6, <1>0
    <3>3. QED
      BY <2>2, <3>2
  <2>8. q \in DropCovered(ps)
    BY <2>4, <2>7 DEF DropCovered
  <2>9. q \in Ancestors(p) \cup {p}
    <3>1. CASE i = Len(p)
      BY <2>3, <3>1
    <3>2. CASE i # Len(p)
      <4>1. i \in 1 .. (Len(p) - 1)
        BY <2>4, <3>2, <1>0
      <4>2. QED
        BY <2>3, <4>1 DEF Ancestors
    <3>3. QED
      BY <3>1, <3>2
  <2>10. QED
    BY <2>8, <2>9
<1>3. QED
  BY <1>1, <1>2

-----------------------------------------------------------------------------
(* The suggestions.                                                        *)

\* What DropCovered leaves of the strong candidates and a choice of weak ones.
LEMMA Chosen ==
    ASSUME InventoryInv, NEW strong, NEW weak, strong \cup weak \subseteq Universe,
           NEW picks \in SUBSET weak
    PROVE  LET ps == DropCovered(strong \cup picks)
           IN /\ ps \subseteq Universe
              /\ ps \subseteq strong \cup weak
              /\ \A p \in strong : (Ancestors(p) \cup {p}) \cap ps # {}
<1>1. DropCovered(strong \cup picks) \subseteq strong \cup picks
  BY DEF DropCovered
<1>2. ASSUME NEW p \in strong
      PROVE  (Ancestors(p) \cup {p}) \cap DropCovered(strong \cup picks) # {}
  <2>1. p \in strong \cup picks /\ p \in Seq(STRING)
    BY Candidates
  <2>2. QED
    BY <2>1, DropCoveredKeeps
<1>3. QED
  BY <1>1, <1>2

LEMMA StrongAndWeak == Strong \cup Weak \subseteq Universe
BY DEF Strong, Weak, TargetChain

LEMMA ChoiceInit == LoopInit => ChoiceInv
BY DEF LoopInit, ChoiceInv

LEMMA ChoiceStep ==
    ASSUME ChoiceInv, CallInv, InventoryInv, [LoopNext]_loopVars
    PROVE  ChoiceInv'
\* A step between two points where nothing has been suggested.
<1>a. ASSUME UNCHANGED call, {step, step'} \cap {"ask", "suggested"} = {}
      PROVE  ChoiceInv'
  BY <1>a DEF ChoiceInv
<1>1. CASE Start
  BY <1>1, <1>a DEF Start, Exit
<1>2. CASE BuildStep
  BY <1>2, <1>a DEF BuildStep
<1>3. CASE BuildReturns
  BY <1>3, <1>a DEF BuildReturns, Exit
<1>4. CASE WriteRemovalManifest
  BY <1>4, <1>a DEF WriteRemovalManifest
<1>5. CASE WriteInventory
  BY <1>5, <1>a DEF WriteInventory, Exit
<1>6. CASE GenerateSBOM
  BY <1>6, <1>a DEF GenerateSBOM
<1>7. CASE SyftFails
  BY <1>7, <1>a DEF SyftFails
<1>8. CASE SmokeTest
  BY <1>8, <1>a DEF SmokeTest, Exit
<1>9. CASE Verdict
  BY <1>9, <1>a DEF Verdict, Exit
<1>10. CASE Diagnose
  <2>1. step = "idle" /\ Universe' = Universe
    BY <1>10 DEF Diagnose, Universe
  <2>2. CASE step' = "suggested" /\ sugg' = DropCovered(Strong) /\ UNCHANGED call
    <3>1. sugg' \subseteq Universe
      BY <2>2, StrongAndWeak DEF DropCovered
    <3>2. call' = NoCall
      BY <2>1, <2>2 DEF ChoiceInv
    <3>3. QED
      BY <2>1, <2>2, <3>1, <3>2 DEF ChoiceInv
  <2>3. CASE /\ step' = "ask"
             /\ call' = [weak |-> Weak, strong |-> Strong, attempt |-> 1, requests |-> 0]
    <3>1. PICK w, s : /\ w = Weak /\ s = Strong
                      /\ call' = [weak |-> w, strong |-> s, attempt |-> 1, requests |-> 0]
      BY <2>3
    <3>2. call'.strong \cup call'.weak \subseteq Universe
      BY <3>1, StrongAndWeak
    <3>3. QED
      BY <2>1, <2>3, <3>2 DEF ChoiceInv
  <2>4. QED
    BY <1>10, <2>2, <2>3 DEF Diagnose
<1>11. CASE Complete
  <2>1. PICK c \in OpenAIComplete :
            \/ /\ \E picks \in SUBSET (call.weak \cup workload.needs) :
                     /\ Valid(picks)
                     /\ sugg' = DropCovered(call.strong \cup picks) /\ step' = "suggested"
               /\ call' = [call EXCEPT !.requests = @ + c.requests]
            \/ /\ call' = [call EXCEPT !.requests = @ + c.requests, !.attempt = 2]
               /\ UNCHANGED <<sugg, step>>
            \/ /\ sugg' = DropCovered(call.strong \cup {}) /\ step' = "suggested"
               /\ call' = [call EXCEPT !.requests = @ + c.requests]
    BY <1>11 DEF Complete
  <2>2. step = "ask" /\ UNCHANGED dir
    BY <1>11 DEF Complete
  <2>3. Universe' = Universe
    BY <2>2 DEF Universe
  <2>4. call.strong \cup call.weak \subseteq Universe
    BY <2>2 DEF ChoiceInv
  <2>5. call'.strong = call.strong /\ call'.weak = call.weak
    BY <2>1 DEF CallInv, IsCall
  <2>6. ASSUME NEW picks \in SUBSET call.weak,
               sugg' = DropCovered(call.strong \cup picks), step' = "suggested"
        PROVE  ChoiceInv'
    <3>1. /\ sugg' \subseteq Universe
          /\ sugg' \subseteq call.strong \cup call.weak
          /\ \A p \in call.strong : (Ancestors(p) \cup {p}) \cap sugg' # {}
      BY <2>4, <2>6, Chosen
    <3>2. Covered'
      BY <2>5, <3>1 DEF Covered
    <3>3. QED
      BY <2>3, <2>5, <2>6, <3>1, <3>2 DEF ChoiceInv
  <2>7. CASE UNCHANGED <<sugg, step>>
    BY <2>2, <2>3, <2>4, <2>5, <2>7 DEF ChoiceInv
  <2>8. CASE \E picks \in SUBSET (call.weak \cup workload.needs) :
                 /\ Valid(picks)
                 /\ sugg' = DropCovered(call.strong \cup picks) /\ step' = "suggested"
    BY <2>6, <2>8 DEF Valid
  <2>9. CASE sugg' = DropCovered(call.strong \cup {}) /\ step' = "suggested"
    <3>1. {} \in SUBSET call.weak
      OBVIOUS
    <3>2. QED
      BY <2>6, <2>9, <3>1, Zenon
  <2>10. QED
    BY <2>1, <2>7, <2>8, <2>9
<1>12. CASE Rerun
  BY <1>12 DEF Rerun, ChoiceInv
<1>13. CASE RerunAllowed
  BY <1>13, <1>a DEF RerunAllowed
<1>14. CASE UNCHANGED loopVars
  BY <1>14 DEF loopVars, cli, ChoiceInv, Universe, Covered
<1>15. QED
  BY <1>1, <1>2, <1>3, <1>4, <1>5, <1>6, <1>7, <1>8, <1>9, <1>10, <1>11, <1>12, <1>13,
     <1>14 DEF LoopNext

LoopInv == OutputInv /\ CallInv /\ InventoryInv /\ ChoiceInv

LEMMA LoopInvariant == LoopSpec => []LoopInv
<1>1. LoopInit => LoopInv
  BY OutputInit, CallInit, InventoryInit, ChoiceInit DEF LoopInv
<1>2. LoopInv /\ [LoopNext]_loopVars => LoopInv'
  <2>1. SUFFICES ASSUME LoopInv, [LoopNext]_loopVars PROVE LoopInv'
    OBVIOUS
  <2>2. OutputInv /\ CallInv /\ InventoryInv /\ ChoiceInv /\ IsDir(dir)
    BY <2>1 DEF LoopInv, OutputInv
  <2>3. OutputInv' /\ CallInv'
    BY <2>1, <2>2, OutputStep, CallStep
  <2>4. InventoryInv'
    BY <2>1, <2>2, InventoryStep
  <2>5. ChoiceInv'
    BY <2>1, <2>2, ChoiceStep
  <2>6. QED
    BY <2>3, <2>4, <2>5 DEF LoopInv
<1>3. QED
  BY <1>1, <1>2, PTL DEF LoopSpec

\* ModelOnlyChooses: whatever the provider answers, and whether it answers, the
\* suggestions are candidates, with every strong one or something above it.
THEOREM ModelOnlyChoosesHolds == LoopSpec => []ModelOnlyChooses
<1>1. LoopInv => ModelOnlyChooses
  BY DEF LoopInv, ChoiceInv, ModelOnlyChooses, Covered
<1>2. QED
  BY LoopInvariant, <1>1, PTL

\* candidates.go:118: the candidates are the inventory entries "absent from the
\* hardened image".  Suggestions read off the inventory of the build that failed
\* are paths the source image has and the layer has not.
SuggestsWhatTheLayerLacks ==
    step = "suggested" /\ dir.inventory.of = n => sugg \subseteq DOMAIN tree \ DOMAIN layer

\* SuggestsWhatTheLayerLacks: no step after a build lets the inventory and the
\* layer it is of part, whatever failed on the way.
THEOREM SuggestsWhatTheLayerLacksHolds == LoopSpec => []SuggestsWhatTheLayerLacks
<1>1. LoopInv => SuggestsWhatTheLayerLacks
  <2>1. SUFFICES ASSUME LoopInv, step = "suggested", dir.inventory.of = n
                 PROVE  sugg \subseteq DOMAIN tree \ DOMAIN layer
    BY DEF SuggestsWhatTheLayerLacks
  <2>2. sugg \subseteq Universe /\ InventoryInv
    BY <2>1 DEF LoopInv, ChoiceInv
  <2>3. QED
    BY <2>1, <2>2, Candidates
<1>2. QED
  BY LoopInvariant, <1>1, PTL

-----------------------------------------------------------------------------
(* Nothing is suggested twice.                                             *)

\* No --include of the first build names a directory without a file: of that
\* nothing is included.
IncludesHoldFiles ==
    \A i \in Images : \A o \in Options : \A p \in o.includes \cap DOMAIN i.tree : HoldsFile(i.tree, p)

\* What the inventory says of the source image.
SourceInv ==
    LET entries == dir.inventory.entries
    IN \A p \in DOMAIN entries :
          /\ entries[p].inSource <=> p \in DOMAIN tree
          /\ p \in DOMAIN tree => entries[p].type = tree[p].kind

\* The inventory of the last build is that of a build that has ended well.
BuiltInv ==
    /\ step \in {"removal", "inventory", "sbom", "smoke", "verdict"} => phase = "built"
    /\ dir.inventory.of = n => phase = "built"

IdleInv == step # "suggested" => sugg = {}

LEMMA BuiltStep ==
    ASSUME BuiltInv, InventoryInv, IsDir(dir), [LoopNext]_loopVars
    PROVE  BuiltInv'
<1>0. n \in Nat /\ dir.inventory.of \in 0 .. n
  BY DEF InventoryInv
<1>a. ASSUME UNCHANGED <<phase, n>>, dir'.inventory = dir.inventory,
             step' \in {"removal", "inventory", "sbom", "smoke", "verdict"} => phase = "built"
      PROVE  BuiltInv'
  BY <1>a DEF BuiltInv
<1>b. ASSUME NEW x, dir' = [dir EXCEPT !.layout = x] \/ dir' = [dir EXCEPT !.removal = x]
                    \/ dir' = [dir EXCEPT !.log = x]
      PROVE  dir'.inventory = dir.inventory
  BY <1>b DEF IsDir
<1>1. CASE Start
  BY <1>1, <1>a DEF Start, Exit, vars
<1>2. CASE BuildStep
  <2>1. step = "build" /\ UNCHANGED <<step, n, dir>> /\ dir.inventory.of # n
    BY <1>2 DEF BuildStep, InventoryInv
  <2>2. QED
    BY <2>1 DEF BuiltInv
<1>3. CASE BuildReturns
  <2>1. dir'.inventory = dir.inventory
    BY <1>3, <1>b DEF BuildReturns
  <2>2. UNCHANGED <<phase, n>> /\ (step' = "idle" \/ phase = "built")
    BY <1>3 DEF BuildReturns, Exit, vars
  <2>3. QED
    BY <2>1, <2>2, <1>a
<1>4. CASE WriteRemovalManifest
  <2>1. dir'.inventory = dir.inventory
    BY <1>4, <1>b DEF WriteRemovalManifest
  <2>2. UNCHANGED <<phase, n>> /\ step = "removal"
    BY <1>4 DEF WriteRemovalManifest, vars
  <2>3. QED
    BY <2>1, <2>2, <1>a DEF BuiltInv
<1>5. CASE WriteInventory
  <2>1. UNCHANGED <<phase, n>> /\ phase = "built"
    BY <1>5 DEF WriteInventory, vars, BuiltInv
  <2>2. QED
    BY <2>1 DEF BuiltInv
<1>6. CASE GenerateSBOM
  <2>1. UNCHANGED <<phase, n>> /\ phase = "built"
    BY <1>6 DEF GenerateSBOM, vars, BuiltInv
  <2>2. QED
    BY <2>1 DEF BuiltInv
<1>7. CASE SyftFails
  BY <1>7, <1>a DEF SyftFails, vars, BuiltInv
<1>8. CASE SmokeTest
  <2>1. UNCHANGED <<phase, n>> /\ phase = "built"
    BY <1>8 DEF SmokeTest, vars, BuiltInv
  <2>2. QED
    BY <2>1 DEF BuiltInv
<1>9. CASE Verdict
  BY <1>9, <1>a DEF Verdict, Exit, vars
<1>10. CASE Diagnose
  <2>1. UNCHANGED <<phase, n, dir>> /\ step' \in {"suggested", "ask"}
    BY <1>10 DEF Diagnose, vars
  <2>2. QED
    BY <2>1, <1>a
<1>11. CASE Complete
  <2>1. UNCHANGED <<phase, n, dir>> /\ step' \in {"suggested", "ask"}
    BY <1>11 DEF Complete, vars
  <2>2. QED
    BY <2>1, <1>a
<1>12. CASE Rerun
  <2>1. n' = n + 1 /\ UNCHANGED dir /\ step' = "start"
    BY <1>12 DEF Rerun
  <2>2. dir.inventory.of # n'
    BY <1>0, <2>1
  <2>3. QED
    BY <2>1, <2>2 DEF BuiltInv
<1>13. CASE RerunAllowed
  BY <1>13, <1>a DEF RerunAllowed, vars
<1>14. CASE UNCHANGED loopVars
  BY <1>14 DEF loopVars, cli, vars, BuiltInv
<1>15. QED
  BY <1>1, <1>2, <1>3, <1>4, <1>5, <1>6, <1>7, <1>8, <1>9, <1>10, <1>11, <1>12, <1>13,
     <1>14 DEF LoopNext

LEMMA IdleStep ==
    ASSUME IdleInv, [LoopNext]_loopVars
    PROVE  IdleInv'
<1>1. CASE Diagnose
  BY <1>1 DEF Diagnose, IdleInv
<1>2. CASE Complete
  <2>1. step' = "suggested" \/ UNCHANGED <<sugg, step>>
    BY <1>2 DEF Complete
  <2>2. QED
    BY <2>1 DEF IdleInv
<1>3. CASE Rerun
  BY <1>3 DEF Rerun, IdleInv
<1>4. CASE UNCHANGED sugg /\ (step # "suggested" \/ UNCHANGED step)
  BY <1>4 DEF IdleInv
<1>5. Diagnose \/ Complete \/ Rerun \/ (UNCHANGED sugg /\ (step # "suggested" \/ UNCHANGED step))
  BY DEF LoopNext, loopVars, cli, Start, BuildStep, BuildReturns, WriteRemovalManifest,
         WriteInventory, GenerateSBOM, SyftFails, SmokeTest, Verdict, RerunAllowed
<1>6. QED
  BY <1>1, <1>2, <1>3, <1>4, <1>5

\* The steps that do not write the inventory; none writes the image.
LEMMA InventoryWriters ==
    ASSUME IsDir(dir), [LoopNext]_loopVars
    PROVE  /\ UNCHANGED image
           /\ \/ dir'.inventory = dir.inventory
              \/ dir' = [dir EXCEPT !.inventory = [of |-> n, entries |-> Inventory(layer)]]
<1>a. UNCHANGED image
  <2>1. CASE BuildStep
    BY <2>1, BuildLeaves DEF BuildStep
  <2>2. CASE ~BuildStep
    BY <2>2 DEF LoopNext, loopVars, Start, BuildReturns, WriteRemovalManifest, WriteInventory,
         GenerateSBOM, SyftFails, SmokeTest, Verdict, Diagnose, Complete, Rerun, RerunAllowed, vars
  <2>3. QED
    BY <2>1, <2>2
<1>b. ASSUME NEW x, dir' = [dir EXCEPT !.layout = x] \/ dir' = [dir EXCEPT !.removal = x]
                    \/ dir' = [dir EXCEPT !.log = x]
      PROVE  dir'.inventory = dir.inventory
  BY <1>b DEF IsDir
<1>1. CASE BuildReturns
  BY <1>a, <1>1, <1>b DEF BuildReturns
<1>2. CASE WriteRemovalManifest
  BY <1>a, <1>2, <1>b DEF WriteRemovalManifest
<1>3. CASE GenerateSBOM
  <2>1. PICK b, g : dir' = [dir EXCEPT !.sbom = b, !.sig = g]
    BY <1>3 DEF GenerateSBOM
  <2>2. QED
    BY <1>a, <2>1 DEF IsDir
<1>4. CASE SmokeTest
  <2>1. PICK l : dir' = [dir EXCEPT !.log = l]
    BY <1>4 DEF SmokeTest
  <2>2. QED
    BY <1>a, <2>1, <1>b
<1>5. CASE WriteInventory
  BY <1>a, <1>5 DEF WriteInventory
<1>6. UNCHANGED dir \/ BuildReturns \/ WriteRemovalManifest \/ GenerateSBOM \/ SmokeTest
      \/ WriteInventory
  BY DEF LoopNext, loopVars, cli, Start, BuildStep, SyftFails, Verdict, Diagnose, Complete,
         Rerun, RerunAllowed
<1>7. QED
  BY <1>a, <1>1, <1>2, <1>3, <1>4, <1>5, <1>6

LEMMA SourceStep ==
    ASSUME SourceInv, IsDir(dir), [LoopNext]_loopVars
    PROVE  SourceInv'
<1>1. tree' = tree
  BY InventoryWriters DEF tree
<1>2. CASE dir'.inventory = dir.inventory
  BY <1>1, <1>2 DEF SourceInv
<1>3. CASE dir' = [dir EXCEPT !.inventory = [of |-> n, entries |-> Inventory(layer)]]
  <2>1. dir'.inventory.entries = Inventory(layer)
    BY <1>3 DEF IsDir
  <2>2. \A p \in DOMAIN Inventory(layer) :
            /\ Inventory(layer)[p].inSource <=> p \in DOMAIN tree
            /\ p \in DOMAIN tree => Inventory(layer)[p].type = tree[p].kind
    BY DEF Inventory
  <2>3. QED
    BY <1>1, <2>1, <2>2 DEF SourceInv
<1>4. QED
  BY <1>2, <1>3, InventoryWriters

\* What is suggested and is no directory without files holds one.
LEMMA SuggestedHolds ==
    ASSUME SourceInv, InventoryInv, NEW p \in Universe, p \notin EmptySourceDirs
    PROVE  HoldsFile(tree, p)
<1> DEFINE entries == dir.inventory.entries
           source == {q \in DOMAIN entries : entries[q].inSource}
<1>1. p \in DOMAIN entries /\ p \in DOMAIN tree
  BY Candidates DEF Universe
<1>2. p \in source
  BY <1>1 DEF SourceInv
<1>3. PICK q \in source : IsPrefix(p, q) /\ entries[q].type # "dir"
  BY <1>2 DEF EmptySourceDirs
<1>4. q \in DOMAIN tree /\ entries[q].type = tree[q].kind
  BY DEF SourceInv
<1>5. QED
  BY <1>3, <1>4 DEF HoldsFile

LEMMA FlagsLoopStep ==
    ASSUME FlagsInv, AllListed, SourceInv, InventoryInv, ChoiceInv, IdleInv, [LoopNext]_loopVars
    PROVE  FlagsInv'
<1>1. CASE BuildStep
  BY <1>1, FlagsStep DEF BuildStep
<1>2. CASE Rerun
  <2>1. /\ phase' = "extract" /\ image' = image
        /\ opts'.includes = opts.includes \cup (sugg \ (sugg \cap EmptySourceDirs))
    BY <1>2 DEF Rerun
  <2>2. tree' = tree
    BY <2>1 DEF tree
  <2>3. ASSUME NEW p \in opts'.includes \cap DOMAIN tree PROVE HoldsFile(tree, p)
    <3>1. CASE p \in opts.includes
      BY <3>1 DEF FlagsInv, IncludedInv
    <3>2. CASE p \in sugg /\ p \notin EmptySourceDirs
      <4>1. p \in Universe
        BY <3>2 DEF ChoiceInv, IdleInv
      <4>2. QED
        BY <3>2, <4>1, SuggestedHolds
    <3>3. QED
      BY <2>1, <3>1, <3>2
  <2>4. IncludedInv'
    BY <2>1, <2>2, <2>3 DEF IncludedInv, Told
  <2>5. EnsuredInv' /\ WrittenInv' /\ image' \in Images
    BY <2>1 DEF EnsuredInv, WrittenInv, Told, FlagsInv
  <2>6. QED
    BY <2>4, <2>5 DEF FlagsInv
<1>3. CASE UNCHANGED vars
  <2>1. UNCHANGED <<image, opts, files, phase, layer, tree>>
    BY <1>3 DEF vars, tree
  <2>2. QED
    BY <2>1 DEF FlagsInv, IncludedInv, EnsuredInv, WrittenInv
<1>4. BuildStep \/ Rerun \/ UNCHANGED vars
  BY DEF LoopNext, loopVars, Start, BuildReturns, WriteRemovalManifest,
         WriteInventory, GenerateSBOM, SyftFails, SmokeTest, Verdict, Diagnose, Complete, RerunAllowed
<1>5. QED
  BY <1>1, <1>2, <1>3, <1>4

\* The order has every path of every manifest of the loop: that of the first build,
\* and those of the builds that are told what was suggested.
LoopListedInv ==
    /\ ListedInv
    /\ observed \in Observations
    /\ <<>> \notin DOMAIN dir.inventory.entries

LEMMA LoopListedInit == LoopInit => LoopListedInv
<1> SUFFICES ASSUME LoopInit PROVE LoopListedInv
  OBVIOUS
<1>1. Init /\ dir.inventory.entries = <<>>
  BY DEF LoopInit
<1>2. ListedInv /\ observed \in Observations
  BY <1>1, ListedInit DEF Init
<1>3. DOMAIN dir.inventory.entries = {}
  BY <1>1
<1>4. QED
  BY <1>2, <1>3 DEF LoopListedInv

\* What is suggested, and what an --include of it includes, are paths of the image.
LEMMA SuggestedListed ==
    ASSUME InventoryInv, LoopListedInv, NEW p \in Universe
    PROVE  p \in Range(Order) /\ Included(p) \subseteq Range(Order)
<1>1. p \in DOMAIN tree /\ p # <<>>
  BY Candidates DEF Universe, LoopListedInv
<1>2. image \in Images /\ IsTree(tree)
  BY ImagesAssumption DEF InventoryInv, tree
<1>3. DOMAIN tree \ {<<>>} \subseteq Range(Order)
  BY <1>2, OrderLists
<1>4. Included(p) \subseteq DOMAIN tree \ {<<>>}
  BY <1>1, <1>2, IncludedOfTree
<1>5. QED
  BY <1>1, <1>3, <1>4

LEMMA LoopListedStep ==
    ASSUME LoopListedInv, InventoryInv, ChoiceInv, IdleInv, IsDir(dir), [LoopNext]_loopVars
    PROVE  LoopListedInv'
<1>1. <<>> \notin DOMAIN dir'.inventory.entries
  <2>1. CASE dir'.inventory = dir.inventory
    BY <2>1 DEF LoopListedInv
  <2>2. CASE dir' = [dir EXCEPT !.inventory = [of |-> n, entries |-> Inventory(layer)]]
    <3>1. dir'.inventory.entries = Inventory(layer)
      BY <2>2 DEF IsDir
    <3>2. <<>> \notin DOMAIN Inventory(layer)
      BY InventoryType
    <3>3. QED
      BY <3>1, <3>2
  <2>3. QED
    BY <2>1, <2>2, InventoryWriters
<1>2. ASSUME Next PROVE ListedInv' /\ observed' = observed
  BY <1>2, ListedStep, BuildLeaves DEF LoopListedInv
<1>3. ASSUME Rerun PROVE ListedInv' /\ observed' = observed
  <2>1. PICK R : R = Range(Order)
    OBVIOUS
  <2>2. Range(Order)' = R
    BY <2>1 DEF Range
  <2>3. PICK mkdirs : mkdirs = sugg \cap EmptySourceDirs
    OBVIOUS
  <2>4. /\ opts' = [includes |-> opts.includes \cup (sugg \ mkdirs),
                    ensures |-> opts.ensures \cup {<<p, TRUE>> : p \in mkdirs}]
        /\ files' = observed /\ UNCHANGED <<image, observed>>
    BY <1>3, <2>3 DEF Rerun
  <2>5. opts'.includes = opts.includes \cup (sugg \ mkdirs)
    BY <2>4
  <2>6. opts'.ensures = opts.ensures \cup {<<p, TRUE>> : p \in mkdirs}
    BY <2>4
  <2>7. tree' = tree
    BY <2>4 DEF tree
  <2>8. sugg \subseteq Universe
    BY DEF ChoiceInv, IdleInv
  <2>9. \A p \in sugg : p \in R /\ Included(p) \subseteq R
    BY <2>1, <2>8, SuggestedListed
  <2>10. {e[1] : e \in opts.ensures} \subseteq R /\ \A incl \in opts.includes : Included(incl) \subseteq R
    BY <2>1 DEF LoopListedInv, ListedInv, OptionsListed
  <2>11. \A incl \in opts'.includes : IncludedFrom(tree, incl) \subseteq R
    BY <2>5, <2>9, <2>10 DEF Included
  <2>12. {e[1] : e \in opts'.ensures} \subseteq R
    <3>1. SUFFICES ASSUME NEW e \in opts'.ensures PROVE e[1] \in R
      OBVIOUS
    <3>2. CASE e \in opts.ensures
      BY <2>10, <3>2
    <3>3. CASE \E p \in mkdirs : e = <<p, TRUE>>
      <4>1. PICK p \in mkdirs : e = <<p, TRUE>>
        BY <3>3
      <4>2. e[1] = p /\ p \in sugg
        BY <2>3, <4>1
      <4>3. QED
        BY <2>9, <4>2
    <3>4. QED
      BY <2>6, <3>2, <3>3
  <2>13. OptionsListed'
    BY <2>2, <2>7, <2>11, <2>12 DEF OptionsListed, Included
  <2>14. DOMAIN observed \subseteq R
    BY <2>1, ListedAssumption DEF LoopListedInv
  <2>15. AllListed'
    BY <2>2, <2>4, <2>14 DEF AllListed
  <2>16. image' \in Images
    BY <2>4 DEF LoopListedInv, ListedInv
  <2>17. QED
    BY <2>4, <2>13, <2>15, <2>16 DEF ListedInv
<1>4. ASSUME UNCHANGED vars PROVE ListedInv' /\ observed' = observed
  <2>1. UNCHANGED observed
    BY <1>4 DEF vars
  <2>2. QED
    BY <1>4, <2>1, ListedStep DEF LoopListedInv
<1>5. Next \/ Rerun \/ UNCHANGED vars
  BY DEF LoopNext, loopVars, Start, BuildStep, BuildReturns, WriteRemovalManifest,
         WriteInventory, GenerateSBOM, SyftFails, SmokeTest, Verdict, Diagnose, Complete, RerunAllowed
<1>6. ListedInv' /\ observed' \in Observations
  BY <1>2, <1>3, <1>4, <1>5 DEF LoopListedInv
<1>7. QED
  BY <1>1, <1>6 DEF LoopListedInv

RerunInv == FlagsInv /\ SourceInv /\ BuiltInv /\ IdleInv /\ LoopListedInv

LEMMA RerunInit ==
    ASSUME IncludesHoldFiles, LoopInit
    PROVE  RerunInv
<1>1. /\ phase = "extract" /\ image \in Images /\ opts \in Options
      /\ step = "start" /\ sugg = {} /\ n = 1
      /\ dir.inventory.of = 0 /\ dir.inventory.entries = <<>>
  BY DEF LoopInit, Init
<1>2. FlagsInv
  <2>1. \A p \in opts.includes \cap DOMAIN tree : HoldsFile(tree, p)
    BY <1>1 DEF IncludesHoldFiles, tree
  <2>2. QED
    BY <1>1, <2>1 DEF FlagsInv, IncludedInv, EnsuredInv, WrittenInv, Told
<1>3. SourceInv
  <2>1. DOMAIN dir.inventory.entries = {}
    BY <1>1
  <2>2. QED
    BY <2>1 DEF SourceInv
<1>4. BuiltInv /\ IdleInv /\ LoopListedInv
  BY <1>1, LoopListedInit DEF BuiltInv, IdleInv
<1>5. QED
  BY <1>2, <1>3, <1>4 DEF RerunInv

LEMMA RerunStep ==
    ASSUME LoopInv, RerunInv, [LoopNext]_loopVars
    PROVE  RerunInv'
<1>1. /\ InventoryInv /\ ChoiceInv /\ IsDir(dir)
      /\ FlagsInv /\ SourceInv /\ BuiltInv /\ IdleInv /\ LoopListedInv
  BY DEF LoopInv, OutputInv, RerunInv
<1>2. FlagsInv'
  <2>1. AllListed
    BY <1>1 DEF LoopListedInv, ListedInv
  <2>2. QED
    BY <1>1, <2>1, FlagsLoopStep
<1>3. SourceInv'
  BY <1>1, SourceStep
<1>4. BuiltInv' /\ IdleInv' /\ LoopListedInv'
  BY <1>1, BuiltStep, IdleStep, LoopListedStep
<1>5. QED
  BY <1>2, <1>3, <1>4 DEF RerunInv

\* NothingSuggestedTwice: what a build was told to include or create, and the
\* image has, is in the layer (ApplyDirectoryInclusion, ApplyEnsurePaths, the
\* writer of the layer), so that diagnose finds nothing of it to suggest -- if
\* no --include of the first build names a directory without a file.
THEOREM NothingSuggestedTwiceHolds ==
    ASSUME IncludesHoldFiles
    PROVE  LoopSpec => []NothingSuggestedTwice
<1>1. LoopInit => RerunInv
  BY RerunInit
<1>2. LoopInv /\ RerunInv /\ [LoopNext]_loopVars => RerunInv'
  BY RerunStep
<1>3. LoopInv /\ RerunInv => NothingSuggestedTwice
  <2>1. SUFFICES ASSUME LoopInv, RerunInv, step = "suggested", dir.inventory.of = n
                 PROVE  /\ sugg \cap (opts.includes \cup {e[1] : e \in opts.ensures}) = {}
                        /\ sugg \subseteq DOMAIN tree \ DOMAIN layer
    BY DEF NothingSuggestedTwice
  <2>2. sugg \subseteq Universe /\ InventoryInv
    BY <2>1 DEF LoopInv, ChoiceInv
  <2>3. sugg \subseteq DOMAIN tree \ DOMAIN layer
    BY <2>1, <2>2, Candidates
  <2>4. phase = "built" /\ FlagsInv
    BY <2>1 DEF RerunInv, BuiltInv
  <2>5. ASSUME NEW p \in sugg, p \in opts.includes \/ \E e \in opts.ensures : p = e[1]
        PROVE  FALSE
    BY <2>3, <2>4, <2>5, FlagsInLayer
  <2>6. QED
    BY <2>3, <2>5
<1>4. QED
  BY LoopInvariant, <1>1, <1>2, <1>3, PTL DEF LoopSpec

-----------------------------------------------------------------------------
(***************************************************************************)
(* An operator who follows the suggestions gets an image that boots.       *)
(***************************************************************************)

\* What holds of the loop whatever the first build was told to include.
BaseInv == LoopInv /\ SourceInv /\ BuiltInv /\ IdleInv /\ LoopListedInv

LEMMA BaseInvariant == LoopSpec => []BaseInv
<1>1. LoopInit => SourceInv /\ BuiltInv /\ IdleInv /\ LoopListedInv
  <2>1. SUFFICES ASSUME LoopInit PROVE SourceInv /\ BuiltInv /\ IdleInv
    BY LoopListedInit
  <2>2. step = "start" /\ sugg = {} /\ n = 1 /\ dir.inventory.of = 0 /\ dir.inventory.entries = <<>>
    BY <2>1 DEF LoopInit
  <2>3. DOMAIN dir.inventory.entries = {}
    BY <2>2
  <2>4. QED
    BY <2>2, <2>3 DEF SourceInv, BuiltInv, IdleInv
<1>2. LoopInv /\ SourceInv /\ BuiltInv /\ IdleInv /\ LoopListedInv /\ [LoopNext]_loopVars
         => (SourceInv /\ BuiltInv /\ IdleInv /\ LoopListedInv)'
  <2>1. LoopInv => InventoryInv /\ ChoiceInv /\ IsDir(dir)
    BY DEF LoopInv, OutputInv
  <2>2. QED
    BY <2>1, SourceStep, BuiltStep, IdleStep, LoopListedStep
<1>3. QED
  BY LoopInvariant, <1>1, <1>2, PTL DEF LoopSpec, BaseInv

\* A step is one of the build, or runs the build again; nothing that was given changes,
\* and what the build is told only grows.
LEMMA LoopMoves ==
    ASSUME [LoopNext]_loopVars
    PROVE  /\ [Next]_vars \/ Rerun
           /\ image' = image /\ observed' = observed /\ workload' = workload
           /\ opts.includes \subseteq opts'.includes /\ opts.ensures \subseteq opts'.ensures
           /\ n' = n \/ Rerun
<1>1. [Next]_vars \/ Rerun
  BY DEF LoopNext, loopVars, Start, BuildStep, BuildReturns, WriteRemovalManifest,
         WriteInventory, GenerateSBOM, SyftFails, SmokeTest, Verdict, Diagnose, Complete, RerunAllowed
<1>2. workload' = workload /\ (n' = n \/ Rerun)
  BY DEF LoopNext, loopVars, cli, Start, BuildStep, BuildReturns, WriteRemovalManifest,
         WriteInventory, GenerateSBOM, SyftFails, SmokeTest, Verdict, Diagnose, Complete,
         Rerun, RerunAllowed
<1>3. CASE [Next]_vars
  <2>1. UNCHANGED <<image, observed, opts>>
    BY <1>3, BuildLeaves DEF vars
  <2>2. QED
    BY <1>1, <1>2, <2>1
<1>4. CASE Rerun
  <2>1. PICK m : opts' = [includes |-> opts.includes \cup (sugg \ m),
                          ensures |-> opts.ensures \cup {<<p, TRUE>> : p \in m}]
    BY <1>4 DEF Rerun
  <2>2. opts.includes \subseteq opts'.includes /\ opts.ensures \subseteq opts'.ensures
    BY <2>1
  <2>3. image' = image /\ observed' = observed
    BY <1>4 DEF Rerun
  <2>4. QED
    BY <1>1, <1>2, <2>2, <2>3
<1>5. QED
  BY <1>1, <1>3, <1>4

\* The log is written, or removed, by the smoke test alone.
LEMMA LogWriters ==
    ASSUME IsDir(dir), [LoopNext]_loopVars
    PROVE  (step = "smoke" /\ SmokeTest) \/ dir'.log = dir.log
<1>a. ASSUME NEW x, dir' = [dir EXCEPT !.layout = x] \/ dir' = [dir EXCEPT !.removal = x]
                    \/ dir' = [dir EXCEPT !.inventory = x]
      PROVE  dir'.log = dir.log
  BY <1>a DEF IsDir
<1>1. CASE BuildReturns
  BY <1>1, <1>a DEF BuildReturns
<1>2. CASE WriteRemovalManifest
  BY <1>2, <1>a DEF WriteRemovalManifest
<1>3. CASE WriteInventory
  BY <1>3, <1>a DEF WriteInventory
<1>4. CASE GenerateSBOM
  <2>1. PICK b, g : dir' = [dir EXCEPT !.sbom = b, !.sig = g]
    BY <1>4 DEF GenerateSBOM
  <2>2. QED
    BY <2>1 DEF IsDir
<1>5. UNCHANGED dir \/ BuildReturns \/ WriteRemovalManifest \/ WriteInventory \/ GenerateSBOM
      \/ SmokeTest
  BY DEF LoopNext, loopVars, cli, Start, BuildStep, SyftFails, Verdict, Diagnose, Complete,
         Rerun, RerunAllowed
<1>6. SmokeTest => step = "smoke"
  BY DEF SmokeTest
<1>7. QED
  BY <1>1, <1>2, <1>3, <1>4, <1>5, <1>6

LEMMA InventoryWritten ==
    ASSUME IsDir(dir), [LoopNext]_loopVars, dir'.inventory # dir.inventory
    PROVE  WriteInventory
<1>a. ASSUME NEW x, dir' = [dir EXCEPT !.layout = x] \/ dir' = [dir EXCEPT !.removal = x]
                    \/ dir' = [dir EXCEPT !.log = x]
      PROVE  FALSE
  BY <1>a DEF IsDir
<1>1. ~BuildReturns /\ ~WriteRemovalManifest /\ ~SmokeTest
  BY <1>a DEF BuildReturns, WriteRemovalManifest, SmokeTest
<1>2. ~GenerateSBOM
  <2>1. SUFFICES ASSUME GenerateSBOM PROVE FALSE
    OBVIOUS
  <2>2. PICK b, g : dir' = [dir EXCEPT !.sbom = b, !.sig = g]
    BY <2>1 DEF GenerateSBOM
  <2>3. QED
    BY <2>2 DEF IsDir
<1>3. dir' # dir
  OBVIOUS
<1>4. QED
  BY <1>1, <1>2, <1>3 DEF LoopNext, loopVars, cli, Start, BuildStep, SyftFails, Verdict, Diagnose,
     Complete, Rerun, RerunAllowed

-----------------------------------------------------------------------------
(* What a build names, and the inventory tells of it.                      *)

BuildInv == FinishedInv /\ NamesInv

LEMMA BuildInvStep ==
    ASSUME BaseInv, BuildInv, [LoopNext]_loopVars
    PROVE  BuildInv'
<1>1. ListedInv /\ observed \in Observations
  BY DEF BaseInv, LoopListedInv
<1>2. CASE [Next]_vars
  BY <1>1, <1>2, FinishedStep, NamesStep DEF BuildInv
<1>3. CASE Rerun
  <2>1. phase' = "extract" /\ files' = observed /\ observed' = observed
    BY <1>3 DEF Rerun
  <2>2. QED
    BY <2>1 DEF BuildInv, FinishedInv, NamesInv
<1>4. QED
  BY <1>2, <1>3, LoopMoves

LEMMA BuildInvariant == LoopSpec => []BuildInv
<1>1. LoopInit => BuildInv
  BY DEF LoopInit, Init, BuildInv, FinishedInv, NamesInv
<1>2. BaseInv /\ BuildInv /\ [LoopNext]_loopVars => BuildInv'
  BY BuildInvStep
<1>3. QED
  BY BaseInvariant, <1>1, <1>2, PTL DEF LoopSpec

\* An inventory knows every path of the image, and what it says is in the layer was kept
\* for something that is still named, whichever build the inventory is of.
EntriesInv ==
    LET entries == dir.inventory.entries
    IN /\ dir.inventory.of # 0 => DOMAIN tree \ {<<>>} \subseteq DOMAIN entries
       /\ \A p \in DOMAIN entries \cap DOMAIN tree : entries[p].inHardened => Kept(AllNames, p)

\* The order has every name (ListedAssumption).
NamesListed == EnsureNames \subseteq Range(Order)

LEMMA NamesAreListed == LoopSpec => []NamesListed
<1>1. BaseInv => NamesListed
  BY EnsureNamesListed DEF BaseInv, LoopListedInv, NamesListed
<1>2. QED
  BY BaseInvariant, <1>1, PTL

LEMMA KeptGrows ==
    ASSUME BaseInv, NamesListed', [LoopNext]_loopVars, NEW p, Kept(AllNames, p)
    PROVE  Kept(AllNames, p)'
<1>1. /\ ListedInv /\ observed \in Observations /\ image' = image /\ observed' = observed
      /\ opts.includes \subseteq opts'.includes /\ opts.ensures \subseteq opts'.ensures
  BY LoopMoves DEF BaseInv, LoopListedInv
<1>2. EnsureNames' \subseteq Range(Order)
  <2>1. Range(Order)' = Range(Order)
    BY DEF Range
  <2>2. QED
    BY <2>1 DEF NamesListed
<1>3. AllNames \subseteq AllNames'
  BY <1>1, <1>2, AllNamesGrow
<1>4. tree' = tree
  BY <1>1 DEF tree
<1>5. QED
  BY <1>3, <1>4 DEF Kept, OnTheWay

LEMMA EntriesStep ==
    ASSUME BaseInv, BuildInv, NamesListed', EntriesInv, [LoopNext]_loopVars
    PROVE  EntriesInv'
<1>1. IsDir(dir) /\ tree' = tree /\ ListedInv /\ InventoryInv
  BY LoopMoves DEF BaseInv, LoopInv, OutputInv, LoopListedInv, tree
<1>2. CASE dir'.inventory = dir.inventory
  <2>1. PICK entries : entries = dir.inventory.entries
    OBVIOUS
  <2>2. dir'.inventory.entries = entries /\ dir'.inventory.of = dir.inventory.of
    BY <1>2, <2>1
  <2>3. dir.inventory.of # 0 => DOMAIN tree \ {<<>>} \subseteq DOMAIN entries
    BY <2>1 DEF EntriesInv
  <2>4. ASSUME NEW p \in DOMAIN entries \cap DOMAIN tree, entries[p].inHardened
        PROVE  Kept(AllNames, p)'
    <3>1. Kept(AllNames, p)
      BY <2>1, <2>4 DEF EntriesInv
    <3>2. QED
      BY <3>1, KeptGrows
  <2>5. QED
    BY <1>1, <2>2, <2>3, <2>4 DEF EntriesInv
<1>3. CASE ~(dir'.inventory = dir.inventory)
  <2>1. WriteInventory
    BY <1>1, <1>3, InventoryWritten
  <2>2. dir' = [dir EXCEPT !.inventory = [of |-> n, entries |-> Inventory(layer)]]
    BY <1>1, <1>3, InventoryWriters
  <2>3. PICK entries : entries = Inventory(layer)
    OBVIOUS
  <2>4. dir'.inventory.entries = entries
    BY <1>1, <2>2, <2>3 DEF IsDir
  <2>5. phase = "built"
    BY <2>1 DEF WriteInventory, BaseInv, BuiltInv
  <2>6. /\ DOMAIN entries = (DOMAIN tree \cup DOMAIN layer) \ {<<>>}
        /\ \A p \in DOMAIN entries : entries[p].inHardened <=> p \in DOMAIN layer
    BY <2>3, InventoryType
  <2>7. Sound(files, layer) /\ DOMAIN files = AllNames
    BY <2>5 DEF BuildInv, FinishedInv, NamesInv
  <2>8. ASSUME NEW p \in DOMAIN entries, entries[p].inHardened PROVE Kept(AllNames, p)'
    <3>1. p \in DOMAIN layer \ {<<>>}
      BY <2>6, <2>8
    <3>2. Kept(AllNames, p)
      BY <2>7, <3>1 DEF Sound, Kept
    <3>3. QED
      BY <3>2, KeptGrows
  <2>9. DOMAIN tree \ {<<>>} \subseteq DOMAIN entries
    BY <2>6
  <2>10. QED
    BY <1>1, <2>4, <2>8, <2>9 DEF EntriesInv
<1>4. QED
  BY <1>2, <1>3

LEMMA EntriesInvariant == LoopSpec => []EntriesInv
<1>1. LoopInit => EntriesInv
  <2>1. SUFFICES ASSUME LoopInit PROVE EntriesInv
    OBVIOUS
  <2>2. dir.inventory.of = 0 /\ dir.inventory.entries = <<>>
    BY <2>1 DEF LoopInit
  <2>3. DOMAIN dir.inventory.entries = {}
    BY <2>2
  <2>4. QED
    BY <2>2, <2>3 DEF EntriesInv
<1>2. BaseInv /\ BuildInv /\ NamesListed' /\ EntriesInv /\ [LoopNext]_loopVars => EntriesInv'
  BY EntriesStep
<1>3. QED
  BY BaseInvariant, BuildInvariant, NamesAreListed, <1>1, <1>2, PTL DEF LoopSpec

-----------------------------------------------------------------------------
(* Which builds boot, and which do not start.                              *)

Building == {"start", "build", "removal", "inventory", "sbom", "smoke"}

Refused == step = "idle" /\ exit = 3

\* A build that boots leaves no log; one that runs has not booted.
BootsInv ==
    /\ boots \in 0 .. n
    /\ step \in Building \/ Refused => boots # n
    /\ step = "verdict" => boots = n
    /\ boots = n => dir.log.of = 0

LEMMA BootsStep ==
    ASSUME BaseInv, BootsInv, [LoopNext]_loopVars
    PROVE  BootsInv'
<1>1. n \in Nat /\ IsDir(dir) /\ boots \in 0 .. n
  BY DEF BaseInv, LoopInv, OutputInv, InventoryInv, BootsInv
<1>a. ASSUME UNCHANGED <<boots, n>>, dir'.log = dir.log,
             step' \in Building \/ Refused' => step \in Building \/ Refused, step' # "verdict"
      PROVE  BootsInv'
  BY <1>a DEF BootsInv
<1>2. CASE Start
  BY <1>1, <1>2, <1>a DEF Start, Building, Refused, Exit
<1>3. CASE BuildStep
  BY <1>1, <1>3, <1>a DEF BuildStep, Building, Refused
<1>4. CASE BuildReturns
  <2>1. dir'.log = dir.log
    BY <1>1, <1>4, LogWriters DEF BuildReturns
  <2>2. QED
    BY <1>4, <2>1, <1>a DEF BuildReturns, Building, Refused, Exit
<1>5. CASE WriteRemovalManifest
  <2>1. dir'.log = dir.log
    BY <1>1, <1>5, LogWriters DEF WriteRemovalManifest
  <2>2. QED
    BY <1>5, <2>1, <1>a DEF WriteRemovalManifest, Building, Refused
<1>6. CASE WriteInventory
  <2>1. dir'.log = dir.log
    BY <1>1, <1>6, LogWriters DEF WriteInventory
  <2>2. QED
    BY <1>6, <2>1, <1>a DEF WriteInventory, Building, Refused, Exit
<1>7. CASE GenerateSBOM
  <2>1. dir'.log = dir.log
    BY <1>1, <1>7, LogWriters DEF GenerateSBOM
  <2>2. QED
    BY <1>7, <2>1, <1>a DEF GenerateSBOM, Building, Refused
<1>8. CASE SyftFails
  BY <1>1, <1>8, <1>a DEF SyftFails, Building, Refused
<1>9. CASE SmokeTest
  <2>1. step = "smoke" /\ n' = n /\ boots # n
    BY <1>9 DEF SmokeTest, BootsInv, Building
  <2>2. CASE boots' = n /\ step' = "verdict" /\ dir' = [dir EXCEPT !.log = NoLog]
    <3>1. dir'.log.of = 0
      BY <1>1, <2>2 DEF IsDir, NoLog
    <3>2. boots' \in 0 .. n'
      BY <1>1, <2>1, <2>2
    <3>3. QED
      BY <2>1, <2>2, <3>1, <3>2 DEF BootsInv, Building, Refused
  <2>3. CASE boots' = boots /\ step' = "idle"
    BY <1>1, <2>1, <2>3 DEF BootsInv
  <2>4. QED
    BY <1>9, <2>2, <2>3 DEF SmokeTest, Exit
<1>10. CASE Verdict
  BY <1>1, <1>10, <1>a DEF Verdict, Building, Refused, Exit
<1>11. CASE Diagnose
  BY <1>1, <1>11, <1>a DEF Diagnose, Building, Refused
<1>12. CASE Complete
  BY <1>1, <1>12, <1>a DEF Complete, Building, Refused
<1>13. CASE Rerun
  <2>1. n' = n + 1 /\ boots' = boots /\ step' = "start"
    BY <1>13 DEF Rerun
  <2>2. boots' \in 0 .. n' /\ boots' # n'
    BY <1>1, <2>1
  <2>3. QED
    BY <2>1, <2>2 DEF BootsInv
<1>14. CASE RerunAllowed
  BY <1>1, <1>14, <1>a DEF RerunAllowed, Building, Refused
<1>15. CASE UNCHANGED loopVars
  BY <1>15 DEF loopVars, cli, BootsInv, Refused
<1>16. QED
  BY <1>2, <1>3, <1>4, <1>5, <1>6, <1>7, <1>8, <1>9, <1>10, <1>11, <1>12, <1>13, <1>14,
     <1>15 DEF LoopNext

\* A build that is refused is the first, which nothing has followed; and one that has not
\* begun has nothing built.
RefusedInv ==
    /\ Refused => NoneDirect /\ ~allowEmpty
    /\ NoneDirect /\ ~allowEmpty => (step = "start" \/ Refused) /\ dir.log.of = 0
    /\ step = "start" \/ Refused => phase = "extract"

LEMMA RefusedStep ==
    ASSUME BaseInv, RefusedInv, [LoopNext]_loopVars
    PROVE  RefusedInv'
<1>1. IsDir(dir) /\ NoneDirect' = NoneDirect
  BY LoopMoves DEF BaseInv, LoopInv, OutputInv, NoneDirect
<1>a. ASSUME step # "start", ~Refused, UNCHANGED allowEmpty, step' # "start", ~Refused'
      PROVE  RefusedInv'
  BY <1>1, <1>a DEF RefusedInv
<1>2. CASE Start
  <2>1. step = "start" /\ UNCHANGED <<dir, allowEmpty, phase>>
    BY <1>2 DEF Start, vars
  <2>2. CASE NoneDirect /\ ~allowEmpty
    <3>1. step' = "idle" /\ exit' = 3
      BY <1>2, <2>2 DEF Start, Exit
    <3>2. QED
      BY <1>1, <2>1, <2>2, <3>1 DEF RefusedInv, Refused
  <2>3. CASE ~(NoneDirect /\ ~allowEmpty)
    <3>1. step' = "build"
      BY <1>2, <2>3 DEF Start
    <3>2. QED
      BY <1>1, <2>1, <2>3, <3>1 DEF RefusedInv, Refused
  <2>4. QED
    BY <2>2, <2>3
<1>3. CASE BuildStep
  BY <1>3, <1>a DEF BuildStep, Refused
<1>4. CASE BuildReturns
  BY <1>4, <1>a DEF BuildReturns, Refused, Exit
<1>5. CASE WriteRemovalManifest
  BY <1>5, <1>a DEF WriteRemovalManifest, Refused
<1>6. CASE WriteInventory
  BY <1>6, <1>a DEF WriteInventory, Refused, Exit
<1>7. CASE GenerateSBOM
  BY <1>7, <1>a DEF GenerateSBOM, Refused
<1>8. CASE SyftFails
  BY <1>8, <1>a DEF SyftFails, Refused
<1>9. CASE SmokeTest
  BY <1>9, <1>a DEF SmokeTest, Refused, Exit
<1>10. CASE Verdict
  BY <1>10, <1>a DEF Verdict, Refused, Exit
<1>11. CASE Diagnose
  <2>1. step = "idle" /\ dir.log.of # 0 /\ step' \in {"suggested", "ask"} /\ UNCHANGED allowEmpty
    BY <1>11 DEF Diagnose, HasLog
  <2>2. ~Refused
    BY <2>1 DEF RefusedInv
  <2>3. QED
    BY <2>1, <2>2, <1>a DEF Refused
<1>12. CASE Complete
  BY <1>12, <1>a DEF Complete, Refused
<1>13. CASE Rerun
  <2>1. /\ step' = "start" /\ phase' = "extract" /\ UNCHANGED allowEmpty
        /\ step # "start" /\ ~Refused
    BY <1>13 DEF Rerun, Refused
  <2>2. QED
    BY <1>1, <2>1 DEF RefusedInv, Refused
<1>14. CASE RerunAllowed
  <2>1. Refused /\ allowEmpty' = TRUE /\ step' = "start" /\ UNCHANGED phase
    BY <1>14 DEF RerunAllowed, Refused, vars
  <2>2. QED
    BY <1>1, <2>1 DEF RefusedInv, Refused
<1>15. CASE UNCHANGED loopVars
  BY <1>1, <1>15 DEF loopVars, cli, vars, RefusedInv, Refused
<1>16. QED
  BY <1>2, <1>3, <1>4, <1>5, <1>6, <1>7, <1>8, <1>9, <1>10, <1>11, <1>12, <1>13, <1>14,
     <1>15 DEF LoopNext

LEMMA BootsInvariant == LoopSpec => [](BootsInv /\ RefusedInv)
<1>1. LoopInit => BootsInv /\ RefusedInv
  BY DEF LoopInit, Init, BootsInv, RefusedInv, Refused
<1>2. BaseInv /\ BootsInv /\ RefusedInv /\ [LoopNext]_loopVars => (BootsInv /\ RefusedInv)'
  BY BootsStep, RefusedStep
<1>3. QED
  BY BaseInvariant, <1>1, <1>2, PTL DEF LoopSpec

-----------------------------------------------------------------------------
(* What the log quotes is suggested.                                       *)

\* The case RepairConverges is about.
Regular == workload.quoted /\ \A q \in workload.needs : Findable(q)

LEMMA RegularLeft ==
    ASSUME image' = image, observed' = observed, workload' = workload
    PROVE  Regular' = Regular
<1>1. tree' = tree /\ \A ps : Expanded(ps)' = Expanded(ps)
  BY NamesLeft DEF tree
<1>2. \A p : IsLink(p)' = IsLink(p) /\ PlainLink(p)' = PlainLink(p)
  BY <1>1 DEF IsLink, PlainLink, Unaliased
<1>3. \A q : Findable(q)' = Findable(q)
  BY <1>1, <1>2 DEF Findable
<1>4. QED
  BY <1>3 DEF Regular

\* What the entrypoint lacks of a layer is not kept for anything.
LEMMA LackingNotKept ==
    ASSUME BaseInv, BuildInv, Regular, phase = "built", NEW q \in Lacking
    PROVE  q \in DOMAIN tree \ {<<>>} /\ q \notin DOMAIN layer /\ ~Kept(AllNames, q)
<1>1. /\ ListedInv /\ observed \in Observations /\ FinishedInv /\ NamesInv
  BY DEF BaseInv, LoopListedInv, BuildInv
<1>2. /\ q \in DOMAIN tree /\ Resolve(tree, q) # NoPath
      /\ \A p \in Expanded({q}) : IsLink(p) => PlainLink(p)
  BY DEF Lacking, Regular, Findable, Has
<1>3. Resolve(layer, q) = NoPath
  BY DEF Lacking
<1>4. q \notin DOMAIN layer
  BY <1>1, <1>2, <1>3, ResolvesInLayer
<1>5. <<>> \in DOMAIN layer /\ DOMAIN files = AllNames
  BY <1>1 DEF FinishedInv, IsTree, Has, NamesInv
<1>6. q # <<>>
  BY <1>4, <1>5
<1>7. ~Kept(AllNames, q)
  BY <1>1, <1>2, <1>4, <1>5, <1>6 DEF FinishedInv
<1>8. QED
  BY <1>2, <1>4, <1>6, <1>7

\* What the log quotes the entrypoint needs, and the inventory has it in the image only:
\* also an inventory that an earlier build left there.
LogInv ==
    Regular /\ step \notin {"sbom", "smoke", "verdict"} /\ HasLog /\ HasInventory =>
        dir.log.quoted \subseteq workload.needs \cap Universe

LEMMA LogStep ==
    ASSUME BaseInv, BuildInv, EntriesInv, BootsInv, LogInv, [LoopNext]_loopVars
    PROVE  LogInv'
<1> SUFFICES ASSUME Regular', step' \notin {"sbom", "smoke", "verdict"}, HasLog', HasInventory'
             PROVE  dir'.log.quoted \subseteq workload'.needs \cap Universe'
  BY DEF LogInv
<1>1. IsDir(dir) /\ Regular /\ workload' = workload
  BY LoopMoves, RegularLeft DEF BaseInv, LoopInv, OutputInv
<1>2. CASE SmokeTest
  <2>1. step = "smoke" /\ dir'.log.of # 0
    BY <1>2 DEF SmokeTest, HasLog
  <2>2. ~\E x : dir' = [dir EXCEPT !.log = NoLog] /\ x = x
    BY <1>1, <2>1 DEF NoLog, IsDir
  <2>3. PICK said \in SUBSET Lacking :
            dir' = [dir EXCEPT !.log = [of |-> n, quoted |-> said, worded |-> {}]]
    BY <1>1, <1>2, <2>2 DEF SmokeTest, DockerLog, Regular
  <2>4. dir'.log.quoted = said /\ dir'.inventory = dir.inventory
    BY <1>1, <2>3 DEF IsDir
  <2>5. Universe' = Universe /\ dir.inventory.of # 0
    BY <2>4 DEF Universe, HasInventory
  <2>6. phase = "built"
    BY <2>1 DEF BaseInv, BuiltInv
  <2>7. ASSUME NEW q \in said PROVE q \in workload.needs \cap Universe
    <3>1. q \in Lacking /\ q \in workload.needs
      BY <2>3 DEF Lacking
    <3>2. q \in DOMAIN tree \ {<<>>} /\ ~Kept(AllNames, q)
      BY <1>1, <2>6, <3>1, LackingNotKept
    <3>3. q \in DOMAIN dir.inventory.entries
      BY <2>5, <3>2 DEF EntriesInv
    <3>4. ~dir.inventory.entries[q].inHardened
      BY <3>2, <3>3 DEF EntriesInv
    <3>5. QED
      BY <3>1, <3>3, <3>4 DEF Universe
  <2>8. QED
    BY <1>1, <2>4, <2>5, <2>7
<1>3. CASE ~SmokeTest
  <2>1. dir'.log = dir.log
    BY <1>1, <1>3, LogWriters
  <2>2. dir.log.of # 0
    BY <2>1 DEF HasLog
  <2>3. step # "verdict"
    BY <2>2 DEF BootsInv
  <2>4. step \notin {"sbom", "smoke"}
    BY <1>3 DEF LoopNext, loopVars, cli, Start, BuildStep, BuildReturns, WriteRemovalManifest,
         WriteInventory, GenerateSBOM, SyftFails, Verdict, Diagnose, Complete, Rerun, RerunAllowed
  <2>5. dir'.inventory = dir.inventory
    <3>1. ~(step' = "idle" /\ WriteInventory /\ dir' # dir)
      BY DEF WriteInventory, Exit
    <3>2. CASE WriteInventory
      BY <3>1, <3>2 DEF WriteInventory, Exit
    <3>3. CASE ~WriteInventory
      BY <1>1, <3>3, InventoryWritten
    <3>4. QED
      BY <3>2, <3>3
  <2>6. Universe' = Universe /\ dir.inventory.of # 0
    BY <2>5 DEF Universe, HasInventory
  <2>7. dir.log.quoted \subseteq workload.needs \cap Universe
    BY <1>1, <2>2, <2>3, <2>4, <2>6 DEF LogInv, HasLog, HasInventory
  <2>8. QED
    BY <1>1, <2>1, <2>6, <2>7
<1>4. QED
  BY <1>2, <1>3

LEMMA LogInvariant == LoopSpec => []LogInv
<1>1. LoopInit => LogInv
  BY DEF LoopInit, LogInv, HasLog
<1>2. BaseInv /\ BuildInv /\ EntriesInv /\ BootsInv /\ LogInv /\ [LoopNext]_loopVars => LogInv'
  BY LogStep
<1>3. QED
  BY BaseInvariant, BuildInvariant, EntriesInvariant, BootsInvariant,
     <1>1, <1>2, PTL DEF LoopSpec

\* The targets of links, hop by hop.
TargetsIn(s) == {TargetOf(p) : p \in {q \in s : tree[q].kind = "link"}} \cap Universe

IsChain(ps, f, k) ==
    f = [hops \in 0 .. k |-> IF hops = 0 THEN ps ELSE f[hops - 1] \cup TargetsIn(f[hops - 1])]

LEMMA ChainExists ==
    ASSUME NEW ps, NEW k \in Nat
    PROVE  \E f : IsChain(ps, f, k)
<1> DEFINE Bad == {j \in Nat : ~\E f : IsChain(ps, f, j)}
<1>1. SUFFICES ASSUME Bad # {} PROVE FALSE
  OBVIOUS
<1>2. PICK m \in Bad : \A j \in Bad : m <= j
  BY <1>1, Least
<1>3. CASE m = 0
  <2>1. IsChain(ps, [i \in 0 .. 0 |-> ps], 0)
    BY DEF IsChain
  <2>2. QED
    BY <1>3, <2>1
<1>4. CASE m # 0
  <2>1. m - 1 \in Nat /\ ~(m <= m - 1)
    BY <1>4
  <2>2. PICK f : IsChain(ps, f, m - 1)
    BY <1>2, <2>1
  <2> DEFINE g == [i \in 0 .. m |-> IF i = m THEN f[m - 1] \cup TargetsIn(f[m - 1]) ELSE f[i]]
  <2>3. ASSUME NEW i \in 0 .. m
        PROVE  g[i] = IF i = 0 THEN ps ELSE g[i - 1] \cup TargetsIn(g[i - 1])
    <3>1. CASE i = m
      <4>1. g[m] = f[m - 1] \cup TargetsIn(f[m - 1]) /\ g[m - 1] = f[m - 1]
        BY <1>4, <2>1
      <4>2. QED
        BY <1>4, <3>1, <4>1
    <3>2. CASE i # m
      <4>1. i \in 0 .. (m - 1)
        BY <3>2
      <4>2. g[i] = f[i] /\ (i # 0 => g[i - 1] = f[i - 1])
        BY <3>2
      <4>3. f[i] = IF i = 0 THEN ps ELSE f[i - 1] \cup TargetsIn(f[i - 1])
        BY <2>2, <4>1 DEF IsChain
      <4>4. QED
        BY <4>2, <4>3
    <3>3. QED
      BY <3>1, <3>2
  <2>4. IsChain(ps, g, m)
    <3>1. g = [i \in 0 .. m |-> g[i]]
      OBVIOUS
    <3> HIDE DEF g
    <3>2. QED
      BY <2>3, <3>1 DEF IsChain
  <2>5. QED
    BY <2>4
<1>5. QED
  BY <1>3, <1>4

\* A chain of targets keeps what it starts from.
LEMMA ChainKeeps ==
    ASSUME NEW ps, ps \subseteq Universe
    PROVE  ps \subseteq TargetChain(ps)
<1> DEFINE chain == CHOOSE f : IsChain(ps, f, MaxLinkHops)
<1>1. IsChain(ps, chain, MaxLinkHops)
  <2>1. MaxLinkHops \in Nat
    BY DEF MaxLinkHops
  <2>2. \E f : IsChain(ps, f, MaxLinkHops)
    BY <2>1, ChainExists
  <2>3. QED
    BY <2>2
<1>2. TargetChain(ps) = Universe \cap chain[MaxLinkHops]
  BY DEF TargetChain, IsChain, TargetsIn
<1> HIDE DEF chain
<1>3. chain[0] = ps /\ \A i \in 1 .. MaxLinkHops : chain[i - 1] \subseteq chain[i]
  BY <1>1 DEF IsChain, MaxLinkHops
<1> DEFINE Bad == {i \in 0 .. MaxLinkHops : ~(ps \subseteq chain[i])}
<1>4. ASSUME NEW i \in Bad, \A j \in Bad : i <= j PROVE FALSE
  <2>1. i # 0 /\ i \in 1 .. MaxLinkHops /\ i - 1 \in 0 .. MaxLinkHops /\ ~(i <= i - 1)
    BY <1>3 DEF MaxLinkHops
  <2>2. ps \subseteq chain[i - 1]
    BY <1>4, <2>1
  <2>3. QED
    BY <1>3, <2>1, <2>2
<1>5. Bad = {}
  <2>1. Bad \in SUBSET Nat
    BY DEF MaxLinkHops
  <2> HIDE DEF Bad
  <2>2. QED
    BY <1>4, <2>1, Least
<1>6. MaxLinkHops \in 0 .. MaxLinkHops
  BY DEF MaxLinkHops
<1>7. QED
  BY <1>2, <1>5, <1>6

\* Everything that is quoted is a strong candidate.
LEMMA QuotedIsStrong == dir.log.quoted \cap Universe \subseteq Strong
<1>1. PICK ps : ps = {p \in Universe : Last(p) \in {Last(q) : q \in dir.log.quoted}}
  OBVIOUS
<1>2. dir.log.quoted \cap Universe \subseteq ps /\ ps \subseteq Universe
  BY <1>1
<1>3. ps \subseteq TargetChain(ps)
  BY <1>2, ChainKeeps
<1>4. QED
  BY <1>1, <1>2, <1>3 DEF Strong

\* So it is suggested, or a directory above it is.
SuggInv ==
    Regular =>
        /\ step = "ask" => HasLog /\ HasInventory /\ dir.log.quoted \subseteq call.strong
        /\ step = "suggested" =>
              /\ HasLog /\ HasInventory
              /\ \A q \in dir.log.quoted : (Ancestors(q) \cup {q}) \cap sugg # {}

LEMMA SuggStep ==
    ASSUME BaseInv, LogInv, SuggInv, [LoopNext]_loopVars
    PROVE  SuggInv'
<1> SUFFICES ASSUME Regular'
             PROVE  /\ step' = "ask" => HasLog' /\ HasInventory' /\ dir'.log.quoted \subseteq call'.strong
                    /\ step' = "suggested" =>
                          /\ HasLog' /\ HasInventory'
                          /\ \A q \in dir'.log.quoted : (Ancestors(q) \cup {q}) \cap sugg' # {}
  BY DEF SuggInv
<1>1. Regular /\ InventoryInv /\ ChoiceInv /\ IsCall(call)
  BY LoopMoves, RegularLeft DEF BaseInv, LoopInv, CallInv
<1>2. CASE Diagnose
  <2>1. step = "idle" /\ HasLog /\ HasInventory /\ dir' = dir
    BY <1>2 DEF Diagnose
  <2>2. dir.log.quoted \subseteq Universe
    BY <1>1, <2>1 DEF LogInv
  <2>3. dir.log.quoted \subseteq Strong
    BY <2>2, QuotedIsStrong
  <2>4. HasLog' /\ HasInventory'
    BY <2>1 DEF HasLog, HasInventory
  <2>5. CASE step' = "suggested" /\ sugg' = DropCovered(Strong)
    <3>1. ASSUME NEW q \in dir.log.quoted PROVE (Ancestors(q) \cup {q}) \cap sugg' # {}
      <4>1. q \in Strong /\ q \in Seq(STRING)
        BY <1>1, <2>2, <2>3, Candidates
      <4>2. (Ancestors(q) \cup {q}) \cap DropCovered(Strong) # {}
        BY <4>1, DropCoveredKeeps
      <4>3. QED
        BY <2>5, <4>2
    <3>2. QED
      BY <2>1, <2>4, <2>5, <3>1
  <2>6. CASE /\ step' = "ask"
             /\ call' = [weak |-> Weak, strong |-> Strong, attempt |-> 1, requests |-> 0]
    <3>1. call'.strong = Strong
      BY <2>6
    <3>2. QED
      BY <2>1, <2>3, <2>4, <2>6, <3>1
  <2>7. QED
    BY <1>2, <2>5, <2>6 DEF Diagnose
<1>3. CASE Complete
  <2>1. step = "ask" /\ UNCHANGED dir
    BY <1>3 DEF Complete
  <2>2. /\ HasLog' /\ HasInventory' /\ dir.log.quoted \subseteq call.strong
    BY <1>1, <2>1 DEF SuggInv, HasLog, HasInventory
  <2>3. PICK c \in OpenAIComplete :
            \/ /\ \E picks : sugg' = DropCovered(call.strong \cup picks) /\ step' = "suggested"
               /\ call' = [call EXCEPT !.requests = @ + c.requests]
            \/ /\ call' = [call EXCEPT !.requests = @ + c.requests, !.attempt = 2]
               /\ UNCHANGED step
    BY <1>3 DEF Complete
  <2>4. call'.strong = call.strong
    BY <1>1, <2>3 DEF IsCall
  <2>5. CASE UNCHANGED step
    BY <2>1, <2>2, <2>4, <2>5
  <2>6. ASSUME NEW picks, sugg' = DropCovered(call.strong \cup picks), step' = "suggested",
               NEW q \in dir.log.quoted
        PROVE  (Ancestors(q) \cup {q}) \cap sugg' # {}
    <3>1. q \in call.strong \cup picks /\ call.strong \subseteq Universe
      BY <1>1, <2>1, <2>2 DEF ChoiceInv
    <3>2. q \in Seq(STRING)
      BY <1>1, <2>2, <3>1, Candidates
    <3>3. QED
      BY <2>6, <3>1, <3>2, DropCoveredKeeps
  <2>7. CASE \E picks : sugg' = DropCovered(call.strong \cup picks) /\ step' = "suggested"
    BY <2>1, <2>2, <2>6, <2>7
  <2>8. QED
    BY <2>3, <2>5, <2>7
<1>4. CASE step' \notin {"ask", "suggested"}
  BY <1>4
<1>5. CASE UNCHANGED loopVars
  <2>1. UNCHANGED <<step, dir, call, sugg>>
    BY <1>5 DEF loopVars, cli
  <2>2. QED
    BY <1>1, <2>1 DEF SuggInv, HasLog, HasInventory
<1>6. Diagnose \/ Complete \/ step' \notin {"ask", "suggested"} \/ UNCHANGED loopVars
  BY DEF LoopNext, Start, BuildStep, BuildReturns, WriteRemovalManifest, WriteInventory,
         GenerateSBOM, SyftFails, SmokeTest, Verdict, Rerun, RerunAllowed, Exit
<1>7. QED
  BY <1>2, <1>3, <1>4, <1>5, <1>6

LEMMA SuggInvariant == LoopSpec => []SuggInv
<1>1. LoopInit => SuggInv
  BY DEF LoopInit, SuggInv
<1>2. BaseInv /\ LogInv /\ SuggInv /\ [LoopNext]_loopVars => SuggInv'
  BY SuggStep
<1>3. QED
  BY BaseInvariant, LogInvariant, <1>1, <1>2, PTL DEF LoopSpec

-----------------------------------------------------------------------------
(* Each build is repaid by a fault, or by something it was told.           *)

\* What is wanted and has been asked for.
Asks(w) ==
    \/ HoldsFile(tree, w) /\ (Ancestors(w) \cup {w}) \cap opts.includes # {}
    \/ \E e \in opts.ensures : w = e[1]

AskedFor == {w \in Wanted : Asks(w)}

Credit == n =< faults + Cardinality(AskedFor)

\* The last build was built and does not boot, and diagnose can see why.
CanTell ==
    /\ dir.log.of = n /\ dir.inventory.of = n /\ phase = "built"
    /\ dir.log.quoted # {} /\ dir.log.quoted \subseteq Lacking

CreditInv ==
    Regular =>
        /\ n =< faults + Cardinality(AskedFor) + 1
        /\ step = "build" /\ phase = "failed" => Credit
        /\ step \in {"sbom", "smoke"} => Credit \/ dir.inventory.of = n
        /\ step = "idle" /\ exit # 3 => Credit \/ boots = n \/ CanTell
        /\ step \in {"ask", "suggested"} => Credit \/ CanTell

\* The numbers, and what they count.
NumbersInv == n \in Nat \ {0} /\ faults \in Nat /\ workload \in Workloads

LEMMA NumbersInvariant == LoopSpec => []NumbersInv
<1>1. LoopInit => NumbersInv
  BY DEF LoopInit, NumbersInv
<1>2. NumbersInv /\ [LoopNext]_loopVars => NumbersInv'
  <2>1. SUFFICES ASSUME NumbersInv, [LoopNext]_loopVars PROVE NumbersInv'
    OBVIOUS
  <2>2. workload' = workload /\ (n' = n \/ n' = n + 1)
    BY <2>1, LoopMoves DEF Rerun
  <2>3. faults' = faults \/ faults' = faults + 1
    BY <2>1 DEF LoopNext, loopVars, cli, Start, BuildStep, BuildReturns, WriteRemovalManifest,
         WriteInventory, GenerateSBOM, SyftFails, SmokeTest, Verdict, Diagnose, Complete,
         Rerun, RerunAllowed, Fault
  <2>4. QED
    BY <2>1, <2>2, <2>3 DEF NumbersInv
<1>3. QED
  BY <1>1, <1>2, PTL DEF LoopSpec

LEMMA WantedFinite ==
    ASSUME NumbersInv
    PROVE  IsFiniteSet(Wanted)
<1>1. IsFiniteSet(workload.needs) /\ workload.needs \subseteq Seq(STRING)
  BY WorkloadsAssumption DEF NumbersInv
<1>2. PICK qs : qs = {p \in workload.needs : ~HoldsFile(tree, p)}
  OBVIOUS
<1>3. IsFiniteSet(qs) /\ qs \subseteq Seq(STRING)
  BY <1>1, <1>2, FS_Subset
<1>4. ASSUME NEW q \in Seq(STRING) PROVE IsFiniteSet(Ancestors(q))
  <2>1. Len(q) - 1 \in Int
    OBVIOUS
  <2>2. IsFiniteSet(1 .. (Len(q) - 1))
    BY <2>1, FS_Interval
  <2>3. PICK f : f = [i \in 1 .. (Len(q) - 1) |-> SubSeq(q, 1, i)]
    OBVIOUS
  <2>4. f \in Surjection(1 .. (Len(q) - 1), Ancestors(q))
    BY <2>3 DEF Surjection, Ancestors
  <2>5. QED
    BY <2>2, <2>4, FS_Surjection
<1>5. IsFiniteSet({Ancestors(q) : q \in qs})
  <2>1. PICK f : f = [q \in qs |-> Ancestors(q)]
    OBVIOUS
  <2>2. f \in Surjection(qs, {Ancestors(q) : q \in qs})
    BY <2>1 DEF Surjection
  <2>3. QED
    BY <1>3, <2>2, FS_Surjection
<1>6. \A A \in {Ancestors(q) : q \in qs} : IsFiniteSet(A)
  BY <1>3, <1>4
<1>7. IsFiniteSet(UNION {Ancestors(q) : q \in qs})
  BY <1>5, <1>6, FS_UNION
<1>8. QED
  BY <1>1, <1>2, <1>7, FS_Union DEF Wanted

LEMMA AskedFinite ==
    ASSUME NumbersInv
    PROVE  /\ IsFiniteSet(AskedFor) /\ Cardinality(AskedFor) \in Nat
           /\ Cardinality(AskedFor) =< Cardinality(Wanted) /\ Cardinality(Wanted) \in Nat
<1>1. IsFiniteSet(Wanted)
  BY WantedFinite
<1>2. AskedFor \subseteq Wanted
  BY DEF AskedFor
<1>3. QED
  BY <1>1, <1>2, FS_Subset, FS_CardinalityType

\* What is asked for stays so, and what is asked for in no other step than Rerun is the same.
LEMMA AskedGrows ==
    ASSUME NumbersInv, [LoopNext]_loopVars
    PROVE  /\ Wanted' = Wanted /\ AskedFor \subseteq AskedFor'
           /\ Cardinality(AskedFor) \in Nat /\ Cardinality(AskedFor') \in Nat
           /\ Cardinality(AskedFor) =< Cardinality(AskedFor')
           /\ AskedFor # AskedFor' => Cardinality(AskedFor) < Cardinality(AskedFor')
<1>1. /\ image' = image /\ workload' = workload
      /\ opts.includes \subseteq opts'.includes /\ opts.ensures \subseteq opts'.ensures
  BY LoopMoves
<1>2. tree' = tree
  BY <1>1 DEF tree
<1>3. Wanted' = Wanted
  BY <1>1, <1>2 DEF Wanted
<1>4. ASSUME NEW w, Asks(w) PROVE Asks(w)'
  BY <1>1, <1>2, <1>4 DEF Asks
<1>5. AskedFor \subseteq AskedFor'
  BY <1>3, <1>4 DEF AskedFor
<1>6. AskedFor' \subseteq Wanted
  BY <1>3 DEF AskedFor
<1>7. PICK a, b : a = AskedFor /\ b = AskedFor'
  OBVIOUS
<1>8. IsFiniteSet(b) /\ a \subseteq b
  BY <1>5, <1>6, <1>7, WantedFinite, FS_Subset
<1>9. /\ Cardinality(a) \in Nat /\ Cardinality(b) \in Nat /\ Cardinality(a) =< Cardinality(b)
      /\ a # b => Cardinality(a) # Cardinality(b)
  BY <1>8, FS_Subset, FS_CardinalityType
<1>10. a # b => Cardinality(a) < Cardinality(b)
  BY <1>9
<1>11. QED
  BY <1>3, <1>5, <1>7, <1>9, <1>10

\* The build that follows a suggestion is told what the last one was not: what is wanted
\* of what the log quotes.
LEMMA RerunAsks ==
    ASSUME BaseInv, BuildInv, EntriesInv, LogInv, SuggInv, NumbersInv, Regular, CanTell,
           step = "suggested", Rerun
    PROVE  AskedFor # AskedFor'
<1>1. /\ InventoryInv /\ SourceInv /\ ListedInv /\ observed \in Observations
      /\ sugg \subseteq Universe /\ <<>> \notin DOMAIN dir.inventory.entries
  BY DEF BaseInv, LoopInv, LoopListedInv, ChoiceInv
<1>2. Universe \subseteq DOMAIN tree \ {<<>>} /\ Universe \subseteq Seq(STRING) /\ Universe \cap DOMAIN layer = {}
  BY <1>1, Candidates DEF CanTell, Universe
<1>3. /\ HasLog /\ HasInventory
      /\ dir.log.quoted # {} /\ dir.log.quoted \subseteq workload.needs \cap Universe
  BY DEF CanTell, NumbersInv, HasLog, HasInventory, LogInv
<1>4. PICK q \in dir.log.quoted : q \in workload.needs /\ q \in Universe
  BY <1>3
<1>5. PICK a \in Ancestors(q) \cup {q} : a \in sugg
  BY <1>4 DEF SuggInv
<1>6. /\ a \in EmptySourceDirs => <<a, TRUE>> \in opts'.ensures
      /\ a \notin EmptySourceDirs => a \in opts'.includes
  <2>1. PICK m : /\ m = sugg \cap EmptySourceDirs
                 /\ opts' = [includes |-> opts.includes \cup (sugg \ m),
                             ensures |-> opts.ensures \cup {<<p, TRUE>> : p \in m}]
    BY DEF Rerun
  <2>2. opts'.includes = opts.includes \cup (sugg \ m)
    BY <2>1
  <2>3. opts'.ensures = opts.ensures \cup {<<p, TRUE>> : p \in m}
    BY <2>1
  <2>4. QED
    BY <1>5, <2>1, <2>2, <2>3
<1>7. tree' = tree /\ Wanted' = Wanted /\ IsTree(tree)
  <2>1. [LoopNext]_loopVars
    BY DEF LoopNext
  <2>2. QED
    BY <1>1, <2>1, LoopMoves, AskedGrows, Givens DEF tree, ListedInv
<1>8. ASSUME NEW w \in Universe PROVE ~Asks(w)
  <2>1. SUFFICES ASSUME Asks(w) PROVE FALSE
    OBVIOUS
  <2>2. Kept(AllNames, w)
    BY <1>1, <1>2, <2>1, AskedIsKept DEF Asks
  <2>3. w \in DOMAIN layer
    BY <1>2, <2>2 DEF CanTell, BuildInv, FinishedInv, NamesInv
  <2>4. QED
    BY <1>2, <2>3
<1>9. ASSUME NEW w \in Wanted \cap Universe, Asks(w)' PROVE AskedFor # AskedFor'
  <2>1. w \in AskedFor'
    BY <1>7, <1>9 DEF AskedFor
  <2>2. w \notin AskedFor
    BY <1>8, <1>9 DEF AskedFor
  <2>3. QED
    BY <2>1, <2>2
<1>10. CASE HoldsFile(tree, q)
  <2>1. PICK x \in DOMAIN tree : IsPrefix(q, x) /\ tree[x].kind # "dir"
    BY <1>10 DEF HoldsFile
  <2>2. x \in Seq(STRING) /\ q \in Seq(STRING) /\ q # <<>>
    BY <1>2, <1>4, <1>7, <2>1, TreePaths
  <2>3. q = x \/ q \in Ancestors(x)
    BY <2>1, <2>2, PrefixIsAncestor DEF IsStrictPrefix
  <2>4. a \in Ancestors(x) \cup {x}
    BY <1>5, <2>2, <2>3, AncestorsAre
  <2>5. IsPrefix(a, x)
    <3>1. CASE a = x
      BY <2>2, <3>1, SubSeqFull DEF IsPrefix
    <3>2. CASE a \in Ancestors(x)
      BY <2>2, <3>2, AncestorsAre DEF IsStrictPrefix
    <3>3. QED
      BY <2>4, <3>1, <3>2
  <2>6. x # <<>>
    BY <1>7, <2>1 DEF IsTree, Has, Dir
  <2>7. x \in DOMAIN dir.inventory.entries
    BY <1>3, <2>1, <2>6 DEF EntriesInv, HasInventory
  <2>8. dir.inventory.entries[x].inSource /\ dir.inventory.entries[x].type # "dir"
    BY <1>1, <2>1, <2>7 DEF SourceInv
  <2>9. a \notin EmptySourceDirs
    BY <2>5, <2>7, <2>8 DEF EmptySourceDirs
  <2>10. Asks(q)'
    BY <1>5, <1>6, <1>7, <1>10, <2>9 DEF Asks
  <2>11. q \in Wanted
    BY <1>4 DEF Wanted
  <2>12. QED
    BY <1>4, <1>9, <2>10, <2>11
<1>11. CASE ~HoldsFile(tree, q)
  <2>1. a \in Wanted
    BY <1>4, <1>5, <1>11 DEF Wanted
  <2>2. a \in Universe
    BY <1>1, <1>5
  <2>3. CASE a \in EmptySourceDirs
    <3>1. Asks(a)'
      BY <1>6, <2>3 DEF Asks
    <3>2. QED
      BY <1>9, <2>1, <2>2, <3>1
  <2>4. CASE a \notin EmptySourceDirs
    <3>1. HoldsFile(tree, a)
      BY <1>1, <2>2, <2>4, SuggestedHolds
    <3>2. Asks(a)'
      BY <1>6, <1>7, <2>4, <3>1 DEF Asks
    <3>3. QED
      BY <1>9, <2>1, <2>2, <3>2
  <2>5. QED
    BY <2>3, <2>4
<1>12. QED
  BY <1>10, <1>11

\* What can be told is so as long as what it is told by is left.
LEMMA CanTellLeft ==
    ASSUME UNCHANGED <<vars, n, workload>>, dir'.log = dir.log, dir'.inventory = dir.inventory
    PROVE  CanTell' = CanTell
<1>1. layer' = layer /\ phase' = phase /\ n' = n /\ workload' = workload
  BY DEF vars
<1>2. Lacking' = Lacking
  BY <1>1 DEF Lacking
<1>3. QED
  BY <1>1, <1>2 DEF CanTell

LEMMA CreditStep ==
    ASSUME BaseInv, BuildInv, EntriesInv, BootsInv, RefusedInv, LogInv, SuggInv, NumbersInv,
           NumbersInv', CreditInv, [LoopNext]_loopVars
    PROVE  CreditInv'
<1> SUFFICES ASSUME Regular' PROVE CreditInv'
  BY DEF CreditInv
<1>1. /\ Regular /\ IsDir(dir) /\ n \in Nat /\ n # 0 /\ faults \in Nat
  BY LoopMoves, RegularLeft DEF BaseInv, LoopInv, OutputInv, NumbersInv
<1>2. PICK t, u : t = Cardinality(AskedFor) /\ u = Cardinality(AskedFor')
  OBVIOUS
<1>3. t \in Nat /\ u \in Nat /\ t =< u /\ (AskedFor # AskedFor' => t < u)
  BY <1>2, AskedGrows
<1>4. /\ n =< faults + t + 1
      /\ step = "build" /\ phase = "failed" => Credit
      /\ step \in {"sbom", "smoke"} => Credit \/ dir.inventory.of = n
      /\ step = "idle" /\ exit # 3 => Credit \/ boots = n \/ CanTell
      /\ step \in {"ask", "suggested"} => Credit \/ CanTell
  BY <1>1, <1>2 DEF CreditInv
<1>5. (Credit <=> n =< faults + t) /\ (Credit' <=> n' =< faults' + u)
  BY <1>2 DEF Credit
<1>6. ASSUME n' =< faults' + u PROVE CreditInv'
  <2>1. Credit'
    BY <1>5, <1>6
  <2>2. n' =< faults' + u + 1
    <3>1. n' \in Nat /\ faults' \in Nat
      BY DEF NumbersInv
    <3>2. \A i, j, k \in Nat : i =< j + k => i =< j + k + 1
      OBVIOUS
    <3>3. QED
      BY <1>3, <1>6, <3>1, <3>2, Zenon
  <2>3. QED
    BY <1>2, <2>1, <2>2 DEF CreditInv
\* A fault is credited.
<1>7. ASSUME n' = n, Fault PROVE CreditInv'
  <2>1. faults' = faults + 1
    BY <1>7 DEF Fault
  <2>2. n' =< faults' + u
    BY <1>1, <1>3, <1>4, <1>7, <2>1
  <2>3. QED
    BY <1>6, <2>2
<1>8. ASSUME UNCHANGED <<n, faults>>,
             step' = "build" /\ phase' = "failed" => Credit,
             step' \in {"sbom", "smoke"} => Credit \/ dir'.inventory.of = n,
             step' = "idle" /\ exit' # 3 => Credit \/ boots' = n \/ CanTell',
             step' \in {"ask", "suggested"} => Credit \/ CanTell'
      PROVE  CreditInv'
  <2>1. n' =< faults' + u + 1 /\ (Credit => Credit')
    BY <1>1, <1>3, <1>4, <1>5, <1>8
  <2>2. QED
    BY <1>2, <1>8, <2>1 DEF CreditInv
<1>9. CASE Start
  <2>1. step = "start" /\ UNCHANGED <<phase, n, faults>>
    BY <1>9 DEF Start, vars
  <2>2. phase' # "failed"
    BY <2>1 DEF RefusedInv
  <2>3. (step' = "idle" /\ exit' = 3) \/ step' = "build"
    BY <1>9 DEF Start, Exit
  <2>4. QED
    BY <1>8, <2>1, <2>2, <2>3
<1>10. CASE BuildStep
  <2>1. step' = "build" /\ n' = n
    BY <1>10 DEF BuildStep
  <2>2. Fault \/ (phase' # "failed" /\ UNCHANGED faults)
    BY <1>10 DEF BuildStep
  <2>3. QED
    BY <1>7, <1>8, <2>1, <2>2
<1>11. CASE BuildReturns
  <2>1. step = "build" /\ n' = n
    BY <1>11 DEF BuildReturns
  <2>2. Fault \/ (phase = "failed" /\ step' = "idle" /\ UNCHANGED faults) \/ (step' = "removal" /\ UNCHANGED faults)
    BY <1>11 DEF BuildReturns, Exit
  <2>3. QED
    BY <1>4, <1>7, <1>8, <2>1, <2>2
<1>12. CASE WriteRemovalManifest
  <2>1. step' = "inventory" /\ n' = n /\ (Fault \/ UNCHANGED faults)
    BY <1>12 DEF WriteRemovalManifest
  <2>2. QED
    BY <1>7, <1>8, <2>1
<1>13. CASE WriteInventory
  <2>1. CASE Fault
    BY <1>7, <1>13, <2>1 DEF WriteInventory
  <2>2. CASE ~Fault
    <3>1. /\ dir' = [dir EXCEPT !.inventory = [of |-> n, entries |-> Inventory(layer)]]
          /\ step' = "sbom" /\ UNCHANGED <<n, faults>>
      BY <1>13, <2>2 DEF WriteInventory
    <3>2. dir'.inventory.of = n
      BY <1>1, <3>1 DEF IsDir
    <3>3. QED
      BY <1>8, <3>1, <3>2
  <2>3. QED
    BY <2>1, <2>2
<1>14. CASE GenerateSBOM
  <2>1. step = "sbom" /\ step' = "smoke" /\ n' = n /\ (Fault \/ UNCHANGED faults)
    BY <1>14 DEF GenerateSBOM
  <2>2. ~WriteInventory
    BY <2>1 DEF WriteInventory
  <2>3. dir'.inventory = dir.inventory
    BY <1>1, <2>2, InventoryWritten
  <2>4. QED
    BY <1>4, <1>7, <1>8, <2>1, <2>3
<1>15. CASE SyftFails
  BY <1>7, <1>15 DEF SyftFails
<1>16. CASE SmokeTest
  <2>1. step = "smoke" /\ UNCHANGED <<vars, n, workload>> /\ phase = "built"
    BY <1>16 DEF SmokeTest, BaseInv, BuiltInv
  <2>2. CASE Fault
    BY <1>7, <2>1, <2>2
  <2>3. CASE step' = "verdict" /\ UNCHANGED faults
    BY <1>8, <2>1, <2>3
  <2>4. CASE ~Fault /\ ~(step' = "verdict" /\ UNCHANGED faults)
    <3>1. /\ step' = "idle" /\ exit' = 1 /\ UNCHANGED faults
          /\ \E said \in (SUBSET Lacking) \ {{}} :
                dir' = [dir EXCEPT !.log = [of |-> n, quoted |-> said, worded |-> {}]]
      BY <1>1, <1>16, <2>4 DEF SmokeTest, Exit, Regular
    <3>2. PICK said \in (SUBSET Lacking) \ {{}} :
                dir' = [dir EXCEPT !.log = [of |-> n, quoted |-> said, worded |-> {}]]
      BY <3>1
    <3>3. dir'.log.of = n /\ dir'.log.quoted = said /\ dir'.inventory = dir.inventory
      BY <1>1, <3>2 DEF IsDir
    <3>4. Lacking' = Lacking /\ phase' = "built" /\ n' = n
      BY <2>1 DEF Lacking, vars
    <3>5. dir.inventory.of = n => CanTell'
      BY <3>2, <3>3, <3>4 DEF CanTell
    <3>6. QED
      BY <1>4, <1>8, <2>1, <3>1, <3>5
  <2>5. QED
    BY <2>2, <2>3, <2>4
<1>17. CASE Verdict
  <2>1. step = "verdict" /\ step' = "idle" /\ UNCHANGED <<n, faults, boots>>
    BY <1>17 DEF Verdict, Exit
  <2>2. QED
    BY <1>8, <2>1 DEF BootsInv
<1>18. CASE Diagnose
  <2>1. /\ step = "idle" /\ HasLog /\ step' \in {"ask", "suggested"}
        /\ UNCHANGED <<vars, n, workload, dir, faults>>
    BY <1>18 DEF Diagnose
  <2>2. exit # 3 /\ boots # n
    BY <2>1 DEF HasLog, BootsInv, RefusedInv, Refused
  <2>3. CanTell' = CanTell
    BY <2>1, CanTellLeft
  <2>4. QED
    BY <1>4, <1>8, <2>1, <2>2, <2>3
<1>19. CASE Complete
  <2>1. step = "ask" /\ UNCHANGED <<vars, n, workload, dir, faults>> /\ step' \in {"ask", "suggested"}
    BY <1>19 DEF Complete
  <2>2. CanTell' = CanTell
    BY <2>1, CanTellLeft
  <2>3. QED
    BY <1>4, <1>8, <2>1, <2>2
<1>20. CASE Rerun
  <2>1. n' = n + 1 /\ faults' = faults /\ step' = "start"
    BY <1>20 DEF Rerun
  <2>2. Credit \/ (CanTell /\ step = "suggested")
    <3>1. ~(step = "idle" /\ CanTell /\ ~(HasLog /\ HasInventory))
      BY <1>1 DEF CanTell, HasLog, HasInventory
    <3>2. QED
      BY <1>4, <1>20, <3>1 DEF Rerun
  <2>3. Credit \/ t < u
    BY <1>1, <1>3, <1>20, <2>2, RerunAsks
  <2>4. n =< faults + u
    BY <1>1, <1>3, <1>4, <1>5, <2>3
  <2>5. n' =< faults' + u + 1
    BY <1>1, <1>3, <2>1, <2>4
  <2>6. QED
    BY <1>2, <2>1, <2>5 DEF CreditInv
<1>21. CASE RerunAllowed
  BY <1>8, <1>21 DEF RerunAllowed
<1>22. CASE UNCHANGED loopVars
  <2>1. UNCHANGED <<vars, phase, n, workload, dir, faults, step, exit, boots>>
    BY <1>22 DEF loopVars, cli, vars
  <2>2. CanTell' = CanTell
    BY <2>1, CanTellLeft
  <2>3. QED
    BY <1>4, <1>8, <2>1, <2>2
<1>23. QED
  BY <1>9, <1>10, <1>11, <1>12, <1>13, <1>14, <1>15, <1>16, <1>17, <1>18, <1>19, <1>20,
     <1>21, <1>22 DEF LoopNext

LEMMA CreditInvariant == LoopSpec => []CreditInv
<1>1. LoopInit => CreditInv
  <2>1. SUFFICES ASSUME LoopInit PROVE CreditInv
    OBVIOUS
  <2>2. n = 1 /\ faults = 0 /\ step = "start" /\ NumbersInv
    BY <2>1 DEF LoopInit, NumbersInv
  <2>3. PICK t : t = Cardinality(AskedFor)
    OBVIOUS
  <2>4. t \in Nat
    BY <2>2, <2>3, AskedFinite
  <2>5. n =< faults + t + 1
    BY <2>2, <2>4
  <2>6. QED
    BY <2>2, <2>3, <2>5 DEF CreditInv
<1>2. BaseInv /\ BuildInv /\ EntriesInv /\ BootsInv /\ RefusedInv /\ LogInv /\ SuggInv /\ NumbersInv
         /\ NumbersInv' /\ CreditInv /\ [LoopNext]_loopVars => CreditInv'
  BY CreditStep
<1>3. QED
  BY BaseInvariant, BuildInvariant, EntriesInvariant, BootsInvariant, LogInvariant, SuggInvariant,
     NumbersInvariant, <1>1, <1>2, PTL DEF LoopSpec

\* An operator who follows the suggestions gets an image that boots after one build per
\* wanted path and one per fault at most, and has a suggestion to follow whenever the log
\* quotes a path, if the source image has what the entrypoint needs and errors quote it
\* (cmd/harden/main.go's build, smoketest.go's log and diagnose.go's suggestions, for every
\* image, manifest and workload).
THEOREM RepairConvergesHolds == LoopSpec => []RepairConverges
<1>1. LogInv /\ SuggInv /\ NumbersInv /\ CreditInv => RepairConverges
  <2>1. SUFFICES ASSUME LogInv, SuggInv, NumbersInv, CreditInv, Regular
                 PROVE  /\ n =< Cardinality(Wanted) + faults + 1
                        /\ step = "suggested" => sugg # {} \/ dir.log.quoted = {}
    BY DEF RepairConverges, Regular
  <2>2. PICK t, m : t = Cardinality(AskedFor) /\ m = Cardinality(Wanted)
    OBVIOUS
  <2>3. t \in Nat /\ m \in Nat /\ t =< m
    BY <2>1, <2>2, AskedFinite
  <2>4. n \in Nat /\ faults \in Nat /\ n =< faults + t + 1
    BY <2>1, <2>2 DEF NumbersInv, CreditInv
  <2>5. n =< m + faults + 1
    BY <2>3, <2>4
  <2>6. ASSUME step = "suggested", dir.log.quoted # {} PROVE sugg # {}
    BY <2>1, <2>6 DEF SuggInv
  <2>7. QED
    BY <2>2, <2>5, <2>6
<1>2. QED
  BY LogInvariant, SuggInvariant, NumbersInvariant, CreditInvariant, <1>1, PTL
=============================================================================
