----------------------------- MODULE RepairLoop -----------------------------
(***************************************************************************)
(* cmd/harden: `harden build --smoke-test` into one output directory, and  *)
(* when the image does not boot `harden diagnose` on what that left there, *)
(* and the build again with the flags it suggests.  Every build is a run   *)
(* of LayerBuild; diagnose reads the inventory of the layer (inventory.go) *)
(* and the log, derives candidates (ai/candidates), and may have a model   *)
(* choose among the weaker ones (ai/json.go, ai/openai.go).                *)
(***************************************************************************)
EXTENDS LayerBuild

CONSTANTS
    Workloads,      \* [needs: the paths the entrypoint opens, quoted: whether its errors
                    \* quote them, provider: the --ai-provider diagnose is run with, or "none"]
    StemOf,         \* the last component of a path -> the word a log may say instead
    MaxPicks,       \* diagnoseMaxPicks
    MaxBuilds, MaxFaults    \* bounds: builds, and failures that are nobody's fault

ASSUME WorkloadsAssumption ==
    \A w \in Workloads : IsFiniteSet(w.needs) /\ w.needs \subseteq Seq(STRING)

VARIABLES
    workload,
    n,          \* the number of the build that runs or ran last
    allowEmpty, \* --allow-empty
    boots,      \* the last build that passed its smoke test
    step,       \* where the command is
    dir,        \* the output directory: which build each file in it is of
    warned,     \* the warnings of the last build
    exit,       \* its exit code
    faults,
    call,       \* the model call: weak candidates, attempt, requests made
    noFormat,   \* the provider's latch: response_format was refused
    sugg        \* the suggestions, of the last diagnose

cli == <<workload, n, allowEmpty, boots, step, dir, warned, exit, faults, call, noFormat, sugg>>
loopVars == <<vars, cli>>

NoCall == [weak |-> {}, strong |-> {}, attempt |-> 0, requests |-> 0]

Sboms == {"cyclonedx", "spdx"}

LoopInit ==
    /\ Init
    /\ workload \in Workloads /\ allowEmpty = FALSE
    /\ n = 1 /\ boots = 0 /\ exit = 0 /\ faults = 0
    /\ step = "start" /\ warned = {} /\ sugg = {}
    /\ dir = [layout |-> 0, removal |-> 0, inventory |-> [of |-> 0, entries |-> <<>>],
              sbom |-> [s \in Sboms |-> 0], sig |-> [s \in Sboms |-> 0],
              log |-> [of |-> 0, quoted |-> {}, worded |-> {}]]
    /\ call = NoCall /\ noFormat = FALSE

-----------------------------------------------------------------------------
(* harden build.                                                           *)

Fault == faults < MaxFaults /\ faults' = faults + 1

Exit(code) == step' = "idle" /\ exit' = code

(* A manifest with nothing observed directly is refused before the image   *)
(* is pulled, and nothing in the directory is touched.                     *)
NoneDirect == \A p \in DOMAIN observed : observed[p] # "direct"

Start ==
    /\ step = "start"
    /\ IF NoneDirect /\ ~allowEmpty THEN Exit(3) ELSE step' = "build" /\ UNCHANGED exit
    /\ UNCHANGED <<vars, workload, n, allowEmpty, boots, dir, warned, faults, call, noFormat, sugg>>

BuildStep ==
    /\ step = "build" /\ Next
    /\ IF phase' = "failed" THEN Fault ELSE UNCHANGED faults
    /\ UNCHANGED <<workload, n, allowEmpty, boots, step, dir, warned, exit, call, noFormat, sugg>>

(* BuildImage has returned an error; or, the layout being written, the     *)
(* push has failed; or all is well.                                        *)
BuildReturns ==
    /\ step = "build" /\ phase \in {"built", "failed"}
    /\ \/ phase = "failed" /\ Exit(1) /\ UNCHANGED <<dir, faults>>
       \/ phase = "built" /\ dir' = [dir EXCEPT !.layout = n] /\ Fault /\ Exit(1)
       \/ phase = "built" /\ dir' = [dir EXCEPT !.layout = n] /\ step' = "removal"
          /\ UNCHANGED <<exit, faults>>
    /\ UNCHANGED <<vars, workload, n, allowEmpty, boots, warned, call, noFormat, sugg>>

WriteRemovalManifest ==
    /\ step = "removal" /\ step' = "inventory"
    /\ \/ result.scanned /\ dir' = [dir EXCEPT !.removal = n] /\ UNCHANGED <<warned, faults>>
       \/ ~result.scanned /\ warned' = warned \cup {"removal"} /\ UNCHANGED <<dir, faults>>
       \/ result.scanned /\ Fault /\ warned' = warned \cup {"removal"} /\ UNCHANGED dir
    /\ UNCHANGED <<vars, workload, n, allowEmpty, boots, exit, call, noFormat, sugg>>

(* collectInventory: every path of the source image and of the layer, the  *)
(* root apart, and in which of them it is; the type is that in the source. *)
Inventory(hardened) ==
    [p \in (DOMAIN tree \cup DOMAIN hardened) \ {<<>>} |->
        [inSource |-> p \in DOMAIN tree, inHardened |-> p \in DOMAIN hardened,
         type |-> IF p \in DOMAIN tree THEN tree[p].kind ELSE "none"]]

(* The inventory could not be collected, which is a warning, or not be     *)
(* written, which is an error.                                             *)
WriteInventory ==
    /\ step = "inventory"
    /\ \/ dir' = [dir EXCEPT !.inventory = [of |-> n, entries |-> Inventory(layer)]] /\ step' = "sbom"
          /\ UNCHANGED <<exit, warned, faults>>
       \/ Fault /\ warned' = warned \cup {"inventory"} /\ step' = "sbom" /\ UNCHANGED <<dir, exit>>
       \/ Fault /\ Exit(1) /\ UNCHANGED <<dir, warned>>
    /\ UNCHANGED <<vars, workload, n, allowEmpty, boots, call, noFormat, sugg>>

(* GenerateSBOM: syft writes the two documents, then cosign signs one      *)
(* after the other; what fails ends it, with a warning.                    *)
GenerateSBOM ==
    /\ step = "sbom" /\ step' = "smoke"
    /\ \E signed \in {{}, {"cyclonedx"}, Sboms} :
         /\ dir' = [dir EXCEPT !.sbom = [s \in Sboms |-> n],
                               !.sig = [s \in Sboms |-> IF s \in signed THEN n ELSE @[s]]]
         /\ IF signed = Sboms THEN UNCHANGED <<warned, faults>>
            ELSE Fault /\ warned' = warned \cup {"sbom"}
    /\ UNCHANGED <<vars, workload, n, allowEmpty, boots, exit, call, noFormat, sugg>>

SyftFails ==
    /\ step = "sbom" /\ step' = "smoke"
    /\ Fault /\ warned' = warned \cup {"sbom"}
    /\ UNCHANGED <<vars, workload, n, allowEmpty, boots, dir, exit, call, noFormat, sugg>>

\* mutant: the log of an earlier run stays
StaleLog == dir.log

NoLog == [of |-> 0, quoted |-> {}, worded |-> {}]

(* What `docker run` says that fails for reasons of its own is a log too,  *)
(* of no path of the image; so is what is left when `docker logs` fails.   *)
DockerLog == [of |-> n, quoted |-> {}, worded |-> {}]

(* What the entrypoint does not find in the layer.                         *)
Lacking == {q \in workload.needs : Resolve(layer, q) = NoPath}

(* runSmokeTest: the log of an earlier run goes first.  Docker fails, with *)
(* a log or none (a log that cannot be saved is but a warning); or the     *)
(* container is up, or exited 0, after the window; or it could not start or*)
(* exited with an error, its log saying one or more of the paths it did not*)
(* find.                                                                   *)
SmokeTest ==
    LET Log(l) == dir' = [dir EXCEPT !.log = l]
    IN /\ step = "smoke"
       /\ \/ Fault /\ (Log(NoLog) \/ Log(DockerLog)) /\ Exit(1) /\ UNCHANGED boots
          \/ Lacking = {} /\ Log(NoLog) /\ boots' = n /\ step' = "verdict" /\ UNCHANGED <<exit, faults>>
          \/ /\ Lacking # {} /\ Exit(1) /\ UNCHANGED <<boots, faults>>
             /\ \E said \in (SUBSET Lacking) \ {{}} :
                  Log(IF workload.quoted THEN [of |-> n, quoted |-> said, worded |-> {}]
                      ELSE [of |-> n, quoted |-> {}, worded |-> said])
       /\ UNCHANGED <<vars, workload, n, allowEmpty, warned, call, noFormat, sugg>>

ScratchWarnings ==
    (\E p \in Essentials : ~Present(p)) \/ Certificates = {} \/ Linker = {}

Verdict ==
    /\ step = "verdict"
    /\ Exit(IF image.unresolved THEN 1 ELSE IF ScratchWarnings THEN 2 ELSE 0)
    /\ UNCHANGED <<vars, workload, n, allowEmpty, boots, dir, warned, faults, call, noFormat, sugg>>

-----------------------------------------------------------------------------
(* harden diagnose.                                                        *)

(* Generate: the paths the inventory has in the source and not in the      *)
(* layer, by how the log refers to them; a matched link brings the chain   *)
(* of its targets, named lexically, as far as it stays among them.         *)
Universe ==
    LET entries == dir.inventory.entries
    IN {p \in DOMAIN entries : ~entries[p].inHardened}

MaxLinkHops == 8

TargetChain(ps) ==
    LET Targets(s) == {TargetOf(p) : p \in {q \in s : tree[q].kind = "link"}} \cap Universe
        chain[hops \in 0..MaxLinkHops] ==
            IF hops = 0 THEN ps
            ELSE LET s == chain[hops - 1] IN s \cup Targets(s)
    IN Universe \cap chain[MaxLinkHops]

Strong ==
    TargetChain({p \in Universe : Last(p) \in {Last(q) : q \in dir.log.quoted}})

Weak ==
    TargetChain({p \in Universe : \E q \in dir.log.worded :
                    {Last(p), Last(q)} \subseteq DOMAIN StemOf /\ StemOf[Last(p)] = StemOf[Last(q)]})
    \ Strong

\* mutant: of two paths one below the other, neither is suggested
DropBoth(ps) == {p \in ps : \A q \in ps \ {p} : ~IsPrefix(p, q) /\ ~IsPrefix(q, p)}

DropCovered(ps) == {p \in ps : Ancestors(p) \cap ps = {}}

\* mutant: every suggestion becomes an --include
NoEmptyDirs == {}

EmptySourceDirs ==
    LET entries == dir.inventory.entries
        source == {p \in DOMAIN entries : entries[p].inSource}
    IN {p \in source : \A q \in source : IsPrefix(p, q) => entries[q].type = "dir"}

(* Without an inventory or a log there is nothing to diagnose.             *)
HasInventory == dir.inventory.of # 0

HasLog == dir.log.of # 0

Diagnose ==
    /\ step = "idle" /\ HasLog /\ HasInventory /\ sugg = {}
    /\ noFormat' = FALSE
    /\ IF workload.provider = "none" \/ Weak = {}
       THEN step' = "suggested" /\ sugg' = DropCovered(Strong) /\ UNCHANGED call
       ELSE /\ step' = "ask" /\ UNCHANGED sugg
            /\ call' = [weak |-> Weak, strong |-> Strong, attempt |-> 1, requests |-> 0]
    /\ UNCHANGED <<vars, workload, n, allowEmpty, boots, dir, warned, exit, faults>>

(* validate: candidates only, and not too many.                            *)
\* mutant: a pick need not be a candidate
ValidCount(picks) == Cardinality(picks) =< MaxPicks

Valid(picks) == picks \subseteq call.weak /\ Cardinality(picks) =< MaxPicks

\* mutant: that the server refuses response_format is forgotten
ForgetFormat == UNCHANGED noFormat

LatchFormat == noFormat' = TRUE

(* openAI.do, one request: an answer; or an error, a refusal or a          *)
(* truncation; or, if it asked for response_format, that the server does   *)
(* not know it.                                                            *)
Do(useFormat) == {"answer", "failed"} \cup (IF useFormat THEN {"format"} ELSE {})

(* openAI.Complete: a server that refuses response_format is asked again   *)
(* without it, and from then on never with it.                             *)
OpenAIComplete ==
    {[response |-> r, requests |-> 1, refused |-> FALSE] : r \in Do(~noFormat) \ {"format"}}
    \cup {[response |-> r, requests |-> 2, refused |-> TRUE] :
             r \in IF "format" \in Do(~noFormat) THEN Do(FALSE) ELSE {}}

(* CompleteJSON: a valid answer ends the call, as a failure does; an       *)
(* invalid one is sent back once.                                          *)
Complete ==
    LET End(picks) == sugg' = DropCovered(call.strong \cup picks) /\ step' = "suggested"
    IN /\ step = "ask"
       /\ \E c \in OpenAIComplete :
            /\ IF c.refused THEN LatchFormat ELSE UNCHANGED noFormat
            /\ \/ /\ c.response = "answer"
                  /\ \E picks \in SUBSET (call.weak \cup workload.needs) : Valid(picks) /\ End(picks)
                  /\ call' = [call EXCEPT !.requests = @ + c.requests]
               \/ /\ c.response = "answer" /\ call.attempt = 1
                  /\ call' = [call EXCEPT !.requests = @ + c.requests, !.attempt = 2]
                  /\ UNCHANGED <<sugg, step>>
               \/ /\ c.response = "failed" \/ call.attempt = 2
                  /\ End({})
                  /\ call' = [call EXCEPT !.requests = @ + c.requests]
       /\ UNCHANGED <<vars, workload, n, allowEmpty, boots, dir, warned, exit, faults>>

(* The build again, with --mkdir for a suggested directory that is empty   *)
(* in the source and --include for everything else; or as it was, when the *)
(* log diagnose read names no path, or a failure left it nothing to read.  *)
Rerun ==
    LET mkdirs == sugg \cap EmptySourceDirs
    IN /\ n < MaxBuilds
       /\ \/ step = "suggested" /\ (sugg # {} \/ dir.log.quoted \cup dir.log.worded = {})
          \/ step = "idle" /\ exit # 3 /\ boots # n /\ ~(HasLog /\ HasInventory)
       /\ n' = n + 1 /\ step' = "start" /\ warned' = {} /\ sugg' = {} /\ call' = NoCall
       /\ opts' = [includes |-> opts.includes \cup (sugg \ mkdirs),
                   ensures |-> opts.ensures \cup {<<p, TRUE>> : p \in mkdirs}]
       /\ files' = observed /\ before' = {}
       /\ layer' = EmptyTree /\ peek' = "idle" /\ skipped' = 0
       /\ phase' = "extract" /\ result' = NoResult
       /\ UNCHANGED <<image, observed, workload, allowEmpty, boots, dir, exit, faults, noFormat>>

(* A build that was refused, again with --allow-empty.                     *)
RerunAllowed ==
    /\ step = "idle" /\ exit = 3
    /\ allowEmpty' = TRUE /\ step' = "start"
    /\ UNCHANGED <<vars, workload, n, boots, dir, warned, exit, faults, call, noFormat, sugg>>

LoopNext ==
    \/ Start \/ BuildStep \/ BuildReturns \/ WriteRemovalManifest \/ WriteInventory
    \/ GenerateSBOM \/ SyftFails \/ SmokeTest \/ Verdict
    \/ Diagnose \/ Complete \/ Rerun \/ RerunAllowed

LoopSpec == LoopInit /\ [][LoopNext]_loopVars
-----------------------------------------------------------------------------
(* A build that runs to its end, whatever it is worth, leaves a directory  *)
(* that is all of that build, except for what it has warned about: what an *)
(* earlier build left there is replaced or, the log, removed.  (A refusal  *)
(* leaves the directory alone, an error what was written before it.)       *)
OutputOfOneBuild ==
    step = "idle" /\ exit \in {0, 2} =>
        /\ dir.layout = n /\ dir.log.of = 0
        /\ dir.removal = n \/ "removal" \in warned
        /\ dir.inventory.of = n \/ "inventory" \in warned
        /\ (\A s \in Sboms : dir.sbom[s] = n /\ dir.sig[s] = n) \/ "sbom" \in warned

(* diagnose never suggests what the build was already told to include or   *)
(* create, if the inventory it reads is of the build that failed -- one    *)
(* whose inventory was not collected leaves that of an older build there.  *)
(* It suggests what the layer lacks (candidates.go:118): so what a         *)
(* suggestion adds is in the layer the next time, an empty directory       *)
(* included.                                                               *)
NothingSuggestedTwice ==
    step = "suggested" /\ dir.inventory.of = n =>
        /\ sugg \cap (opts.includes \cup {e[1] : e \in opts.ensures}) = {}
        /\ sugg \subseteq DOMAIN tree \ DOMAIN layer

(* Whatever the model answers, or does not, the suggestions are the strong *)
(* candidates, as they are or under a directory that is suggested, and     *)
(* besides them only weak ones.                                            *)
ModelOnlyChooses ==
    step = "suggested" /\ call # NoCall =>
        /\ sugg \subseteq call.strong \cup call.weak
        /\ \A p \in call.strong : (Ancestors(p) \cup {p}) \cap sugg # {}

(* One diagnose makes at most three requests: an answer that is invalid is *)
(* sent back once, and response_format is refused at most once.            *)
AtMostThreeRequests == call.requests =< 3

(* What a build may have to be repeated for: the paths the entrypoint      *)
(* needs, and the directories above one of them that is a directory without *)
(* files.  If such a directory is suggested together with one above it     *)
(* dropCovered keeps that one, of which --mkdir creates nothing else, and  *)
(* --include restores but files (diagnose.go:166 says everything).         *)
Wanted ==
    workload.needs \cup UNION {Ancestors(q) : q \in {p \in workload.needs : ~HoldsFile(tree, p)}}

(* The image has it under this name, and the links it leads through can be *)
(* named lexically: what is needed as /lib/l is suggested as /usr/lib/l,   *)
(* which does not help.                                                    *)
Findable(q) ==
    /\ Has(tree, q) /\ Resolve(tree, q) # NoPath
    /\ \A p \in Expanded({q}) : IsLink(p) => PlainLink(p)

(* An operator who follows the suggestions gets an image that boots after  *)
(* one build per wanted path the image lacks and one per fault at most,    *)
(* and has a suggestion to follow whenever the log quotes a path, which    *)
(* only docker's own does not -- if the source image boots and errors quote*)
(* the paths.  (smoketest.go:72 saves docker's error as the log.)          *)
RepairConverges ==
    workload.quoted /\ (\A q \in workload.needs : Findable(q)) =>
        /\ n =< Cardinality(Wanted) + faults + 1
        /\ step = "suggested" => sugg # {} \/ dir.log.quoted = {}
=============================================================================
