----------------------------- MODULE LayerBuild -----------------------------
(***************************************************************************)
(* hardener/builder.go, BuildImage: from the extracted source tree and the *)
(* observed manifest to the single layer of the hardened image, and the    *)
(* packages it reports as removed.  The steps that complete the manifest   *)
(* (runtime.go, safemode.go, checkScratchCompat, expandSymlinkTargets) are *)
(* modelled path by path; what ResolveELFDependencies adds is a set of     *)
(* paths of the image (module ElfClosure has how it comes about).          *)
(***************************************************************************)
EXTENDS ImageTree, Confidence

CONSTANTS
    Images,         \* [tree, elf: the paths the ELF step adds, owned: package -> its paths]
    Observations,   \* the manifests: path -> where its entry comes from (see Confidence)
    Window, MinWindow,  \* how long the profile was taken, and the recommended minimum
    Options,        \* [includes: a set of paths, ensures: a set of <<path, isDir>>]
    Essentials, CertBundle, CertDir, Linkers,   \* what FROM scratch needs
    FinalOf,        \* a transient .pyc name -> its final name
    SourceOf,       \* a __pycache__ entry -> the .py beside it
    Order,          \* all paths, in the order of sort.Strings
    HostPaths       \* paths that hold the name of the staging directory

(***************************************************************************)
(* What is read of a tree t: the names in a directory, the files and links *)
(* below a path under the name it was given, and where a link points to    *)
(* from its own name (filepath.Join cleans ".." without looking).          *)
(***************************************************************************)
NamesIn(t, d) ==
    LET dir == Walk(t, d, MaxSymlinkHops, FALSE)
    IN IF dir = NoPath THEN {}
       ELSE {Append(d, Last(q)) : q \in {c \in Below(t, dir) : Len(c) = Len(dir) + 1}}

IncludedFrom(t, incl) ==
    LET base == OnHost(t, incl)
        sub(q) == SubSeq(q, Len(base) + 1, Len(q))
    IN IF base = NoPath THEN {}
       ELSE {incl \o sub(q) : q \in {r \in Below(t, base) \cup {base} : t[r].kind # "dir"}}

Clean(p) ==
    LET clean[i \in 0..Len(p)] ==
          IF i = 0 THEN <<>>
          ELSE IF p[i] # ".." THEN Append(clean[i - 1], p[i])
          ELSE IF clean[i - 1] = <<>> THEN <<>> ELSE Front(clean[i - 1])
    IN clean[Len(p)]

LinkAt(t, p) == InRoot(t, p) # NoPath /\ t[InRoot(t, p)].kind = "link"

TargetFrom(t, p) ==
    LET link == t[InRoot(t, p)]
    IN Clean(IF link.abs THEN link.to ELSE Front(p) \o link.to)

ASSUME ImagesAssumption == \A i \in Images : IsTree(i.tree)

ASSUME WindowAssumption == Window \in Nat /\ MinWindow \in Nat

(* Paths are cleaned before anything is looked up (inroot.go:90).           *)
ASSUME OrderAssumption ==
    /\ Order \in Seq(Seq(STRING))
    /\ \A i \in 1..Len(Order) : Cleaned(Order[i])
    /\ \A i, j \in 1..Len(Order) :
          /\ Order[i] = Order[j] => i = j
          /\ IsStrictPrefix(Order[i], Order[j]) => i < j
    /\ \A o \in Options : {e[1] : e \in o.ensures} \subseteq Range(Order)

(* They are all there: those of the images and of the manifests, and those *)
(* that a manifest can be completed with.                                  *)
ASSUME ListedAssumption ==
    LET listed == Range(Order)
    IN /\ \A o \in Observations : DOMAIN o \subseteq listed
       /\ Range(FinalOf) \cup Range(SourceOf) \subseteq listed
       /\ Essentials \cup {CertBundle} \cup Range(Linkers) \subseteq listed
       /\ \A i \in Images :
             /\ (DOMAIN i.tree \ {<<>>}) \cup i.elf \cup NamesIn(i.tree, CertDir) \subseteq listed
             /\ \A o \in Options : \A incl \in o.includes : IncludedFrom(i.tree, incl) \subseteq listed
             /\ \A p \in listed :
                   LinkAt(i.tree, p) /\ InRoot(i.tree, TargetFrom(i.tree, p)) # NoPath =>
                       TargetFrom(i.tree, p) \in listed

VARIABLES
    image, observed, opts,      \* the inputs
    files,      \* m.Files: path -> where its entry comes from
    before,     \* files when the ensure entries were looked at
    phase,      \* the step of BuildImage that is next, "built" or "failed"
    layer,      \* the tree of the layer
    peek,       \* the layer writer whose reader was closed early
    skipped,    \* skippedProbes: what the last writer to finish has stored
    result      \* BuildResult: the skip count and the removed packages

vars == <<image, observed, opts, files, before, phase, layer, peek, skipped, result>>

tree == image.tree

(* An entry that is there already keeps its source.                        *)
AddNew(fs, ps, source) ==
    [p \in DOMAIN fs \cup ps |-> IF p \in DOMAIN fs THEN fs[p] ELSE source]

NoResult == [skipped |-> 0, removed |-> {}, scanned |-> FALSE]

Init ==
    /\ image \in Images /\ observed \in Observations /\ opts \in Options
    /\ files = observed
    /\ before = {} /\ layer = EmptyTree
    /\ peek = "idle" /\ skipped = 0
    /\ phase = "extract" /\ result = NoResult

(***************************************************************************)
(* runtime.go: a transient name gives way to the final one, if the image   *)
(* has it and the manifest does not, with what it has been observed as; then*)
(* a bytecode cache brings the source beside it.                           *)
(***************************************************************************)
FinalNames(fs) == {FinalOf[p] : p \in DOMAIN fs \cap DOMAIN FinalOf}

\* Of several transient names of a file, the one the map's order has first.
FirstNames(fs) ==
    {of \in [FinalNames(fs) -> DOMAIN fs \cap DOMAIN FinalOf] :
        \A p \in FinalNames(fs) : FinalOf[of[p]] = p}

RenamedSource(source) == IF source = "direct" THEN "inferred-runtime" ELSE source

Normalised(fs, of) ==
    LET kept == DOMAIN fs \ DOMAIN FinalOf
        final == {p \in FinalNames(fs) : InRoot(tree, p) # NoPath}
    IN [p \in kept \cup final |-> IF p \in kept THEN fs[p] ELSE RenamedSource(fs[of[p]])]

Companions(fs) ==
    {p \in {SourceOf[c] : c \in DOMAIN fs \cap DOMAIN SourceOf} : InRoot(tree, p) # NoPath}

(***************************************************************************)
(* checkScratchCompat: what is there of the essentials, of the bundle or   *)
(* else the certificates one by one, and the first linker that is there.   *)
(***************************************************************************)
Present(p) == OnHost(tree, p) # NoPath

Certificates ==
    IF Present(CertBundle) THEN {CertBundle} ELSE NamesIn(tree, CertDir)

Linker ==
    {Linkers[k] : k \in {i \in DOMAIN Linkers :
        Present(Linkers[i]) /\ \A j \in 1..(i - 1) : ~Present(Linkers[j])}}

Scratch ==
    {p \in Essentials : Present(p)} \cup Certificates \cup Linker

(***************************************************************************)
(* ApplyDirectoryInclusion: every file and link below an --include path,   *)
(* or that path itself, under the name it was given.                       *)
(***************************************************************************)
Included(incl) == IncludedFrom(tree, incl)

MissingIncludes == {incl \in opts.includes : OnHost(tree, incl) = NoPath}

\* mutant: a file to be touched is made a directory
EnsureSourceDir(e) == "ensure-dir"

EnsureSource(e) == IF e[2] THEN "ensure-dir" ELSE "ensure-file"

(* The entries of --mkdir come before those of --touch (build.go:107).     *)
ApplyEnsurePaths(fs, ensures) ==
    [p \in DOMAIN fs \cup {e[1] : e \in ensures} |->
        IF p \in DOMAIN fs THEN fs[p] ELSE EnsureSource(<<p, <<p, TRUE>> \in ensures>>)]

(***************************************************************************)
(* expandSymlinkTargets: the target of every link in the manifest, as long *)
(* as that adds something the image has.                                   *)
(***************************************************************************)
IsLink(p) == LinkAt(tree, p)

\* mutant: a relative target is taken from the root
TargetFromRoot(p) == Clean(tree[InRoot(tree, p)].to)

TargetOf(p) == TargetFrom(tree, p)

LinkTargets(ps) ==
    {q \in {TargetOf(p) : p \in {p \in ps : IsLink(p)}} : InRoot(tree, q) # NoPath}

Expanded(ps) ==
    LET close[s \in SUBSET Seq(STRING)] ==
          IF LinkTargets(s) \subseteq s THEN s ELSE close[s \cup LinkTargets(s)]
    IN close[ps]

(***************************************************************************)
(* writeTarEntriesCounting, one path: tree is the layer so far, dirs and   *)
(* nonDirs are emittedDirs and emittedNonDirs.                             *)
(***************************************************************************)
\* mutant: what lies below a file of the image is not held back
BlockedByLayer(acc, p) == Ancestors(p) \cap acc.nonDirs # {}

Blocked(acc, p) == NonDirAncestor(tree, p) # NoPath \/ Ancestors(p) \cap acc.nonDirs # {}

PutNonDir(acc, p, node) ==
    [acc EXCEPT !.tree = Put(@, p, node), !.nonDirs = @ \cup {p}]

WithDirs(t, ps) == [q \in DOMAIN t \cup ps |-> IF q \in ps THEN Dir ELSE t[q]]

\* mutant: a parent the image does not have is not written
PutDirsOfSource(acc, ps) ==
    [acc EXCEPT !.tree = WithDirs(@, {r \in ps \ acc.dirs : Has(tree, r)}), !.dirs = @ \cup ps]

PutDirs(acc, ps) ==
    [acc EXCEPT !.tree = WithDirs(@, ps \ acc.dirs), !.dirs = @ \cup ps]

(* The entry of p itself, when its parents are there.                      *)
Place(fs, up, p) ==
    LET q == InRoot(tree, p)
    IN IF q = NoPath
       THEN CASE fs[p] = "ensure-dir"  -> PutDirs(up, {p})
              [] fs[p] = "ensure-file" -> PutNonDir(up, p, File("empty"))
              [] OTHER                 -> up
       ELSE CASE tree[q].kind = "dir"  -> PutDirs(up, {p})
              [] tree[q].kind = "file" -> PutNonDir(up, p, tree[q])
              [] tree[q].kind = "link" ->
                   IF AncestorIsDir(tree, p) = "dir"
                   THEN [up EXCEPT !.tree = Put(@, p, tree[q])]
                   ELSE PutNonDir(up, p, tree[q])

WriteEntry(fs, acc, p) ==
    CASE acc.failed -> acc
      [] ~acc.failed /\ Blocked(acc, p) ->
           IF fs[p] \in {"ensure-dir", "ensure-file"} THEN [acc EXCEPT !.failed = TRUE]
           ELSE [acc EXCEPT !.skipped = @ + 1]
      [] OTHER -> Place(fs, PutDirs(acc, Ancestors(p)), p)

(* The entries of the manifest, in the order of their paths.               *)
Nothing == [tree |-> EmptyTree, dirs |-> {}, nonDirs |-> {}, skipped |-> 0, failed |-> FALSE]

Written(fs) ==
    LET after[i \in 0..Len(Order)] ==
          IF i = 0 THEN Nothing
          ELSE IF Order[i] \in DOMAIN fs THEN WriteEntry(fs, after[i - 1], Order[i])
          ELSE after[i - 1]
    IN after[Len(Order)]

(***************************************************************************)
(* removal.go: a package is removed if it owns something but a directory   *)
(* of the source tree, and none of that is a path of the manifest.         *)
(***************************************************************************)
OwnedFiles(pkg) ==
    {p \in image.owned[pkg] : Present(p) /\ tree[OnHost(tree, p)].kind # "dir"}

\* mutant: partial retention counts as removal
RemovedIfAnyIs == {pkg \in DOMAIN image.owned : ~(OwnedFiles(pkg) \subseteq DOMAIN files)}

ComputeRemovedSet ==
    {pkg \in DOMAIN image.owned :
        OwnedFiles(pkg) # {} /\ OwnedFiles(pkg) \cap DOMAIN files = {}}

-----------------------------------------------------------------------------
inputs == <<image, observed, opts>>
writer == <<layer, peek, skipped, result>>

Step(from, to) == phase = from /\ phase' = to /\ UNCHANGED inputs

(* Any call that can fail ends the build: the pull, the extraction, the    *)
(* ELF step, the layer, its digest, the layout.                            *)
StepFails ==
    /\ phase \notin {"built", "failed"}
    /\ phase' = "failed"
    /\ UNCHANGED <<inputs, files, before, writer>>

ResolveELF ==
    /\ Step("extract", "companions")
    /\ files' = AddNew(files, image.elf, "inferred-elf")
    /\ UNCHANGED <<before, writer>>

ResolveRuntimeCompanions ==
    /\ Step("companions", "scratch")
    /\ \E of \in FirstNames(files) :
           LET fs == Normalised(files, of)
           IN files' = AddNew(fs, Companions(fs), "inferred-runtime")
    /\ UNCHANGED <<before, writer>>

CheckScratchCompat ==
    /\ Step("scratch", "include")
    /\ files' = AddNew(files, Scratch, "scratch-compat")
    /\ UNCHANGED <<before, writer>>

ApplyDirectoryInclusion ==
    /\ Step("include", "ensure")
    /\ files' = AddNew(files, UNION {Included(incl) : incl \in opts.includes}, "directory-inclusion")
    /\ UNCHANGED <<before, writer>>

(* checkEnsurePaths, then ApplyEnsurePaths.                                *)
EnsurePaths ==
    LET blocked == \E e \in opts.ensures : NonDirAncestor(tree, e[1]) # NoPath
    IN /\ Step("ensure", IF blocked THEN "failed" ELSE "expand")
       /\ before' = DOMAIN files
       /\ files' = IF blocked THEN files ELSE ApplyEnsurePaths(files, opts.ensures)
       /\ UNCHANGED writer

(* expandSymlinkTargets, then checkNoStagingPaths.                         *)
ExpandSymlinkTargets ==
    LET fs == AddNew(files, Expanded(DOMAIN files), "symlink-target")
    IN /\ Step("expand", IF DOMAIN fs \cap HostPaths # {} THEN "failed" ELSE "open")
       /\ files' = fs
       /\ UNCHANGED <<before, writer>>

(* tarball.LayerFromOpener looks at the first bytes to see how the layer   *)
(* is compressed and closes the reader: that writer stops somewhere.       *)
OpenLayer ==
    /\ Step("open", "digest")
    /\ peek' = "running"
    /\ UNCHANGED <<files, before, layer, skipped, result>>

(* The goroutine of the closed pipe stores the count it got to, when it    *)
(* gets to it: it may have stopped after any entry.                        *)
PeekStores ==
    /\ peek = "running"
    /\ peek' = IF phase = "result" THEN "late" ELSE "stored"
    /\ skipped' \in 0..Written(files).skipped
    /\ UNCHANGED <<inputs, files, before, phase, layer, result>>

(* The layer is written to the end to digest it, and again to the layout.  *)
DigestLayer ==
    LET all == Written(files)
    IN /\ Step("digest", IF all.failed THEN "failed" ELSE "result")
       /\ layer' = all.tree
       /\ skipped' = all.skipped
       /\ UNCHANGED <<files, before, peek, result>>

(* The result is put together, with the removed set unless syft fails; a   *)
(* push that fails returns it all the same.                                *)
Finish(scanned) ==
    /\ Step("result", "built")
    /\ result' = [skipped |-> skipped, scanned |-> scanned,
                  removed |-> IF scanned THEN ComputeRemovedSet ELSE {}]
    /\ UNCHANGED <<files, before, layer, peek, skipped>>

Next ==
    \/ StepFails \/ ResolveELF \/ ResolveRuntimeCompanions \/ CheckScratchCompat
    \/ ApplyDirectoryInclusion \/ EnsurePaths \/ ExpandSymlinkTargets
    \/ OpenLayer \/ PeekStores \/ DigestLayer
    \/ \E scanned \in BOOLEAN : Finish(scanned)

Spec == Init /\ [][Next]_vars

-----------------------------------------------------------------------------
Built == phase = "built"

(* The layer is a tree, and a count is a count.                            *)
TypeOK ==
    /\ <<>> \in DOMAIN layer
    /\ \A p \in DOMAIN layer \ {<<>>} : Has(layer, Front(p)) /\ layer[Front(p)].kind = "dir"
    /\ skipped \in 0..Len(Order)
    /\ peek \in {"idle", "running", "stored", "late"}

(* What the image has, the layer has as it is: no file or dangling link is *)
(* replaced by a directory, however it is probed from below or ensured;    *)
(* only a link to a directory may become one (inventory.go:68).            *)
KindsAgree ==
    Built => \A p \in DOMAIN layer :
        LET q == InRoot(tree, p)
        IN q # NoPath =>
             \/ layer[p] = tree[q]
             \/ layer[p].kind = "dir" /\ AncestorIsDir(tree, p) = "dir"

(* A link whose ".." can be cleaned away by name: they come first in its   *)
(* target, and the link is not named through a linked directory.           *)
Unaliased(p) == InRoot(tree, p) \in {p, NoPath}

PlainLink(p) ==
    LET to == tree[InRoot(tree, p)].to
    IN \A i \in 1..Len(to) :
          to[i] = ".." => Unaliased(p) /\ \A j \in 1..i : to[j] = ".."

(* Every path of the manifest that the image resolves, links and linked    *)
(* directories on the way included, resolves in the layer, and to the same *)
(* content -- if the links of the manifest are plain: through /lib ->      *)
(* usr/lib, a link /lib/l -> ../share/s is expanded to /share/s, which the *)
(* image does not have, and is left dangling.                              *)
ManifestResolves ==
    Built /\ (\A p \in DOMAIN files : IsLink(p) => PlainLink(p)) =>
        \A p \in DOMAIN files :
            LET q == Resolve(tree, p)
                r == Resolve(layer, p)
            IN q # NoPath => r # NoPath /\ layer[r] = tree[q]

(* The same without the condition: builder.go:612 says that expansion      *)
(* prevents dangling symlinks in the output OCI layer.                     *)
NoDanglingLink ==
    Built => \A p \in DOMAIN files :
        IsLink(p) /\ Resolve(tree, p) # NoPath => Resolve(layer, p) # NoPath

(* A package reported as removed has left nothing in the layer but perhaps *)
(* a directory in the place of a link of its own, whatever it is called    *)
(* there, and one that is not reported has left something -- unless the    *)
(* manifest names a file of the package by another name than the package   *)
(* does, which the set difference takes for another file.                  *)
OneName(pkg) ==
    \A p \in DOMAIN files : \A o \in OwnedFiles(pkg) : InRoot(tree, p) = InRoot(tree, o) => p = o

Left(pkg) == {q \in DOMAIN layer : \E o \in OwnedFiles(pkg) : InRoot(tree, q) = InRoot(tree, o)}

RemovedExact ==
    Built /\ result.scanned =>
        \A pkg \in {k \in DOMAIN image.owned : OneName(k)} :
            IF pkg \in result.removed
            THEN OwnedFiles(pkg) # {} /\ \A q \in Left(pkg) : layer[q].kind = "dir"
            ELSE OwnedFiles(pkg) = {} \/ Left(pkg) # {}

(* The same of every package reported, however the manifest names files:   *)
(* removal.go:3 lists packages "entirely ABSENT from the hardened image".  *)
(* It does not hold: with merged /usr a file has two names, of which the   *)
(* manifest has one and the package the other.                             *)
RemovedAbsent ==
    Built /\ result.scanned =>
        \A pkg \in result.removed : \A q \in Left(pkg) : layer[q].kind = "dir"

(* What --mkdir and --touch ask for is in the layer, as asked if the image *)
(* does not have it -- a directory if both ask for it --, unless the       *)
(* manifest listed the path before.                                        *)
EnsuredUnlessListed ==
    Built => \A e \in opts.ensures :
        e[1] \notin before =>
            /\ Has(layer, e[1])
            /\ InRoot(tree, e[1]) = NoPath =>
                  layer[e[1]] = IF <<e[1], TRUE>> \in opts.ensures THEN Dir ELSE File("empty")

(* The same without the condition: builder.go:68 says EnsurePaths must     *)
(* exist in the output OCI layer whether or not the source image has them. *)
EnsuredPathsExist == Built => \A e \in opts.ensures : Has(layer, e[1])

(* SkippedProbePaths counts the manifest paths below a non-directory; only *)
(* the writer that was cut short can make it smaller, if it stores between *)
(* the digest and the reading of the result.                               *)
Hidden ==
    {p \in DOMAIN files : \E a \in Ancestors(p) :
        \/ AncestorIsDir(tree, a) = "blocked"
        \/ InRoot(tree, a) = NoPath /\ a \in DOMAIN files /\ files[a] = "ensure-file"}

SkipCountBounded ==
    Built => /\ result.skipped =< Cardinality(Hidden)
             /\ peek # "late" => result.skipped = Cardinality(Hidden)

(* The same without the exception: builder.go:292 says that each run stores*)
(* the same skip count, so that the value is stable once the layer has been*)
(* digested.                                                               *)
SkipCountStable == Built => result.skipped = Cardinality(Hidden)

(* harden build scores the manifest BuildImage has completed               *)
(* (cmd/harden/build.go:133): what the hardener added itself costs nothing *)
(* (confidence.go:98), only the targets of links do, as if they were the  *)
(* user's, and those at most what manual entries may cost at all.  The     *)
(* profile must keep a direct entry that is not a transient name.          *)
ScoreIsTheProfiles ==
    Built /\ (\E p \in DOMAIN observed \ DOMAIN FinalOf : observed[p] = "direct") =>
        LET lost == Score(observed, Window, MinWindow) - Score(files, Window, MinWindow)
        IN /\ lost \in 0..25
           /\ (\A p \in DOMAIN files : files[p] # "symlink-target") => lost = 0

(* The same without the exception: confidence.go:98 says that what the    *)
(* hardener adds itself must not count against the score.                  *)
HardenerEntriesFree ==
    Built /\ (\E p \in DOMAIN observed \ DOMAIN FinalOf : observed[p] = "direct") =>
        Score(files, Window, MinWindow) = Score(observed, Window, MinWindow)
=============================================================================
