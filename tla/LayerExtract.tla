---------------------------- MODULE LayerExtract ----------------------------
(***************************************************************************)
(* hardener/puller.go: the layers of an image are applied, oldest first    *)
(* and entry by entry, to a staging directory on the build host            *)
(* (ExtractFromImage); then the files of a manifest are copied from there  *)
(* into a destination, in the random order of a Go map (CopyFileSet).      *)
(*                                                                         *)
(* Beside the staging tree runs the tree a container runtime has after the *)
(* same entries (runtime), which is what the sensor observed.              *)
(***************************************************************************)
EXTENDS ImageTree

CONSTANTS
    Entries,        \* the tar entries the image is made of
    MaxEntries,     \* bound: entries of one image
    MaxLayers,      \* bound: its layers
    Manifests       \* the sets of paths a manifest may list

(* filepath.Join has cleaned every path.  The entry of the root itself     *)
(* ("./") changes nothing and is left out.                                 *)
ASSUME EntriesAssumption ==
    \A e \in Entries :
        /\ e.kind \in {"dir", "file", "link", "hard", "whiteout", "opaque"}
        /\ e.path \in Seq(STRING) /\ Cleaned(e.path)
        /\ e.path = <<>> => e.kind = "opaque"
        /\ e.target \in Seq(STRING) /\ e.abs \in BOOLEAN

ASSUME ManifestsAssumption ==
    \A m \in Manifests : \A p \in m : p \in Seq(STRING) /\ Cleaned(p)

VARIABLES
    files,      \* m.Files: the paths of the manifest
    staging,    \* the tree below stagingDir
    runtime,    \* the tree a container runtime has
    fresh,      \* the paths the current layer has written so far
    read,       \* how many entries have been read
    layer,      \* the index of the current layer
    quirks,     \* where the code departs from a runtime, as it happens
    dest,       \* the tree below destDir
    copied,     \* the paths CopyFileSet has dealt with
    phase       \* "extract", "copy", "done", "failed"

vars == <<files, staging, runtime, fresh, read, layer, quirks, dest, copied, phase>>

Init ==
    /\ files \in Manifests
    /\ staging = EmptyTree /\ runtime = EmptyTree /\ dest = EmptyTree
    /\ fresh = {} /\ quirks = {} /\ copied = {}
    /\ read = 0 /\ layer = 1
    /\ phase = "extract"

-----------------------------------------------------------------------------
(* What the os calls do to a tree.  Failed is the tree of an error.        *)
Failed == [q \in {} |-> Dir]

(* os.MkdirAll (rooted = FALSE): below the longest prefix of p that is     *)
(* there, behind links if need be, the rest of p is made.  An error if     *)
(* that prefix is no directory, or if a link that leads nowhere stands at  *)
(* the next component.                                                     *)
MkdirAll(t, p, rooted) ==
    LET At(i) == Walk(t, SubSeq(p, 1, i), MaxSymlinkHops, rooted)
        n     == CHOOSE n \in 0..Len(p) :
                    At(n) # NoPath /\ \A i \in (n + 1)..Len(p) : At(i) = NoPath
        rest  == SubSeq(p, n + 1, Len(p))
        made  == {At(n) \o SubSeq(rest, 1, i) : i \in 1..Len(rest)}
    IN IF t[At(n)].kind # "dir" \/ (rest # <<>> /\ Has(t, Append(At(n), rest[1]))) THEN Failed
       ELSE [q \in DOMAIN t \cup made |-> IF Has(t, q) THEN t[q] ELSE Dir]

\* mutant: a directory goes even when it is not empty
OsRemoveDir(t, p) ==
    LET q == OnHost(t, p) IN IF q = NoPath THEN t ELSE Without(t, {q})

\* mutant: a link that stands at the path is followed instead of removed
OsRemoveButLinks(t, p) ==
    LET q == OnHost(t, p)
    IN IF q = NoPath \/ Below(t, q) # {} THEN t
       ELSE IF t[q].kind = "link" THEN t ELSE Without(t, {q})

(* os.Remove: an absent path and a directory that is not empty stay.       *)
OsRemove(t, p) ==
    LET q == OnHost(t, p)
    IN IF q = NoPath \/ Below(t, q) # {} THEN t ELSE Without(t, {q})

OsRemoveContents(t, p) ==
    LET q == OnHost(t, p) IN IF q = NoPath THEN t ELSE Without(t, Below(t, q))

(* Creating p after os.Remove: an error if it is still there, or if what   *)
(* was removed was on the way to it.                                       *)
Create(t, p, n) ==
    LET dir == Walk(t, Front(p), MaxSymlinkHops, FALSE)
    IN IF OnHost(t, p) # NoPath \/ dir = NoPath THEN Failed
       ELSE IF t[dir].kind # "dir" THEN Failed
       ELSE Put(t, Append(dir, Last(p)), n)

(***************************************************************************)
(* One entry of a layer, as extractLayer applies it.                       *)
(***************************************************************************)
Extract(t, e) ==
    IF e.kind = "whiteout" THEN OsRemove(t, e.path)
    ELSE IF e.kind = "opaque" THEN OsRemoveContents(t, e.path)
    ELSE LET t1 == MkdirAll(t, Front(e.path), FALSE)
             t2 == OsRemove(t1, e.path)
             from == OnHost(t2, e.target)
         IN IF t1 = Failed THEN Failed
            ELSE CASE e.kind = "dir"  -> MkdirAll(t1, e.path, FALSE)
                   [] e.kind = "file" -> Create(t2, e.path, File(e.data))
                   [] e.kind = "link" -> Create(t2, e.path, Link(e.target, e.abs))
                   [] e.kind = "hard" ->
                        IF from = NoPath THEN Failed
                        ELSE IF t2[from].kind = "dir" THEN Failed
                        ELSE Create(t2, e.path, t2[from])

(***************************************************************************)
(* The same entry as a container runtime applies it (containerd's archive, *)
(* which is not part of this repository): a whiteout removes a whole tree, *)
(* an opaque one spares what its own layer wrote, and only a directory     *)
(* over a directory keeps what is there.                                   *)
(***************************************************************************)
RuntimeWhiteout(t, e) ==
    LET q == InRoot(t, e.path) IN IF q = NoPath THEN t ELSE Without(t, Below(t, q) \cup {q})

RuntimeOpaque(t, e, new) ==
    LET q == InRoot(t, e.path)
    IN IF q = NoPath THEN t
       ELSE Without(t, {r \in Below(t, q) : \A s \in new : ~IsPrefix(r, s)})

RuntimeWrite(t, e) ==
    LET t1   == MkdirAll(t, Front(e.path), TRUE)
        dir  == Resolve(t1, Front(e.path))
        from == InRoot(t1, e.target)
        Node == CASE e.kind = "dir"  -> Dir
                  [] e.kind = "file" -> File(e.data)
                  [] e.kind = "link" -> Link(e.target, e.abs)
                  [] e.kind = "hard" -> t1[from]
    IN IF t1 = Failed THEN Failed
       ELSE IF dir = NoPath \/ (e.kind = "hard" /\ from = NoPath) THEN Failed
       ELSE IF t1[dir].kind # "dir" THEN Failed
       ELSE Put(t1, Append(dir, Last(e.path)), Node)

RuntimeApply(t, e, new) ==
    CASE e.kind = "whiteout" -> RuntimeWhiteout(t, e)
      [] e.kind = "opaque"   -> RuntimeOpaque(t, e, new)
      [] OTHER               -> RuntimeWrite(t, e)

(* Where the two part: recorded before the entry is applied.               *)
Quirk(t, e, new) ==
    LET q == OnHost(t, e.path)
    IN CASE e.kind \in {"whiteout", "opaque"} /\ q # InRoot(t, e.path) -> {"outside"}
         [] e.kind = "whiteout" /\ q # NoPath /\ Below(t, q) # {} -> {"whiteout"}
         [] e.kind = "opaque" /\ q # NoPath /\ (\E s \in new : IsStrictPrefix(q, s)) -> {"opaque"}
         [] e.kind = "dir" /\ q # NoPath /\ t[q].kind = "link" -> {"dirOverLink"}
         [] OTHER -> {}

-----------------------------------------------------------------------------
(* tr.Next of the current layer returns entry e.  An image the runtime     *)
(* itself cannot unpack is not followed further.                           *)
NextEntry(e) ==
    LET t == Extract(staging, e)
        r == RuntimeApply(runtime, e, fresh)
    IN /\ phase = "extract" /\ read < MaxEntries
       /\ r # Failed
       /\ read' = read + 1
       /\ IF t = Failed
          THEN phase' = "failed" /\ UNCHANGED <<staging, runtime, fresh, quirks>>
          ELSE /\ staging' = t /\ runtime' = r
               /\ fresh' = IF e.kind \in {"whiteout", "opaque"} THEN fresh
                           ELSE fresh \cup {InRoot(r, e.path)}
               /\ quirks' = quirks \cup Quirk(staging, e, fresh)
               /\ UNCHANGED phase
       /\ UNCHANGED <<files, layer, dest, copied>>

NextLayer ==
    /\ phase = "extract" /\ layer < MaxLayers
    /\ layer' = layer + 1 /\ fresh' = {}
    /\ UNCHANGED <<files, staging, runtime, read, quirks, dest, copied, phase>>

(* The pull, a layer's blob or its tar stream fails.                       *)
PullFails ==
    /\ phase = "extract"
    /\ phase' = "failed"
    /\ UNCHANGED <<files, staging, runtime, fresh, read, layer, quirks, dest, copied>>

EndOfLayers ==
    /\ phase = "extract" /\ layer = MaxLayers
    /\ phase' = "copy"
    /\ UNCHANGED <<files, staging, runtime, fresh, read, layer, quirks, dest, copied>>

(* The manifest paths ExtractFromImage reports as absent from all layers.  *)
Missing == {p \in files : OnHost(staging, p) = NoPath}

\* mutant: an error of os.Symlink is dropped, as that of os.Remove is
CopyNodeKeepsOld(t, p, node) ==
    LET t1 == MkdirAll(t, Front(p), FALSE)
    IN IF t1 = Failed THEN Failed
       ELSE IF node.kind = "dir" THEN MkdirAll(t1, p, FALSE)
       ELSE IF OnHost(t1, p) # NoPath THEN t1
       ELSE Create(t1, p, node)

(* One round of the loop of CopyFileSet.                                   *)
CopyNode(t, p, node) ==
    LET t1 == MkdirAll(t, Front(p), FALSE)
        at == Walk(t1, p, MaxSymlinkHops, FALSE)
    IN IF t1 = Failed THEN Failed
       ELSE CASE node.kind = "dir"  -> MkdirAll(t1, p, FALSE)
              [] node.kind = "link" -> Create(OsRemove(t1, p), p, node)
              [] OTHER ->                   \* os.OpenFile follows a link
                   IF OnHost(t1, p) = NoPath THEN Create(t1, p, node)
                   ELSE IF at = NoPath \/ t1[at].kind = "dir" THEN Failed
                   ELSE [t1 EXCEPT ![at] = node]

CopyOne(p) ==
    LET q == OnHost(staging, p)
        t == CopyNode(dest, p, staging[q])
    IN /\ phase = "copy" /\ p \in files \ copied
       /\ copied' = copied \cup {p}
       /\ CASE q = NoPath                 -> UNCHANGED <<dest, phase>>
            [] q # NoPath /\ t = Failed   -> phase' = "failed" /\ UNCHANGED dest
            [] q # NoPath /\ t # Failed   -> dest' = t /\ UNCHANGED phase
       /\ UNCHANGED <<files, staging, runtime, fresh, read, layer, quirks>>

EndOfCopy ==
    /\ phase = "copy" /\ copied = files
    /\ phase' = "done"
    /\ UNCHANGED <<files, staging, runtime, fresh, read, layer, quirks, dest, copied>>

Next ==
    \/ \E e \in Entries : NextEntry(e)
    \/ \E p \in files : CopyOne(p)
    \/ NextLayer \/ PullFails \/ EndOfLayers \/ EndOfCopy

Spec == Init /\ [][Next]_vars

-----------------------------------------------------------------------------
(* A tree hangs together: below the root, everything is in a directory.    *)
WellFormed(t) ==
    /\ <<>> \in DOMAIN t
    /\ \A p \in DOMAIN t \ {<<>>} : Has(t, Front(p)) /\ t[Front(p)].kind = "dir"

(* The three trees stay trees whatever order the entries come in, and the  *)
(* phases are the four there are.                                          *)
TypeOK ==
    /\ WellFormed(staging) /\ WellFormed(runtime) /\ WellFormed(dest)
    /\ copied \subseteq files
    /\ phase \in {"extract", "copy", "done", "failed"}

(* Extraction gives the file system the container saw, unless a whiteout   *)
(* names a directory with something in it (os.Remove leaves it, with no    *)
(* error), an opaque whiteout comes after entries of its own layer (they   *)
(* are cleared with the rest), either is reached through a link that leads *)
(* out of stagingDir, or a directory entry names a link.                   *)
ExtractsWhatRuntimeHas ==
    phase \in {"copy", "done"} /\ quirks = {} => staging = runtime

(* A copy that ends without an error holds every path of the manifest that *)
(* the image has, with its content, in whatever order the map gave them.   *)
(* Not so for every image: a relative link that the manifest names through *)
(* another link is copied to another directory than its own, may lead to   *)
(* another file there, and what is copied through it overwrites that.      *)
CopyComplete ==
    phase = "done" =>
        \A p \in files \ Missing :
            LET q == OnHost(dest, p)
            IN q # NoPath /\ dest[q] = staging[OnHost(staging, p)]

(* puller.go:35 says ExtractFromImage extracts the image's complete file   *)
(* system, and :42 that .wh.<name> deletes the named sibling from          *)
(* stagingDir: what a whiteout names is gone from the staging directory.   *)
WhiteoutDeletes ==
    [][\A e \in Entries :
         /\ e.kind = "whiteout" /\ NextEntry(e)
         => OnHost(staging', e.path) = NoPath]_vars
=============================================================================
