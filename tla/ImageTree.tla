------------------------------ MODULE ImageTree ------------------------------
(***************************************************************************)
(* The file trees the hardener works on, and the ways it walks them.       *)
(* A path is the sequence of its components; a tree is a function from a   *)
(* finite, parent-closed set of paths (the root is <<>>) to nodes.         *)
(* Modes, owners and times are left out; the content of a file is a value. *)
(***************************************************************************)
EXTENDS Naturals, Sequences, FiniteSets, SequencesExt

Dir     == [kind |-> "dir"]
File(d) == [kind |-> "file", data |-> d]

(* A symbolic link: the components of its target, and whether the target   *)
(* begins with "/".                                                        *)
Link(to, abs) == [kind |-> "link", to |-> to, abs |-> abs]

EmptyTree == [p \in {<<>>} |-> Dir]

(* No path: a failed lookup.  No component of a path is the empty string.  *)
NoPath == <<"">>

Has(t, p) == p \in DOMAIN t

(* The paths strictly below p, and the proper ancestors of p but the root. *)
Below(t, p)  == {q \in DOMAIN t : IsStrictPrefix(p, q)}
Ancestors(p) == {SubSeq(p, 1, i) : i \in 1..(Len(p) - 1)}

(* A file or link of the tree at the path or below it.                     *)
HoldsFile(t, p) == \E q \in DOMAIN t : IsPrefix(p, q) /\ t[q].kind # "dir"

Without(t, gone) == [q \in DOMAIN t \ gone |-> t[q]]

(* What path.Clean leaves no trace of.                                     *)
Cleaned(p) == \A i \in 1..Len(p) : p[i] \notin {"", ".."}

(* What an image's tree is.                                                *)
IsNode(x) ==
    \/ x = Dir
    \/ x.kind = "file" /\ x = File(x.data)
    \/ x.kind = "link" /\ x = Link(x.to, x.abs) /\ x.to \in Seq(STRING) /\ x.abs \in BOOLEAN

IsTree(t) ==
    /\ DOMAIN t \subseteq Seq(STRING)
    /\ Has(t, <<>>) /\ t[<<>>] = Dir
    /\ \A p \in DOMAIN t :
          /\ IsNode(t[p])
          /\ Cleaned(p)
          /\ \A a \in Ancestors(p) : Has(t, a) /\ t[a] = Dir

(***************************************************************************)
(* resolveInRoot: every link followed, the last component included; ".."   *)
(* stops at the root, an absolute target restarts there, and one more link *)
(* than maxHops is an error.  With rooted = FALSE it is instead the        *)
(* kernel's walk from the build host's root, which leaves the staging tree *)
(* at an absolute link or above the top: nothing of it is found out there. *)
(* The state of a walk is what is resolved, the components pending, and    *)
(* the number of links followed.                                           *)
(***************************************************************************)
Stops(t, at, maxHops, rooted) ==
    LET comp == Head(at[2])
        next == Append(at[1], comp)
    IN \/ at[2] = <<>>
       \/ comp = ".." /\ at[1] = <<>> /\ ~rooted
       \/ comp # ".." /\ ~Has(t, next)
       \/ comp # ".." /\ t[next].kind = "link" /\ (at[3] = maxHops \/ (t[next].abs /\ ~rooted))

Onward(t, at) ==
    LET comp == Head(at[2])
        next == Append(at[1], comp)
        rest == Tail(at[2])
    IN IF comp = ".." THEN <<IF at[1] = <<>> THEN at[1] ELSE Front(at[1]), rest, at[3]>>
       ELSE IF t[next].kind # "link" THEN <<next, rest, at[3]>>
       ELSE <<IF t[next].abs THEN <<>> ELSE at[1], t[next].to \o rest, at[3] + 1>>

Walk(t, p, maxHops, rooted) ==
    LET walk[at \in Seq(STRING) \X Seq(STRING) \X (0..maxHops)] ==
          IF Stops(t, at, maxHops, rooted)
          THEN IF at[2] = <<>> THEN at[1] ELSE NoPath
          ELSE walk[Onward(t, at)]
    IN walk[<<<<>>, p, 0>>]

MaxSymlinkHops == 40

Resolve(t, p) == Walk(t, p, MaxSymlinkHops, TRUE)

(* Parent followed by walk, last component as it is; NoPath if absent.     *)
EntryAt(t, p, rooted) ==
    IF p = <<>> THEN p
    ELSE LET dir == Walk(t, Front(p), MaxSymlinkHops, rooted)
             q   == Append(dir, Last(p))
         IN IF dir # NoPath /\ Has(t, q) THEN q ELSE NoPath

(* os.Lstat(inRootHostPath(root, p)), and os.Lstat(filepath.Join(root, p)).*)
(* Where the parent does not resolve inroot.go:97 falls back on the second,*)
(* which finds nothing in the tree that the first does not (WalkKept of    *)
(* ImageTreeProofs); what an absolute link to a directory then leads to on *)
(* the build host is not modelled.                                         *)
InRoot(t, p) == EntryAt(t, p, TRUE)
OnHost(t, p) == EntryAt(t, p, FALSE)

(***************************************************************************)
(* ancestorIsDir: what a path is when something is to be put below it.     *)
(***************************************************************************)
AncestorIsDir(t, p) ==
    LET q == InRoot(t, p)
        r == Resolve(t, p)
    IN CASE q = NoPath          -> "absent"
         [] q # NoPath /\ r # NoPath /\ t[r].kind = "dir" -> "dir"
         [] OTHER               -> "blocked"

(* nonDirAncestor: the first ancestor that is not a directory, unless an   *)
(* ancestor before it is absent.                                           *)
NonDirAncestor(t, p) ==
    LET bad == {i \in 1..(Len(p) - 1) : AncestorIsDir(t, SubSeq(p, 1, i)) # "dir"}
        i   == CHOOSE i \in bad : \A j \in bad : i =< j
    IN IF bad = {} \/ AncestorIsDir(t, SubSeq(p, 1, i)) = "absent" THEN NoPath
       ELSE SubSeq(p, 1, i)

(***************************************************************************)
(* The layer semantics of readLayerTree: put replaces what is at the path, *)
(* with everything below it, unless both are directories.                  *)
(***************************************************************************)
Put(t, p, n) ==
    IF Has(t, p) /\ t[p].kind = "dir" /\ n.kind = "dir" THEN t
    ELSE [q \in (DOMAIN t \ Below(t, p)) \cup {p} |-> IF q = p THEN n ELSE t[q]]
=============================================================================
