-------------------------- MODULE LayerBuildProofs --------------------------
(***************************************************************************)
(* Proofs about LayerBuild, for every set of images, manifests and options,*)
(* whatever the walks through the image's tree return.                     *)
(***************************************************************************)
EXTENDS LayerBuild, ImageTreeProofs, FiniteSetTheorems

-----------------------------------------------------------------------------
(* The layer is written entry by entry.                                    *)

Entry(fs, acc, i) == IF Order[i] \in DOMAIN fs THEN WriteEntry(fs, acc, Order[i]) ELSE acc

\* What has been written after each of the first n entries.
IsRun(fs, f, n) ==
    f = [i \in 0 .. n |-> IF i = 0 THEN Nothing ELSE Entry(fs, f[i - 1], i)]

LEMMA RunExists ==
    ASSUME NEW fs, NEW n \in Nat
    PROVE  \E f : IsRun(fs, f, n)
<1> DEFINE Bad == {k \in Nat : ~\E f : IsRun(fs, f, k)}
<1>1. SUFFICES ASSUME Bad # {} PROVE FALSE
  OBVIOUS
<1>2. PICK k \in Bad : \A j \in Bad : k <= j
  BY <1>1, Least
<1>3. CASE k = 0
  <2>1. IsRun(fs, [i \in 0 .. 0 |-> Nothing], 0)
    BY DEF IsRun
  <2>2. QED
    BY <1>3, <2>1
<1>4. CASE k # 0
  <2>1. k - 1 \in Nat /\ ~(k <= k - 1)
    BY <1>4
  <2>2. PICK f : IsRun(fs, f, k - 1)
    BY <1>2, <2>1
  <2> DEFINE g == [i \in 0 .. k |-> IF i = k THEN Entry(fs, f[k - 1], k) ELSE f[i]]
  <2>3. ASSUME NEW i \in 0 .. k
        PROVE  g[i] = IF i = 0 THEN Nothing ELSE Entry(fs, g[i - 1], i)
    <3>1. CASE i = k
      BY <3>1, <1>4
    <3>2. CASE i # k
      <4>1. i \in 0 .. (k - 1)
        BY <3>2
      <4>2. g[i] = f[i] /\ (i # 0 => g[i - 1] = f[i - 1])
        BY <3>2
      <4>3. f[i] = IF i = 0 THEN Nothing ELSE Entry(fs, f[i - 1], i)
        BY <2>2, <4>1 DEF IsRun
      <4>4. QED
        BY <4>2, <4>3
    <3>3. QED
      BY <3>1, <3>2
  <2>4. IsRun(fs, g, k)
    <3>1. g = [i \in 0 .. k |-> g[i]]
      OBVIOUS
    <3> HIDE DEF g
    <3>2. QED
      BY <2>3, <3>1 DEF IsRun
  <2>5. QED
    BY <2>4
<1>5. QED
  BY <1>3, <1>4

LEMMA WrittenRun ==
    ASSUME NEW fs, Len(Order) \in Nat
    PROVE  \E f : IsRun(fs, f, Len(Order)) /\ Written(fs) = f[Len(Order)]
<1> DEFINE after == CHOOSE f : IsRun(fs, f, Len(Order))
<1>1. IsRun(fs, after, Len(Order))
  BY RunExists
<1>2. Written(fs) = after[Len(Order)]
  BY DEF Written, IsRun, Entry
<1>3. QED
  BY <1>1, <1>2

-----------------------------------------------------------------------------
(***************************************************************************)
(* What the writer of the layer keeps, entry by entry.                     *)
(***************************************************************************)

InOrder ==
    /\ Order \in Seq(Seq(STRING))
    /\ \A i \in 1..Len(Order) : Cleaned(Order[i])
    /\ \A i, j \in 1..Len(Order) :
          /\ Order[i] = Order[j] => i = j
          /\ IsStrictPrefix(Order[i], Order[j]) => i < j

\* A tree in which everything lies in a directory.
Closed(t) ==
    /\ <<>> \in DOMAIN t /\ t[<<>>] = Dir
    /\ \A p \in DOMAIN t : p \in Seq(STRING)
    /\ \A p \in DOMAIN t : \A a \in Ancestors(p) : a \in DOMAIN t /\ t[a].kind = "dir"

\* After n entries the layer has only what they and their ancestors are; dirs
\* and nonDirs are what has been written, as a directory and as something else.
LayerOK(acc, n) ==
    /\ acc = [tree |-> acc.tree, dirs |-> acc.dirs, nonDirs |-> acc.nonDirs,
              skipped |-> acc.skipped, failed |-> acc.failed]
    /\ Closed(acc.tree)
    /\ \A p \in DOMAIN acc.tree \ {<<>>} :
          \E j \in 1..n : p = Order[j] \/ p \in Ancestors(Order[j])
    /\ \A p \in acc.dirs : p \in DOMAIN acc.tree /\ acc.tree[p] = Dir
    /\ \A p \in acc.nonDirs : p \in DOMAIN acc.tree /\ acc.tree[p].kind # "dir"
    /\ acc.skipped \in 0..n
    /\ acc.failed \in BOOLEAN

\* The entry that comes next is new, and nothing lies below it.
LEMMA NextIsNew ==
    ASSUME InOrder, NEW acc, NEW n \in Nat, n + 1 \in 1..Len(Order), LayerOK(acc, n),
           Order[n + 1] # <<>>
    PROVE  /\ Order[n + 1] \in Seq(STRING)
           /\ Order[n + 1] \notin DOMAIN acc.tree
           /\ \A q \in DOMAIN acc.tree : Order[n + 1] \notin Ancestors(q)
<1> DEFINE p == Order[n + 1]
<1>1. p \in Seq(STRING) /\ \A j \in 1..n : j \in 1..Len(Order) /\ Order[j] \in Seq(STRING)
  BY DEF InOrder
<1>2. ASSUME NEW j \in 1..n PROVE p # Order[j] /\ p \notin Ancestors(Order[j])
  <2>1. j \in 1..Len(Order) /\ Order[j] \in Seq(STRING) /\ j # n + 1 /\ ~(n + 1 < j)
    BY <1>1
  <2>2. p # Order[j]
    BY <2>1 DEF InOrder
  <2>3. ~IsStrictPrefix(p, Order[j])
    BY <2>1 DEF InOrder
  <2>4. QED
    BY <2>1, <2>2, <2>3, AncestorsAre
<1>3. p \notin DOMAIN acc.tree
  BY <1>2 DEF LayerOK
<1>4. ASSUME NEW q \in DOMAIN acc.tree, p \in Ancestors(q) PROVE FALSE
  BY <1>3, <1>4 DEF LayerOK, Closed
<1>5. QED
  BY <1>1, <1>3, <1>4

\* The directories on the way to the next entry.
LEMMA UpIsWritten ==
    ASSUME InOrder, NEW acc, NEW n \in Nat, n + 1 \in 1..Len(Order), LayerOK(acc, n),
           Ancestors(Order[n + 1]) \cap acc.nonDirs = {},
           NEW up, up = PutDirs(acc, Ancestors(Order[n + 1]))
    PROVE  /\ LayerOK(up, n + 1)
           /\ \A a \in Ancestors(Order[n + 1]) : a \in DOMAIN up.tree /\ up.tree[a] = Dir
           /\ DOMAIN up.tree = DOMAIN acc.tree \cup Ancestors(Order[n + 1])
           /\ \A q \in DOMAIN acc.tree \ Ancestors(Order[n + 1]) : up.tree[q] = acc.tree[q]
           /\ \A q \in acc.dirs \cup acc.nonDirs : up.tree[q] = acc.tree[q]
           /\ acc.dirs \subseteq up.dirs /\ up.nonDirs = acc.nonDirs
           /\ up.skipped = acc.skipped /\ up.failed = acc.failed
<1> DEFINE p == Order[n + 1]
           new == Ancestors(p) \ acc.dirs
<1>1. /\ up = [tree |-> up.tree, dirs |-> up.dirs, nonDirs |-> up.nonDirs,
               skipped |-> up.skipped, failed |-> up.failed]
      /\ up.tree = WithDirs(acc.tree, new)
      /\ up.dirs = acc.dirs \cup Ancestors(p)
      /\ up.nonDirs = acc.nonDirs /\ up.skipped = acc.skipped /\ up.failed = acc.failed
  <2>1. acc = [tree |-> acc.tree, dirs |-> acc.dirs, nonDirs |-> acc.nonDirs,
               skipped |-> acc.skipped, failed |-> acc.failed]
    BY DEF LayerOK
  <2>2. QED
    BY <2>1 DEF PutDirs
<1>2. p \in Seq(STRING) /\ \A a \in Ancestors(p) : a \in Seq(STRING) /\ a # <<>>
                               /\ Ancestors(a) \subseteq Ancestors(p)
  <2>1. p \in Seq(STRING)
    BY DEF InOrder
  <2>2. QED
    BY <2>1, AncestorsAre
<1>3. acc.dirs \subseteq DOMAIN acc.tree /\ \A q \in acc.dirs : acc.tree[q] = Dir
  BY DEF LayerOK
<1>4. /\ DOMAIN up.tree = DOMAIN acc.tree \cup Ancestors(p)
      /\ \A q \in new : up.tree[q] = Dir
      /\ \A q \in DOMAIN acc.tree \ new : up.tree[q] = acc.tree[q]
  BY <1>1, <1>3 DEF WithDirs
<1>5. \A a \in Ancestors(p) : a \in DOMAIN up.tree /\ up.tree[a] = Dir
  BY <1>3, <1>4
<1>6. \A q \in acc.dirs \cup acc.nonDirs : q \in DOMAIN acc.tree /\ up.tree[q] = acc.tree[q]
  BY <1>3, <1>4 DEF LayerOK
<1>7. Closed(up.tree)
  <2>1. Closed(acc.tree)
    BY DEF LayerOK
  <2>2. <<>> \in DOMAIN up.tree /\ up.tree[<<>>] = Dir
    BY <2>1, <1>2, <1>4 DEF Closed
  <2>3. \A q \in DOMAIN up.tree : q \in Seq(STRING)
    BY <2>1, <1>2, <1>4 DEF Closed
  <2>4. ASSUME NEW q \in DOMAIN up.tree, NEW a \in Ancestors(q)
        PROVE  a \in DOMAIN up.tree /\ up.tree[a].kind = "dir"
    <3>1. CASE q \in Ancestors(p)
      BY <3>1, <1>2, <1>5 DEF Dir
    <3>2. CASE q \in DOMAIN acc.tree
      <4>1. a \in DOMAIN acc.tree /\ acc.tree[a].kind = "dir"
        BY <3>2, <2>1 DEF Closed
      <4>2. QED
        BY <4>1, <1>4, <1>5 DEF Dir
    <3>3. QED
      BY <3>1, <3>2, <1>4
  <2>5. QED
    BY <2>2, <2>3, <2>4 DEF Closed
<1>8. LayerOK(up, n + 1)
  <2>1. ASSUME NEW q \in DOMAIN up.tree \ {<<>>}
        PROVE  \E j \in 1..(n + 1) : q = Order[j] \/ q \in Ancestors(Order[j])
    <3>1. CASE q \in Ancestors(p)
      BY <3>1
    <3>2. CASE q \in DOMAIN acc.tree \ {<<>>}
      <4>1. PICK j \in 1..n : q = Order[j] \/ q \in Ancestors(Order[j])
        BY <3>2 DEF LayerOK
      <4>2. QED
        BY <4>1
    <3>3. QED
      BY <3>1, <3>2, <1>4
  <2>2. \A q \in up.dirs : q \in DOMAIN up.tree /\ up.tree[q] = Dir
    BY <1>1, <1>3, <1>4, <1>5, <1>6
  <2>3. \A q \in up.nonDirs : q \in DOMAIN up.tree /\ up.tree[q].kind # "dir"
    BY <1>1, <1>4, <1>6 DEF LayerOK
  <2>4. up.skipped \in 0..(n + 1) /\ up.failed \in BOOLEAN
    BY <1>1 DEF LayerOK
  <2>5. QED
    BY <1>1, <1>7, <2>1, <2>2, <2>3, <2>4 DEF LayerOK
<1>9. QED
  BY <1>1, <1>4, <1>5, <1>6, <1>8

\* The directories on the way do not make the next entry any less new.
Ready(up, p) ==
    /\ p \in Seq(STRING)
    /\ \A a \in Ancestors(p) : a \in DOMAIN up.tree /\ up.tree[a] = Dir
    /\ p # <<>> => p \notin DOMAIN up.tree /\ \A q \in DOMAIN up.tree : p \notin Ancestors(q)

LEMMA UpIsReady ==
    ASSUME InOrder, NEW acc, NEW n \in Nat, n + 1 \in 1..Len(Order), LayerOK(acc, n),
           Ancestors(Order[n + 1]) \cap acc.nonDirs = {}
    PROVE  Ready(PutDirs(acc, Ancestors(Order[n + 1])), Order[n + 1])
<1> DEFINE p == Order[n + 1]
           up == PutDirs(acc, Ancestors(p))
<1>1. p \in Seq(STRING)
  BY DEF InOrder
<1> HIDE DEF up
<1>2. /\ \A a \in Ancestors(p) : a \in DOMAIN up.tree /\ up.tree[a] = Dir
      /\ DOMAIN up.tree = DOMAIN acc.tree \cup Ancestors(p)
  <2>1. up = PutDirs(acc, Ancestors(p))
    BY DEF up
  <2>2. QED
    BY <2>1, UpIsWritten
<1>3. p \notin Ancestors(p)
  BY <1>1, AncestorsAre DEF IsStrictPrefix
<1>4. ASSUME p # <<>>
      PROVE  p \notin DOMAIN up.tree /\ \A q \in DOMAIN up.tree : p \notin Ancestors(q)
  <2>1. p \notin DOMAIN acc.tree /\ \A q \in DOMAIN acc.tree : p \notin Ancestors(q)
    BY <1>4, NextIsNew
  <2>2. \A q \in Ancestors(p) : p \notin Ancestors(q)
    BY <1>1, <1>3, AncestorsAre
  <2>3. QED
    BY <1>2, <1>3, <2>1, <2>2
<1>5. QED
  BY <1>1, <1>2, <1>4 DEF Ready, up

\* A directory at the path itself.
LEMMA DirPlaced ==
    ASSUME InOrder, NEW up, NEW n \in Nat, n \in 1..Len(Order), LayerOK(up, n),
           Ready(up, Order[n]), NEW new, new = PutDirs(up, {Order[n]})
    PROVE  /\ LayerOK(new, n)
           /\ DOMAIN new.tree = DOMAIN up.tree \cup {Order[n]}
           /\ \A q \in DOMAIN up.tree : new.tree[q] = up.tree[q]
           /\ new.tree[Order[n]] = Dir
           /\ new.dirs = up.dirs \cup {Order[n]} /\ new.nonDirs = up.nonDirs
           /\ new.skipped = up.skipped /\ new.failed = up.failed
<1> DEFINE p == Order[n]
<1>1. /\ new = [tree |-> new.tree, dirs |-> new.dirs, nonDirs |-> new.nonDirs,
                skipped |-> new.skipped, failed |-> new.failed]
      /\ new.tree = WithDirs(up.tree, {p} \ up.dirs)
      /\ new.dirs = up.dirs \cup {p}
      /\ new.nonDirs = up.nonDirs /\ new.skipped = up.skipped /\ new.failed = up.failed
  <2>1. up = [tree |-> up.tree, dirs |-> up.dirs, nonDirs |-> up.nonDirs,
              skipped |-> up.skipped, failed |-> up.failed]
    BY DEF LayerOK
  <2>2. QED
    BY <2>1 DEF PutDirs
<1>2. p \in DOMAIN up.tree => p = <<>> /\ up.tree[p] = Dir
  BY DEF Ready, LayerOK, Closed
<1>3. p \in up.dirs => p \in DOMAIN up.tree /\ up.tree[p] = Dir
  BY DEF LayerOK
<1>4. /\ DOMAIN new.tree = DOMAIN up.tree \cup {p}
      /\ \A q \in DOMAIN up.tree : new.tree[q] = up.tree[q]
      /\ new.tree[p] = Dir
  BY <1>1, <1>2, <1>3, ZenonT(40) DEF WithDirs
<1>5. Closed(new.tree)
  <2>1. Closed(up.tree)
    BY DEF LayerOK
  <2>2. ASSUME NEW a \in Ancestors(p)
        PROVE  a \in DOMAIN new.tree /\ new.tree[a].kind = "dir"
    <3>1. a \in DOMAIN up.tree /\ up.tree[a] = Dir
      BY DEF Ready
    <3>2. a \in DOMAIN new.tree /\ new.tree[a] = Dir
      BY <1>4, <3>1
    <3>3. QED
      BY <3>2 DEF Dir
  <2>3. \A q \in DOMAIN up.tree : \A a \in Ancestors(q) :
            a \in DOMAIN new.tree /\ new.tree[a].kind = "dir"
    BY <2>1, <1>4 DEF Closed
  <2>4. p \in Seq(STRING)
    BY DEF Ready
  <2>5. QED
    BY <1>4, <2>1, <2>2, <2>3, <2>4 DEF Closed
<1>6. LayerOK(new, n)
  <2>1. ASSUME NEW q \in DOMAIN new.tree \ {<<>>}
        PROVE  \E j \in 1..n : q = Order[j] \/ q \in Ancestors(Order[j])
    <3>1. CASE q = p
      <4>1. n \in 1..n
        OBVIOUS
      <4>2. QED
        BY <3>1, <4>1
    <3>2. CASE q \in DOMAIN up.tree \ {<<>>}
      BY <3>2 DEF LayerOK
    <3>3. QED
      BY <3>1, <3>2, <1>4
  <2>2. \A q \in new.dirs : q \in DOMAIN new.tree /\ new.tree[q] = Dir
    BY <1>1, <1>4 DEF LayerOK
  <2>3. \A q \in new.nonDirs : q \in DOMAIN new.tree /\ new.tree[q].kind # "dir"
    BY <1>1, <1>4 DEF LayerOK
  <2>4. new.skipped \in 0..n /\ new.failed \in BOOLEAN
    BY <1>1 DEF LayerOK
  <2>5. QED
    BY <1>1, <1>5, <2>1, <2>2, <2>3, <2>4 DEF LayerOK
<1>7. QED
  BY <1>1, <1>4, <1>6

\* Something else at the path itself; a link to a directory is not held against
\* what comes below it.
LEMMA NodePlaced ==
    ASSUME InOrder, NEW up, NEW n \in Nat, n \in 1..Len(Order), LayerOK(up, n),
           Order[n] # <<>>, Ready(up, Order[n]), NEW node, node.kind # "dir", NEW new,
           \/ new = PutNonDir(up, Order[n], node)
           \/ new = [up EXCEPT !.tree = Put(@, Order[n], node)]
    PROVE  /\ LayerOK(new, n)
           /\ DOMAIN new.tree = DOMAIN up.tree \cup {Order[n]}
           /\ \A q \in DOMAIN up.tree : new.tree[q] = up.tree[q]
           /\ new.tree[Order[n]] = node
           /\ new.dirs = up.dirs /\ up.nonDirs \subseteq new.nonDirs
           /\ new = PutNonDir(up, Order[n], node) => Order[n] \in new.nonDirs
           /\ new.skipped = up.skipped /\ new.failed = up.failed
<1> DEFINE p == Order[n]
<1>1. /\ new = [tree |-> new.tree, dirs |-> new.dirs, nonDirs |-> new.nonDirs,
                skipped |-> new.skipped, failed |-> new.failed]
      /\ new.tree = Put(up.tree, p, node)
      /\ new.dirs = up.dirs
      /\ up.nonDirs \subseteq new.nonDirs /\ new.nonDirs \subseteq up.nonDirs \cup {p}
      /\ new.skipped = up.skipped /\ new.failed = up.failed
      /\ new = PutNonDir(up, Order[n], node) => p \in new.nonDirs
  <2>1. up = [tree |-> up.tree, dirs |-> up.dirs, nonDirs |-> up.nonDirs,
              skipped |-> up.skipped, failed |-> up.failed]
    BY DEF LayerOK
  <2>2. QED
    BY <2>1 DEF PutNonDir
<1>2. p \notin DOMAIN up.tree /\ p \in Seq(STRING) /\ \A q \in DOMAIN up.tree : p \notin Ancestors(q)
  BY DEF Ready
<1>3. Below(up.tree, p) = {}
  <2>1. \A q \in DOMAIN up.tree : q \in Seq(STRING)
    BY DEF LayerOK, Closed
  <2>2. QED
    BY <1>2, <2>1, PrefixIsAncestor DEF Below
<1>4. /\ DOMAIN new.tree = DOMAIN up.tree \cup {p}
      /\ \A q \in DOMAIN up.tree : new.tree[q] = up.tree[q]
      /\ new.tree[p] = node
  BY <1>1, <1>2, <1>3 DEF Put, Has
<1>5. Closed(new.tree)
  <2>1. Closed(up.tree)
    BY DEF LayerOK
  <2>2. \A a \in Ancestors(p) : a \in DOMAIN new.tree /\ new.tree[a].kind = "dir"
    BY <1>4 DEF Ready, Dir
  <2>3. \A q \in DOMAIN up.tree : \A a \in Ancestors(q) :
            a \in DOMAIN new.tree /\ new.tree[a].kind = "dir"
    BY <2>1, <1>4 DEF Closed
  <2>4. QED
    BY <1>2, <1>4, <2>1, <2>2, <2>3 DEF Closed
<1>6. LayerOK(new, n)
  <2>1. \A q \in DOMAIN new.tree \ {<<>>} : \E j \in 1..n : q = Order[j] \/ q \in Ancestors(Order[j])
    BY <1>4 DEF LayerOK
  <2>2. \A q \in new.dirs : q \in DOMAIN new.tree /\ new.tree[q] = Dir
    BY <1>1, <1>4 DEF LayerOK
  <2>3. \A q \in new.nonDirs : q \in DOMAIN new.tree /\ new.tree[q].kind # "dir"
    BY <1>1, <1>4 DEF LayerOK
  <2>4. new.skipped \in 0..n /\ new.failed \in BOOLEAN
    BY <1>1 DEF LayerOK
  <2>5. QED
    BY <1>1, <1>5, <2>1, <2>2, <2>3, <2>4 DEF LayerOK
<1>7. QED
  BY <1>1, <1>4, <1>6

\* What is in the layer stays there, and what was written as itself stays as it is.
LayerGrows(acc, new) ==
    /\ DOMAIN acc.tree \subseteq DOMAIN new.tree
    /\ \A q \in acc.dirs \cup acc.nonDirs : new.tree[q] = acc.tree[q]
    /\ acc.dirs \subseteq new.dirs /\ acc.nonDirs \subseteq new.nonDirs
    /\ acc.failed => new.failed

\* What the layer has of an entry that was neither skipped nor a failure.
EntryThere(fs, acc, p) ==
    /\ Ancestors(p) \subseteq DOMAIN acc.tree
    /\ InRoot(tree, p) # NoPath => p \in DOMAIN acc.tree
    /\ InRoot(tree, p) = NoPath /\ fs[p] = "ensure-dir" => p \in acc.dirs
    /\ InRoot(tree, p) = NoPath /\ fs[p] = "ensure-file" =>
           p \in acc.nonDirs /\ p \in DOMAIN acc.tree /\ acc.tree[p] = File("empty")

LEMMA InRootIsThere ==
    ASSUME IsTree(tree), NEW p, InRoot(tree, p) # NoPath
    PROVE  /\ InRoot(tree, p) \in DOMAIN tree
           /\ tree[InRoot(tree, p)].kind \in {"dir", "file", "link"}
           /\ p = <<>> => tree[InRoot(tree, p)].kind = "dir"
<1>1. InRoot(tree, p) \in DOMAIN tree /\ (p = <<>> => InRoot(tree, p) = <<>>)
  BY DEF InRoot, EntryAt, Has, IsTree
<1>2. tree[<<>>].kind = "dir"
  BY Root
<1>3. QED
  BY <1>1, <1>2, NodeKinds

LEMMA EntryWritten ==
    ASSUME InOrder, IsTree(tree), NEW fs, NEW acc, NEW n \in Nat, n + 1 \in 1..Len(Order),
           LayerOK(acc, n), NEW new, new = WriteEntry(fs, acc, Order[n + 1])
    PROVE  /\ LayerOK(new, n + 1)
           /\ LayerGrows(acc, new)
           /\ ~new.failed /\ ~Blocked(acc, Order[n + 1]) => EntryThere(fs, new, Order[n + 1])
           /\ ~new.failed /\ fs[Order[n + 1]] \in {"ensure-dir", "ensure-file"} =>
                  ~Blocked(acc, Order[n + 1])
<1> DEFINE p == Order[n + 1]
           up == PutDirs(acc, Ancestors(p))
           q  == InRoot(tree, p)
<1>1. acc = [tree |-> acc.tree, dirs |-> acc.dirs, nonDirs |-> acc.nonDirs,
             skipped |-> acc.skipped, failed |-> acc.failed]
      /\ acc.failed \in BOOLEAN /\ acc.skipped \in 0..n
  BY DEF LayerOK
<1>2. CASE acc.failed
  <2>1. new = acc
    BY <1>2 DEF WriteEntry
  <2>2. LayerOK(acc, n + 1)
    BY DEF LayerOK
  <2>3. QED
    BY <1>2, <2>1, <2>2 DEF LayerGrows
<1>3. CASE ~acc.failed /\ Blocked(acc, p)
  <2>1. CASE fs[p] \in {"ensure-dir", "ensure-file"}
    <3>1. new = [acc EXCEPT !.failed = TRUE]
      BY <1>3, <2>1 DEF WriteEntry
    <3>2. /\ new = [tree |-> new.tree, dirs |-> new.dirs, nonDirs |-> new.nonDirs,
                    skipped |-> new.skipped, failed |-> new.failed]
          /\ new.tree = acc.tree /\ new.dirs = acc.dirs /\ new.nonDirs = acc.nonDirs
          /\ new.skipped = acc.skipped /\ new.failed = TRUE
      BY <1>1, <3>1
    <3>3. LayerOK(new, n + 1)
      <4>1. new.skipped \in 0..(n + 1)
        BY <1>1, <3>2
      <4>2. \A r \in DOMAIN new.tree \ {<<>>} :
                \E j \in 1..(n + 1) : r = Order[j] \/ r \in Ancestors(Order[j])
        BY <3>2 DEF LayerOK
      <4>3. QED
        BY <3>2, <4>1, <4>2 DEF LayerOK
    <3>4. QED
      BY <3>2, <3>3 DEF LayerGrows
  <2>2. CASE fs[p] \notin {"ensure-dir", "ensure-file"}
    <3>1. new = [acc EXCEPT !.skipped = @ + 1]
      BY <1>3, <2>2 DEF WriteEntry
    <3>2. /\ new = [tree |-> new.tree, dirs |-> new.dirs, nonDirs |-> new.nonDirs,
                    skipped |-> new.skipped, failed |-> new.failed]
          /\ new.tree = acc.tree /\ new.dirs = acc.dirs /\ new.nonDirs = acc.nonDirs
          /\ new.skipped = acc.skipped + 1 /\ new.failed = acc.failed
      BY <1>1, <3>1
    <3>3. LayerOK(new, n + 1)
      <4>1. new.skipped \in 0..(n + 1)
        BY <1>1, <3>2
      <4>2. QED
        BY <3>2, <4>1 DEF LayerOK
    <3>4. QED
      BY <1>3, <2>2, <3>2, <3>3 DEF LayerGrows
  <2>3. QED
    BY <2>1, <2>2
<1>4. CASE ~acc.failed /\ ~Blocked(acc, p)
  <2>1. Ancestors(p) \cap acc.nonDirs = {}
    BY <1>4 DEF Blocked
  <2> HIDE DEF up
  <2>2. up = PutDirs(acc, Ancestors(p))
    BY DEF up
  <2>3. /\ LayerOK(up, n + 1)
        /\ DOMAIN up.tree = DOMAIN acc.tree \cup Ancestors(p)
        /\ \A r \in acc.dirs \cup acc.nonDirs : up.tree[r] = acc.tree[r]
        /\ acc.dirs \subseteq up.dirs /\ up.nonDirs = acc.nonDirs
        /\ up.failed = acc.failed
    BY <2>1, <2>2, UpIsWritten
  <2>4. Ready(up, p)
    BY <2>1, <2>2, UpIsReady
  <2>5. acc.dirs \cup acc.nonDirs \subseteq DOMAIN acc.tree
    BY DEF LayerOK
  <2>6. new = Place(fs, up, p)
    BY <1>4, <2>2 DEF WriteEntry
  <2>7. CASE new = PutDirs(up, {p}) /\ (q # NoPath \/ fs[p] = "ensure-dir")
    <3>1. /\ LayerOK(new, n + 1)
          /\ DOMAIN new.tree = DOMAIN up.tree \cup {p}
          /\ \A r \in DOMAIN up.tree : new.tree[r] = up.tree[r]
          /\ new.dirs = up.dirs \cup {p} /\ new.nonDirs = up.nonDirs
          /\ new.failed = up.failed
      BY <2>3, <2>4, <2>7, DirPlaced
    <3>2. LayerGrows(acc, new)
      BY <2>3, <2>5, <3>1 DEF LayerGrows
    <3>3. EntryThere(fs, new, p)
      BY <2>3, <2>7, <3>1 DEF EntryThere
    <3>4. QED
      BY <1>4, <3>1, <3>2, <3>3
  <2>8. ASSUME NEW node, node.kind # "dir", p # <<>>,
               \/ new = PutNonDir(up, p, node)
               \/ q # NoPath /\ new = [up EXCEPT !.tree = Put(@, p, node)],
               q # NoPath \/ (fs[p] = "ensure-file" /\ node = File("empty"))
        PROVE  /\ LayerOK(new, n + 1)
               /\ LayerGrows(acc, new)
               /\ EntryThere(fs, new, p)
    <3>1. /\ LayerOK(new, n + 1)
          /\ DOMAIN new.tree = DOMAIN up.tree \cup {p}
          /\ \A r \in DOMAIN up.tree : new.tree[r] = up.tree[r]
          /\ new.tree[p] = node
          /\ new.dirs = up.dirs /\ up.nonDirs \subseteq new.nonDirs
          /\ new = PutNonDir(up, p, node) => p \in new.nonDirs
          /\ new.failed = up.failed
      BY <2>3, <2>4, <2>8, NodePlaced
    <3>2. LayerGrows(acc, new)
      BY <2>3, <2>5, <3>1 DEF LayerGrows
    <3>3. EntryThere(fs, new, p)
      BY <2>3, <2>8, <3>1 DEF EntryThere
    <3>4. QED
      BY <3>1, <3>2, <3>3
  <2>9. CASE q = NoPath /\ fs[p] \notin {"ensure-dir", "ensure-file"}
    <3>1. new = up
      BY <2>6, <2>9 DEF Place
    <3>2. LayerGrows(acc, new)
      BY <2>3, <3>1 DEF LayerGrows
    <3>3. EntryThere(fs, new, p)
      BY <2>3, <2>9, <3>1 DEF EntryThere
    <3>4. QED
      BY <1>4, <2>3, <3>1, <3>2, <3>3
  <2>10. CASE q = NoPath /\ fs[p] = "ensure-dir"
    BY <2>6, <2>7, <2>10 DEF Place
  <2>11. CASE q = NoPath /\ fs[p] = "ensure-file"
    <3>1. new = PutNonDir(up, p, File("empty"))
      BY <2>6, <2>11 DEF Place
    <3>2. File("empty").kind # "dir"
      BY DEF File
    <3>3. p # <<>>
      <4>1. InRoot(tree, <<>>) = <<>>
        BY DEF InRoot, EntryAt
      <4>2. NoPath # <<>>
        BY DEF NoPath
      <4>3. QED
        BY <2>11, <4>1, <4>2
    <3>4. QED
      BY <1>4, <2>8, <2>11, <3>1, <3>2, <3>3
  <2>12. CASE q # NoPath /\ tree[q].kind = "dir"
    BY <2>6, <2>7, <2>12 DEF Place
  <2>13. CASE q # NoPath /\ tree[q].kind \in {"file", "link"}
    <3>1. p # <<>> /\ tree[q].kind # "dir"
      BY <2>13, InRootIsThere
    <3>2. \/ new = PutNonDir(up, p, tree[q])
          \/ new = [up EXCEPT !.tree = Put(@, p, tree[q])]
      BY <2>6, <2>13 DEF Place
    <3>3. QED
      BY <1>4, <2>8, <2>13, <3>1, <3>2
  <2>14. QED
    BY <2>9, <2>10, <2>11, <2>12, <2>13, InRootIsThere
<1>5. QED
  BY <1>1, <1>2, <1>3, <1>4

\* What is blocked stays blocked, and what has been written is not lost.
LEMMA GrownKeeps ==
    ASSUME NEW acc, NEW new, LayerGrows(acc, new), NEW n \in Nat, LayerOK(acc, n), NEW fs, NEW p
    PROVE  /\ Blocked(acc, p) => Blocked(new, p)
           /\ EntryThere(fs, acc, p) => EntryThere(fs, new, p)
<1>1. Blocked(acc, p) => Blocked(new, p)
  BY DEF LayerGrows, Blocked
<1>2. ASSUME EntryThere(fs, acc, p) PROVE EntryThere(fs, new, p)
  <2>1. DOMAIN acc.tree \subseteq DOMAIN new.tree /\ acc.dirs \subseteq new.dirs
        /\ acc.nonDirs \subseteq new.nonDirs
        /\ \A q \in acc.nonDirs : new.tree[q] = acc.tree[q]
    BY DEF LayerGrows
  <2>2. QED
    BY <1>2, <2>1 DEF EntryThere
<1>3. QED
  BY <1>1, <1>2

-----------------------------------------------------------------------------
(***************************************************************************)
(* What the layer has in the place of what the image has.                  *)
(***************************************************************************)

Agrees(node, p) ==
    LET q == InRoot(tree, p)
    IN q # NoPath => node = tree[q] \/ (node.kind = "dir" /\ AncestorIsDir(tree, p) = "dir")

AllAgree(t) == \A p \in DOMAIN t : Agrees(t[p], p)

\* Above a path that no non-directory of the image blocks, everything the image
\* has is a directory.
LEMMA DirsAbove ==
    ASSUME InOrder, IsTree(tree), NEW i \in 1..Len(Order), NonDirAncestor(tree, Order[i]) = NoPath,
           NEW a \in Ancestors(Order[i]), InRoot(tree, a) # NoPath
    PROVE  AncestorIsDir(tree, a) = "dir"
<1> DEFINE p == Order[i]
           Bad == {j \in 1..(Len(p) - 1) : AncestorIsDir(tree, SubSeq(p, 1, j)) # "dir"}
           first == CHOOSE j \in Bad : \A k \in Bad : j =< k
           b == SubSeq(p, 1, first)
<1>1. p \in Seq(STRING) /\ Len(p) \in Nat /\ Cleaned(p)
  BY DEF InOrder
<1>2. PICK k \in 1..(Len(p) - 1) : a = SubSeq(p, 1, k)
  BY DEF Ancestors
<1>3. SUFFICES ASSUME k \in Bad PROVE FALSE
  BY <1>2
<1>4. first \in Bad /\ first <= k
  <2>1. Bad \in SUBSET Nat /\ Bad # {}
    BY <1>1, <1>3
  <2>2. \E x \in Bad : \A y \in Bad : x <= y
    BY <2>1, Least
  <2> HIDE DEF Bad
  <2>3. QED
    BY <1>3, <2>2
<1>5. NonDirAncestor(tree, p) =
        IF Bad = {} \/ AncestorIsDir(tree, b) = "absent" THEN NoPath ELSE b
  BY DEF NonDirAncestor
<1> HIDE DEF first
<1>6. first \in 1..(Len(p) - 1) /\ b \in Ancestors(p)
  BY <1>4 DEF Ancestors
<1>7. b # NoPath /\ b \in Seq(STRING) /\ Last(b) # ".."
  BY <1>1, <1>6, AncestorsAre, NoDotDot
<1>8. AncestorIsDir(tree, b) = "absent" /\ AncestorIsDir(tree, a) # "dir"
  BY <1>2, <1>3, <1>4, <1>5, <1>7
<1>9. InRoot(tree, b) = NoPath
  BY <1>8 DEF AncestorIsDir
<1>10. a # b
  BY <1>9
<1>11. b \in Ancestors(a)
  <2>1. first # k /\ first < k /\ k \in Nat /\ first \in Nat
    BY <1>1, <1>2, <1>4, <1>6, <1>10
  <2>2. a \in Seq(STRING) /\ Len(a) = k /\ \A n \in 1..k : a[n] = p[n]
    BY <1>1, <1>2
  <2>3. SubSeq(a, 1, first) \in Seq(STRING) /\ Len(SubSeq(a, 1, first)) = first
        /\ \A n \in 1..first : SubSeq(a, 1, first)[n] = p[n]
    BY <2>1, <2>2
  <2>4. b \in Seq(STRING) /\ Len(b) = first /\ \A n \in 1..first : b[n] = p[n]
    BY <1>1, <1>6
  <2>5. SubSeq(a, 1, first) = b
    BY <2>1, <2>3, <2>4, SeqEqual
  <2>6. first \in 1..(Len(a) - 1)
    BY <1>6, <2>1, <2>2
  <2>7. QED
    BY <2>5, <2>6 DEF Ancestors
<1>12. InRoot(tree, a) = NoPath
  BY <1>1, <1>7, <1>9, <1>11, BelowAbsent, AncestorsAre
<1>13. QED
  BY <1>12

\* A node is put where the image has it, or where the image has nothing.
LEMMA AgreeStep ==
    ASSUME InOrder, IsTree(tree), NEW fs, NEW acc, NEW n \in Nat, n + 1 \in 1..Len(Order),
           LayerOK(acc, n), AllAgree(acc.tree), NEW new, new = WriteEntry(fs, acc, Order[n + 1])
    PROVE  AllAgree(new.tree)
<1> DEFINE p == Order[n + 1]
           up == PutDirs(acc, Ancestors(p))
           q  == InRoot(tree, p)
<1>1. acc = [tree |-> acc.tree, dirs |-> acc.dirs, nonDirs |-> acc.nonDirs,
             skipped |-> acc.skipped, failed |-> acc.failed]
  BY DEF LayerOK
<1>2. CASE acc.failed \/ Blocked(acc, p)
  <2>1. new = acc \/ new = [acc EXCEPT !.failed = TRUE] \/ new = [acc EXCEPT !.skipped = @ + 1]
    BY <1>2 DEF WriteEntry
  <2>2. new.tree = acc.tree
    BY <1>1, <2>1
  <2>3. QED
    BY <2>2
<1>3. CASE ~acc.failed /\ ~Blocked(acc, p)
  <2>1. Ancestors(p) \cap acc.nonDirs = {} /\ NonDirAncestor(tree, p) = NoPath
    BY <1>3 DEF Blocked
  <2> HIDE DEF up
  <2>2. up = PutDirs(acc, Ancestors(p))
    BY DEF up
  <2>3. /\ LayerOK(up, n + 1)
        /\ \A a \in Ancestors(p) : a \in DOMAIN up.tree /\ up.tree[a] = Dir
        /\ DOMAIN up.tree = DOMAIN acc.tree \cup Ancestors(p)
        /\ \A r \in DOMAIN acc.tree \ Ancestors(p) : up.tree[r] = acc.tree[r]
    BY <2>1, <2>2, UpIsWritten
  <2>4. Ready(up, p)
    BY <2>1, <2>2, UpIsReady
  <2>5. AllAgree(up.tree)
    <3>1. ASSUME NEW a \in Ancestors(p) PROVE Agrees(up.tree[a], a)
      <4>1. InRoot(tree, a) # NoPath => AncestorIsDir(tree, a) = "dir"
        BY <2>1, DirsAbove
      <4>2. up.tree[a].kind = "dir"
        BY <2>3 DEF Dir
      <4>3. QED
        BY <4>1, <4>2 DEF Agrees
    <3>2. QED
      BY <2>3, <3>1 DEF AllAgree
  <2>6. ASSUME NEW node, Agrees(node, p), DOMAIN new.tree = DOMAIN up.tree \cup {p},
               \A r \in DOMAIN up.tree : r = p \/ new.tree[r] = up.tree[r], new.tree[p] = node
        PROVE  AllAgree(new.tree)
    BY <2>5, <2>6 DEF AllAgree
  <2>7. new = Place(fs, up, p)
    BY <1>3, <2>2 DEF WriteEntry
  <2>8. CASE new = PutDirs(up, {p}) /\ (q # NoPath => tree[q] = Dir)
    <3>1. /\ DOMAIN new.tree = DOMAIN up.tree \cup {p}
          /\ \A r \in DOMAIN up.tree : new.tree[r] = up.tree[r]
          /\ new.tree[p] = Dir
      <4>1. new = PutDirs(up, {p}) /\ LayerOK(up, n + 1) /\ n + 1 \in Nat
        BY <2>3, <2>8
      <4>2. PICK i \in Nat : i = n + 1
        OBVIOUS
      <4>3. i \in 1..Len(Order) /\ p = Order[i] /\ LayerOK(up, i) /\ Ready(up, Order[i])
            /\ new = PutDirs(up, {Order[i]})
        BY <2>4, <4>1, <4>2
      <4>4. /\ DOMAIN new.tree = DOMAIN up.tree \cup {Order[i]}
            /\ \A r \in DOMAIN up.tree : new.tree[r] = up.tree[r]
            /\ new.tree[Order[i]] = Dir
        BY <4>3, DirPlaced
      <4>5. QED
        BY <4>3, <4>4
    <3>2. Agrees(Dir, p)
      BY <2>8 DEF Agrees
    <3>3. QED
      BY <2>6, <3>1, <3>2
  <2>9. ASSUME NEW node, node.kind # "dir", p # <<>>, q # NoPath => node = tree[q],
               \/ new = PutNonDir(up, p, node)
               \/ new = [up EXCEPT !.tree = Put(@, p, node)]
        PROVE  AllAgree(new.tree)
    <3>1. /\ DOMAIN new.tree = DOMAIN up.tree \cup {p}
          /\ \A r \in DOMAIN up.tree : new.tree[r] = up.tree[r]
          /\ new.tree[p] = node
      BY <2>3, <2>4, <2>9, NodePlaced
    <3>2. Agrees(node, p)
      BY <2>9 DEF Agrees
    <3>3. QED
      BY <2>6, <3>1, <3>2
  <2>10. CASE q = NoPath /\ fs[p] \notin {"ensure-dir", "ensure-file"}
    <3>1. new = up
      BY <2>7, <2>10 DEF Place
    <3>2. QED
      BY <2>5, <3>1
  <2>11. CASE q = NoPath /\ fs[p] = "ensure-dir"
    BY <2>7, <2>8, <2>11 DEF Place
  <2>12. CASE q = NoPath /\ fs[p] = "ensure-file"
    <3>1. new = PutNonDir(up, p, File("empty"))
      BY <2>7, <2>12 DEF Place
    <3>2. File("empty").kind # "dir"
      BY DEF File
    <3>3. p # <<>>
      <4>1. InRoot(tree, <<>>) = <<>>
        BY DEF InRoot, EntryAt
      <4>2. NoPath # <<>>
        BY DEF NoPath
      <4>3. QED
        BY <2>12, <4>1, <4>2
    <3>4. QED
      BY <2>9, <2>12, <3>1, <3>2, <3>3
  <2>13. CASE q # NoPath /\ tree[q].kind = "dir"
    <3>1. tree[q] = Dir
      <4>1. q \in DOMAIN tree /\ IsNode(tree[q])
        BY <2>13, InRootIsThere DEF IsTree
      <4>2. QED
        BY <2>13, <4>1 DEF IsNode
    <3>2. QED
      BY <2>7, <2>8, <2>13, <3>1 DEF Place
  <2>14. CASE q # NoPath /\ tree[q].kind \in {"file", "link"}
    <3>1. p # <<>> /\ tree[q].kind # "dir"
      BY <2>14, InRootIsThere
    <3>2. \/ new = PutNonDir(up, p, tree[q])
          \/ new = [up EXCEPT !.tree = Put(@, p, tree[q])]
      BY <2>7, <2>14 DEF Place
    <3>3. QED
      BY <2>9, <2>14, <3>1, <3>2
  <2>15. QED
    BY <2>10, <2>11, <2>12, <2>13, <2>14, InRootIsThere
<1>4. QED
  BY <1>2, <1>3

-----------------------------------------------------------------------------
(* What is counted as skipped.                                             *)

HiddenIn(fs) ==
    {p \in DOMAIN fs : \E a \in Ancestors(p) :
        \/ AncestorIsDir(tree, a) = "blocked"
        \/ InRoot(tree, a) = NoPath /\ a \in DOMAIN fs /\ fs[a] = "ensure-file"}

Blocks(fs, a) ==
    \/ AncestorIsDir(tree, a) = "blocked"
    \/ InRoot(tree, a) = NoPath /\ a \in DOMAIN fs /\ fs[a] = "ensure-file"

\* What is written as a non-directory is one, in the image or as asked for.
LEMMA PlaceCounts ==
    ASSUME IsTree(tree), NEW fs, NEW up, NEW n \in Nat, LayerOK(up, n),
           NEW p \in Seq(STRING), Cleaned(p), p \in DOMAIN fs, NEW new, new = Place(fs, up, p)
    PROVE  /\ new.skipped = up.skipped /\ new.failed = up.failed
           /\ \A a \in new.nonDirs : a \in up.nonDirs \/ (a = p /\ Blocks(fs, a))
<1> DEFINE q == InRoot(tree, p)
<1>1. up = [tree |-> up.tree, dirs |-> up.dirs, nonDirs |-> up.nonDirs,
            skipped |-> up.skipped, failed |-> up.failed]
  BY DEF LayerOK
<1>2. CASE new = PutDirs(up, {p}) \/ new = up
  BY <1>1, <1>2 DEF PutDirs
<1>3. ASSUME NEW node, new = PutNonDir(up, p, node), Blocks(fs, p)
      PROVE  /\ new.skipped = up.skipped /\ new.failed = up.failed
             /\ \A a \in new.nonDirs : a \in up.nonDirs \/ (a = p /\ Blocks(fs, a))
  <2>1. new.skipped = up.skipped /\ new.failed = up.failed /\ new.nonDirs = up.nonDirs \cup {p}
    BY <1>1, <1>3 DEF PutNonDir
  <2>2. QED
    BY <1>3, <2>1
<1>4. CASE new = [up EXCEPT !.tree = Put(@, p, tree[q])]
  BY <1>1, <1>4
<1>5. CASE q = NoPath
  <2>1. \/ new = PutDirs(up, {p}) \/ new = up
        \/ fs[p] = "ensure-file" /\ new = PutNonDir(up, p, File("empty"))
    BY <1>5 DEF Place
  <2>2. fs[p] = "ensure-file" => Blocks(fs, p)
    BY <1>5 DEF Blocks
  <2>3. QED
    BY <1>2, <1>3, <2>1, <2>2
<1>6. CASE q # NoPath /\ tree[q].kind = "dir"
  BY <1>2, <1>6 DEF Place
<1>7. CASE q # NoPath /\ tree[q].kind = "file"
  <2>1. p # <<>>
    BY <1>7, InRootIsThere
  <2>2. Last(p) # ".."
    BY <2>1, NoDotDot
  <2>3. Resolve(tree, p) = q
    BY <1>7, <2>1, <2>2, NonLinkResolves
  <2>4. AncestorIsDir(tree, p) = "blocked"
    BY <1>7, <2>3 DEF AncestorIsDir
  <2>5. new = PutNonDir(up, p, tree[q])
    BY <1>7 DEF Place
  <2>6. QED
    BY <1>3, <2>4, <2>5 DEF Blocks
<1>8. CASE q # NoPath /\ tree[q].kind = "link"
  <2>1. AncestorIsDir(tree, p) # "dir" => AncestorIsDir(tree, p) = "blocked"
    BY <1>8 DEF AncestorIsDir
  <2>2. \/ new = [up EXCEPT !.tree = Put(@, p, tree[q])]
        \/ AncestorIsDir(tree, p) # "dir" /\ new = PutNonDir(up, p, tree[q])
    BY <1>8 DEF Place
  <2>3. QED
    BY <1>3, <1>4, <2>1, <2>2 DEF Blocks
<1>9. QED
  BY <1>5, <1>6, <1>7, <1>8, InRootIsThere

\* Among the first n entries, those that are hidden.
HiddenTo(fs, n) == {p \in HiddenIn(fs) : \E j \in 1..n : p = Order[j]}

CountOK(fs, acc, n) ==
    /\ IsFiniteSet(HiddenTo(fs, n)) /\ acc.skipped <= Cardinality(HiddenTo(fs, n))
    /\ ~acc.failed =>
        /\ acc.skipped = Cardinality(HiddenTo(fs, n))
        /\ \A a \in acc.nonDirs : Blocks(fs, a)
        /\ \A j \in 1..n :
              Order[j] \in DOMAIN fs /\ fs[Order[j]] = "ensure-file" /\ InRoot(tree, Order[j]) = NoPath
                => Order[j] \in acc.nonDirs

\* A path that a non-directory of the image holds back has it above itself.
LEMMA HeldBack ==
    ASSUME InOrder, NEW i \in 1..Len(Order), NonDirAncestor(tree, Order[i]) # NoPath
    PROVE  \E a \in Ancestors(Order[i]) : AncestorIsDir(tree, a) = "blocked"
<1> DEFINE p == Order[i]
           Bad == {j \in 1..(Len(p) - 1) : AncestorIsDir(tree, SubSeq(p, 1, j)) # "dir"}
           first == CHOOSE j \in Bad : \A k \in Bad : j =< k
           b == SubSeq(p, 1, first)
<1>1. NonDirAncestor(tree, p) =
        IF Bad = {} \/ AncestorIsDir(tree, b) = "absent" THEN NoPath ELSE b
  BY DEF NonDirAncestor
<1>2. Bad # {} /\ AncestorIsDir(tree, b) # "absent"
  BY <1>1
<1>3. p \in Seq(STRING) /\ Len(p) \in Nat
  BY DEF InOrder
<1>4. first \in Bad
  <2>1. Bad \in SUBSET Nat
    BY <1>3
  <2>2. \E x \in Bad : \A y \in Bad : x <= y
    BY <1>2, <2>1, Least
  <2> HIDE DEF Bad
  <2>3. QED
    BY <2>2
<1> HIDE DEF first
<1>5. b \in Ancestors(p) /\ AncestorIsDir(tree, b) # "dir"
  BY <1>4 DEF Ancestors
<1>6. AncestorIsDir(tree, b) = "blocked"
  BY <1>2, <1>5 DEF AncestorIsDir
<1>7. QED
  BY <1>5, <1>6

LEMMA BlockedIsHidden ==
    ASSUME InOrder, IsTree(tree), NEW fs, DOMAIN fs \subseteq Range(Order),
           NEW acc, NEW n \in Nat, n + 1 \in 1..Len(Order),
           CountOK(fs, acc, n), ~acc.failed, Order[n + 1] \in DOMAIN fs
    PROVE  Blocked(acc, Order[n + 1]) <=> Order[n + 1] \in HiddenIn(fs)
<1> DEFINE p == Order[n + 1]
<1>1. p \in Seq(STRING)
  BY DEF InOrder
<1>2. ASSUME Blocked(acc, p) PROVE p \in HiddenIn(fs)
  <2>1. CASE NonDirAncestor(tree, p) # NoPath
    BY <2>1, HeldBack DEF HiddenIn
  <2>2. CASE Ancestors(p) \cap acc.nonDirs # {}
    <3>1. PICK a \in Ancestors(p) : a \in acc.nonDirs
      BY <2>2
    <3>2. Blocks(fs, a)
      BY <3>1 DEF CountOK
    <3>3. QED
      BY <3>1, <3>2 DEF HiddenIn, Blocks
  <2>3. QED
    BY <1>2, <2>1, <2>2 DEF Blocked
<1>3. ASSUME p \in HiddenIn(fs), ~Blocked(acc, p) PROVE FALSE
  <2>1. NonDirAncestor(tree, p) = NoPath /\ Ancestors(p) \cap acc.nonDirs = {}
    BY <1>3 DEF Blocked
  <2>2. PICK a \in Ancestors(p) :
            \/ AncestorIsDir(tree, a) = "blocked"
            \/ InRoot(tree, a) = NoPath /\ a \in DOMAIN fs /\ fs[a] = "ensure-file"
    BY <1>3 DEF HiddenIn
  <2>3. CASE AncestorIsDir(tree, a) = "blocked"
    <3>1. InRoot(tree, a) # NoPath
      BY <2>3 DEF AncestorIsDir
    <3>2. QED
      BY <2>1, <2>3, <3>1, DirsAbove
  <2>4. CASE InRoot(tree, a) = NoPath /\ a \in DOMAIN fs /\ fs[a] = "ensure-file"
    <3>1. PICK j \in 1..Len(Order) : a = Order[j]
      <4>1. DOMAIN Order = 1..Len(Order)
        BY DEF InOrder
      <4>2. QED
        BY <2>4, <4>1 DEF Range
    <3>2. IsStrictPrefix(Order[j], Order[n + 1])
      BY <1>1, <3>1, AncestorsAre
    <3>3. j < n + 1
      BY <3>1, <3>2 DEF InOrder
    <3>4. j \in 1..n
      BY <3>3
    <3>5. a \in acc.nonDirs
      BY <2>4, <3>1, <3>4 DEF CountOK
    <3>6. QED
      BY <2>1, <3>5
  <2>5. QED
    BY <2>2, <2>3, <2>4
<1>4. QED
  BY <1>2, <1>3

Asked(fs, p) == p \in DOMAIN fs /\ fs[p] \in {"ensure-dir", "ensure-file"}

\* The layer after n entries has all of them, but for those that are skipped; if
\* it is not given up, it has those that were asked for.
EntriesThere(fs, acc, n) ==
    ~acc.failed =>
        \A j \in 1..n :
            Order[j] \in DOMAIN fs /\ (Asked(fs, Order[j]) \/ ~Blocked(acc, Order[j])) =>
                EntryThere(fs, acc, Order[j])

LEMMA EntryStep ==
    ASSUME InOrder, IsTree(tree), NEW fs, NEW acc, NEW n \in Nat, n + 1 \in 1..Len(Order),
           LayerOK(acc, n), EntriesThere(fs, acc, n), NEW new, new = Entry(fs, acc, n + 1)
    PROVE  LayerOK(new, n + 1) /\ EntriesThere(fs, new, n + 1)
<1>1. CASE Order[n + 1] \notin DOMAIN fs
  <2>1. new = acc
    BY <1>1 DEF Entry
  <2>2. LayerOK(acc, n + 1)
    BY DEF LayerOK
  <2>3. EntriesThere(fs, acc, n + 1)
    <3>1. \A j \in 1..(n + 1) : j \in 1..n \/ j = n + 1
      OBVIOUS
    <3>2. QED
      BY <1>1, <3>1 DEF EntriesThere
  <2>4. QED
    BY <2>1, <2>2, <2>3
<1>2. CASE Order[n + 1] \in DOMAIN fs
  <2>1. new = WriteEntry(fs, acc, Order[n + 1])
    BY <1>2 DEF Entry
  <2>2. /\ LayerOK(new, n + 1)
        /\ LayerGrows(acc, new)
        /\ ~new.failed /\ ~Blocked(acc, Order[n + 1]) => EntryThere(fs, new, Order[n + 1])
        /\ ~new.failed /\ fs[Order[n + 1]] \in {"ensure-dir", "ensure-file"} =>
               ~Blocked(acc, Order[n + 1])
    BY <2>1, EntryWritten
  <2>3. ASSUME ~new.failed, NEW j \in 1..(n + 1), Order[j] \in DOMAIN fs,
               Asked(fs, Order[j]) \/ ~Blocked(new, Order[j])
        PROVE  EntryThere(fs, new, Order[j])
    <3>1. CASE j = n + 1
      BY <2>2, <2>3, <3>1, GrownKeeps DEF Asked
    <3>2. CASE j \in 1..n
      <4>1. ~acc.failed
        BY <2>2, <2>3 DEF LayerGrows
      <4>2. Blocked(acc, Order[j]) => Blocked(new, Order[j])
        BY <2>2, GrownKeeps
      <4>3. EntryThere(fs, acc, Order[j])
        BY <2>3, <3>2, <4>1, <4>2 DEF EntriesThere
      <4>4. QED
        BY <2>2, <4>3, GrownKeeps
    <3>3. QED
      BY <3>1, <3>2
  <2>4. QED
    BY <2>2, <2>3 DEF EntriesThere
<1>3. QED
  BY <1>1, <1>2

\* Each entry that is skipped is counted, and nothing else.
LEMMA CountStep ==
    ASSUME InOrder, IsTree(tree), NEW fs, DOMAIN fs \subseteq Range(Order),
           NEW acc, NEW n \in Nat, n + 1 \in 1..Len(Order),
           LayerOK(acc, n), CountOK(fs, acc, n), NEW new, new = Entry(fs, acc, n + 1)
    PROVE  CountOK(fs, new, n + 1)
<1> DEFINE p == Order[n + 1]
<1>1. \A j \in 1..(n + 1) : j \in 1..n \/ j = n + 1
  OBVIOUS
<1>2. HiddenTo(fs, n + 1) = HiddenTo(fs, n) \cup (IF p \in HiddenIn(fs) THEN {p} ELSE {})
  <2>1. \A j \in 1..n : j \in 1..(n + 1)
    OBVIOUS
  <2>2. n + 1 \in 1..(n + 1)
    OBVIOUS
  <2>3. QED
    BY <1>1, <2>1, <2>2 DEF HiddenTo
<1>3. /\ IsFiniteSet(HiddenTo(fs, n)) /\ acc.skipped <= Cardinality(HiddenTo(fs, n))
      /\ acc.skipped \in Nat /\ Cardinality(HiddenTo(fs, n)) \in Nat
  BY FS_CardinalityType DEF CountOK, LayerOK
<1>4. /\ IsFiniteSet(HiddenTo(fs, n + 1))
      /\ Cardinality(HiddenTo(fs, n)) <= Cardinality(HiddenTo(fs, n + 1))
      /\ Cardinality(HiddenTo(fs, n + 1)) \in Nat
  <2>1. CASE HiddenTo(fs, n + 1) = HiddenTo(fs, n)
    BY <1>3, <2>1
  <2>2. CASE HiddenTo(fs, n + 1) = HiddenTo(fs, n) \cup {p}
    <3>1. /\ IsFiniteSet(HiddenTo(fs, n) \cup {p})
          /\ \/ Cardinality(HiddenTo(fs, n) \cup {p}) = Cardinality(HiddenTo(fs, n))
             \/ Cardinality(HiddenTo(fs, n) \cup {p}) = Cardinality(HiddenTo(fs, n)) + 1
      BY <1>3, FS_AddElement
    <3>2. PICK c, d : c = Cardinality(HiddenTo(fs, n)) /\ d = Cardinality(HiddenTo(fs, n + 1))
      OBVIOUS
    <3>3. c \in Nat /\ (d = c \/ d = c + 1) /\ IsFiniteSet(HiddenTo(fs, n + 1))
      BY <1>3, <2>2, <3>1, <3>2
    <3>4. c <= d /\ d \in Nat
      BY <3>3
    <3>6. QED
      BY <3>2, <3>3, <3>4
  <2>3. QED
    BY <1>2, <2>1, <2>2
<1>5. CASE acc.failed \/ (Blocked(acc, p) /\ fs[p] \in {"ensure-dir", "ensure-file"} /\ p \in DOMAIN fs)
  <2>1. acc = [tree |-> acc.tree, dirs |-> acc.dirs, nonDirs |-> acc.nonDirs,
               skipped |-> acc.skipped, failed |-> acc.failed]
    BY DEF LayerOK
  <2>2. (new = acc /\ acc.failed) \/ new = [acc EXCEPT !.failed = TRUE]
    BY <1>5 DEF Entry, WriteEntry
  <2>3. new.failed /\ new.skipped = acc.skipped
    BY <2>1, <2>2
  <2>4. QED
    BY <1>3, <1>4, <2>3 DEF CountOK
<1>6. CASE p \notin DOMAIN fs
  <2>1. new = acc
    BY <1>6 DEF Entry
  <2>2. HiddenTo(fs, n + 1) = HiddenTo(fs, n)
    BY <1>2, <1>6 DEF HiddenIn
  <2>3. QED
    BY <1>1, <1>6, <2>1, <2>2 DEF CountOK
<1>7. CASE /\ p \in DOMAIN fs /\ ~acc.failed
           /\ ~(Blocked(acc, p) /\ fs[p] \in {"ensure-dir", "ensure-file"})
  <2>1. new = WriteEntry(fs, acc, p)
    BY <1>7 DEF Entry
  <2>2. /\ LayerGrows(acc, new)
        /\ ~new.failed /\ ~Blocked(acc, p) => EntryThere(fs, new, p)
        /\ ~new.failed /\ fs[p] \in {"ensure-dir", "ensure-file"} => ~Blocked(acc, p)
    BY <2>1, EntryWritten
  <2>3. ~acc.failed
    BY <1>7
  <2>4. /\ IsFiniteSet(HiddenTo(fs, n)) /\ acc.skipped = Cardinality(HiddenTo(fs, n))
        /\ \A a \in acc.nonDirs : Blocks(fs, a)
        /\ \A j \in 1..n :
              Order[j] \in DOMAIN fs /\ fs[Order[j]] = "ensure-file" /\ InRoot(tree, Order[j]) = NoPath
                => Order[j] \in acc.nonDirs
    BY <2>3 DEF CountOK
  <2>5. Blocked(acc, p) <=> p \in HiddenIn(fs)
    BY <1>7, <2>3, BlockedIsHidden
  <2>6. acc = [tree |-> acc.tree, dirs |-> acc.dirs, nonDirs |-> acc.nonDirs,
               skipped |-> acc.skipped, failed |-> acc.failed] /\ acc.skipped \in Nat
    BY DEF LayerOK
  <2>7. CASE Blocked(acc, p)
    <3>1. fs[p] \notin {"ensure-dir", "ensure-file"}
      BY <1>7, <2>7
    <3>2. new = [acc EXCEPT !.skipped = @ + 1]
      BY <2>1, <2>3, <2>7, <3>1 DEF WriteEntry
    <3>3. new.skipped = acc.skipped + 1 /\ new.nonDirs = acc.nonDirs
      BY <2>6, <3>2
    <3>4. p \notin HiddenTo(fs, n)
      <4>1. \A j \in 1..n : j \in 1..Len(Order) /\ j # n + 1
        OBVIOUS
      <4>2. QED
        BY <4>1 DEF HiddenTo, InOrder
    <3>6. HiddenTo(fs, n + 1) = HiddenTo(fs, n) \cup {p}
      BY <1>2, <2>5, <2>7
    <3>7. IsFiniteSet(HiddenTo(fs, n + 1))
          /\ Cardinality(HiddenTo(fs, n + 1)) = Cardinality(HiddenTo(fs, n)) + 1
      BY <2>4, <3>4, <3>6, FS_AddElement
    <3>8. \A j \in 1..(n + 1) :
              Order[j] \in DOMAIN fs /\ fs[Order[j]] = "ensure-file" /\ InRoot(tree, Order[j]) = NoPath
                => Order[j] \in new.nonDirs
      BY <1>1, <2>4, <3>1, <3>3
    <3>9. new.skipped = Cardinality(HiddenTo(fs, n + 1)) /\ \A a \in new.nonDirs : Blocks(fs, a)
      BY <2>4, <3>3, <3>7
    <3>10. QED
      BY <1>4, <3>8, <3>9 DEF CountOK
  <2>8. CASE ~Blocked(acc, p)
    <3>1. PICK up : up = PutDirs(acc, Ancestors(p))
      OBVIOUS
    <3>2. new = Place(fs, up, p)
      BY <2>1, <2>3, <2>8, <3>1 DEF WriteEntry
    <3>3. LayerOK(up, n + 1) /\ up.nonDirs = acc.nonDirs /\ up.skipped = acc.skipped
      <4>1. Ancestors(p) \cap acc.nonDirs = {}
        BY <2>8 DEF Blocked
      <4>2. QED
        BY <3>1, <4>1, UpIsWritten
    <3>4. /\ new.skipped = up.skipped
          /\ \A a \in new.nonDirs : a \in up.nonDirs \/ (a = p /\ Blocks(fs, a))
      <4>1. p \in Seq(STRING) /\ Cleaned(p) /\ n + 1 \in Nat
        BY DEF InOrder
      <4>2. QED
        BY <1>7, <3>2, <3>3, <4>1, PlaceCounts
    <3>5. ~new.failed
      <4>1. p \in Seq(STRING) /\ Cleaned(p) /\ n + 1 \in Nat /\ up.failed = acc.failed
        <5>1. Ancestors(p) \cap acc.nonDirs = {}
          BY <2>8 DEF Blocked
        <5>2. up.failed = acc.failed
          BY <3>1, <5>1, UpIsWritten
        <5>3. QED
          BY <5>2 DEF InOrder
      <4>2. QED
        BY <1>7, <2>3, <3>2, <3>3, <4>1, PlaceCounts
    <3>6. HiddenTo(fs, n + 1) = HiddenTo(fs, n)
      BY <1>2, <2>5, <2>8
    <3>7. EntryThere(fs, new, p)
      BY <1>7, <2>2, <2>8, <3>5
    <3>8. ASSUME NEW j \in 1..(n + 1), Order[j] \in DOMAIN fs, fs[Order[j]] = "ensure-file",
                 InRoot(tree, Order[j]) = NoPath
          PROVE  Order[j] \in new.nonDirs
      <4>1. CASE j = n + 1
        BY <3>7, <3>8, <4>1 DEF EntryThere
      <4>2. CASE j \in 1..n
        BY <2>2, <2>4, <3>8, <4>2 DEF LayerGrows
      <4>3. QED
        BY <4>1, <4>2
    <3>9. \A a \in new.nonDirs : Blocks(fs, a)
      BY <2>4, <3>3, <3>4
    <3>10. new.skipped = Cardinality(HiddenTo(fs, n + 1)) /\ IsFiniteSet(HiddenTo(fs, n + 1))
      BY <2>4, <3>3, <3>4, <3>6
    <3>11. QED
      BY <1>4, <3>8, <3>9, <3>10 DEF CountOK
  <2>9. QED
    BY <2>7, <2>8
<1>8. QED
  BY <1>5, <1>6, <1>7

\* What holds of the layer after n entries.
Good(fs, acc, n) ==
    /\ LayerOK(acc, n) /\ EntriesThere(fs, acc, n) /\ AllAgree(acc.tree)
    /\ DOMAIN fs \subseteq Range(Order) => CountOK(fs, acc, n)

LEMMA ClosedRoot == Closed(EmptyTree)
<1>1. DOMAIN EmptyTree = {<<>>} /\ EmptyTree[<<>>] = Dir /\ <<>> \in Seq(STRING)
  BY DEF EmptyTree
<1>2. Ancestors(<<>>) = {}
  BY DEF Ancestors
<1>3. QED
  BY <1>1, <1>2 DEF Closed

LEMMA EmptyLayer ==
    ASSUME IsTree(tree), NEW fs
    PROVE  Good(fs, Nothing, 0)
<1>1. LayerOK(Nothing, 0)
  BY ClosedRoot DEF LayerOK, Nothing, EmptyTree
<1>2. AllAgree(Nothing.tree)
  <2>1. DOMAIN EmptyTree = {<<>>} /\ EmptyTree[<<>>] = Dir /\ Nothing.tree = EmptyTree
    BY DEF EmptyTree, Nothing
  <2>2. InRoot(tree, <<>>) = <<>> /\ tree[<<>>] = Dir
    BY DEF InRoot, EntryAt, IsTree
  <2>3. QED
    BY <2>1, <2>2 DEF AllAgree, Agrees
<1>3. CountOK(fs, Nothing, 0)
  <2>1. HiddenTo(fs, 0) = {}
    BY DEF HiddenTo
  <2>2. Nothing.nonDirs = {} /\ Nothing.skipped = 0
    BY DEF Nothing
  <2>3. QED
    BY <2>1, <2>2, FS_EmptySet DEF CountOK
<1>4. QED
  BY <1>1, <1>2, <1>3 DEF EntriesThere, Good

LEMMA GoodStep ==
    ASSUME InOrder, IsTree(tree), NEW fs, NEW acc, NEW n \in Nat, n + 1 \in 1..Len(Order),
           Good(fs, acc, n), NEW new, new = Entry(fs, acc, n + 1)
    PROVE  Good(fs, new, n + 1)
<1>1. LayerOK(acc, n) /\ EntriesThere(fs, acc, n) /\ AllAgree(acc.tree)
  BY DEF Good
<1>2. LayerOK(new, n + 1) /\ EntriesThere(fs, new, n + 1)
  BY <1>1, EntryStep
<1>3. AllAgree(new.tree)
  BY <1>1, AgreeStep DEF Entry
<1>4. DOMAIN fs \subseteq Range(Order) => CountOK(fs, new, n + 1)
  BY <1>1, CountStep DEF Good
<1>5. QED
  BY <1>2, <1>3, <1>4 DEF Good

LEMMA GoodRun ==
    ASSUME InOrder, IsTree(tree), NEW fs, NEW f, IsRun(fs, f, Len(Order)), NEW i \in 0..Len(Order)
    PROVE  Good(fs, f[i], i)
<1> DEFINE N == Len(Order)
<1>1. N \in Nat
  BY DEF InOrder
<1> DEFINE Bad == {k \in 0..N : ~Good(fs, f[k], k)}
<1>2. f[0] = Nothing /\ \A k \in 1..N : f[k] = Entry(fs, f[k - 1], k)
  BY <1>1 DEF IsRun
<1>3. Good(fs, f[0], 0)
  BY <1>2, EmptyLayer
<1>4. ASSUME NEW k \in 1..N, Good(fs, f[k - 1], k - 1) PROVE Good(fs, f[k], k)
  <2>1. PICK m \in Nat : m = k - 1
    BY <1>1
  <2>2. m + 1 = k /\ m + 1 \in 1..Len(Order)
    BY <1>1, <2>1
  <2>3. f[k] = Entry(fs, f[m], m + 1)
    BY <1>2, <2>1, <2>2
  <2>4. QED
    BY <1>4, <2>1, <2>2, <2>3, GoodStep
<1>5. ASSUME Bad # {} PROVE FALSE
  <2>1. Bad \in SUBSET Nat
    BY <1>1
  <2>2. PICK k \in Bad : \A j \in Bad : k <= j
    BY <1>5, <2>1, Least
  <2>3. k # 0 /\ k \in 1..N /\ k - 1 \in 0..N /\ ~(k <= k - 1)
    BY <1>1, <1>3
  <2>4. Good(fs, f[k - 1], k - 1)
    BY <2>2, <2>3
  <2>5. QED
    BY <1>4, <2>2, <2>3, <2>4
<1>6. QED
  BY <1>5

LEMMA WholeLayer ==
    ASSUME InOrder, IsTree(tree), NEW fs
    PROVE  Good(fs, Written(fs), Len(Order))
<1>1. Len(Order) \in Nat /\ Len(Order) \in 0..Len(Order)
  BY DEF InOrder
<1>2. PICK f : IsRun(fs, f, Len(Order)) /\ Written(fs) = f[Len(Order)]
  BY <1>1, WrittenRun
<1>3. QED
  BY <1>1, <1>2, GoodRun

-----------------------------------------------------------------------------
(***************************************************************************)
(* The build.                                                              *)
(***************************************************************************)

\* The entry a path gets if the manifest does not have it when it is asked for.
EnsuredAs(p) == EnsureSource(<<p, <<p, TRUE>> \in opts.ensures>>)

\* The layer is closed at every moment, the inputs are what they were, and what
\* was asked for stays in the manifest as it was entered.
LayerInv ==
    /\ image \in Images /\ opts \in Options
    /\ Closed(layer)
    /\ skipped \in 0..Len(Order)
    /\ peek \in {"idle", "running", "stored", "late"}

AskedInv ==
    phase \in {"expand", "open", "digest"} =>
        \A e \in opts.ensures :
            e[1] \notin before => e[1] \in DOMAIN files /\ files[e[1]] = EnsuredAs(e[1])

EnsuredInLayer ==
    \A e \in opts.ensures :
        e[1] \notin before =>
            /\ Has(layer, e[1])
            /\ InRoot(tree, e[1]) = NoPath =>
                  layer[e[1]] = IF <<e[1], TRUE>> \in opts.ensures THEN Dir ELSE File("empty")

KeptInv == phase \in {"result", "built"} => EnsuredInLayer

LEMMA Givens ==
    /\ InOrder
    /\ image \in Images => IsTree(tree)
BY ImagesAssumption, OrderAssumption DEF InOrder, IsTree, tree

LEMMA LayerInit == Init => LayerInv
<1> SUFFICES ASSUME Init PROVE LayerInv
  OBVIOUS
<1>1. Closed(layer)
  BY ClosedRoot DEF Init
<1>2. skipped \in 0..Len(Order)
  BY Givens DEF Init, InOrder
<1>3. QED
  BY <1>1, <1>2 DEF Init, LayerInv

\* The steps that write to the layer or its counter are two.
LEMMA Writers ==
    ASSUME [Next]_vars
    PROVE  /\ UNCHANGED inputs
           /\ \/ UNCHANGED <<layer, skipped, peek>>
              \/ OpenLayer \/ PeekStores \/ DigestLayer
  BY DEF Next, vars, StepFails, ResolveELF, ResolveRuntimeCompanions, CheckScratchCompat,
         ApplyDirectoryInclusion, EnsurePaths, ExpandSymlinkTargets, OpenLayer, PeekStores,
         DigestLayer, Finish, Step, inputs, writer

LEMMA LayerStep == LayerInv /\ [Next]_vars => LayerInv'
<1> SUFFICES ASSUME LayerInv, [Next]_vars PROVE LayerInv'
  OBVIOUS
<1>1. Len(Order) \in Nat /\ IsTree(tree) /\ InOrder
  BY Givens DEF InOrder, LayerInv
<1>2. image' \in Images /\ opts' \in Options
  BY Writers DEF LayerInv, inputs
<1>3. LayerOK(Written(files), Len(Order))
  BY <1>1, WholeLayer DEF Good
<1>4. Closed(Written(files).tree) /\ Written(files).skipped \in 0..Len(Order)
  BY <1>3 DEF LayerOK
<1>5. CASE UNCHANGED <<layer, skipped, peek>>
  BY <1>2, <1>5 DEF LayerInv
<1>6. CASE OpenLayer
  BY <1>2, <1>6 DEF OpenLayer, LayerInv
<1>7. CASE PeekStores
  <2>1. skipped' \in 0..Len(Order)
    BY <1>1, <1>4, <1>7 DEF PeekStores
  <2>2. QED
    BY <1>2, <1>7, <2>1 DEF PeekStores, LayerInv
<1>8. CASE DigestLayer
  <2>1. layer' = Written(files).tree /\ skipped' = Written(files).skipped /\ peek' = peek
    BY <1>8 DEF DigestLayer
  <2>2. Closed(layer') /\ skipped' \in 0..Len(Order)
    BY <1>4, <2>1
  <2>3. QED
    BY <1>2, <2>1, <2>2 DEF LayerInv
<1>9. QED
  BY Writers, <1>5, <1>6, <1>7, <1>8

\* The steps that write what AskedInv and KeptInv speak of are three.
LEMMA Others ==
    ASSUME [Next]_vars
    PROVE  \/ EnsurePaths \/ ExpandSymlinkTargets \/ DigestLayer
           \/ /\ UNCHANGED <<inputs, before, layer>>
              /\ \/ UNCHANGED <<files, phase>>
                 \/ phase' \notin {"expand", "open", "digest", "result", "built"}
                 \/ phase = "open" /\ phase' = "digest" /\ UNCHANGED files
                 \/ phase = "result" /\ phase' = "built" /\ UNCHANGED files
  BY DEF Next, vars, StepFails, ResolveELF, ResolveRuntimeCompanions, CheckScratchCompat,
         ApplyDirectoryInclusion, OpenLayer, PeekStores, Finish, Step, inputs, writer

LEMMA AskedStep == AskedInv /\ [Next]_vars => AskedInv'
<1> SUFFICES ASSUME AskedInv, [Next]_vars, phase' \in {"expand", "open", "digest"}
             PROVE  \A e \in opts'.ensures :
                        e[1] \notin before' =>
                            e[1] \in DOMAIN files' /\ files'[e[1]] = EnsuredAs(e[1])'
  BY DEF AskedInv
<1>1. UNCHANGED opts
  BY Writers DEF inputs
<1>2. \A p : EnsuredAs(p)' = EnsuredAs(p)
  BY <1>1 DEF EnsuredAs
<1>3. SUFFICES ASSUME NEW e \in opts.ensures, e[1] \notin before'
               PROVE  e[1] \in DOMAIN files' /\ files'[e[1]] = EnsuredAs(e[1])
  BY <1>1, <1>2
<1>4. CASE EnsurePaths
  <2>1. before' = DOMAIN files /\ files' = ApplyEnsurePaths(files, opts.ensures)
    BY <1>4 DEF EnsurePaths, Step
  <2>2. e[1] \in {d[1] : d \in opts.ensures}
    OBVIOUS
  <2> DEFINE asked == {d[1] : d \in opts.ensures}
  <2>3. files' = [p \in DOMAIN files \cup asked |->
                     IF p \in DOMAIN files THEN files[p] ELSE EnsuredAs(p)]
    BY <2>1 DEF ApplyEnsurePaths, EnsuredAs
  <2> HIDE DEF asked
  <2>4. e[1] \in asked
    BY <2>2 DEF asked
  <2>5. QED
    BY <1>3, <2>1, <2>3, <2>4
<1>5. CASE ExpandSymlinkTargets
  <2>1. before' = before /\ phase = "expand"
        /\ files' = AddNew(files, Expanded(DOMAIN files), "symlink-target")
    BY <1>5 DEF ExpandSymlinkTargets, Step
  <2>2. e[1] \in DOMAIN files /\ files[e[1]] = EnsuredAs(e[1])
    BY <1>3, <2>1 DEF AskedInv
  <2>3. QED
    BY <2>1, <2>2 DEF AddNew
<1>6. CASE DigestLayer
  BY <1>6 DEF DigestLayer, Step
<1>7. CASE UNCHANGED <<before, files>> /\ phase \in {"expand", "open", "digest"}
  BY <1>3, <1>7 DEF AskedInv
<1>8. QED
  BY Others, <1>4, <1>5, <1>6, <1>7

LEMMA KeptStep == LayerInv /\ AskedInv /\ KeptInv /\ [Next]_vars => KeptInv'
<1> SUFFICES ASSUME LayerInv, AskedInv, KeptInv, [Next]_vars, phase' \in {"result", "built"}
             PROVE  EnsuredInLayer'
  BY DEF KeptInv
<1>1. UNCHANGED <<opts, image>> /\ tree' = tree
  BY Writers DEF inputs, tree
<1>2. CASE DigestLayer
  <2>1. /\ layer' = Written(files).tree /\ ~Written(files).failed
        /\ phase = "digest" /\ before' = before
    BY <1>2 DEF DigestLayer, Step
  <2>2. InOrder /\ IsTree(tree)
    BY Givens DEF LayerInv
  <2>3. LayerOK(Written(files), Len(Order)) /\ EntriesThere(files, Written(files), Len(Order))
    BY <2>2, WholeLayer DEF Good
  <2> DEFINE all == Written(files)
  <2> HIDE DEF all
  <2>4. /\ LayerOK(all, Len(Order)) /\ EntriesThere(files, all, Len(Order))
        /\ layer' = all.tree /\ ~all.failed
    BY <2>1, <2>3 DEF all
  <2>5. ASSUME NEW e \in opts.ensures, e[1] \notin before
        PROVE  /\ e[1] \in DOMAIN all.tree
               /\ InRoot(tree, e[1]) = NoPath =>
                     all.tree[e[1]] = IF <<e[1], TRUE>> \in opts.ensures THEN Dir ELSE File("empty")
    <3>1. PICK p : p = e[1]
      OBVIOUS
    <3>2. p \in DOMAIN files /\ files[p] = EnsuredAs(p)
      BY <2>1, <2>5, <3>1 DEF AskedInv
    <3>3. PICK j \in 1..Len(Order) : Order[j] = p
      <4>1. p \in {d[1] : d \in opts.ensures}
        BY <3>1
      <4>2. p \in Range(Order)
        BY <4>1, OrderAssumption DEF LayerInv
      <4>3. DOMAIN Order = 1..Len(Order)
        BY <2>2 DEF InOrder
      <4>4. QED
        BY <4>2, <4>3 DEF Range
    <3>4. EnsuredAs(p) = IF <<p, TRUE>> \in opts.ensures THEN "ensure-dir" ELSE "ensure-file"
      BY DEF EnsuredAs, EnsureSource
    <3>5. EntryThere(files, all, p)
      BY <2>4, <3>2, <3>3, <3>4 DEF EntriesThere, Asked
    <3>6. \A q \in all.dirs : q \in DOMAIN all.tree /\ all.tree[q] = Dir
      BY <2>4 DEF LayerOK
    <3>7. QED
      BY <3>1, <3>2, <3>4, <3>5, <3>6 DEF EntryThere
  <2>6. QED
    BY <1>1, <2>1, <2>4, <2>5 DEF EnsuredInLayer, Has
<1>3. CASE UNCHANGED <<before, layer>> /\ phase \in {"result", "built"}
  BY <1>1, <1>3 DEF KeptInv, EnsuredInLayer
<1>4. CASE EnsurePaths \/ ExpandSymlinkTargets
  BY <1>4 DEF EnsurePaths, ExpandSymlinkTargets, Step
<1>5. QED
  BY Others, <1>2, <1>3, <1>4

AgreeInv == AllAgree(layer)

LEMMA AgreeInit == Init => AgreeInv
<1> SUFFICES ASSUME Init PROVE AllAgree(layer)
  BY DEF AgreeInv
<1>1. IsTree(tree) /\ layer = EmptyTree
  BY Givens DEF Init
<1>2. AllAgree(Nothing.tree)
  BY <1>1, EmptyLayer DEF Good
<1>3. QED
  BY <1>1, <1>2 DEF Nothing

LEMMA AgreeInvStep == LayerInv /\ AgreeInv /\ [Next]_vars => AgreeInv'
<1> SUFFICES ASSUME LayerInv, AgreeInv, [Next]_vars PROVE AllAgree(layer)'
  BY DEF AgreeInv
<1>1. tree' = tree
  BY Writers DEF inputs, tree
<1>2. SUFFICES AllAgree(layer')
  BY <1>1 DEF AllAgree, Agrees
<1>3. CASE DigestLayer
  <2>1. layer' = Written(files).tree
    BY <1>3 DEF DigestLayer
  <2>2. InOrder /\ IsTree(tree)
    BY Givens DEF LayerInv
  <2>3. AllAgree(Written(files).tree)
    BY <2>2, WholeLayer DEF Good
  <2>4. QED
    BY <2>1, <2>3
<1>4. CASE layer' = layer
  BY <1>4 DEF AgreeInv
<1>5. QED
  BY Writers, <1>3, <1>4 DEF OpenLayer, PeekStores, Step

-----------------------------------------------------------------------------
(***************************************************************************)
(* Names cleaned without looking.                                          *)
(***************************************************************************)

CleanStep(v, c) == IF c # ".." THEN Append(v, c) ELSE IF v = <<>> THEN <<>> ELSE Front(v)

IsCleaning(p, f) ==
    f = [i \in 0..Len(p) |-> IF i = 0 THEN <<>>
                             ELSE IF p[i] # ".." THEN Append(f[i - 1], p[i])
                             ELSE IF f[i - 1] = <<>> THEN <<>> ELSE Front(f[i - 1])]

Cleans(p, f, n) == f[0] = <<>> /\ \A i \in 1..n : f[i] = CleanStep(f[i - 1], p[i])

LEMMA CleansExists ==
    ASSUME NEW p, NEW n \in Nat
    PROVE  \E f : f = [i \in 0..n |-> f[i]] /\ Cleans(p, f, n)
<1> DEFINE Bad == {k \in Nat : ~\E f : f = [i \in 0..k |-> f[i]] /\ Cleans(p, f, k)}
<1>1. SUFFICES ASSUME Bad # {} PROVE FALSE
  OBVIOUS
<1>2. PICK k \in Bad : \A j \in Bad : k <= j
  BY <1>1, Least
<1>3. CASE k = 0
  <2>1. PICK f : f = [i \in 0..0 |-> <<>>]
    OBVIOUS
  <2>2. f = [i \in 0..0 |-> f[i]] /\ Cleans(p, f, 0)
    BY <2>1 DEF Cleans
  <2>3. QED
    BY <1>3, <2>2
<1>4. CASE k # 0
  <2>1. k - 1 \in Nat /\ ~(k <= k - 1)
    BY <1>4
  <2>2. PICK f : f = [i \in 0..(k - 1) |-> f[i]] /\ Cleans(p, f, k - 1)
    BY <1>2, <2>1
  <2>3. PICK g : g = [i \in 0..k |-> IF i = k THEN CleanStep(f[k - 1], p[k]) ELSE f[i]]
    OBVIOUS
  <2>4. g = [i \in 0..k |-> g[i]]
    BY <2>3
  <2>5. g[0] = <<>>
    BY <1>4, <2>2, <2>3 DEF Cleans
  <2>6. ASSUME NEW i \in 1..k PROVE g[i] = CleanStep(g[i - 1], p[i])
    <3>1. CASE i = k
      <4>1. g[k] = CleanStep(f[k - 1], p[k]) /\ g[k - 1] = f[k - 1]
        BY <1>4, <2>1, <2>3
      <4>2. QED
        BY <3>1, <4>1
    <3>2. CASE i # k
      <4>1. i \in 1..(k - 1) /\ i - 1 \in 0..(k - 1) /\ i - 1 # k
        BY <3>2
      <4>2. g[i] = f[i] /\ g[i - 1] = f[i - 1]
        BY <2>3, <3>2, <4>1
      <4>3. f[i] = CleanStep(f[i - 1], p[i])
        BY <2>2, <4>1 DEF Cleans
      <4>4. QED
        BY <4>2, <4>3
    <3>3. QED
      BY <3>1, <3>2
  <2>7. Cleans(p, g, k)
    BY <2>5, <2>6 DEF Cleans
  <2>8. QED
    BY <2>4, <2>7
<1>5. QED
  BY <1>3, <1>4

LEMMA CleansAgree ==
    ASSUME NEW p, NEW n \in Nat, NEW f, Cleans(p, f, n), NEW g, Cleans(p, g, n)
    PROVE  f[n] = g[n]
<1> DEFINE Bad == {k \in 0..n : f[k] # g[k]}
<1>1. SUFFICES ASSUME Bad # {} PROVE FALSE
  OBVIOUS
<1>2. Bad \in SUBSET Nat
  OBVIOUS
<1>3. PICK k \in Bad : \A j \in Bad : k <= j
  BY <1>1, <1>2, Least
<1>4. k # 0 /\ k \in 1..n /\ k - 1 \in 0..n /\ ~(k <= k - 1)
  BY DEF Cleans
<1>5. f[k - 1] = g[k - 1]
  BY <1>3, <1>4
<1>6. f[k] = CleanStep(f[k - 1], p[k]) /\ g[k] = CleanStep(g[k - 1], p[k])
  BY <1>4 DEF Cleans
<1>7. QED
  BY <1>5, <1>6

LEMMA CleanIs ==
    ASSUME NEW p \in Seq(STRING)
    PROVE  \E f : Cleans(p, f, Len(p)) /\ Clean(p) = f[Len(p)]
<1>1. PICK n : n = Len(p) /\ n \in Nat
  OBVIOUS
<1>2. PICK g : g = [i \in 0..n |-> g[i]] /\ Cleans(p, g, n)
  BY <1>1, CleansExists
<1>3. IsCleaning(p, g)
  <2>1. ASSUME NEW i \in 0..n
        PROVE  g[i] = IF i = 0 THEN <<>>
                      ELSE IF p[i] # ".." THEN Append(g[i - 1], p[i])
                      ELSE IF g[i - 1] = <<>> THEN <<>> ELSE Front(g[i - 1])
    <3>1. CASE i = 0
      BY <1>2, <3>1 DEF Cleans
    <3>2. CASE i # 0
      <4>1. i \in 1..n
        BY <1>1, <3>2
      <4>2. g[i] = CleanStep(g[i - 1], p[i])
        BY <1>2, <4>1 DEF Cleans
      <4>3. QED
        BY <3>2, <4>2 DEF CleanStep
    <3>3. QED
      BY <3>1, <3>2
  <2>2. QED
    BY <1>1, <1>2, <2>1 DEF IsCleaning
<1>4. PICK f : f = CHOOSE x : IsCleaning(p, x)
  OBVIOUS
<1>5. IsCleaning(p, f)
  BY <1>3, <1>4
<1>6. Clean(p) = f[n]
  BY <1>1, <1>4 DEF Clean, IsCleaning
<1>7. Cleans(p, f, n)
  <2>1. f[0] = <<>>
    BY <1>1, <1>5 DEF IsCleaning
  <2>2. ASSUME NEW i \in 1..n PROVE f[i] = CleanStep(f[i - 1], p[i])
    <3>1. i \in 0..n /\ i # 0
      BY <1>1
    <3>2. QED
      BY <1>1, <1>5, <3>1 DEF IsCleaning, CleanStep
  <2>3. QED
    BY <2>1, <2>2 DEF Cleans
<1>8. QED
  BY <1>1, <1>6, <1>7

LEMMA CleanNothing == Clean(<<>>) = <<>>
<1>1. <<>> \in Seq(STRING) /\ Len(<<>>) = 0
  OBVIOUS
<1>2. QED
  BY <1>1, CleanIs DEF Cleans

LEMMA CleanOneMore ==
    ASSUME NEW p \in Seq(STRING), NEW c \in STRING
    PROVE  Clean(Append(p, c)) = CleanStep(Clean(p), c)
<1>1. PICK q, n : q = Append(p, c) /\ n = Len(p)
  OBVIOUS
<1>2. /\ q \in Seq(STRING) /\ Len(q) = n + 1 /\ n \in Nat
      /\ q[n + 1] = c /\ \A i \in 1..n : q[i] = p[i]
  <2>1. n \in Nat /\ \A i \in 1..n : i \in 1..Len(p)
    BY <1>1
  <2>2. q \in Seq(STRING) /\ Len(q) = Len(p) + 1 /\ q[Len(p) + 1] = c
    BY <1>1, AppendProperties
  <2>3. \A i \in 1..Len(p) : q[i] = p[i]
    BY <1>1, AppendProperties
  <2>4. QED
    BY <1>1, <2>1, <2>2, <2>3
<1>3. PICK f : Cleans(q, f, n + 1) /\ Clean(q) = f[n + 1]
  BY <1>2, CleanIs
<1>4. Cleans(p, f, n)
  <2>1. \A i \in 1..n : i \in 1..(n + 1)
    BY <1>2
  <2>2. QED
    BY <1>2, <1>3, <2>1 DEF Cleans
<1>5. Clean(p) = f[n]
  BY <1>1, <1>2, <1>4, CleanIs, CleansAgree
<1>6. f[n + 1] = CleanStep(f[n], c)
  <2>1. n + 1 \in 1..(n + 1) /\ (n + 1) - 1 = n
    BY <1>2
  <2>2. f[n + 1] = CleanStep(f[(n + 1) - 1], q[n + 1])
    BY <1>3, <2>1 DEF Cleans
  <2>3. QED
    BY <1>2, <2>1, <2>2
<1>7. QED
  BY <1>1, <1>3, <1>5, <1>6

\* No component is a step upwards.
NoneUp(p) == \A i \in 1..Len(p) : p[i] # ".."

LEMMA NoneUpFront ==
    ASSUME NEW p \in Seq(STRING), p # <<>>, NoneUp(p)
    PROVE  NoneUp(Front(p)) /\ Last(p) # ".."
<1>1. PICK n : n = Len(p) - 1 /\ n \in Nat /\ n + 1 = Len(p)
  <2>1. Len(p) \in Nat /\ Len(p) # 0
    OBVIOUS
  <2>2. QED
    BY <2>1
<1>2. Front(p) = SubSeq(p, 1, n) /\ Last(p) = p[n + 1]
  BY <1>1 DEF Front, Last
<1>3. Len(Front(p)) = n /\ \A i \in 1..n : Front(p)[i] = p[i] /\ i \in 1..Len(p)
  BY <1>1, <1>2
<1>4. n + 1 \in 1..Len(p)
  BY <1>1
<1>5. QED
  BY <1>2, <1>3, <1>4 DEF NoneUp

LEMMA NoneUpAppend ==
    ASSUME NEW p \in Seq(STRING), NoneUp(p), NEW c \in STRING, c # ".."
    PROVE  NoneUp(Append(p, c))
<1>1. Len(Append(p, c)) = Len(p) + 1 /\ Append(p, c)[Len(p) + 1] = c
      /\ \A i \in 1..Len(p) : Append(p, c)[i] = p[i]
  BY AppendProperties
<1>2. \A i \in 1..(Len(p) + 1) : i \in 1..Len(p) \/ i = Len(p) + 1
  OBVIOUS
<1>3. QED
  BY <1>1, <1>2 DEF NoneUp

\* What holds of the empty path and of a path with its front holds of all paths: the
\* shortest path it does not hold of.
LEMMA ShortestWrong ==
    ASSUME NEW Wrong \in SUBSET Seq(STRING), <<>> \notin Wrong,
           \A p \in Wrong : Front(p) \in Wrong
    PROVE  Wrong = {}
<1> DEFINE Lens == {Len(p) : p \in Wrong}
<1>1. SUFFICES ASSUME Wrong # {} PROVE FALSE
  OBVIOUS
<1>2. Lens \in SUBSET Nat /\ Lens # {}
  <2>1. ASSUME NEW p \in Wrong PROVE Len(p) \in Nat
    <3>1. p \in Seq(STRING)
      OBVIOUS
    <3>2. QED
      BY <3>1
  <2>2. QED
    BY <1>1, <2>1, Zenon
<1> HIDE DEF Lens
<1>3. PICK n \in Lens : \A k \in Lens : n <= k
  BY <1>2, Least
<1> USE DEF Lens
<1>4. PICK p \in Wrong : Len(p) = n
  BY <1>3
<1>5. p \in Seq(STRING) /\ p # <<>> /\ Front(p) \in Wrong /\ Front(p) \in Seq(STRING)
  BY <1>4
<1>6. Len(Front(p)) < Len(p) /\ Len(Front(p)) \in Nat /\ Len(p) \in Nat
  <2>1. p = Front(p) \o <<Last(p)>>
    BY <1>5, FrontAndLast
  <2>2. Last(p) \in STRING
    BY <1>5, Parts
  <2>3. QED
    BY <1>5, <2>1, <2>2
<1>7. QED
  BY <1>3, <1>4, <1>5, <1>6

LEMMA FrontThenLast ==
    ASSUME NEW p \in Seq(STRING), p # <<>>
    PROVE  /\ Front(p) \in Seq(STRING) /\ Last(p) \in STRING
           /\ p = Append(Front(p), Last(p))
<1>1. Front(p) \in Seq(STRING) /\ Last(p) \in STRING
  BY Parts
<1>2. p = Front(p) \o <<Last(p)>>
  BY FrontAndLast
<1>3. QED
  BY <1>1, <1>2, OneAppended

LEMMA CleanType ==
    ASSUME NEW p \in Seq(STRING)
    PROVE  Clean(p) \in Seq(STRING) /\ NoneUp(Clean(p))
<1> DEFINE Wrong == {x \in Seq(STRING) : ~(Clean(x) \in Seq(STRING) /\ NoneUp(Clean(x)))}
<1>1. NoneUp(<<>>)
  BY DEF NoneUp
<1>2. <<>> \notin Wrong
  BY <1>1, CleanNothing
<1>3. ASSUME NEW x \in Wrong PROVE Front(x) \in Wrong
  <2>1. x \in Seq(STRING) /\ x # <<>>
    BY <1>2
  <2>2. PICK f, c : f = Front(x) /\ c = Last(x)
    OBVIOUS
  <2>3. f \in Seq(STRING) /\ c \in STRING /\ x = Append(f, c)
    BY <2>1, <2>2, FrontThenLast
  <2>4. SUFFICES ASSUME Clean(f) \in Seq(STRING), NoneUp(Clean(f)) PROVE FALSE
    BY <2>2, <2>3
  <2>5. PICK v : v = Clean(f)
    OBVIOUS
  <2>6. Clean(x) = CleanStep(v, c)
    BY <2>3, <2>5, CleanOneMore
  <2>7. CleanStep(v, c) \in Seq(STRING) /\ NoneUp(CleanStep(v, c))
    <3>1. CASE c # ".."
      BY <2>3, <2>4, <2>5, <3>1, NoneUpAppend, Appended DEF CleanStep
    <3>2. CASE c = ".." /\ v = <<>>
      BY <1>1, <3>2 DEF CleanStep
    <3>3. CASE c = ".." /\ v # <<>>
      <4>1. CleanStep(v, c) = Front(v)
        BY <3>3 DEF CleanStep
      <4>2. Front(v) \in Seq(STRING) /\ NoneUp(Front(v))
        BY <2>4, <2>5, <3>3, NoneUpFront, FrontThenLast
      <4>3. QED
        BY <4>1, <4>2
    <3>4. QED
      BY <3>1, <3>2, <3>3
  <2>8. QED
    BY <2>6, <2>7
<1>4. Wrong = {}
  <2>1. Wrong \in SUBSET Seq(STRING)
    OBVIOUS
  <2> HIDE DEF Wrong
  <2>2. QED
    BY <1>2, <1>3, <2>1, ShortestWrong
<1>5. QED
  BY <1>4

\* What has no step upwards is clean.
LEMMA CleanAlready ==
    ASSUME NEW p \in Seq(STRING), NoneUp(p)
    PROVE  Clean(p) = p
<1> DEFINE Wrong == {x \in Seq(STRING) : NoneUp(x) /\ Clean(x) # x}
<1>1. <<>> \notin Wrong
  BY CleanNothing
<1>2. ASSUME NEW x \in Wrong PROVE Front(x) \in Wrong
  <2>1. x \in Seq(STRING) /\ x # <<>> /\ NoneUp(x) /\ Clean(x) # x
    BY <1>1
  <2>2. PICK f, c : f = Front(x) /\ c = Last(x)
    OBVIOUS
  <2>3. f \in Seq(STRING) /\ c \in STRING /\ x = Append(f, c) /\ NoneUp(f) /\ c # ".."
    BY <2>1, <2>2, FrontThenLast, NoneUpFront
  <2>4. Clean(x) = Append(Clean(f), c)
    BY <2>3, CleanOneMore DEF CleanStep
  <2>5. Clean(f) # f
    BY <2>1, <2>3, <2>4
  <2>6. QED
    BY <2>2, <2>3, <2>5
<1>3. Wrong = {}
  <2>1. Wrong \in SUBSET Seq(STRING)
    OBVIOUS
  <2> HIDE DEF Wrong
  <2>2. QED
    BY <1>1, <1>2, <2>1, ShortestWrong
<1>4. QED
  BY <1>3

\* How a path goes on does not depend on how its beginning was cleaned.
LEMMA CleanFurther ==
    ASSUME NEW a \in Seq(STRING), NEW b \in Seq(STRING), Clean(a) = Clean(b), NEW r \in Seq(STRING)
    PROVE  Clean(a \o r) = Clean(b \o r)
<1> DEFINE Wrong == {x \in Seq(STRING) : Clean(a \o x) # Clean(b \o x)}
<1>1. <<>> \notin Wrong
  <2>1. a \o <<>> = a /\ b \o <<>> = b
    OBVIOUS
  <2>2. QED
    BY <2>1
<1>2. ASSUME NEW x \in Wrong PROVE Front(x) \in Wrong
  <2>1. x \in Seq(STRING) /\ x # <<>> /\ Clean(a \o x) # Clean(b \o x)
    BY <1>1
  <2>2. PICK f, c : f = Front(x) /\ c = Last(x)
    OBVIOUS
  <2>3. f \in Seq(STRING) /\ c \in STRING /\ x = Append(f, c)
    BY <2>1, <2>2, FrontThenLast
  <2>4. PICK af, bf : af = a \o f /\ bf = b \o f
    OBVIOUS
  <2>5. af \in Seq(STRING) /\ bf \in Seq(STRING)
    BY <2>3, <2>4, ConcatProperties
  <2>6. a \o x = Append(af, c) /\ b \o x = Append(bf, c)
    BY <2>3, <2>4, AppendFurther
  <2>7. Clean(a \o x) = CleanStep(Clean(af), c) /\ Clean(b \o x) = CleanStep(Clean(bf), c)
    BY <2>3, <2>5, <2>6, CleanOneMore
  <2>8. Clean(af) # Clean(bf)
    BY <2>1, <2>7
  <2>9. QED
    BY <2>2, <2>3, <2>4, <2>8
<1>3. Wrong = {}
  <2>1. Wrong \in SUBSET Seq(STRING)
    OBVIOUS
  <2> HIDE DEF Wrong
  <2>2. QED
    BY <1>1, <1>2, <2>1, ShortestWrong
<1>4. QED
  BY <1>3

LEMMA NoShortest ==
    ASSUME NEW Wrong \in SUBSET Seq(STRING),
           \A p \in Wrong : \E q \in Wrong : Len(q) < Len(p)
    PROVE  Wrong = {}
<1> DEFINE Lens == {Len(p) : p \in Wrong}
<1>1. SUFFICES ASSUME Wrong # {} PROVE FALSE
  OBVIOUS
<1>2. Lens \in SUBSET Nat /\ Lens # {}
  <2>1. ASSUME NEW p \in Wrong PROVE Len(p) \in Nat
    <3>1. p \in Seq(STRING)
      OBVIOUS
    <3>2. QED
      BY <3>1, LenProperties
  <2>2. QED
    BY <1>1, <2>1
<1>3. PICK n \in Lens : \A k \in Lens : n <= k
  BY <1>2, Least
<1>4. PICK p \in Wrong : Len(p) = n
  BY <1>3
<1>5. PICK q \in Wrong : Len(q) < Len(p)
  BY <1>4
<1>6. Len(q) \in Nat /\ Len(p) \in Nat /\ n <= Len(q)
  <2>1. q \in Seq(STRING) /\ p \in Seq(STRING) /\ Len(q) \in Lens
    OBVIOUS
  <2>2. n <= Len(q)
    BY <1>3, <2>1
  <2> HIDE DEF Lens
  <2>3. QED
    BY <2>1, <2>2, LenProperties
<1>7. QED
  BY <1>4, <1>5, <1>6

LEMMA TreeNoneUp ==
    ASSUME NEW t, IsTree(t), NEW d \in DOMAIN t
    PROVE  NoneUp(d)
<1>1. Cleaned(d)
  BY DEF IsTree
<1>2. \A i \in 1..Len(d) : d[i] \notin {"", ".."}
  BY <1>1 DEF Cleaned
<1>3. QED
  BY <1>2 DEF NoneUp

LEMMA NoneUpConcat ==
    ASSUME NEW a \in Seq(STRING), NoneUp(a), NEW b \in Seq(STRING), NoneUp(b)
    PROVE  NoneUp(a \o b)
<1>1. PICK c : c = a \o b
  OBVIOUS
<1>2. /\ Len(c) = Len(a) + Len(b) /\ Len(a) \in Nat /\ Len(b) \in Nat
      /\ \A i \in 1..(Len(a) + Len(b)) : c[i] = IF i <= Len(a) THEN a[i] ELSE b[i - Len(a)]
  BY <1>1, ConcatProperties
<1>3. ASSUME NEW i \in 1..Len(c) PROVE c[i] # ".."
  <2>1. CASE i <= Len(a)
    <3>1. i \in 1..Len(a) /\ c[i] = a[i]
      BY <1>2, <2>1
    <3>2. QED
      BY <3>1 DEF NoneUp
  <2>2. CASE ~(i <= Len(a))
    <3>1. i - Len(a) \in 1..Len(b) /\ c[i] = b[i - Len(a)]
      BY <1>2, <2>2
    <3>2. QED
      BY <3>1 DEF NoneUp
  <2>3. QED
    BY <2>1, <2>2
<1>4. QED
  BY <1>1, <1>3 DEF NoneUp

\* The steps upwards come first.
UpFirst(to) == \A i \in 1..Len(to) : to[i] = ".." => \A j \in 1..i : to[j] = ".."

LEMMA UpFirstTail ==
    ASSUME NEW to \in Seq(STRING), to # <<>>, UpFirst(to)
    PROVE  UpFirst(Tail(to)) /\ (Head(to) # ".." => NoneUp(to))
<1>1. PICK r : r = Tail(to)
  OBVIOUS
<1>2. Len(to) \in Nat /\ Len(to) # 0 /\ Head(to) = to[1]
  OBVIOUS
<1>3. Len(r) = Len(to) - 1 /\ \A i \in 1..Len(r) : r[i] = to[i + 1] /\ i + 1 \in 1..Len(to)
  BY <1>1, <1>2
<1>4. ASSUME NEW i \in 1..Len(r), r[i] = "..", NEW j \in 1..i PROVE r[j] = ".."
  <2>1. i + 1 \in 1..Len(to) /\ to[i + 1] = ".." /\ j + 1 \in 1..(i + 1) /\ j \in 1..Len(r)
    BY <1>2, <1>3, <1>4
  <2>2. to[j + 1] = ".."
    BY <2>1 DEF UpFirst
  <2>3. QED
    BY <1>3, <2>1, <2>2
<1>5. UpFirst(r)
  BY <1>4 DEF UpFirst
<1>6. ASSUME Head(to) # "..", NEW i \in 1..Len(to), to[i] = ".." PROVE FALSE
  <2>1. 1 \in 1..i
    BY <1>2
  <2>2. to[1] = ".."
    BY <1>6, <2>1 DEF UpFirst
  <2>3. QED
    BY <1>2, <1>6, <2>2
<1>7. QED
  BY <1>1, <1>5, <1>6 DEF NoneUp

\* From a directory, a walk whose steps upwards come first goes where the cleaned
\* name of it leads from the root.
LEMMA CleanWalk ==
    ASSUME NEW t, IsTree(t), NEW m \in Nat, NEW h \in 0..m, NEW d \in DOMAIN t, t[d] = Dir,
           NEW to \in Seq(STRING), UpFirst(to)
    PROVE  WalkFrom(t, m, TRUE)[<<d, to, h>>] = WalkFrom(t, m, TRUE)[<<<<>>, Clean(d \o to), h>>]
<1>1. PICK w : w = WalkFrom(t, m, TRUE)
  OBVIOUS
<1>2. \A s \in States(m) : w[s] = IF Stops(t, s, m, TRUE) THEN Value(s) ELSE w[Onward(t, s)]
  <2>1. TRUE \in BOOLEAN
    OBVIOUS
  <2>2. QED
    BY <1>1, <2>1, WalkIs
<1> DEFINE Same(e, x) == w[<<e, x, h>>] = w[<<<<>>, Clean(e \o x), h>>]
           Wrong == {x \in Seq(STRING) : UpFirst(x) /\ \E e \in DOMAIN t : t[e] = Dir /\ ~Same(e, x)}
<1>3. ASSUME NEW x \in Wrong PROVE \E y \in Wrong : Len(y) < Len(x)
  <2>1. PICK e \in DOMAIN t : t[e] = Dir /\ ~Same(e, x)
    OBVIOUS
  <2>2. x \in Seq(STRING) /\ UpFirst(x) /\ e \in Seq(STRING) /\ NoneUp(e)
    BY <2>1, TreePaths, TreeNoneUp
  <2>3. ASSUME NoneUp(x) PROVE FALSE
    <3>1. Clean(e \o x) = e \o x
      BY <2>2, <2>3, NoneUpConcat, ConcatProperties, CleanAlready
    <3>2. w[<<<<>>, e \o x, h>>] = w[<<e, x, h>>]
      <4>1. e \in DOMAIN t /\ t[e] = Dir /\ x \in Seq(STRING)
        BY <2>1, <2>2
      <4> HIDE DEF Same, Wrong
      <4>2. WalkFrom(t, m, TRUE)[<<<<>>, e \o x, h>>] = WalkFrom(t, m, TRUE)[<<e, x, h>>]
        BY <4>1, ThroughDirs, ZenonT(40)
      <4>3. QED
        BY <1>1, <4>2
    <3>3. QED
      BY <2>1, <3>1, <3>2
  <2>4. x # <<>>
    BY <2>3 DEF NoneUp
  <2>5. PICK u, r : u = Head(x) /\ r = Tail(x)
    OBVIOUS
  <2>6. u \in STRING /\ r \in Seq(STRING) /\ Len(r) < Len(x) /\ UpFirst(r) /\ u = ".."
    BY <2>2, <2>3, <2>4, <2>5, Parts, UpFirstTail
  <2>7. PICK up : up = IF e = <<>> THEN <<>> ELSE Front(e)
    OBVIOUS
  <2>8. up \in DOMAIN t /\ t[up] = Dir /\ up \in Seq(STRING) /\ NoneUp(up)
    <3>1. up \in DOMAIN t /\ t[up] = Dir
      BY <2>1, <2>7, TreePaths
    <3>2. QED
      BY <3>1, TreePaths, TreeNoneUp
  <2>9. w[<<e, x, h>>] = w[<<up, r, h>>]
    <3>1. PICK s : s = <<e, x, h>>
      OBVIOUS
    <3>2. s \in States(m) /\ s[1] = e /\ s[2] = x /\ s[3] = h
      BY <2>2, <3>1 DEF States
    <3>3. ~Stops(t, s, m, TRUE)
      BY <2>4, <2>5, <2>6, <3>2 DEF Stops
    <3>4. Onward(t, s) = <<up, r, h>>
      BY <2>5, <2>6, <2>7, <3>2 DEF Onward
    <3>5. QED
      BY <1>2, <3>1, <3>2, <3>3, <3>4
  <2>10. Clean(e \o x) = Clean(up \o r)
    <3>1. PICK eu : eu = Append(e, u)
      OBVIOUS
    <3>2. eu \in Seq(STRING) /\ e \o x = eu \o r
      BY <2>2, <2>4, <2>5, <2>6, <3>1, Appended, HeadGoesFirst
    <3>3. Clean(e) = e /\ Clean(up) = up
      BY <2>2, <2>8, CleanAlready
    <3>4. Clean(eu) = up
      BY <2>2, <2>6, <2>7, <3>1, <3>3, CleanOneMore DEF CleanStep
    <3>5. Clean(eu \o r) = Clean(up \o r)
      BY <2>6, <2>8, <3>2, <3>3, <3>4, CleanFurther
    <3>6. QED
      BY <3>2, <3>5
  <2>11. ~Same(up, r)
    BY <2>1, <2>9, <2>10
  <2> HIDE DEF Same
  <2>12. QED
    BY <2>6, <2>8, <2>11
<1>4. Wrong = {}
  <2>1. Wrong \in SUBSET Seq(STRING)
    OBVIOUS
  <2> HIDE DEF Wrong
  <2>2. QED
    BY <1>3, <2>1, NoShortest
<1>5. QED
  BY <1>1, <1>4

-----------------------------------------------------------------------------
(***************************************************************************)
(* A manifest that has the targets of its links.                           *)
(***************************************************************************)

\* What a link of the order leads to and the image has, the order has too.
TargetsListed ==
    \A p \in Range(Order) :
        IsLink(p) /\ InRoot(tree, TargetOf(p)) # NoPath => TargetOf(p) \in Range(Order)

IsClosing(g) ==
    g = [s \in SUBSET Seq(STRING) |-> IF LinkTargets(s) \subseteq s THEN s ELSE g[s \cup LinkTargets(s)]]

LEMMA TargetsGrow ==
    ASSUME NEW s, NEW u, s \subseteq u
    PROVE  LinkTargets(s) \subseteq LinkTargets(u)
  BY DEF LinkTargets

LEMMA LinkIs ==
    ASSUME IsTree(tree), NEW p \in Seq(STRING), IsLink(p), NEW e, e = InRoot(tree, p)
    PROVE  /\ p # <<>> /\ e \in DOMAIN tree /\ tree[e].kind = "link"
           /\ tree[e].to \in Seq(STRING) /\ tree[e].abs \in BOOLEAN
           /\ TargetOf(p) \in Seq(STRING) /\ NoneUp(TargetOf(p))
<1>1. e # NoPath /\ tree[e].kind = "link"
  BY DEF IsLink, LinkAt
<1>2. e \in DOMAIN tree /\ (p = <<>> => tree[e].kind = "dir")
  BY <1>1, InRootIsThere
<1>3. tree[e].to \in Seq(STRING) /\ tree[e].abs \in BOOLEAN
  BY <1>1, <1>2, LinkType
<1>4. p # <<>>
  BY <1>1, <1>2
<1>5. Front(p) \in Seq(STRING)
  BY <1>4, Parts
<1>6. PICK x : x = IF tree[e].abs THEN tree[e].to ELSE Front(p) \o tree[e].to
  OBVIOUS
<1>7. x \in Seq(STRING)
  BY <1>3, <1>5, <1>6, ConcatProperties
<1>8. TargetOf(p) = Clean(x)
  BY <1>6 DEF TargetOf, TargetFrom
<1>9. QED
  BY <1>1, <1>2, <1>3, <1>4, <1>7, <1>8, CleanType

LEMMA TargetsArePaths ==
    ASSUME IsTree(tree), NEW s \in SUBSET Seq(STRING)
    PROVE  LinkTargets(s) \subseteq Seq(STRING)
<1>1. SUFFICES ASSUME NEW p \in s, IsLink(p) PROVE TargetOf(p) \in Seq(STRING)
  BY DEF LinkTargets
<1>2. p \in Seq(STRING)
  OBVIOUS
<1>3. QED
  BY <1>1, <1>2, LinkIs

\* The smallest closed set around each set makes a function that closes sets.
LEMMA ClosingExists ==
    ASSUME IsTree(tree)
    PROVE  \E g : IsClosing(g)
<1> DEFINE All == SUBSET Seq(STRING)
           Around(s) == {x \in Seq(STRING) :
                            \A c \in All : s \subseteq c /\ LinkTargets(c) \subseteq c => x \in c}
           g == [s \in All |-> Around(s)]
<1>1. ASSUME NEW s \in All, LinkTargets(s) \subseteq s PROVE Around(s) = s
  BY <1>1
<1>2. ASSUME NEW s \in All PROVE /\ s \cup LinkTargets(s) \in All
                                 /\ Around(s \cup LinkTargets(s)) = Around(s)
  <2>1. LinkTargets(s) \subseteq Seq(STRING)
    BY TargetsArePaths
  <2>2. ASSUME NEW c \in All, s \subseteq c, LinkTargets(c) \subseteq c
        PROVE  s \cup LinkTargets(s) \subseteq c
    BY <2>2, TargetsGrow
  <2>3. QED
    BY <2>1, <2>2
<1>3. ASSUME NEW s \in All
      PROVE  g[s] = IF LinkTargets(s) \subseteq s THEN s ELSE g[s \cup LinkTargets(s)]
  <2>1. g[s] = Around(s) /\ g[s \cup LinkTargets(s)] = Around(s)
    <3>1. PICK u : u = s \cup LinkTargets(s)
      OBVIOUS
    <3>2. u \in All /\ Around(u) = Around(s)
      BY <1>2, <3>1
    <3> HIDE DEF Around, All
    <3>3. g[u] = Around(u) /\ g[s] = Around(s)
      BY <3>2
    <3>4. QED
      BY <3>1, <3>2, <3>3
  <2> HIDE DEF Around, g
  <2>2. QED
    BY <1>1, <2>1
<1>4. g = [s \in All |-> g[s]]
  OBVIOUS
<1>5. g = [s \in All |-> IF LinkTargets(s) \subseteq s THEN s ELSE g[s \cup LinkTargets(s)]]
  <2> HIDE DEF g, All
  <2>1. QED
    BY <1>3, <1>4
<1>6. QED
  BY <1>5 DEF IsClosing

LEMMA ExpandedIs ==
    ASSUME IsTree(tree), NEW ps
    PROVE  \E g : IsClosing(g) /\ Expanded(ps) = g[ps]
<1>1. PICK g : g = CHOOSE x : IsClosing(x)
  OBVIOUS
<1>2. IsClosing(g)
  BY <1>1, ClosingExists
<1>3. Expanded(ps) = g[ps]
  BY <1>1 DEF Expanded, IsClosing
<1>4. QED
  BY <1>2, <1>3

\* Among finitely many paths the expansion comes to an end, and it adds only what it must.
LEMMA ExpandedCloses ==
    ASSUME IsTree(tree), InOrder, TargetsListed, NEW ps, ps \subseteq Range(Order)
    PROVE  /\ ps \subseteq Expanded(ps) /\ Expanded(ps) \subseteq Range(Order)
           /\ LinkTargets(Expanded(ps)) \subseteq Expanded(ps)
           /\ \A c : ps \subseteq c /\ LinkTargets(c) \subseteq c => Expanded(ps) \subseteq c
<1>1. PICK g : IsClosing(g) /\ Expanded(ps) = g[ps]
  BY ExpandedIs
<1>2. PICK R : R = Range(Order)
  OBVIOUS
<1>3. R \subseteq Seq(STRING) /\ IsFiniteSet(R)
  <2>1. Len(Order) \in Nat /\ DOMAIN Order = 1..Len(Order) /\ Range(Order) \subseteq Seq(STRING)
    BY DEF InOrder, Range
  <2>2. IsFiniteSet(1..Len(Order))
    BY <2>1, FS_Interval
  <2>3. Order \in Surjection(1..Len(Order), Range(Order))
    BY <2>1 DEF Surjection, Range, InOrder
  <2>4. IsFiniteSet(Range(Order))
    BY <2>2, <2>3, FS_Surjection
  <2>5. QED
    BY <1>2, <2>1, <2>4
<1> DEFINE Closes(s) == /\ s \subseteq g[s] /\ g[s] \subseteq R /\ LinkTargets(g[s]) \subseteq g[s]
                        /\ \A c : s \subseteq c /\ LinkTargets(c) \subseteq c => g[s] \subseteq c
           Bad == {s \in SUBSET R : ~Closes(s)}
           Rest(s) == Cardinality(R \ s)
           Rests == {Rest(s) : s \in Bad}
<1>4. ASSUME NEW s \in SUBSET R PROVE Rest(s) \in Nat
  <2>1. IsFiniteSet(R \ s)
    BY <1>3, FS_Subset
  <2>2. QED
    BY <2>1, FS_CardinalityType
<1>5. ASSUME NEW s \in Bad PROVE \E u \in Bad : Rest(u) < Rest(s)
  <2>1. s \in SUBSET Seq(STRING) /\ s \in SUBSET R /\ ~Closes(s)
    BY <1>3
  <2>2. g[s] = IF LinkTargets(s) \subseteq s THEN s ELSE g[s \cup LinkTargets(s)]
    BY <1>1, <2>1 DEF IsClosing
  <2>3. ~(LinkTargets(s) \subseteq s)
    BY <2>1, <2>2
  <2>4. PICK u : u = s \cup LinkTargets(s)
    OBVIOUS
  <2>5. u \in SUBSET R
    <3>1. SUFFICES ASSUME NEW p \in s, IsLink(p), InRoot(tree, TargetOf(p)) # NoPath
                   PROVE  TargetOf(p) \in R
      BY <2>1, <2>4 DEF LinkTargets
    <3>2. QED
      BY <1>2, <2>1, <3>1 DEF TargetsListed
  <2>6. g[s] = g[u] /\ s \subseteq u /\ u # s
    BY <2>2, <2>3, <2>4
  <2>7. ~Closes(u)
    <3>1. SUFFICES ASSUME Closes(u) PROVE Closes(s)
      BY <2>1
    <3>2. ASSUME NEW c, s \subseteq c, LinkTargets(c) \subseteq c PROVE g[s] \subseteq c
      <4>1. LinkTargets(s) \subseteq LinkTargets(c)
        BY <3>2, TargetsGrow
      <4>2. u \subseteq c
        BY <2>4, <3>2, <4>1
      <4>3. QED
        BY <2>6, <3>1, <3>2, <4>2
    <3>3. QED
      BY <2>6, <3>1, <3>2
  <2>8. Rest(u) < Rest(s)
    <3>1. PICK a, b : a = R \ u /\ b = R \ s
      OBVIOUS
    <3>2. IsFiniteSet(b) /\ a \subseteq b /\ a # b
      BY <1>3, <2>1, <2>5, <2>6, <3>1, FS_Subset
    <3>3. /\ Cardinality(a) \in Nat /\ Cardinality(b) \in Nat
          /\ Cardinality(a) <= Cardinality(b) /\ Cardinality(b) # Cardinality(a)
      BY <3>2, FS_Subset, FS_CardinalityType
    <3>4. Cardinality(a) < Cardinality(b)
      BY <3>3
    <3>5. QED
      BY <3>1, <3>4
  <2> HIDE DEF Closes
  <2>9. QED
    BY <2>5, <2>7, <2>8
<1>6. Bad = {}
  <2>1. SUFFICES ASSUME Bad # {} PROVE FALSE
    OBVIOUS
  <2> HIDE DEF Rest, Closes
  <2>2. Rests \in SUBSET Nat /\ Rests # {}
    BY <1>4, <2>1
  <2>3. PICK n \in Rests : \A k \in Rests : n <= k
    BY <2>2, Least
  <2>4. PICK s \in Bad : Rest(s) = n
    BY <2>3
  <2>5. PICK u \in Bad : Rest(u) < Rest(s)
    BY <1>5
  <2>6. Rest(u) \in Nat /\ Rest(s) \in Nat /\ n <= Rest(u)
    BY <1>4, <2>3
  <2>7. QED
    BY <2>4, <2>5, <2>6
<1>7. Closes(ps)
  BY <1>2, <1>6
<1>8. QED
  BY <1>1, <1>2, <1>7

-----------------------------------------------------------------------------
(***************************************************************************)
(* Every path of the manifest has its place in the order.                  *)
(***************************************************************************)

AllListed == DOMAIN files \subseteq Range(Order)

OptionsListed ==
    /\ {e[1] : e \in opts.ensures} \subseteq Range(Order)
    /\ \A incl \in opts.includes : Included(incl) \subseteq Range(Order)

ListedInv == image \in Images /\ AllListed /\ OptionsListed

LEMMA Grown == ASSUME NEW fs, NEW ps, NEW s PROVE DOMAIN AddNew(fs, ps, s) = DOMAIN fs \cup ps
BY DEF AddNew

LEMMA OrderLists ==
    ASSUME image \in Images
    PROVE  /\ TargetsListed
           /\ DOMAIN tree \ {<<>>} \subseteq Range(Order)
           /\ image.elf \subseteq Range(Order)
           /\ Range(FinalOf) \cup Range(SourceOf) \cup Scratch \subseteq Range(Order)
<1>1. /\ Range(FinalOf) \cup Range(SourceOf) \subseteq Range(Order)
      /\ Essentials \cup {CertBundle} \cup Range(Linkers) \subseteq Range(Order)
      /\ (DOMAIN tree \ {<<>>}) \cup image.elf \cup NamesIn(tree, CertDir) \subseteq Range(Order)
      /\ \A p \in Range(Order) :
            LinkAt(tree, p) /\ InRoot(tree, TargetFrom(tree, p)) # NoPath =>
                TargetFrom(tree, p) \in Range(Order)
  BY ListedAssumption, Zenon DEF tree
<1>2. TargetsListed
  BY <1>1 DEF TargetsListed, IsLink, TargetOf
<1>3. Linker \subseteq Range(Linkers)
  BY DEF Linker, Range
<1>4. Scratch \subseteq Range(Order)
  BY <1>1, <1>3 DEF Scratch, Certificates
<1>5. QED
  BY <1>1, <1>2, <1>4

LEMMA ListedInit == Init => ListedInv
<1> SUFFICES ASSUME Init PROVE ListedInv
  OBVIOUS
<1>1. image \in Images /\ observed \in Observations /\ opts \in Options /\ files = observed
  BY DEF Init
<1>2. DOMAIN files \subseteq Range(Order)
  BY <1>1, ListedAssumption
<1>3. {e[1] : e \in opts.ensures} \subseteq Range(Order)
  BY <1>1, OrderAssumption
<1>4. \A incl \in opts.includes : IncludedFrom(tree, incl) \subseteq Range(Order)
  BY <1>1, ListedAssumption, Zenon DEF tree
<1>5. QED
  BY <1>1, <1>2, <1>3, <1>4 DEF ListedInv, AllListed, OptionsListed, Included

LEMMA ListedStep == ListedInv /\ [Next]_vars => ListedInv'
<1> SUFFICES ASSUME ListedInv, [Next]_vars PROVE ListedInv'
  OBVIOUS
<1>1. image' = image /\ opts' = opts /\ tree' = tree /\ IsTree(tree) /\ InOrder
  BY Writers, Givens DEF inputs, tree, ListedInv
<1>2. image' \in Images /\ OptionsListed'
  BY <1>1 DEF ListedInv, OptionsListed, Included
<1>3. PICK R : R = Range(Order)
  OBVIOUS
<1>4. /\ DOMAIN files \subseteq R /\ TargetsListed /\ image.elf \subseteq R
      /\ Range(FinalOf) \cup Range(SourceOf) \cup Scratch \subseteq R
  BY <1>3, OrderLists DEF ListedInv, AllListed
<1>5. {e[1] : e \in opts.ensures} \subseteq R /\ \A incl \in opts.includes : Included(incl) \subseteq R
  BY <1>3 DEF ListedInv, OptionsListed
<1>6. ASSUME ResolveELF PROVE DOMAIN files' \subseteq R
  <2>1. files' = AddNew(files, image.elf, "inferred-elf")
    BY <1>6 DEF ResolveELF
  <2>2. DOMAIN files' = DOMAIN files \cup image.elf
    BY <2>1, Grown, Zenon
  <2>3. QED
    BY <1>4, <2>2
<1>7. ASSUME ResolveRuntimeCompanions PROVE DOMAIN files' \subseteq R
  <2>1. PICK fs : (\E of : fs = Normalised(files, of)) /\ files' = AddNew(fs, Companions(fs), "inferred-runtime")
    BY <1>7 DEF ResolveRuntimeCompanions
  <2>2. DOMAIN fs \subseteq R
    <3>1. {FinalOf[p] : p \in DOMAIN files \cap DOMAIN FinalOf} \subseteq Range(FinalOf)
      BY DEF Range
    <3>2. DOMAIN fs \subseteq DOMAIN files \cup {FinalOf[p] : p \in DOMAIN files \cap DOMAIN FinalOf}
      BY <2>1 DEF Normalised, FinalNames
    <3>3. QED
      BY <1>4, <3>1, <3>2
  <2>3. Companions(fs) \subseteq R
    <3>1. Companions(fs) \subseteq Range(SourceOf)
      BY DEF Companions, Range
    <3>2. QED
      BY <1>4, <3>1
  <2>4. files' = AddNew(fs, Companions(fs), "inferred-runtime")
    BY <1>7, <2>1 DEF ResolveRuntimeCompanions
  <2>5. DOMAIN files' = DOMAIN fs \cup Companions(fs)
    BY <2>4, Grown, Zenon
  <2>6. QED
    BY <1>3, <2>2, <2>3, <2>5
<1>8. ASSUME CheckScratchCompat PROVE DOMAIN files' \subseteq R
  <2>1. files' = AddNew(files, Scratch, "scratch-compat")
    BY <1>8 DEF CheckScratchCompat
  <2>2. DOMAIN files' = DOMAIN files \cup Scratch
    BY <2>1, Grown, Zenon
  <2>3. QED
    BY <1>4, <2>2
<1>9. ASSUME ApplyDirectoryInclusion PROVE DOMAIN files' \subseteq R
  <2>1. UNION {Included(incl) : incl \in opts.includes} \subseteq R
    BY <1>5
  <2>2. files' = AddNew(files, UNION {Included(incl) : incl \in opts.includes}, "directory-inclusion")
    BY <1>9 DEF ApplyDirectoryInclusion
  <2>3. DOMAIN files' = DOMAIN files \cup UNION {Included(incl) : incl \in opts.includes}
    BY <2>2, Grown, Zenon
  <2>4. QED
    BY <1>4, <2>1, <2>3
<1>10. ASSUME EnsurePaths PROVE DOMAIN files' \subseteq R
  <2>1. files' = files \/ files' = ApplyEnsurePaths(files, opts.ensures)
    BY <1>10 DEF EnsurePaths
  <2>2. DOMAIN files' \subseteq DOMAIN files \cup {e[1] : e \in opts.ensures}
    BY <2>1 DEF ApplyEnsurePaths
  <2>3. QED
    BY <1>3, <1>4, <1>5, <2>2
<1>11. ASSUME ExpandSymlinkTargets PROVE DOMAIN files' \subseteq R
  <2>1. Expanded(DOMAIN files) \subseteq R
    BY <1>1, <1>3, <1>4, ExpandedCloses
  <2>2. files' = AddNew(files, Expanded(DOMAIN files), "symlink-target")
    BY <1>11 DEF ExpandSymlinkTargets
  <2>3. DOMAIN files' = DOMAIN files \cup Expanded(DOMAIN files)
    BY <2>2, Grown, Zenon
  <2>4. QED
    BY <1>3, <1>4, <2>1, <2>3
<1>12. ASSUME UNCHANGED files PROVE DOMAIN files' \subseteq R
  BY <1>4, <1>12
<1>13. DOMAIN files' \subseteq R
  BY <1>6, <1>7, <1>8, <1>9, <1>10, <1>11, <1>12
     DEF Next, vars, StepFails, OpenLayer, PeekStores, DigestLayer, Finish
<1>14. Range(Order)' = R
  BY <1>3 DEF Range
<1>15. QED
  BY <1>2, <1>13, <1>14 DEF ListedInv, AllListed

\* The order has every path the manifest gets, whatever the build completes it with: so
\* the writer of the layer, which goes through the order, leaves none out.
LEMMA Listed == Spec => []ListedInv
  BY ListedInit, ListedStep, PTL DEF Spec

-----------------------------------------------------------------------------
(***************************************************************************)
(* How many entries are held back.                                         *)
(***************************************************************************)

\* The count that will be, or has been, reported.
Count == IF phase = "result" THEN skipped ELSE result.skipped

SkipInv ==
    phase \in {"result", "built"} =>
        Count <= Cardinality(Hidden) /\ (peek # "late" => Count = Cardinality(Hidden))

LEMMA WrittenCount ==
    ASSUME LayerInv, AllListed
    PROVE  /\ Cardinality(Hidden) \in Nat /\ Written(files).skipped \in Nat
           /\ Written(files).skipped <= Cardinality(Hidden)
           /\ ~Written(files).failed => Written(files).skipped = Cardinality(Hidden)
<1>1. InOrder /\ IsTree(tree)
  BY Givens DEF LayerInv
<1>2. Good(files, Written(files), Len(Order))
  BY <1>1, WholeLayer
<1>3. CountOK(files, Written(files), Len(Order)) /\ Written(files).skipped \in Nat
  BY <1>1, <1>2 DEF Good, AllListed, LayerOK
<1>4. HiddenTo(files, Len(Order)) = Hidden
  <2>1. HiddenIn(files) = Hidden
    BY DEF HiddenIn, Hidden
  <2>2. DOMAIN Order = 1..Len(Order)
    BY <1>1 DEF InOrder
  <2>3. \A p \in DOMAIN files : \E j \in 1..Len(Order) : p = Order[j]
    BY <2>2 DEF AllListed, Range
  <2>4. \A p \in Hidden : p \in DOMAIN files
    BY DEF Hidden
  <2>5. QED
    BY <2>1, <2>3, <2>4 DEF HiddenTo
<1>5. QED
  BY <1>3, <1>4, FS_CardinalityType DEF CountOK

LEMMA SkipStep == LayerInv /\ AllListed /\ SkipInv /\ [Next]_vars => SkipInv'
<1> SUFFICES ASSUME LayerInv, AllListed, SkipInv, [Next]_vars, phase' \in {"result", "built"}
             PROVE  Count' <= Cardinality(Hidden') /\ (peek' # "late" => Count' = Cardinality(Hidden'))
  BY DEF SkipInv
<1>1. PICK c \in Nat : c = Cardinality(Hidden)
  BY WrittenCount
<1>2. tree' = tree
  BY Writers DEF inputs, tree
<1>3. files' = files => Hidden' = Hidden
  BY <1>2 DEF Hidden
<1>4. Written(files).skipped \in Nat /\ Written(files).skipped <= c
      /\ (~Written(files).failed => Written(files).skipped = c)
  BY <1>1, WrittenCount
<1>5. CASE DigestLayer
  <2>1. /\ phase' = "result" /\ ~Written(files).failed /\ skipped' = Written(files).skipped
        /\ files' = files
    BY <1>5 DEF DigestLayer, Step
  <2>2. Count' = c /\ Cardinality(Hidden') = c
    BY <1>1, <1>3, <1>4, <2>1 DEF Count
  <2>3. QED
    BY <2>2
<1>6. CASE PeekStores
  <2>1. /\ skipped' \in 0..Written(files).skipped
        /\ peek = "running" /\ (phase = "result" => peek' = "late")
        /\ UNCHANGED <<files, phase, result>>
    BY <1>6 DEF PeekStores
  <2>2. Cardinality(Hidden') = c
    BY <1>1, <1>3, <2>1
  <2>3. CASE phase = "result"
    <3>1. Count' = skipped'
      BY <2>1, <2>3 DEF Count
    <3>2. skipped' <= c
      BY <1>4, <2>1
    <3>3. QED
      BY <2>1, <2>2, <2>3, <3>1, <3>2
  <2>4. CASE phase = "built"
    <3>1. Count' = result.skipped /\ Count = result.skipped
      BY <2>1, <2>4 DEF Count
    <3>2. result.skipped = c
      BY <1>1, <2>1, <2>4, <3>1 DEF SkipInv
    <3>3. QED
      BY <2>1, <2>2, <3>1, <3>2
  <2>5. QED
    BY <2>1, <2>3, <2>4
<1>7. ASSUME NEW scanned \in BOOLEAN, Finish(scanned)
      PROVE  Count' <= Cardinality(Hidden') /\ (peek' # "late" => Count' = Cardinality(Hidden'))
  <2>1. /\ phase = "result" /\ phase' = "built" /\ result'.skipped = skipped
        /\ UNCHANGED <<files, peek>>
    BY <1>7 DEF Finish, Step
  <2>2. Count' = skipped /\ Count = skipped /\ Cardinality(Hidden') = c
    BY <1>1, <1>3, <2>1 DEF Count
  <2>3. QED
    BY <1>1, <2>1, <2>2 DEF SkipInv
<1>8. CASE UNCHANGED vars
  <2>1. files' = files /\ UNCHANGED <<phase, skipped, result, peek>>
    BY <1>8 DEF vars
  <2>2. Count' = Count /\ Cardinality(Hidden') = c
    BY <1>1, <1>3, <2>1 DEF Count
  <2>3. QED
    BY <1>1, <2>1, <2>2 DEF SkipInv
<1>9. CASE \/ StepFails \/ ResolveELF \/ ResolveRuntimeCompanions \/ CheckScratchCompat
           \/ ApplyDirectoryInclusion \/ EnsurePaths \/ ExpandSymlinkTargets \/ OpenLayer
  BY <1>9 DEF StepFails, ResolveELF, ResolveRuntimeCompanions, CheckScratchCompat,
              ApplyDirectoryInclusion, EnsurePaths, ExpandSymlinkTargets, OpenLayer, Step
<1>10. QED
  BY <1>5, <1>6, <1>7, <1>8, <1>9 DEF Next

\* A closed layer is a tree.
LEMMA ClosedIsTree ==
    ASSUME LayerInv
    PROVE  TypeOK
<1>1. ASSUME NEW p \in DOMAIN layer \ {<<>>}
      PROVE  Front(p) \in DOMAIN layer /\ layer[Front(p)].kind = "dir"
  <2>1. p \in Seq(STRING) /\ p # <<>>
    BY DEF LayerInv, Closed
  <2>2. CASE Front(p) = <<>>
    BY <2>2 DEF LayerInv, Closed, Dir
  <2>3. CASE Front(p) # <<>>
    BY <2>1, <2>3, FrontIsAncestor DEF LayerInv, Closed
  <2>4. QED
    BY <2>2, <2>3
<1>2. QED
  BY <1>1 DEF LayerInv, Closed, TypeOK, Has

\* The layer is at every moment a tree, everything in it lying in a directory,
\* and the skip count one of entries: whatever the manifest lists, and whether
\* or not the image has the parents (writeTarEntriesCounting, builder.go:664).
THEOREM TypeCorrect == Spec => []TypeOK
<1>1. Init => LayerInv
  BY LayerInit
<1>2. LayerInv /\ [Next]_vars => LayerInv'
  BY LayerStep
<1>3. LayerInv => TypeOK
  BY ClosedIsTree
<1>4. QED
  BY <1>1, <1>2, <1>3, PTL DEF Spec

\* A build that succeeds has in its layer what --mkdir and --touch asked for, if
\* the manifest had not listed the path: no later entry, no parent directory and
\* no link target takes its place, and a build that could not write it has
\* failed (checkEnsurePaths and builder.go:703).
THEOREM EnsuredUnlessListedHolds == Spec => []EnsuredUnlessListed
<1>1. Init => LayerInv /\ AskedInv /\ KeptInv
  <2>1. Init => AskedInv /\ KeptInv
    BY DEF Init, AskedInv, KeptInv
  <2>2. QED
    BY <2>1, LayerInit
<1>2. LayerInv /\ AskedInv /\ KeptInv /\ [Next]_vars => (LayerInv /\ AskedInv /\ KeptInv)'
  BY LayerStep, AskedStep, KeptStep
<1>3. KeptInv => EnsuredUnlessListed
  BY DEF KeptInv, EnsuredInLayer, EnsuredUnlessListed, Built
<1>4. QED
  BY <1>1, <1>2, <1>3, PTL DEF Spec

\* What the image has, a finished layer has as it is, under every name: no file
\* and no dangling link of the image has become a directory, be it probed from
\* below or asked for by --mkdir; what stands for a linked directory may be one
\* (nonDirAncestor, inroot.go:113, and writeTarEntriesCounting, builder.go:664).
THEOREM KindsAgreeHolds == Spec => []KindsAgree
<1>1. Init => LayerInv /\ AgreeInv
  BY LayerInit, AgreeInit
<1>2. LayerInv /\ AgreeInv /\ [Next]_vars => (LayerInv /\ AgreeInv)'
  BY LayerStep, AgreeInvStep
<1>3. AgreeInv => KindsAgree
  BY DEF AgreeInv, AllAgree, Agrees, KindsAgree
<1>4. QED
  BY <1>1, <1>2, <1>3, PTL DEF Spec

\* The skip count of the result is the number of manifest paths below something
\* that is no directory, in the image or because --touch made it a file; only the
\* writer whose reader was closed early can make it smaller, if it stores after the
\* digest (skippedProbes, builder.go:295).
THEOREM SkipCountBoundedHolds == Spec => []SkipCountBounded
<1>1. Init => LayerInv /\ SkipInv
  BY LayerInit DEF Init, SkipInv
<1>2. LayerInv /\ AllListed /\ SkipInv /\ [Next]_vars => (LayerInv /\ SkipInv)'
  BY LayerStep, SkipStep
<1>3. SkipInv => SkipCountBounded
  BY DEF SkipInv, SkipCountBounded, Built, Count
<1>4. ListedInv => AllListed
  BY DEF ListedInv
<1>5. QED
  BY <1>1, <1>2, <1>3, <1>4, Listed, PTL DEF Spec

-----------------------------------------------------------------------------
(***************************************************************************)
(* What a build is told to include or create, and the image has.           *)
(***************************************************************************)

\* A path that goes on from another is the other one and the rest.
LEMMA PrefixAndRest ==
    ASSUME NEW p \in Seq(STRING), NEW q \in Seq(STRING), IsPrefix(p, q)
    PROVE  p \o SubSeq(q, Len(p) + 1, Len(q)) = q
<1>1. Len(p) \in Nat /\ Len(q) \in Nat /\ Len(p) =< Len(q)
  BY DEF IsPrefix
<1>2. SubSeq(q, 1, Len(p)) = p
  <2>1. SubSeq(p, 1, Len(p)) = p
    BY SubSeqFull
  <2>2. QED
    BY <2>1 DEF IsPrefix
<1>3. PICK r : r = SubSeq(q, Len(p) + 1, Len(q))
  OBVIOUS
<1>4. r \in Seq(STRING) /\ Len(r) = Len(q) - Len(p)
      /\ \A i \in 1..Len(r) : r[i] = q[Len(p) + i]
  BY <1>1, <1>3
<1>5. \A i \in 1..Len(p) : p[i] = q[i]
  BY <1>1, <1>2
<1>6. /\ p \o r \in Seq(STRING) /\ Len(p \o r) = Len(p) + Len(r)
      /\ \A i \in 1..Len(p) + Len(r) :
            (p \o r)[i] = IF i <= Len(p) THEN p[i] ELSE r[i - Len(p)]
  BY <1>4, ConcatProperties
<1>7. Len(p \o r) = Len(q)
  BY <1>1, <1>4, <1>6
<1>8. ASSUME NEW i \in 1..Len(p \o r) PROVE (p \o r)[i] = q[i]
  <2>1. i \in 1..Len(p) + Len(r) /\ i \in Nat
    BY <1>6, <1>7, <1>1
  <2>2. CASE i <= Len(p)
    BY <1>1, <1>5, <1>6, <2>1, <2>2
  <2>3. CASE ~(i <= Len(p))
    <3>1. i - Len(p) \in 1..Len(r) /\ Len(p) + (i - Len(p)) = i
      BY <1>1, <1>4, <2>1, <2>3
    <3>2. QED
      BY <1>4, <1>6, <2>1, <2>3, <3>1
  <2>4. QED
    BY <2>2, <2>3
<1>9. p \o r = q
  BY <1>6, <1>7, <1>8, SeqEqual
<1>10. QED
  BY <1>3, <1>9

\* An --include of a path of the image includes the files of the image there.
LEMMA FileIncluded ==
    ASSUME IsTree(tree), NEW p \in DOMAIN tree, NEW q \in DOMAIN tree,
           IsPrefix(p, q), tree[q].kind # "dir"
    PROVE  q \in Included(p)
<1>1. IsPrefix(p, q) /\ tree[q].kind # "dir"
  OBVIOUS
<1>2. p \in Seq(STRING) /\ q \in Seq(STRING)
  BY TreePaths
<1>3. OnHost(tree, p) = p /\ p # NoPath
  BY FoundInPlace
<1>4. q \in {r \in Below(tree, p) \cup {p} : tree[r].kind # "dir"}
  BY <1>1 DEF Below, IsStrictPrefix
<1>5. p \o SubSeq(q, Len(p) + 1, Len(q)) = q
  BY <1>1, <1>2, PrefixAndRest
<1>6. QED
  <2>1. Included(p) = {p \o SubSeq(x, Len(p) + 1, Len(x)) :
                          x \in {r \in Below(tree, p) \cup {p} : tree[r].kind # "dir"}}
    BY <1>3 DEF Included, IncludedFrom
  <2>2. QED
    BY <1>4, <1>5, <2>1

\* A path of the image is above or is what is included for it.
LEMMA IncludedForIt ==
    ASSUME IsTree(tree), NEW p \in DOMAIN tree, HoldsFile(tree, p)
    PROVE  \E q \in Included(p) : q \in DOMAIN tree /\ IsPrefix(p, q)
  BY FileIncluded DEF HoldsFile

\* All that is included for a path of the image are paths of the image.
LEMMA IncludedOfTree ==
    ASSUME IsTree(tree), NEW p \in DOMAIN tree
    PROVE  Included(p) \subseteq DOMAIN tree \ {<<>>}
<1>1. OnHost(tree, p) = p /\ p # NoPath
  BY FoundInPlace
<1>2. Included(p) = {p \o SubSeq(x, Len(p) + 1, Len(x)) :
                        x \in {r \in Below(tree, p) \cup {p} : tree[r].kind # "dir"}}
  BY <1>1 DEF Included, IncludedFrom
<1>3. ASSUME NEW x \in Below(tree, p) \cup {p}, tree[x].kind # "dir"
      PROVE  p \o SubSeq(x, Len(p) + 1, Len(x)) \in DOMAIN tree \ {<<>>}
  <2>1. x \in DOMAIN tree /\ p \in Seq(STRING) /\ x \in Seq(STRING)
    BY TreePaths DEF Below
  <2>2. IsPrefix(p, x)
    BY <2>1, SubSeqFull DEF Below, IsStrictPrefix, IsPrefix
  <2>3. p \o SubSeq(x, Len(p) + 1, Len(x)) = x
    BY <2>1, <2>2, PrefixAndRest
  <2>4. x # <<>>
    BY <1>3 DEF IsTree, Dir
  <2>5. QED
    BY <2>1, <2>3, <2>4
<1>4. QED
  BY <1>2, <1>3

\* What the manifest lists and the image has, a layer that is written has.
LEMMA ListedIsWritten ==
    ASSUME InOrder, IsTree(tree), NEW fs, DOMAIN fs \subseteq Range(Order), ~Written(fs).failed,
           NEW p \in DOMAIN fs, InRoot(tree, p) # NoPath
    PROVE  p \in DOMAIN Written(fs).tree
<1>1. PICK all, N : all = Written(fs) /\ N = Len(Order)
  OBVIOUS
<1>2. Good(fs, all, N)
  BY <1>1, WholeLayer
<1>3. EntriesThere(fs, all, N) /\ CountOK(fs, all, N) /\ ~all.failed
  BY <1>1, <1>2 DEF Good
<1>4. PICK j \in 1..N : Order[j] = p
  BY <1>1 DEF InOrder, Range
<1>5. p \in Seq(STRING) /\ Cleaned(p)
  BY <1>1, <1>4 DEF InOrder
<1>6. \A a \in Ancestors(p) : InRoot(tree, a) # NoPath /\ AncestorIsDir(tree, a) = "dir"
  BY <1>5, DirsOnTheWay
<1>7. NonDirAncestor(tree, p) = NoPath
  <2>1. ~\E a \in Ancestors(p) : AncestorIsDir(tree, a) = "blocked"
    BY <1>6
  <2>2. j \in 1..Len(Order)
    BY <1>1
  <2>3. QED
    BY <1>4, <2>1, <2>2, HeldBack
<1>8. Ancestors(p) \cap all.nonDirs = {}
  <2>1. SUFFICES ASSUME NEW a \in Ancestors(p), a \in all.nonDirs PROVE FALSE
    OBVIOUS
  <2>2. Blocks(fs, a)
    BY <1>3, <2>1 DEF CountOK
  <2>3. QED
    BY <1>6, <2>2 DEF Blocks
<1>9. ~Blocked(all, p)
  BY <1>7, <1>8 DEF Blocked
<1>10. EntryThere(fs, all, p)
  BY <1>3, <1>4, <1>9 DEF EntriesThere
<1>11. QED
  BY <1>1, <1>10 DEF EntryThere

\* The manifest has what the flags ask for once it has been told, and then the layer.
Told == {"ensure", "expand", "open", "digest", "result", "built"}

IncludedInv ==
    \A p \in opts.includes \cap DOMAIN tree :
        /\ HoldsFile(tree, p)
        /\ phase \in Told => \E q \in DOMAIN files \cap DOMAIN tree : IsPrefix(p, q)

EnsuredInv ==
    phase \in Told \ {"ensure"} => \A e \in opts.ensures : e[1] \in DOMAIN files

WrittenInv ==
    phase \in {"result", "built"} =>
        Closed(layer) /\ \A p \in DOMAIN files \cap DOMAIN tree : p \in DOMAIN layer

FlagsInv == image \in Images /\ IncludedInv /\ EnsuredInv /\ WrittenInv

\* How the manifest changes: once it has what the flags ask for it only grows.
LEMMA ManifestGrows ==
    ASSUME [Next]_vars
    PROVE  \/ phase' \notin Told
           \/ ApplyDirectoryInclusion
           \/ EnsurePaths
           \/ phase \in Told \ {"ensure"} /\ DOMAIN files \subseteq DOMAIN files'
           \/ phase = "ensure" /\ phase' = "ensure" /\ files' = files
<1>1. CASE ExpandSymlinkTargets
  <2>1. files' = AddNew(files, Expanded(DOMAIN files), "symlink-target") /\ phase = "expand"
    BY <1>1 DEF ExpandSymlinkTargets, Step
  <2>2. DOMAIN files' = DOMAIN files \cup Expanded(DOMAIN files)
    BY <2>1, Grown, Zenon
  <2>3. QED
    BY <2>1, <2>2 DEF Told
<1>2. CASE OpenLayer
  BY <1>2 DEF OpenLayer, Step, Told
<1>3. CASE DigestLayer
  BY <1>3 DEF DigestLayer, Step, Told
<1>4. ASSUME NEW scanned \in BOOLEAN, Finish(scanned)
      PROVE  phase \in Told \ {"ensure"} /\ DOMAIN files \subseteq DOMAIN files'
  BY <1>4 DEF Finish, Step, Told
<1>5. CASE PeekStores \/ UNCHANGED vars
  <2>1. files' = files /\ phase' = phase
    BY <1>5 DEF PeekStores, vars
  <2>2. QED
    BY <2>1 DEF Told
<1>6. CASE StepFails \/ ResolveELF \/ ResolveRuntimeCompanions \/ CheckScratchCompat
  BY <1>6 DEF StepFails, ResolveELF, ResolveRuntimeCompanions, CheckScratchCompat, Step, Told
<1>7. QED
  BY <1>1, <1>2, <1>3, <1>4, <1>5, <1>6 DEF Next

LEMMA IncludedStep == FlagsInv /\ [Next]_vars => IncludedInv'
<1> SUFFICES ASSUME FlagsInv, [Next]_vars PROVE IncludedInv'
  OBVIOUS
<1>1. opts' = opts /\ tree' = tree /\ IsTree(tree)
  BY Writers, Givens DEF inputs, tree, FlagsInv
<1>2. ASSUME NEW p \in opts.includes \cap DOMAIN tree, phase' \in Told
      PROVE  \E q \in DOMAIN files' \cap DOMAIN tree : IsPrefix(p, q)
  <2>1. HoldsFile(tree, p)
        /\ (phase \in Told => \E q \in DOMAIN files \cap DOMAIN tree : IsPrefix(p, q))
    BY DEF FlagsInv, IncludedInv
  <2>2. CASE ApplyDirectoryInclusion
    <3>1. PICK q \in Included(p) : q \in DOMAIN tree /\ IsPrefix(p, q)
      BY <1>1, <2>1, IncludedForIt
    <3>2. DOMAIN files' = DOMAIN files \cup UNION {Included(incl) : incl \in opts.includes}
      BY <2>2, Grown DEF ApplyDirectoryInclusion
    <3>3. q \in DOMAIN files'
      BY <3>1, <3>2
    <3>4. QED
      BY <3>1, <3>3
  <2>3. CASE phase \in Told /\ DOMAIN files \subseteq DOMAIN files'
    BY <2>1, <2>3
  <2>4. CASE EnsurePaths
    <3>1. phase = "ensure" /\ (files' = files \/ files' = ApplyEnsurePaths(files, opts.ensures))
      BY <2>4 DEF EnsurePaths, Step
    <3>2. phase \in Told /\ DOMAIN files \subseteq DOMAIN files'
      BY <3>1 DEF ApplyEnsurePaths, Told
    <3>3. QED
      BY <2>3, <3>2
  <2>5. CASE phase = "ensure" /\ files' = files
    BY <2>1, <2>5 DEF Told
  <2>6. QED
    BY <1>2, <2>2, <2>3, <2>4, <2>5, ManifestGrows
<1>3. \A p \in opts.includes \cap DOMAIN tree : HoldsFile(tree, p)
  BY DEF FlagsInv, IncludedInv
<1>4. QED
  BY <1>1, <1>2, <1>3 DEF IncludedInv

LEMMA EnsuredStep == FlagsInv /\ [Next]_vars => EnsuredInv'
<1> SUFFICES ASSUME FlagsInv, [Next]_vars, phase' \in Told \ {"ensure"}, NEW e \in opts'.ensures
             PROVE  e[1] \in DOMAIN files'
  BY DEF EnsuredInv
<1>1. e \in opts.ensures
  BY Writers DEF inputs
<1>2. CASE EnsurePaths
  <2>1. files' = ApplyEnsurePaths(files, opts.ensures)
    BY <1>2 DEF EnsurePaths, Step, Told
  <2>2. QED
    BY <1>1, <2>1 DEF ApplyEnsurePaths
<1>3. CASE phase \in Told \ {"ensure"} /\ DOMAIN files \subseteq DOMAIN files'
  BY <1>1, <1>3 DEF FlagsInv, EnsuredInv
<1>4. ~ApplyDirectoryInclusion
  BY DEF ApplyDirectoryInclusion, Step
<1>5. QED
  BY <1>2, <1>3, <1>4, ManifestGrows

LEMMA WrittenStep == FlagsInv /\ AllListed /\ [Next]_vars => WrittenInv'
<1> SUFFICES ASSUME FlagsInv, AllListed, [Next]_vars, phase' \in {"result", "built"}
             PROVE  Closed(layer') /\ \A p \in DOMAIN files' \cap DOMAIN tree' : p \in DOMAIN layer'
  BY DEF WrittenInv
<1>1. tree' = tree /\ IsTree(tree) /\ InOrder
  BY Writers, Givens DEF inputs, tree, FlagsInv
<1>2. CASE DigestLayer
  <2>1. layer' = Written(files).tree /\ ~Written(files).failed /\ files' = files
    BY <1>2 DEF DigestLayer, Step
  <2>2. Closed(layer')
    BY <1>1, <2>1, WholeLayer DEF Good, LayerOK
  <2>3. ASSUME NEW p \in DOMAIN files \cap DOMAIN tree PROVE p \in DOMAIN layer'
    <3>1. InRoot(tree, p) # NoPath
      BY <1>1, FoundInPlace
    <3>2. QED
      BY <1>1, <2>1, <3>1, ListedIsWritten DEF AllListed
  <2>4. QED
    BY <1>1, <2>1, <2>2, <2>3
<1>3. CASE phase \in {"result", "built"} /\ UNCHANGED <<files, layer>>
  BY <1>1, <1>3 DEF FlagsInv, WrittenInv
<1>4. (phase \in {"result", "built"} /\ UNCHANGED <<files, layer>>) \/ DigestLayer
  BY DEF Next, vars, StepFails, ResolveELF, ResolveRuntimeCompanions, CheckScratchCompat,
         ApplyDirectoryInclusion, EnsurePaths, ExpandSymlinkTargets, OpenLayer, PeekStores,
         Finish, Step
<1>5. QED
  BY <1>2, <1>3, <1>4

LEMMA FlagsStep == FlagsInv /\ AllListed /\ [Next]_vars => FlagsInv'
<1>1. FlagsInv /\ [Next]_vars => image' \in Images
  BY Writers DEF FlagsInv, inputs
<1>2. QED
  BY <1>1, IncludedStep, EnsuredStep, WrittenStep DEF FlagsInv

\* A finished layer has every path of the image that a flag names.
LEMMA FlagsInLayer ==
    ASSUME FlagsInv, phase = "built", NEW p \in DOMAIN tree,
           p \in opts.includes \/ \E e \in opts.ensures : p = e[1]
    PROVE  p \in DOMAIN layer
<1>1. Closed(layer) /\ \A q \in DOMAIN files \cap DOMAIN tree : q \in DOMAIN layer
  BY DEF FlagsInv, WrittenInv
<1>2. CASE \E e \in opts.ensures : p = e[1]
  BY <1>1, <1>2 DEF FlagsInv, EnsuredInv, Told
<1>3. CASE p \in opts.includes
  <2>1. PICK q \in DOMAIN files \cap DOMAIN tree : IsPrefix(p, q)
    BY <1>3 DEF FlagsInv, IncludedInv, Told
  <2>2. q \in DOMAIN layer /\ p \in Seq(STRING) /\ q \in Seq(STRING)
    BY <1>1, Givens, TreePaths DEF FlagsInv
  <2>3. CASE p = <<>>
    BY <1>1, <2>3 DEF Closed
  <2>4. CASE p = q
    BY <2>2, <2>4
  <2>5. CASE p # <<>> /\ p # q
    <3>1. p \in Ancestors(q)
      BY <2>1, <2>2, <2>5, PrefixIsAncestor DEF IsStrictPrefix
    <3>2. QED
      BY <1>1, <2>2, <3>1 DEF Closed
  <2>6. QED
    BY <2>3, <2>4, <2>5
<1>4. QED
  BY <1>2, <1>3

-----------------------------------------------------------------------------
(***************************************************************************)
(* The score of the manifest the build has completed.                      *)
(***************************************************************************)

\* Where an entry comes from that the hardener adds.
Added ==
    {"inferred-elf", "inferred-runtime", "scratch-compat", "directory-inclusion",
     "ensure-dir", "ensure-file", "symlink-target"}

\* A transient name is observed, never listed by the user.
TransientsObserved ==
    \A o \in Observations : \A p \in DOMAIN o \cap DOMAIN FinalOf :
        o[p] \notin Manual \ {"scratch-compat"}

\* Something was observed under a transient name, as s.
Passing(s) == \E q \in DOMAIN observed \cap DOMAIN FinalOf : s = observed[q]

\* A manifest keeps what was observed, but for transient names, and what it has
\* besides the hardener has added, or is a file observed under such a name.
KeptAndAdded(fs) ==
    /\ \A p \in DOMAIN observed \ DOMAIN FinalOf : p \in DOMAIN fs /\ fs[p] = observed[p]
    /\ \A p \in DOMAIN fs :
          \/ fs[p] \in Added
          \/ p \in DOMAIN observed /\ fs[p] = observed[p]
          \/ Passing(fs[p])

SourcesInv == observed \in Observations /\ KeptAndAdded(files)

LEMMA AddNewKeeps ==
    ASSUME NEW fs, KeptAndAdded(fs), NEW ps, NEW s \in Added
    PROVE  KeptAndAdded(AddNew(fs, ps, s))
BY DEF KeptAndAdded, AddNew

LEMMA SourcesStep == SourcesInv /\ [Next]_vars => SourcesInv'
<1> SUFFICES ASSUME SourcesInv, [Next]_vars PROVE SourcesInv'
  OBVIOUS
<1>0. observed' = observed /\ observed' \in Observations /\ KeptAndAdded(files)
  BY Writers DEF inputs, SourcesInv
<1>a. ASSUME KeptAndAdded(files') PROVE SourcesInv'
  BY <1>0, <1>a DEF SourcesInv, KeptAndAdded, Passing
<1>b. {"inferred-elf", "inferred-runtime", "scratch-compat", "directory-inclusion", "symlink-target"}
         \subseteq Added
  BY DEF Added
<1>1. CASE ResolveELF
  <2>1. files' = AddNew(files, image.elf, "inferred-elf")
    BY <1>1 DEF ResolveELF
  <2>2. QED
    BY <1>0, <1>a, <1>b, <2>1, AddNewKeeps
<1>2. CASE ResolveRuntimeCompanions
  <2>0. PICK of \in FirstNames(files) :
            files' = AddNew(Normalised(files, of), Companions(Normalised(files, of)), "inferred-runtime")
    BY <1>2 DEF ResolveRuntimeCompanions
  <2>1. PICK fs : fs = Normalised(files, of) /\ files' = AddNew(fs, Companions(fs), "inferred-runtime")
    BY <2>0
  <2>2. \A p \in DOMAIN fs :
            \/ p \in DOMAIN files \ DOMAIN FinalOf /\ fs[p] = files[p]
            \/ p \in FinalNames(files) /\ fs[p] = RenamedSource(files[of[p]])
    BY <2>1 DEF Normalised
  <2>3. \A p \in DOMAIN files \ DOMAIN FinalOf : p \in DOMAIN fs /\ fs[p] = files[p]
    BY <2>1 DEF Normalised
  <2>4. \A p \in FinalNames(files) : of[p] \in DOMAIN files \cap DOMAIN FinalOf
    BY <2>1 DEF FirstNames
  <2>5. ASSUME NEW p \in FinalNames(files), NEW s, s = RenamedSource(files[of[p]])
        PROVE  s \in Added \/ Passing(s)
    <3>1. PICK t \in DOMAIN files \cap DOMAIN FinalOf : t = of[p]
      BY <2>4
    <3>2. s = "inferred-runtime" \/ s = files[t]
      BY <2>5, <3>1 DEF RenamedSource
    <3>3. files[t] \in Added \/ Passing(files[t])
      BY <1>0, <3>1 DEF KeptAndAdded, Passing
    <3>4. QED
      BY <1>b, <3>2, <3>3
  <2>6. KeptAndAdded(fs)
    BY <1>0, <2>2, <2>3, <2>5 DEF KeptAndAdded
  <2>7. QED
    BY <1>a, <1>b, <2>1, <2>6, AddNewKeeps
<1>3. CASE CheckScratchCompat
  <2>1. files' = AddNew(files, Scratch, "scratch-compat")
    BY <1>3 DEF CheckScratchCompat
  <2>2. QED
    BY <1>0, <1>a, <1>b, <2>1, AddNewKeeps
<1>4. CASE ApplyDirectoryInclusion
  <2>1. files' = AddNew(files, UNION {Included(incl) : incl \in opts.includes}, "directory-inclusion")
    BY <1>4 DEF ApplyDirectoryInclusion
  <2>2. QED
    BY <1>0, <1>a, <1>b, <2>1, AddNewKeeps
<1>5. CASE EnsurePaths
  <2>1. files' = files \/ files' = ApplyEnsurePaths(files, opts.ensures)
    BY <1>5 DEF EnsurePaths
  <2>2. \A e : EnsureSource(e) \in Added
    BY DEF EnsureSource, Added
  <2>3. KeptAndAdded(ApplyEnsurePaths(files, opts.ensures))
    BY <1>0, <2>2 DEF ApplyEnsurePaths, KeptAndAdded
  <2>4. QED
    BY <1>0, <1>a, <2>1, <2>3
<1>6. CASE ExpandSymlinkTargets
  <2>1. files' = AddNew(files, Expanded(DOMAIN files), "symlink-target")
    BY <1>6 DEF ExpandSymlinkTargets
  <2>2. QED
    BY <1>0, <1>a, <1>b, <2>1, AddNewKeeps
<1>7. CASE UNCHANGED files
  BY <1>0, <1>7, <1>a
<1>8. QED
  BY <1>1, <1>2, <1>3, <1>4, <1>5, <1>6, <1>7
     DEF Next, vars, StepFails, OpenLayer, PeekStores, DigestLayer, Finish

\* The score of a manifest with a direct entry, as a number.
Shown(manual, races, undocumented) ==
    LET points == 100 - WindowPenalty(Window, MinWindow)
                      - (IF manual * 5 < 25 THEN manual * 5 ELSE 25)
                      - (IF races * 3 < 12 THEN races * 3 ELSE 12)
                      - (IF undocumented * 3 < 9 THEN undocumented * 3 ELSE 9)
    IN IF points < 0 THEN 0 ELSE points

LEMMA WindowPenaltyIsNumber == WindowPenalty(Window, MinWindow) \in Nat
BY WindowAssumption DEF WindowPenalty

LEMMA ScoreOf ==
    ASSUME NEW fs, \E p \in DOMAIN fs : fs[p] = "direct",
           Cardinality(UserManual(fs)) \in Nat,
           Cardinality({p \in UserManual(fs) : fs[p] = "startup-race"}) \in Nat,
           Cardinality({p \in UserManual(fs) : fs[p] = "undocumented"}) \in Nat
    PROVE  Score(fs, Window, MinWindow) =
               Shown(Cardinality(UserManual(fs)),
                     Cardinality({p \in UserManual(fs) : fs[p] = "startup-race"}),
                     Cardinality({p \in UserManual(fs) : fs[p] = "undocumented"}))
<1>1. PICK w \in Nat : w = WindowPenalty(Window, MinWindow)
  BY WindowPenaltyIsNumber
<1>2. PICK m, r, u : /\ m = Cardinality(UserManual(fs))
                     /\ r = Cardinality({p \in UserManual(fs) : fs[p] = "startup-race"})
                     /\ u = Cardinality({p \in UserManual(fs) : fs[p] = "undocumented"})
  OBVIOUS
<1>3. m \in Nat /\ r \in Nat /\ u \in Nat
  BY <1>2
<1>4. Score(fs, Window, MinWindow) =
          LET points == 100 - 0 - w - (IF m * 5 < 25 THEN m * 5 ELSE 25)
                            - (IF r * 3 < 12 THEN r * 3 ELSE 12) - (IF u * 3 < 9 THEN u * 3 ELSE 9)
          IN IF points < 0 THEN 0 ELSE points
  BY <1>1, <1>2 DEF Score, Capped
<1>5. QED
  BY <1>1, <1>2, <1>3, <1>4 DEF Shown

\* Manual entries beyond the first cost at most 25 points together.
LEMMA MoreManual ==
    ASSUME NEW m \in Nat, NEW k \in Nat, m <= k, NEW r \in Nat, NEW u \in Nat
    PROVE  Shown(m, r, u) - Shown(k, r, u) \in 0..25 /\ Shown(m, r, u) \in Nat
<1>1. PICK w \in Nat : w = WindowPenalty(Window, MinWindow)
  BY WindowPenaltyIsNumber
<1>2. PICK a \in Nat, b \in Nat, c \in Nat, d \in Nat :
          /\ a = (IF m * 5 < 25 THEN m * 5 ELSE 25) /\ b = (IF k * 5 < 25 THEN k * 5 ELSE 25)
          /\ c = (IF r * 3 < 12 THEN r * 3 ELSE 12) /\ d = (IF u * 3 < 9 THEN u * 3 ELSE 9)
  OBVIOUS
<1>3. a <= b /\ b <= 25
  BY <1>2
<1>4. /\ Shown(m, r, u) = IF 100 - w - a - c - d < 0 THEN 0 ELSE 100 - w - a - c - d
      /\ Shown(k, r, u) = IF 100 - w - b - c - d < 0 THEN 0 ELSE 100 - w - b - c - d
  BY <1>1, <1>2 DEF Shown
<1>5. QED
  BY <1>3, <1>4

LEMMA ScoreKept ==
    ASSUME TransientsObserved, SourcesInv, AllListed,
           \E p \in DOMAIN observed \ DOMAIN FinalOf : observed[p] = "direct"
    PROVE  LET lost == Score(observed, Window, MinWindow) - Score(files, Window, MinWindow)
           IN /\ lost \in 0..25
              /\ (\A p \in DOMAIN files : files[p] # "symlink-target") => lost = 0
<1>1. KeptAndAdded(files) /\ observed \in Observations
  BY DEF SourcesInv
<1>2. PICK mo, mf : mo = UserManual(observed) /\ mf = UserManual(files)
  OBVIOUS
<1>3. \A p \in mo : p \in mf /\ files[p] = observed[p]
  BY <1>1, <1>2 DEF UserManual, TransientsObserved, KeptAndAdded
<1>4. \A p \in mf : files[p] = "symlink-target" \/ (p \in mo /\ files[p] = observed[p])
  <2>1. SUFFICES ASSUME NEW p \in mf
                 PROVE  files[p] = "symlink-target" \/ (p \in mo /\ files[p] = observed[p])
    OBVIOUS
  <2>2. p \in DOMAIN files /\ files[p] \in Manual \ {"scratch-compat"}
    BY <1>2 DEF UserManual
  <2>3. ~Passing(files[p])
    BY <1>1, <2>2 DEF TransientsObserved, Passing
  <2>4. files[p] \in Added \/ (p \in DOMAIN observed /\ files[p] = observed[p])
    BY <1>1, <2>2, <2>3 DEF KeptAndAdded
  <2>5. QED
    BY <1>2, <2>2, <2>4 DEF UserManual, Manual, Added
<1>5. PICK ro, rf, uo, uf : /\ ro = {p \in mo : observed[p] = "startup-race"}
                            /\ rf = {p \in mf : files[p] = "startup-race"}
                            /\ uo = {p \in mo : observed[p] = "undocumented"}
                            /\ uf = {p \in mf : files[p] = "undocumented"}
  OBVIOUS
<1>6. ro = rf /\ uo = uf
  BY <1>3, <1>4, <1>5
<1>7. IsFiniteSet(mf) /\ mo \subseteq mf /\ ro \subseteq mf /\ uo \subseteq mf
  <2>1. IsFiniteSet(Range(Order))
    <3>1. Order \in Seq(Seq(STRING)) /\ DOMAIN Order = 1..Len(Order) /\ Len(Order) \in Nat
      BY OrderAssumption
    <3>2. IsFiniteSet(1..Len(Order))
      BY <3>1, FS_Interval
    <3>3. Order \in Surjection(1..Len(Order), Range(Order))
      BY <3>1 DEF Range, Surjection
    <3>4. QED
      BY <3>2, <3>3, FS_Surjection
  <2>2. mf \subseteq Range(Order)
    BY <1>2 DEF UserManual, AllListed
  <2>3. QED
    BY <1>3, <1>5, <1>6, <2>1, <2>2, FS_Subset
<1>8. PICK m, k, r, u : /\ m = Cardinality(mo) /\ k = Cardinality(mf)
                        /\ r = Cardinality(ro) /\ u = Cardinality(uo)
  OBVIOUS
<1>9. m \in Nat /\ k \in Nat /\ m <= k /\ r \in Nat /\ u \in Nat
  BY <1>7, <1>8, FS_Subset, FS_CardinalityType
<1>10. (\E p \in DOMAIN observed : observed[p] = "direct") /\ \E p \in DOMAIN files : files[p] = "direct"
  BY <1>1 DEF KeptAndAdded
<1>11. Score(observed, Window, MinWindow) = Shown(m, r, u)
  BY <1>2, <1>5, <1>8, <1>9, <1>10, ScoreOf
<1>12. Score(files, Window, MinWindow) = Shown(k, r, u)
  BY <1>2, <1>5, <1>6, <1>8, <1>9, <1>10, ScoreOf
<1>13. Shown(m, r, u) - Shown(k, r, u) \in 0..25 /\ Shown(m, r, u) \in Nat
  BY <1>9, MoreManual
<1>14. Score(observed, Window, MinWindow) - Score(files, Window, MinWindow) \in 0..25
  BY <1>11, <1>12, <1>13
<1>15. ASSUME \A p \in DOMAIN files : files[p] # "symlink-target"
       PROVE  Score(observed, Window, MinWindow) - Score(files, Window, MinWindow) = 0
  <2>1. mf \subseteq mo
    BY <1>2, <1>4, <1>15 DEF UserManual
  <2>2. m = k
    BY <1>7, <1>8, <2>1
  <2>3. QED
    BY <1>9, <1>11, <1>12, <1>13, <2>2
<1>16. QED
  BY <1>14, <1>15

\* ScoreIsTheProfiles: what the hardener completes the manifest with costs the
\* profile nothing, but for the targets of links, and those at most what manual
\* entries may cost at all (confidence.go:98, cmd/harden/build.go:133) -- for any
\* profile, if what it has of transient names was observed.
THEOREM ScoreIsTheProfilesHolds ==
    ASSUME TransientsObserved
    PROVE  Spec => []ScoreIsTheProfiles
<1>1. Init => SourcesInv
  BY DEF Init, SourcesInv, KeptAndAdded
<1>2. SourcesInv /\ [Next]_vars => SourcesInv'
  BY SourcesStep
<1>3. SourcesInv /\ AllListed => ScoreIsTheProfiles
  BY ScoreKept DEF ScoreIsTheProfiles
<1>4. ListedInv => AllListed
  BY DEF ListedInv
<1>5. QED
  BY <1>1, <1>2, <1>3, <1>4, Listed, PTL DEF Spec

-----------------------------------------------------------------------------
(***************************************************************************)
(* What a finished layer is made of.                                       *)
(***************************************************************************)

\* The directories above the next entry are written, and nothing else changes.
DirsWritten(acc, up, n) ==
    /\ LayerOK(up, n + 1)
    /\ \A a \in Ancestors(Order[n + 1]) : a \in DOMAIN up.tree /\ up.tree[a] = Dir
    /\ DOMAIN up.tree = DOMAIN acc.tree \cup Ancestors(Order[n + 1])
    /\ \A x \in DOMAIN acc.tree \ Ancestors(Order[n + 1]) : up.tree[x] = acc.tree[x]

LEMMA UpWrites ==
    ASSUME InOrder, NEW acc, NEW n \in Nat, n + 1 \in 1..Len(Order), LayerOK(acc, n),
           Ancestors(Order[n + 1]) \cap acc.nonDirs = {}
    PROVE  DirsWritten(acc, PutDirs(acc, Ancestors(Order[n + 1])), n)
<1>1. PICK up : up = PutDirs(acc, Ancestors(Order[n + 1]))
  OBVIOUS
<1>2. /\ LayerOK(up, n + 1)
      /\ \A a \in Ancestors(Order[n + 1]) : a \in DOMAIN up.tree /\ up.tree[a] = Dir
      /\ DOMAIN up.tree = DOMAIN acc.tree \cup Ancestors(Order[n + 1])
      /\ \A x \in DOMAIN acc.tree \ Ancestors(Order[n + 1]) : up.tree[x] = acc.tree[x]
  BY <1>1, UpIsWritten, SMTT(30)
<1>3. QED
  BY <1>1, <1>2 DEF DirsWritten

\* An entry writes itself, as a node, and the directories above it.
Writes(acc, new, p) ==
    \A r \in DOMAIN new.tree :
        \/ r \in DOMAIN acc.tree /\ new.tree[r] = acc.tree[r]
        \/ r \in Ancestors(p) /\ new.tree[r] = Dir /\ NonDirAncestor(tree, p) = NoPath
        \/ r = p /\ IsNode(new.tree[r])

LEMMA EntryWrites ==
    ASSUME InOrder, IsTree(tree), NEW fs, NEW acc, NEW n \in Nat, n + 1 \in 1..Len(Order),
           LayerOK(acc, n)
    PROVE  Writes(acc, WriteEntry(fs, acc, Order[n + 1]), Order[n + 1])
<1> SUFFICES ASSUME NEW new, new = WriteEntry(fs, acc, Order[n + 1]), NEW r \in DOMAIN new.tree
             PROVE  \/ r \in DOMAIN acc.tree /\ new.tree[r] = acc.tree[r]
                    \/ /\ r \in Ancestors(Order[n + 1]) /\ new.tree[r] = Dir
                       /\ NonDirAncestor(tree, Order[n + 1]) = NoPath
                    \/ r = Order[n + 1] /\ IsNode(new.tree[r])
  BY Zenon DEF Writes
<1> DEFINE p == Order[n + 1]
           up == PutDirs(acc, Ancestors(p))
           q  == InRoot(tree, p)
           Goal == \/ r \in DOMAIN acc.tree /\ new.tree[r] = acc.tree[r]
                   \/ r \in Ancestors(p) /\ new.tree[r] = Dir /\ NonDirAncestor(tree, p) = NoPath
                   \/ r = p /\ IsNode(new.tree[r])
<1>1. acc = [tree |-> acc.tree, dirs |-> acc.dirs, nonDirs |-> acc.nonDirs,
             skipped |-> acc.skipped, failed |-> acc.failed]
  BY DEF LayerOK
<1>2. CASE acc.failed \/ Blocked(acc, p)
  <2>1. new = acc \/ new = [acc EXCEPT !.failed = TRUE] \/ new = [acc EXCEPT !.skipped = @ + 1]
    BY <1>2 DEF WriteEntry
  <2>2. new.tree = acc.tree
    BY <1>1, <2>1
  <2>3. QED
    BY <2>2
<1>3. CASE ~acc.failed /\ ~Blocked(acc, p)
  <2>1. Ancestors(p) \cap acc.nonDirs = {} /\ NonDirAncestor(tree, p) = NoPath
    BY <1>3 DEF Blocked
  <2> HIDE DEF up
  <2>2. up = PutDirs(acc, Ancestors(p))
    BY DEF up
  <2>3. /\ LayerOK(up, n + 1)
        /\ \A a \in Ancestors(p) : a \in DOMAIN up.tree /\ up.tree[a] = Dir
        /\ DOMAIN up.tree = DOMAIN acc.tree \cup Ancestors(p)
        /\ \A x \in DOMAIN acc.tree \ Ancestors(p) : up.tree[x] = acc.tree[x]
    <3>1. DirsWritten(acc, up, n)
      BY <2>1, <2>2, UpWrites
    <3>2. QED
      BY <3>1 DEF DirsWritten
  <2>4. Ready(up, p)
    BY <2>1, <2>2, UpIsReady
  <2>5. ASSUME r \in DOMAIN up.tree, new.tree[r] = up.tree[r] PROVE Goal
    BY <2>1, <2>3, <2>5
  <2>6. ASSUME NEW node, IsNode(node), DOMAIN new.tree = DOMAIN up.tree \cup {p},
               \A x \in DOMAIN up.tree : x = p \/ new.tree[x] = up.tree[x], new.tree[p] = node
        PROVE  Goal
    BY <2>5, <2>6
  <2>7. new = Place(fs, up, p)
    BY <1>3, <2>2 DEF WriteEntry
  <2>8. CASE new = PutDirs(up, {p})
    <3>1. PICK i \in Nat : i = n + 1
      OBVIOUS
    <3>2. i \in 1..Len(Order) /\ p = Order[i] /\ LayerOK(up, i) /\ Ready(up, Order[i])
          /\ new = PutDirs(up, {Order[i]})
      BY <2>3, <2>4, <2>8, <3>1
    <3>3. /\ DOMAIN new.tree = DOMAIN up.tree \cup {Order[i]}
          /\ \A x \in DOMAIN up.tree : new.tree[x] = up.tree[x]
          /\ new.tree[Order[i]] = Dir
      BY <3>2, DirPlaced
    <3>4. IsNode(Dir)
      BY DEF IsNode
    <3>5. QED
      BY <2>6, <3>2, <3>3, <3>4
  <2>9. ASSUME NEW node, node.kind # "dir", IsNode(node), p # <<>>,
               \/ new = PutNonDir(up, p, node)
               \/ new = [up EXCEPT !.tree = Put(@, p, node)]
        PROVE  Goal
    <3>1. /\ DOMAIN new.tree = DOMAIN up.tree \cup {p}
          /\ \A x \in DOMAIN up.tree : new.tree[x] = up.tree[x]
          /\ new.tree[p] = node
      BY <2>3, <2>4, <2>9, NodePlaced
    <3>2. QED
      BY <2>6, <2>9, <3>1
  <2>10. CASE q = NoPath /\ fs[p] \notin {"ensure-dir", "ensure-file"}
    <3>1. new = up
      BY <2>7, <2>10 DEF Place
    <3>2. QED
      BY <2>5, <3>1
  <2>11. CASE q = NoPath /\ fs[p] = "ensure-dir"
    BY <2>7, <2>8, <2>11 DEF Place
  <2>12. CASE q = NoPath /\ fs[p] = "ensure-file"
    <3>1. new = PutNonDir(up, p, File("empty"))
      BY <2>7, <2>12 DEF Place
    <3>2. File("empty").kind # "dir" /\ IsNode(File("empty"))
      BY DEF File, IsNode
    <3>3. p # <<>>
      <4>1. p = <<>> => q = <<>>
        BY DEF InRoot, EntryAt
      <4>2. NoPath \notin DOMAIN tree /\ <<>> \in DOMAIN tree
        BY Root, TreePaths
      <4>3. QED
        BY <2>12, <4>1, <4>2
    <3>4. QED
      BY <2>9, <3>1, <3>2, <3>3
  <2>13. CASE q # NoPath
    <3>1. /\ q \in DOMAIN tree /\ tree[q].kind \in {"dir", "file", "link"}
          /\ p = <<>> => tree[q].kind = "dir"
      BY <2>13, InRootIsThere
    <3>2. IsNode(tree[q])
      BY <3>1 DEF IsTree
    <3>3. CASE tree[q].kind = "dir"
      BY <2>7, <2>8, <2>13, <3>3 DEF Place
    <3>4. CASE tree[q].kind # "dir"
      <4>1. \/ new = PutNonDir(up, p, tree[q])
            \/ new = [up EXCEPT !.tree = Put(@, p, tree[q])]
        BY <2>7, <2>13, <3>1, <3>4 DEF Place
      <4>2. QED
        BY <2>9, <3>1, <3>2, <3>4, <4>1
    <3>5. QED
      BY <3>3, <3>4
  <2>14. QED
    BY <2>10, <2>11, <2>12, <2>13
<1>4. QED
  BY <1>2, <1>3

\* What a layer has is listed, or a directory on the way to what is and can be reached.
OnTheWay(ps, r) == \E p \in ps : r \in Ancestors(p) /\ NonDirAncestor(tree, p) = NoPath

Kept(ps, p) == p \in ps \/ OnTheWay(ps, p)

Sound(fs, t) ==
    \A r \in DOMAIN t \ {<<>>} :
        \/ r \in DOMAIN fs /\ IsNode(t[r])
        \/ t[r] = Dir /\ OnTheWay(DOMAIN fs, r)

LEMMA SoundStep ==
    ASSUME InOrder, IsTree(tree), NEW fs, NEW acc, NEW n \in Nat, n + 1 \in 1..Len(Order),
           LayerOK(acc, n), Sound(fs, acc.tree), NEW new, new = Entry(fs, acc, n + 1)
    PROVE  Sound(fs, new.tree)
<1>1. CASE Order[n + 1] \notin DOMAIN fs
  BY <1>1 DEF Entry
<1>2. CASE Order[n + 1] \in DOMAIN fs
  <2>1. new = WriteEntry(fs, acc, Order[n + 1])
    BY <1>2 DEF Entry
  <2>2. SUFFICES ASSUME NEW r \in DOMAIN new.tree \ {<<>>}
                 PROVE  \/ r \in DOMAIN fs /\ IsNode(new.tree[r])
                        \/ new.tree[r] = Dir /\ OnTheWay(DOMAIN fs, r)
    BY DEF Sound
  <2>3. \/ r \in DOMAIN acc.tree /\ new.tree[r] = acc.tree[r]
        \/ /\ r \in Ancestors(Order[n + 1]) /\ new.tree[r] = Dir
           /\ NonDirAncestor(tree, Order[n + 1]) = NoPath
        \/ r = Order[n + 1] /\ IsNode(new.tree[r])
    <3>1. r \in DOMAIN new.tree
      OBVIOUS
    <3>2. Writes(acc, new, Order[n + 1])
      BY <2>1, EntryWrites
    <3>3. QED
      BY <3>1, <3>2 DEF Writes
  <2>4. CASE r \in DOMAIN acc.tree /\ new.tree[r] = acc.tree[r]
    BY <2>4 DEF Sound
  <2>5. QED
    BY <1>2, <2>3, <2>4 DEF OnTheWay
<1>3. QED
  BY <1>1, <1>2

LEMMA LayerSound ==
    ASSUME InOrder, IsTree(tree), NEW fs
    PROVE  Sound(fs, Written(fs).tree)
<1> DEFINE N == Len(Order)
<1>1. N \in Nat
  BY DEF InOrder
<1>2. PICK f : IsRun(fs, f, N) /\ Written(fs) = f[N]
  BY <1>1, WrittenRun
<1> DEFINE Bad == {k \in 0..N : ~Sound(fs, f[k].tree)}
<1>3. f[0] = Nothing /\ \A k \in 1..N : f[k] = Entry(fs, f[k - 1], k)
  BY <1>1, <1>2 DEF IsRun
<1>4. Sound(fs, f[0].tree)
  BY <1>3 DEF Nothing, EmptyTree, Sound
<1>5. ASSUME NEW k \in 1..N, Sound(fs, f[k - 1].tree) PROVE Sound(fs, f[k].tree)
  <2>1. PICK m \in Nat : m = k - 1
    BY <1>1
  <2>2. m + 1 = k /\ m + 1 \in 1..Len(Order) /\ m \in 0..Len(Order)
    BY <1>1, <2>1
  <2>3. f[k] = Entry(fs, f[m], m + 1)
    BY <1>3, <2>1, <2>2
  <2>4. LayerOK(f[m], m)
    BY <1>2, <2>2, GoodRun DEF Good
  <2>5. QED
    BY <1>5, <2>1, <2>2, <2>3, <2>4, SoundStep
<1>6. ASSUME Bad # {} PROVE FALSE
  <2>1. Bad \in SUBSET Nat
    BY <1>1
  <2>2. PICK k \in Bad : \A j \in Bad : k <= j
    BY <1>6, <2>1, Least
  <2>3. k # 0 /\ k \in 1..N /\ k - 1 \in 0..N /\ ~(k <= k - 1)
    BY <1>1, <1>4
  <2>4. Sound(fs, f[k - 1].tree)
    BY <2>2, <2>3
  <2>5. QED
    BY <1>5, <2>2, <2>3, <2>4
<1>7. QED
  BY <1>1, <1>2, <1>6

LEMMA CleanedAbove ==
    ASSUME NEW p \in Seq(STRING), Cleaned(p), NEW a \in Ancestors(p)
    PROVE  Cleaned(a)
<1>1. PICK k \in 1..(Len(p) - 1) : a = SubSeq(p, 1, k)
  BY DEF Ancestors
<1>2. Len(a) = k /\ \A i \in 1..k : a[i] = p[i] /\ i \in 1..Len(p)
  BY <1>1
<1>3. QED
  BY <1>2, CleanedIs

\* A layer is a tree as an image has one.
LEMMA LayerIsTree ==
    ASSUME InOrder, IsTree(tree), NEW fs
    PROVE  IsTree(Written(fs).tree)
<1>1. PICK t, n : t = Written(fs).tree /\ n = Len(Order)
  OBVIOUS
<1>2. Closed(t) /\ \A p \in DOMAIN t \ {<<>>} : \E j \in 1..n : p = Order[j] \/ p \in Ancestors(Order[j])
  BY <1>1, WholeLayer DEF Good, LayerOK
<1>3. Sound(fs, t)
  BY <1>1, LayerSound
<1>4. <<>> \in DOMAIN t /\ t[<<>>] = Dir /\ DOMAIN t \subseteq Seq(STRING)
  BY <1>2 DEF Closed
<1>5. ASSUME NEW p \in DOMAIN t PROVE IsNode(t[p])
  <2>1. IsNode(Dir)
    BY DEF IsNode
  <2>2. QED
    BY <1>3, <1>4, <2>1 DEF Sound
<1>6. ASSUME NEW p \in DOMAIN t PROVE Cleaned(p)
  <2>1. CASE p = <<>>
    <3>1. \A i \in 1..Len(p) : Plain(p[i])
      BY <2>1
    <3>2. QED
      BY <3>1, CleanedIs
  <2>2. CASE p # <<>>
    <3>1. PICK j \in 1..n : p = Order[j] \/ p \in Ancestors(Order[j])
      BY <1>2, <2>2
    <3>2. Order[j] \in Seq(STRING) /\ Cleaned(Order[j])
      BY <1>1, <3>1 DEF InOrder
    <3>3. QED
      BY <3>1, <3>2, CleanedAbove
  <2>3. QED
    BY <2>1, <2>2
<1>7. ASSUME NEW p \in DOMAIN t, NEW a \in Ancestors(p) PROVE a \in DOMAIN t /\ t[a] = Dir
  <2>1. a \in DOMAIN t /\ t[a].kind = "dir"
    BY <1>2 DEF Closed
  <2>2. IsNode(t[a])
    BY <1>5, <2>1
  <2>3. QED
    BY <2>1, <2>2 DEF IsNode
<1>8. QED
  BY <1>1, <1>4, <1>5, <1>6, <1>7 DEF IsTree, Has

\* Of two paths above a third one is above the other.
LEMMA AncestorsNest ==
    ASSUME NEW r \in Seq(STRING), NEW a \in Ancestors(r), NEW b \in Ancestors(r), a # b
    PROVE  a \in Ancestors(b) \/ b \in Ancestors(a)
<1>1. ASSUME NEW i \in 1..(Len(r) - 1), NEW j \in 1..(Len(r) - 1), i < j
      PROVE  SubSeq(r, 1, i) \in Ancestors(SubSeq(r, 1, j))
  <2>1. PICK x : x = SubSeq(r, 1, j)
    OBVIOUS
  <2>2. Len(r) \in Nat /\ x \in Seq(STRING) /\ Len(x) = j /\ \A k \in 1..j : x[k] = r[k]
    BY <1>1, <2>1
  <2>3. i \in 1..(Len(x) - 1) /\ SubSeq(x, 1, i) = SubSeq(r, 1, i)
    BY <1>1, <2>2
  <2>4. SubSeq(x, 1, i) \in Ancestors(x)
    BY <2>3 DEF Ancestors
  <2>5. QED
    BY <2>1, <2>3, <2>4
<1>2. PICK i \in 1..(Len(r) - 1), j \in 1..(Len(r) - 1) : a = SubSeq(r, 1, i) /\ b = SubSeq(r, 1, j)
  BY DEF Ancestors
<1>3. Len(r) \in Nat /\ i # j
  BY <1>2
<1>4. i < j \/ j < i
  BY <1>3
<1>5. QED
  BY <1>1, <1>2, <1>4

\* Nothing keeps what the image has in its place from being reached.
LEMMA NothingInTheWay ==
    ASSUME IsTree(tree), NEW p \in DOMAIN tree
    PROVE  NonDirAncestor(tree, p) = NoPath
<1>1. \A i \in 1..(Len(p) - 1) : AncestorIsDir(tree, SubSeq(p, 1, i)) = "dir"
  <2>1. \A a \in Ancestors(p) : AncestorIsDir(tree, a) = "dir"
    BY FoundInPlace
  <2>2. QED
    BY <2>1 DEF Ancestors
<1>2. {i \in 1..(Len(p) - 1) : AncestorIsDir(tree, SubSeq(p, 1, i)) # "dir"} = {}
  BY <1>1
<1>3. QED
  BY <1>2 DEF NonDirAncestor

\* A path of the image that is listed, or on the way to what can be reached, is written.
LEMMA KeptIsWritten ==
    ASSUME InOrder, IsTree(tree), NEW fs, DOMAIN fs \subseteq Range(Order), ~Written(fs).failed,
           NEW q \in DOMAIN tree \ {<<>>}, Kept(DOMAIN fs, q)
    PROVE  q \in DOMAIN Written(fs).tree
<1>1. InRoot(tree, q) = q /\ q # NoPath
      /\ \A a \in Ancestors(q) : a \in DOMAIN tree /\ AncestorIsDir(tree, a) = "dir"
  BY FoundInPlace
<1>2. CASE q \in DOMAIN fs
  BY <1>1, <1>2, ListedIsWritten
<1>3. CASE OnTheWay(DOMAIN fs, q)
  <2>1. PICK r \in DOMAIN fs : q \in Ancestors(r) /\ NonDirAncestor(tree, r) = NoPath
    BY <1>3 DEF OnTheWay
  <2>2. PICK all, N : all = Written(fs) /\ N = Len(Order)
    OBVIOUS
  <2>3. Good(fs, all, N)
    BY <2>2, WholeLayer
  <2>4. EntriesThere(fs, all, N) /\ CountOK(fs, all, N) /\ LayerOK(all, N) /\ ~all.failed
    BY <2>2, <2>3 DEF Good
  <2>5. PICK j \in 1..N : Order[j] = r
    BY <2>2 DEF InOrder, Range
  <2>6. r \in Seq(STRING)
    BY <2>2, <2>5 DEF InOrder
  <2>7. CASE Ancestors(r) \cap all.nonDirs = {}
    <3>1. ~Blocked(all, r)
      BY <2>1, <2>7 DEF Blocked
    <3>2. EntryThere(fs, all, r)
      BY <2>4, <2>5, <3>1 DEF EntriesThere
    <3>3. QED
      BY <2>1, <2>2, <3>2 DEF EntryThere
  <2>8. ASSUME NEW a \in Ancestors(r), a \in all.nonDirs PROVE q \in DOMAIN all.tree
    <3>1. Blocks(fs, a) /\ a \in DOMAIN all.tree
      BY <2>4, <2>8 DEF CountOK, LayerOK
    <3>2. a \notin Ancestors(q)
      <4>1. SUFFICES ASSUME a \in Ancestors(q) PROVE FALSE
        OBVIOUS
      <4>2. a \in DOMAIN tree /\ AncestorIsDir(tree, a) = "dir"
        BY <1>1, <4>1
      <4>3. InRoot(tree, a) # NoPath
        BY <4>2, FoundInPlace
      <4>4. QED
        BY <3>1, <4>2, <4>3 DEF Blocks
    <3>3. q = a \/ q \in Ancestors(a)
      BY <2>1, <2>6, <3>2, AncestorsNest
    <3>4. QED
      BY <2>4, <3>1, <3>3 DEF LayerOK, Closed
  <2>9. QED
    BY <2>2, <2>7, <2>8
<1>4. QED
  BY <1>2, <1>3 DEF Kept

\* A layer that is finished is a tree of what is listed, and has all of that which
\* the image has, as the image has it.
FinishedInv ==
    phase \in {"result", "built"} =>
        /\ IsTree(layer) /\ Sound(files, layer) /\ AllAgree(layer)
        /\ \A p \in DOMAIN tree \ {<<>>} : Kept(DOMAIN files, p) => p \in DOMAIN layer
        /\ \A p \in DOMAIN files : InRoot(tree, p) # NoPath => p \in DOMAIN layer

LEMMA FinishedStep == ListedInv /\ FinishedInv /\ [Next]_vars => FinishedInv'
<1> SUFFICES ASSUME ListedInv, FinishedInv, [Next]_vars, phase' \in {"result", "built"}
             PROVE  /\ IsTree(layer') /\ Sound(files, layer)' /\ AllAgree(layer)'
                    /\ \A p \in DOMAIN tree' \ {<<>>} : Kept(DOMAIN files, p)' => p \in DOMAIN layer'
                    /\ \A p \in DOMAIN files' : InRoot(tree', p) # NoPath => p \in DOMAIN layer'
  BY DEF FinishedInv
<1>1. tree' = tree /\ IsTree(tree) /\ InOrder /\ DOMAIN files \subseteq Range(Order)
  BY Writers, Givens DEF inputs, tree, ListedInv, AllListed
<1>a. Sound(files, layer)' <=> Sound(files', layer')
  BY <1>1 DEF Sound, OnTheWay
<1>b. AllAgree(layer)' <=> AllAgree(layer')
  BY <1>1 DEF AllAgree, Agrees
<1>c. \A p : Kept(DOMAIN files, p)' <=> Kept(DOMAIN files', p)
  BY <1>1 DEF Kept, OnTheWay
<1>2. CASE DigestLayer
  <2>1. layer' = Written(files).tree /\ ~Written(files).failed /\ files' = files
    BY <1>2 DEF DigestLayer, Step
  <2>2. IsTree(layer') /\ Sound(files', layer')
    BY <1>1, <2>1, LayerIsTree, LayerSound
  <2>3. ASSUME NEW p \in DOMAIN files, InRoot(tree, p) # NoPath PROVE p \in DOMAIN layer'
    BY <1>1, <2>1, <2>3, ListedIsWritten
  <2>4. AllAgree(layer')
    BY <1>1, <2>1, WholeLayer DEF Good
  <2>5. ASSUME NEW p \in DOMAIN tree \ {<<>>}, Kept(DOMAIN files, p) PROVE p \in DOMAIN layer'
    BY <1>1, <2>1, <2>5, KeptIsWritten
  <2>6. QED
    BY <1>1, <1>a, <1>b, <1>c, <2>1, <2>2, <2>3, <2>4, <2>5
<1>3. CASE phase \in {"result", "built"} /\ UNCHANGED <<files, layer>>
  BY <1>1, <1>a, <1>b, <1>c, <1>3 DEF FinishedInv
<1>4. (phase \in {"result", "built"} /\ UNCHANGED <<files, layer>>) \/ DigestLayer
  BY DEF Next, vars, StepFails, ResolveELF, ResolveRuntimeCompanions, CheckScratchCompat,
         ApplyDirectoryInclusion, EnsurePaths, ExpandSymlinkTargets, OpenLayer, PeekStores,
         Finish, Step
<1>5. QED
  BY <1>2, <1>3, <1>4

-----------------------------------------------------------------------------
(***************************************************************************)
(* The packages reported as removed.                                       *)
(***************************************************************************)

RemovedInv == phase = "built" /\ result.scanned => result.removed = ComputeRemovedSet

LEMMA RemovedStep == RemovedInv /\ [Next]_vars => RemovedInv'
<1> SUFFICES ASSUME RemovedInv, [Next]_vars, phase' = "built", result'.scanned
             PROVE  result'.removed = ComputeRemovedSet'
  BY DEF RemovedInv
<1>1. CASE \E scanned \in BOOLEAN : Finish(scanned)
  <2>1. PICK scanned \in BOOLEAN : Finish(scanned)
    BY <1>1
  <2>2. result'.scanned = scanned
        /\ result'.removed = IF scanned THEN ComputeRemovedSet ELSE {}
    BY <2>1 DEF Finish
  <2>3. UNCHANGED <<image, files>>
    BY <2>1 DEF Finish, Step, inputs
  <2>4. ComputeRemovedSet' = ComputeRemovedSet
    BY <2>3 DEF ComputeRemovedSet, OwnedFiles, Present, tree
  <2>5. QED
    BY <2>2, <2>4
<1>2. CASE phase = "built" /\ UNCHANGED <<image, files, result>>
  <2>1. ComputeRemovedSet' = ComputeRemovedSet
    BY <1>2 DEF ComputeRemovedSet, OwnedFiles, Present, tree
  <2>2. QED
    BY <1>2, <2>1 DEF RemovedInv
<1>3. (phase = "built" /\ UNCHANGED <<image, files, result>>) \/ \E scanned \in BOOLEAN : Finish(scanned)
  BY DEF Next, vars, StepFails, ResolveELF, ResolveRuntimeCompanions, CheckScratchCompat,
         ApplyDirectoryInclusion, EnsurePaths, ExpandSymlinkTargets, OpenLayer, PeekStores,
         DigestLayer, Step, inputs, writer
<1>4. QED
  BY <1>1, <1>2, <1>3

\* What the layer has of a package none of whose files is listed can only be a
\* directory; of one with a listed file it has that file.
LEMMA LeftOf ==
    ASSUME LayerInv, FinishedInv, AllListed, phase = "built",
           NEW pkg \in DOMAIN image.owned, OneName(pkg)
    PROVE  IF OwnedFiles(pkg) \cap DOMAIN files = {} THEN \A q \in Left(pkg) : layer[q].kind = "dir"
           ELSE Left(pkg) # {}
<1>1. IsTree(tree) /\ InOrder
  BY Givens DEF LayerInv
<1>2. /\ IsTree(layer) /\ Sound(files, layer)
      /\ \A p \in DOMAIN files : InRoot(tree, p) # NoPath => p \in DOMAIN layer
  BY DEF FinishedInv
<1>3. ASSUME OwnedFiles(pkg) \cap DOMAIN files = {}, NEW q \in Left(pkg), layer[q].kind # "dir"
      PROVE  FALSE
  <2>1. PICK o \in OwnedFiles(pkg) : InRoot(tree, q) = InRoot(tree, o)
    BY DEF Left
  <2>2. q \in DOMAIN layer /\ q # <<>>
    BY <1>2, <1>3, Root DEF Left
  <2>3. q \in DOMAIN files
    BY <1>2, <1>3, <2>2 DEF Sound, Dir
  <2>4. q = o
    BY <2>1, <2>3 DEF OneName
  <2>5. QED
    BY <1>3, <2>1, <2>3, <2>4
<1>4. ASSUME NEW o \in OwnedFiles(pkg) \cap DOMAIN files PROVE o \in Left(pkg)
  <2>1. o \in Seq(STRING)
    BY <1>1 DEF AllListed, InOrder, Range
  <2>2. OnHost(tree, o) # NoPath
    BY DEF OwnedFiles, Present
  <2>3. InRoot(tree, o) # NoPath
    <3>1. TRUE \in BOOLEAN /\ FALSE \in BOOLEAN /\ (FALSE => TRUE) /\ Within(tree, tree)
      BY DEF Within
    <3>2. EntryAt(tree, o, FALSE) # NoPath
      BY <2>2 DEF OnHost
    <3>3. EntryAt(tree, o, TRUE) = EntryAt(tree, o, FALSE)
      BY <1>1, <2>1, <3>1, <3>2, EntryKept, Zenon
    <3>4. QED
      BY <3>2, <3>3 DEF InRoot
  <2>4. QED
    BY <1>2, <2>3 DEF Left
<1>5. QED
  BY <1>3, <1>4

\* A package reported as removed (removal.go:101) has left nothing in the layer but
\* perhaps a directory in the place of a link of its own, whatever it is called
\* there, and one not reported that owns anything has left something -- unless
\* the manifest names a file of it otherwise than the package does.
THEOREM RemovedExactHolds == Spec => []RemovedExact
<1>1. Init => LayerInv /\ FinishedInv /\ RemovedInv
  BY LayerInit DEF Init, FinishedInv, RemovedInv
<1>2. LayerInv /\ FinishedInv /\ RemovedInv /\ ListedInv /\ [Next]_vars
         => (LayerInv /\ FinishedInv /\ RemovedInv)'
  BY LayerStep, FinishedStep, RemovedStep
<1>3. LayerInv /\ FinishedInv /\ RemovedInv /\ AllListed => RemovedExact
  <2> SUFFICES ASSUME LayerInv, FinishedInv, RemovedInv, AllListed, phase = "built", result.scanned,
                      NEW pkg \in DOMAIN image.owned, OneName(pkg)
               PROVE  IF pkg \in result.removed
                      THEN OwnedFiles(pkg) # {} /\ \A q \in Left(pkg) : layer[q].kind = "dir"
                      ELSE OwnedFiles(pkg) = {} \/ Left(pkg) # {}
    BY DEF RemovedExact, Built
  <2>1. pkg \in result.removed <=> OwnedFiles(pkg) # {} /\ OwnedFiles(pkg) \cap DOMAIN files = {}
    BY DEF RemovedInv, ComputeRemovedSet
  <2>2. QED
    BY <2>1, LeftOf
<1>4. ListedInv => AllListed
  BY DEF ListedInv
<1>5. QED
  BY <1>1, <1>2, <1>3, <1>4, Listed, PTL DEF Spec

-----------------------------------------------------------------------------
(***************************************************************************)
(* The manifest of a finished layer resolves there as in the image.        *)
(***************************************************************************)

\* Once the manifest is expanded it stays closed under what its links name.
ExpandedInv ==
    phase \in {"open", "digest", "result", "built"} => LinkTargets(DOMAIN files) \subseteq DOMAIN files

LEMMA ExpandedStep == LayerInv /\ ExpandedInv /\ AllListed /\ TargetsListed /\ [Next]_vars => ExpandedInv'
<1> SUFFICES ASSUME LayerInv, ExpandedInv, AllListed, TargetsListed, [Next]_vars,
                    phase' \in {"open", "digest", "result", "built"}
             PROVE  LinkTargets(DOMAIN files)' \subseteq (DOMAIN files)'
  BY DEF ExpandedInv
<1>1. tree' = tree /\ IsTree(tree) /\ InOrder
  BY Writers, Givens DEF inputs, tree, LayerInv
<1>2. LinkTargets(DOMAIN files)' = LinkTargets(DOMAIN files')
  BY <1>1 DEF LinkTargets, IsLink, TargetOf
<1>3. CASE ExpandSymlinkTargets
  <2>1. PICK ps : ps = DOMAIN files
    OBVIOUS
  <2>2. ps \subseteq Expanded(ps) /\ LinkTargets(Expanded(ps)) \subseteq Expanded(ps)
    BY <1>1, <2>1, ExpandedCloses DEF AllListed
  <2>3. DOMAIN files' = ps \cup Expanded(ps)
    BY <1>3, <2>1, Grown DEF ExpandSymlinkTargets
  <2>4. DOMAIN files' = Expanded(ps)
    BY <2>2, <2>3
  <2>5. QED
    BY <1>2, <2>2, <2>4
<1>4. CASE phase \in {"open", "digest", "result", "built"} /\ UNCHANGED files
  BY <1>2, <1>4 DEF ExpandedInv
<1>5. (phase \in {"open", "digest", "result", "built"} /\ UNCHANGED files) \/ ExpandSymlinkTargets
  BY DEF Next, vars, StepFails, ResolveELF, ResolveRuntimeCompanions, CheckScratchCompat,
         ApplyDirectoryInclusion, EnsurePaths, OpenLayer, PeekStores, DigestLayer, Finish, Step
<1>6. QED
  BY <1>3, <1>4, <1>5

\* What is known of a finished layer, for a set of paths with the targets of its links.
Finished(C) ==
    /\ IsTree(tree) /\ IsTree(layer)
    /\ \A p \in C : p \in Seq(STRING) /\ Cleaned(p)
    /\ \A p \in C : InRoot(tree, p) # NoPath => p \in DOMAIN layer /\ Agrees(layer[p], p)
    /\ LinkTargets(C) \subseteq C
    /\ \A p \in C : IsLink(p) => PlainLink(p)

\* Where a path leads to in the image, and in the layer, after h links.
InImage(p, h) == WalkFrom(tree, MaxSymlinkHops, TRUE)[<<<<>>, p, h>>]
InLayer(p, h) == WalkFrom(layer, MaxSymlinkHops, TRUE)[<<<<>>, p, h>>]

SameAfter(p, h) ==
    InImage(p, h) # NoPath => InLayer(p, h) # NoPath /\ layer[InLayer(p, h)] = tree[InImage(p, h)]

AllSameAfter(C, h) == \A p \in C : SameAfter(p, h)

LEMMA CleanedNoneUp ==
    ASSUME NEW p \in Seq(STRING), Cleaned(p)
    PROVE  NoneUp(p)
  BY Zenon DEF Cleaned, NoneUp

\* What a path the image resolves is, in the image and in the layer.
LEMMA EntryInBoth ==
    ASSUME NEW C, Finished(C), NEW p \in C, p # <<>>, NEW h \in 0..MaxSymlinkHops,
           InImage(p, h) # NoPath
    PROVE  /\ p \in Seq(STRING) /\ Front(p) \in Seq(STRING) /\ NoneUp(Front(p))
           /\ Last(p) \in STRING /\ Last(p) # ".." /\ p = Append(Front(p), Last(p))
           /\ Resolve(tree, p) = InImage(p, h) /\ InRoot(tree, p) # NoPath
           /\ p \in DOMAIN layer /\ Agrees(layer[p], p)
           /\ Front(p) \in DOMAIN layer /\ layer[Front(p)] = Dir
<1>1. p \in Seq(STRING) /\ Cleaned(p) /\ IsTree(tree) /\ IsTree(layer)
  BY DEF Finished
<1>2. NoneUp(p)
  BY <1>1, CleanedNoneUp
<1>3. NoneUp(Front(p)) /\ Last(p) # ".."
  BY <1>1, <1>2, NoneUpFront
<1>4. Front(p) \in Seq(STRING) /\ Last(p) \in STRING /\ p = Append(Front(p), Last(p))
  BY <1>1, FrontThenLast
<1>5. Resolve(tree, p) = InImage(p, h)
  BY <1>1, ResolvesTo DEF InImage
<1>6. InRoot(tree, p) # NoPath
  BY <1>1, <1>3, <1>5, ResolvedIsThere
<1>7. p \in DOMAIN layer /\ Agrees(layer[p], p)
  BY <1>6 DEF Finished
<1>8. Front(p) \in DOMAIN layer /\ layer[Front(p)] = Dir
  BY <1>1, <1>7, TreePaths
<1>9. QED
  BY <1>1, <1>3, <1>4, <1>5, <1>6, <1>7, <1>8

LEMMA DirInBoth ==
    ASSUME NEW C, Finished(C), NEW p \in C, p # <<>>, NEW h \in 0..MaxSymlinkHops,
           InImage(p, h) # NoPath, layer[p].kind = "dir"
    PROVE  SameAfter(p, h)
<1>1. IsTree(tree) /\ IsTree(layer)
  BY DEF Finished
<1>2. /\ p \in Seq(STRING) /\ Last(p) # ".." /\ Resolve(tree, p) = InImage(p, h)
      /\ InRoot(tree, p) # NoPath /\ p \in DOMAIN layer /\ Agrees(layer[p], p)
  BY EntryInBoth
<1>3. layer[p] = Dir
  BY <1>1, <1>2, KindOfDir
<1>4. InLayer(p, h) = p
  <2>1. MaxSymlinkHops \in Nat
    BY DEF MaxSymlinkHops
  <2>2. QED
    BY <1>1, <1>2, <1>3, <2>1, StraightToDir DEF InLayer
<1>5. Resolve(tree, p) \in DOMAIN tree
  <2>1. TRUE \in BOOLEAN
    OBVIOUS
  <2>2. Walk(tree, p, MaxSymlinkHops, TRUE) # NoPath
    BY <1>2 DEF Resolve
  <2>3. Walk(tree, p, MaxSymlinkHops, TRUE) \in DOMAIN tree
    BY <1>1, <1>2, <2>1, <2>2, WalkEnds
  <2>4. QED
    BY <2>3 DEF Resolve
<1>6. tree[Resolve(tree, p)].kind = "dir"
  <2>1. CASE layer[p] = tree[InRoot(tree, p)]
    <3>1. tree[InRoot(tree, p)].kind # "link"
      BY <2>1
    <3>2. Resolve(tree, p) = InRoot(tree, p)
      BY <1>1, <1>2, <3>1, NonLinkResolves
    <3>3. QED
      BY <2>1, <3>2
  <2>2. CASE AncestorIsDir(tree, p) = "dir"
    BY <1>2, <2>2 DEF AncestorIsDir
  <2>3. QED
    BY <1>2, <2>1, <2>2 DEF Agrees
<1>7. tree[Resolve(tree, p)] = Dir
  BY <1>1, <1>5, <1>6, KindOfDir
<1>8. p # NoPath
  BY <1>1, <1>2, TreePaths
<1>9. QED
  BY <1>2, <1>3, <1>4, <1>7, <1>8 DEF SameAfter

\* The layer's walk to anything else takes its last step from the directory above.
LEMMA LastInLayer ==
    ASSUME NEW C, Finished(C), NEW p \in C, p # <<>>, NEW h \in 0..MaxSymlinkHops,
           InImage(p, h) # NoPath, layer[p].kind # "dir"
    PROVE  /\ layer[p] = tree[InRoot(tree, p)]
           /\ layer[p].kind # "link" => InLayer(p, h) = p
           /\ layer[p].kind = "link" /\ h # MaxSymlinkHops =>
                 InLayer(p, h) = WalkFrom(layer, MaxSymlinkHops, TRUE)
                                     [<<IF layer[p].abs THEN <<>> ELSE Front(p), layer[p].to, h + 1>>]
<1>1. IsTree(tree) /\ IsTree(layer) /\ MaxSymlinkHops \in Nat
  BY DEF Finished, MaxSymlinkHops
<1>2. PICK f, c : f = Front(p) /\ c = Last(p)
  OBVIOUS
<1>3. /\ f \in Seq(STRING) /\ c \in STRING /\ c # ".." /\ p = Append(f, c)
      /\ InRoot(tree, p) # NoPath /\ p \in DOMAIN layer /\ Agrees(layer[p], p)
      /\ f \in DOMAIN layer /\ layer[f] = Dir
  BY <1>2, EntryInBoth
<1>4. <<c>> \in Seq(STRING) /\ p = f \o <<c>>
  <2>1. <<>> \in Seq(STRING) /\ Append(<<>>, c) = <<c>>
    OBVIOUS
  <2>2. Append(<<>>, c) \in Seq(STRING)
    BY <1>3, <2>1, AppendProperties, Zenon
  <2>3. Append(f, c) = f \o <<c>>
    BY <1>3, OneAppended
  <2>4. QED
    BY <1>3, <2>1, <2>2, <2>3, Zenon
<1>5. InLayer(p, h) = WalkFrom(layer, MaxSymlinkHops, TRUE)[<<f, <<c>>, h>>]
  <2>1. WalkFrom(layer, MaxSymlinkHops, TRUE)[<<<<>>, f \o <<c>>, h>>] =
            WalkFrom(layer, MaxSymlinkHops, TRUE)[<<f, <<c>>, h>>]
    BY <1>1, <1>3, <1>4, ThroughDirs, ZenonT(40)
  <2>2. QED
    BY <1>4, <2>1 DEF InLayer
<1>6. StepTo(layer, MaxSymlinkHops, WalkFrom(layer, MaxSymlinkHops, TRUE), f, c, p, h)
  BY <1>1, <1>3, LastStep
<1>7. layer[p] = tree[InRoot(tree, p)]
  BY <1>3 DEF Agrees
<1>8. QED
  BY <1>2, <1>5, <1>6, <1>7 DEF StepTo

LEMMA FileInBoth ==
    ASSUME NEW C, Finished(C), NEW p \in C, p # <<>>, NEW h \in 0..MaxSymlinkHops,
           InImage(p, h) # NoPath, layer[p].kind \notin {"dir", "link"}
    PROVE  SameAfter(p, h)
<1>1. IsTree(tree) /\ IsTree(layer)
  BY DEF Finished
<1>2. /\ p \in Seq(STRING) /\ Last(p) # ".." /\ Resolve(tree, p) = InImage(p, h)
      /\ InRoot(tree, p) # NoPath /\ p \in DOMAIN layer
  BY EntryInBoth
<1>3. layer[p] = tree[InRoot(tree, p)] /\ InLayer(p, h) = p
  BY LastInLayer
<1>4. Resolve(tree, p) = InRoot(tree, p)
  BY <1>1, <1>2, <1>3, NonLinkResolves
<1>5. p # NoPath
  BY <1>1, <1>2, TreePaths
<1>6. QED
  BY <1>2, <1>3, <1>4, <1>5 DEF SameAfter

\* A link that is listed leads on to its target, which is listed as well.
TargetInBoth(p, h) ==
    /\ InImage(p, h) = InImage(TargetOf(p), h + 1)
    /\ InLayer(p, h) = InLayer(TargetOf(p), h + 1)

LEMMA LinkLeadsOn ==
    ASSUME NEW C, Finished(C), NEW p \in C, p # <<>>, NEW h \in 0..MaxSymlinkHops,
           InImage(p, h) # NoPath, layer[p].kind = "link"
    PROVE  h # MaxSymlinkHops /\ IsLink(p) /\ TargetInBoth(p, h)
<1>1. IsTree(tree) /\ IsTree(layer)
  BY DEF Finished
<1>2. PICK m, w, v, n : /\ m = MaxSymlinkHops /\ n = h + 1
                        /\ w = WalkFrom(tree, m, TRUE) /\ v = WalkFrom(layer, m, TRUE)
  OBVIOUS
<1>3. m \in Nat
  BY <1>2 DEF MaxSymlinkHops
<1>4. PICK f, c, e, q, to : /\ f = Front(p) /\ c = Last(p) /\ e = InRoot(tree, p)
                            /\ q = InImage(p, h) /\ to = tree[e].to
  OBVIOUS
<1>5. /\ p \in Seq(STRING) /\ f \in Seq(STRING) /\ NoneUp(f) /\ c \in STRING /\ c # ".."
      /\ p = Append(f, c) /\ e # NoPath /\ f \in DOMAIN layer /\ layer[f] = Dir /\ q # NoPath
  BY <1>4, EntryInBoth
<1>6. layer[p] = tree[e] /\ tree[e].kind = "link"
  BY <1>4, LastInLayer
<1>7. IsLink(p) /\ PlainLink(p)
  BY <1>4, <1>5, <1>6 DEF IsLink, LinkAt, Finished
<1>8. to \in Seq(STRING) /\ UpFirst(to) /\ tree[e].abs \in BOOLEAN
  <2>1. tree[e].to \in Seq(STRING) /\ tree[e].abs \in BOOLEAN
    BY <1>1, <1>4, <1>5, <1>7, LinkIs
  <2>2. \A i \in 1..Len(to) : to[i] = ".." => Unaliased(p) /\ \A j \in 1..i : to[j] = ".."
    BY <1>4, <1>7 DEF PlainLink
  <2>3. QED
    BY <1>4, <2>1, <2>2 DEF UpFirst
<1>9. PICK d \in DOMAIN tree :
          /\ h # m /\ tree[d] = Dir /\ e = Append(d, c)
          /\ tree[e].abs => q = w[<<<<>>, to, n>>]
          /\ ~tree[e].abs => q = w[<<d, to, n>>] /\ q = w[<<<<>>, f \o to, n>>]
  <2>1. /\ p # <<>> /\ p \in Seq(STRING) /\ Last(p) # ".." /\ m = MaxSymlinkHops /\ h \in 0..m
        /\ w = WalkFrom(tree, m, TRUE) /\ q = w[<<<<>>, p, h>>] /\ q # NoPath
        /\ e = InRoot(tree, p) /\ e # NoPath /\ tree[e].kind = "link"
    BY <1>2, <1>4, <1>5, <1>6 DEF InImage
  <2>2. h # m /\ \E d \in DOMAIN tree : GoesOn(tree, w, p, q, e, d, h)
    BY <1>1, <2>1, FollowLink
  <2>3. PICK d \in DOMAIN tree : GoesOn(tree, w, p, q, e, d, h)
    BY <2>2
  <2>4. /\ tree[d] = Dir /\ e = Append(d, c)
        /\ tree[e].abs => q = w[<<<<>>, to, n>>]
        /\ ~tree[e].abs => q = w[<<d, to, n>>] /\ q = w[<<<<>>, f \o to, n>>]
    BY <1>2, <1>4, <2>3, Zenon DEF GoesOn
  <2>5. QED
    BY <2>2, <2>4
<1>10. n \in 0..m
  BY <1>2, <1>3, <1>9
<1>11. InLayer(p, h) = v[<<IF tree[e].abs THEN <<>> ELSE f, to, n>>]
  <2>1. layer[p].kind = "link" /\ h # MaxSymlinkHops /\ layer[p].abs = tree[e].abs /\ layer[p].to = to
    BY <1>2, <1>4, <1>6, <1>9
  <2>2. InLayer(p, h) = WalkFrom(layer, MaxSymlinkHops, TRUE)
                            [<<IF layer[p].abs THEN <<>> ELSE Front(p), layer[p].to, h + 1>>]
    BY <2>1, LastInLayer, ZenonT(40)
  <2>3. WalkFrom(layer, MaxSymlinkHops, TRUE) = v /\ Front(p) = f /\ h + 1 = n
    BY <1>2, <1>4
  <2>4. QED
    BY <2>1, <2>2, <2>3
<1>12. PICK target : target = TargetOf(p)
  OBVIOUS
<1>13. target = Clean(IF tree[e].abs THEN to ELSE f \o to)
  BY <1>4, <1>12 DEF TargetOf, TargetFrom
<1>14. SUFFICES q = w[<<<<>>, target, n>>] /\ InLayer(p, h) = v[<<<<>>, target, n>>]
  BY <1>2, <1>4, <1>7, <1>9, <1>12 DEF TargetInBoth, InImage, InLayer
<1>15. CASE tree[e].abs
  <2>1. /\ <<>> \in DOMAIN tree /\ tree[<<>>] = Dir /\ <<>> \in DOMAIN layer /\ layer[<<>>] = Dir
    BY <1>1 DEF IsTree, Has
  <2>2. WalkFrom(tree, m, TRUE)[<<<<>>, to, n>>] = WalkFrom(tree, m, TRUE)[<<<<>>, Clean(<<>> \o to), n>>]
    BY <1>1, <1>3, <1>8, <1>10, <2>1, CleanWalk
  <2>3. WalkFrom(layer, m, TRUE)[<<<<>>, to, n>>] = WalkFrom(layer, m, TRUE)[<<<<>>, Clean(<<>> \o to), n>>]
    BY <1>1, <1>3, <1>8, <1>10, <2>1, CleanWalk
  <2>4. <<>> \o to = to
    BY <1>8
  <2>5. target = Clean(to)
    BY <1>13, <1>15
  <2>6. InLayer(p, h) = v[<<<<>>, to, n>>] /\ q = w[<<<<>>, to, n>>]
    BY <1>9, <1>11, <1>15
  <2>7. QED
    BY <1>2, <2>2, <2>3, <2>4, <2>5, <2>6
<1>16. CASE ~tree[e].abs /\ NoneUp(to)
  <2>1. target = f \o to
    <3>1. f \o to \in Seq(STRING)
      BY <1>5, <1>8, ConcatProperties
    <3>2. NoneUp(f \o to)
      BY <1>5, <1>8, <1>16, NoneUpConcat
    <3>3. QED
      BY <1>13, <1>16, <3>1, <3>2, CleanAlready
  <2>2. WalkFrom(layer, m, TRUE)[<<<<>>, f \o to, n>>] = WalkFrom(layer, m, TRUE)[<<f, to, n>>]
    <3>1. m \in Nat /\ f \in DOMAIN layer /\ layer[f] = Dir /\ to \in Seq(STRING) /\ n \in 0..m
      BY <1>3, <1>5, <1>8, <1>10
    <3>2. QED
      BY <1>1, <3>1, ThroughDirs, Zenon
  <2>3. InLayer(p, h) = v[<<f, to, n>>] /\ q = w[<<<<>>, f \o to, n>>]
    BY <1>9, <1>11, <1>16
  <2>4. QED
    BY <1>2, <2>1, <2>2, <2>3
<1>17. CASE ~tree[e].abs /\ ~NoneUp(to)
  <2>1. f = d
    <3>1. PICK i \in 1..Len(to) : to[i] = ".."
      BY <1>17 DEF NoneUp
    <3>2. Unaliased(p)
      BY <1>4, <1>7, <3>1 DEF PlainLink
    <3>3. e = p
      BY <1>4, <1>5, <3>2 DEF Unaliased
    <3>4. d \in Seq(STRING)
      BY <1>1, TreePaths
    <3>5. Front(e) = d
      BY <1>5, <1>9, <3>4, FrontOfAppend
    <3>6. QED
      BY <1>4, <3>3, <3>5
  <2>2. WalkFrom(tree, m, TRUE)[<<d, to, n>>] = WalkFrom(tree, m, TRUE)[<<<<>>, Clean(d \o to), n>>]
    BY <1>1, <1>3, <1>8, <1>9, <1>10, CleanWalk
  <2>3. WalkFrom(layer, m, TRUE)[<<f, to, n>>] = WalkFrom(layer, m, TRUE)[<<<<>>, Clean(f \o to), n>>]
    BY <1>1, <1>3, <1>5, <1>8, <1>10, CleanWalk, ZenonT(40)
  <2>4. InLayer(p, h) = v[<<f, to, n>>] /\ q = w[<<d, to, n>>] /\ target = Clean(f \o to)
    BY <1>9, <1>11, <1>13, <1>17
  <2>5. QED
    BY <1>2, <2>1, <2>2, <2>3, <2>4
<1>18. QED
  BY <1>8, <1>15, <1>16, <1>17

LEMMA LinkInBoth ==
    ASSUME NEW C, Finished(C), NEW p \in C, p # <<>>, NEW h \in 0..MaxSymlinkHops,
           InImage(p, h) # NoPath, layer[p].kind = "link",
           h # MaxSymlinkHops => AllSameAfter(C, h + 1)
    PROVE  SameAfter(p, h)
<1>1. IsTree(tree) /\ p \in Seq(STRING)
  BY DEF Finished
<1>2. PICK n, to : n = h + 1 /\ to = TargetOf(p)
  OBVIOUS
<1>3. /\ h # MaxSymlinkHops /\ IsLink(p)
      /\ InImage(p, h) = InImage(to, n) /\ InLayer(p, h) = InLayer(to, n)
  BY <1>2, LinkLeadsOn DEF TargetInBoth
<1>4. n \in 0..MaxSymlinkHops
  BY <1>2, <1>3 DEF MaxSymlinkHops
<1>5. to \in Seq(STRING) /\ NoneUp(to)
  BY <1>1, <1>2, <1>3, LinkIs
<1>6. InRoot(tree, to) # NoPath
  <2>1. CASE to = <<>>
    <3>1. InRoot(tree, to) = <<>>
      BY <2>1 DEF InRoot, EntryAt
    <3>2. <<>> # NoPath
      BY DEF NoPath
    <3>3. QED
      BY <3>1, <3>2
  <2>2. CASE to # <<>>
    <3>1. Last(to) # ".."
      BY <1>5, <2>2, NoneUpFront
    <3>2. WalkFrom(tree, MaxSymlinkHops, TRUE)[<<<<>>, to, n>>] # NoPath
      BY <1>3 DEF InImage
    <3>3. Resolve(tree, to) # NoPath
      BY <1>1, <1>4, <1>5, <3>2, ResolvesTo
    <3>4. QED
      BY <1>1, <1>5, <2>2, <3>1, <3>3, ResolvedIsThere
  <2>3. QED
    BY <2>1, <2>2
<1>7. to \in C
  <2>1. to \in LinkTargets(C)
    BY <1>2, <1>3, <1>6 DEF LinkTargets
  <2>2. QED
    BY <2>1 DEF Finished
<1>8. SameAfter(to, n)
  BY <1>2, <1>3, <1>7 DEF AllSameAfter
<1>9. QED
  BY <1>3, <1>8 DEF SameAfter

LEMMA SameBefore ==
    ASSUME NEW C, Finished(C), NEW h \in 0..MaxSymlinkHops, h # MaxSymlinkHops => AllSameAfter(C, h + 1)
    PROVE  AllSameAfter(C, h)
<1>1. SUFFICES ASSUME NEW p \in C, InImage(p, h) # NoPath PROVE SameAfter(p, h)
  BY DEF AllSameAfter, SameAfter
<1>2. CASE p = <<>>
  <2>1. /\ IsTree(tree) /\ <<>> \in DOMAIN tree /\ tree[<<>>] = Dir
        /\ IsTree(layer) /\ <<>> \in DOMAIN layer /\ layer[<<>>] = Dir
    BY DEF Finished, IsTree, Has
  <2>2. MaxSymlinkHops \in Nat
    BY DEF MaxSymlinkHops
  <2>3. WalkFrom(tree, MaxSymlinkHops, TRUE)[<<<<>>, <<>>, h>>] = <<>>
    BY <2>1, <2>2, StraightToDir
  <2>4. WalkFrom(layer, MaxSymlinkHops, TRUE)[<<<<>>, <<>>, h>>] = <<>>
    BY <2>1, <2>2, StraightToDir
  <2>5. <<>> # NoPath
    BY DEF NoPath
  <2>6. InImage(p, h) = <<>> /\ InLayer(p, h) = <<>>
    BY <1>2, <2>3, <2>4 DEF InImage, InLayer
  <2>7. QED
    BY <2>1, <2>5, <2>6 DEF SameAfter
<1>3. CASE p # <<>>
  BY <1>1, <1>3, DirInBoth, FileInBoth, LinkInBoth
<1>4. QED
  BY <1>2, <1>3

\* The fewer links a walk may still follow, the sooner it is known to be the same.
LEMMA AllSame ==
    ASSUME NEW C, Finished(C)
    PROVE  AllSameAfter(C, 0)
<1>1. PICK m : m = MaxSymlinkHops /\ m \in Nat
  BY DEF MaxSymlinkHops
<1> DEFINE Wrong == {n \in 0..m : ~AllSameAfter(C, m - n)}
<1>2. Wrong \in SUBSET Nat
  BY <1>1
<1>3. ASSUME NEW n \in Wrong, \A k \in Wrong : n <= k PROVE FALSE
  <2>1. PICK h : h = m - n /\ h \in 0..m /\ ~AllSameAfter(C, h)
    BY <1>1, <1>3
  <2>2. ASSUME h # m PROVE AllSameAfter(C, h + 1)
    <3>1. PICK k : k = n - 1 /\ k \in 0..m /\ ~(n <= k) /\ m - k = h + 1
      BY <1>1, <2>1, <2>2
    <3>2. k \notin Wrong
      BY <1>3, <3>1
    <3>3. AllSameAfter(C, m - k)
      BY <3>1, <3>2
    <3>4. QED
      BY <3>1, <3>3
  <2>3. AllSameAfter(C, h)
    BY <1>1, <2>1, <2>2, SameBefore
  <2>4. QED
    BY <2>1, <2>3
<1>4. Wrong = {}
  <2> HIDE DEF Wrong
  <2>1. QED
    BY <1>2, <1>3, Least
<1>5. m \in 0..m /\ m - m = 0
  BY <1>1
<1>6. QED
  BY <1>4, <1>5

\* Every path of the manifest that the image resolves resolves in the layer, and to the
\* same content (builder.go:612), if the links of the manifest are plain: the links are
\* there with their targets, because expandSymlinkTargets has closed the manifest under
\* them, and each walk of the image is one of the layer with fewer links ahead of it.
THEOREM ManifestResolvesHolds == Spec => []ManifestResolves
<1>1. Init => LayerInv /\ AgreeInv /\ FinishedInv /\ ExpandedInv
  BY LayerInit, AgreeInit DEF Init, FinishedInv, ExpandedInv
<1>2. LayerInv /\ AgreeInv /\ FinishedInv /\ ExpandedInv /\ ListedInv /\ TargetsListed /\ [Next]_vars
         => (LayerInv /\ AgreeInv /\ FinishedInv /\ ExpandedInv)'
  BY LayerStep, AgreeInvStep, FinishedStep, ExpandedStep DEF ListedInv
<1>3. LayerInv /\ AgreeInv /\ FinishedInv /\ ExpandedInv /\ AllListed => ManifestResolves
  <2> SUFFICES ASSUME LayerInv, AgreeInv, FinishedInv, ExpandedInv, AllListed, phase = "built",
                      \A p \in DOMAIN files : IsLink(p) => PlainLink(p),
                      NEW p \in DOMAIN files, Resolve(tree, p) # NoPath
               PROVE  Resolve(layer, p) # NoPath /\ layer[Resolve(layer, p)] = tree[Resolve(tree, p)]
    BY DEF ManifestResolves, Built
  <2>1. IsTree(tree) /\ InOrder /\ IsTree(layer)
    BY Givens DEF LayerInv, FinishedInv
  <2>2. ASSUME NEW x \in DOMAIN files PROVE x \in Seq(STRING) /\ Cleaned(x)
    BY <2>1, <2>2 DEF AllListed, InOrder, Range
  <2>3. ASSUME NEW x \in DOMAIN files, InRoot(tree, x) # NoPath
        PROVE  x \in DOMAIN layer /\ Agrees(layer[x], x)
    BY <2>3 DEF FinishedInv, AgreeInv, AllAgree
  <2>4. LinkTargets(DOMAIN files) \subseteq DOMAIN files
    BY DEF ExpandedInv
  <2>5. Finished(DOMAIN files)
    BY <2>1, <2>2, <2>3, <2>4 DEF Finished
  <2>6. SameAfter(p, 0)
    BY <2>5, AllSame DEF AllSameAfter
  <2>7. MaxSymlinkHops \in Nat /\ TRUE \in BOOLEAN
    BY DEF MaxSymlinkHops
  <2>8. Resolve(tree, p) = InImage(p, 0) /\ Resolve(layer, p) = InLayer(p, 0)
    BY <2>1, <2>7, WalkIs DEF Resolve, InImage, InLayer
  <2>9. QED
    BY <2>6, <2>8 DEF SameAfter
<1>4. ListedInv => AllListed /\ TargetsListed
  BY OrderLists DEF ListedInv
<1>5. QED
  BY <1>1, <1>2, <1>3, <1>4, Listed, PTL DEF Spec

-----------------------------------------------------------------------------
(***************************************************************************)
(* What the manifest names at each step, by what the build was given.      *)
(***************************************************************************)

NormalNames(ps) ==
    (ps \ DOMAIN FinalOf)
    \cup {p \in {FinalOf[q] : q \in ps \cap DOMAIN FinalOf} : InRoot(tree, p) # NoPath}

CompanionNames(ps) ==
    {p \in {SourceOf[c] : c \in ps \cap DOMAIN SourceOf} : InRoot(tree, p) # NoPath}

ELFNames == DOMAIN observed \cup image.elf

RuntimeNames == NormalNames(ELFNames) \cup CompanionNames(NormalNames(ELFNames))

IncludeNames == RuntimeNames \cup Scratch \cup UNION {Included(incl) : incl \in opts.includes}

EnsureNames == IncludeNames \cup {e[1] : e \in opts.ensures}

AllNames == Expanded(EnsureNames)

NamesInv ==
    /\ phase = "extract"    => DOMAIN files = DOMAIN observed
    /\ phase = "companions" => DOMAIN files = ELFNames
    /\ phase = "scratch"    => DOMAIN files = RuntimeNames
    /\ phase = "include"    => DOMAIN files = RuntimeNames \cup Scratch
    /\ phase = "ensure"     => DOMAIN files = IncludeNames
    /\ phase = "expand"     => DOMAIN files = EnsureNames
    /\ phase \in {"open", "digest", "result", "built"} => DOMAIN files = AllNames

\* Names depend on the inputs alone, and on the image mostly.
LEMMA NamesLeft ==
    ASSUME image' = image, observed' = observed
    PROVE  /\ ELFNames' = ELFNames /\ RuntimeNames' = RuntimeNames /\ Scratch' = Scratch
           /\ \A ps : Expanded(ps)' = Expanded(ps)
           /\ \A incl : Included(incl)' = Included(incl)
<1>1. tree' = tree
  BY DEF tree
<1>2. ELFNames' = ELFNames
  BY DEF ELFNames
<1>3. NormalNames(ELFNames)' = NormalNames(ELFNames)
  BY <1>1, <1>2 DEF NormalNames
<1>4. RuntimeNames' = RuntimeNames
  BY <1>1, <1>3 DEF RuntimeNames, CompanionNames
<1>5. \A p : Present(p)' = Present(p)
  BY <1>1 DEF Present
<1>6. Certificates' = Certificates
  BY <1>1, <1>5 DEF Certificates
<1>7. Linker' = Linker
  BY <1>5 DEF Linker
<1>8. Scratch' = Scratch
  BY <1>5, <1>6, <1>7 DEF Scratch
<1>9. \A ps : Expanded(ps)' = Expanded(ps)
  BY <1>1 DEF Expanded, LinkTargets, IsLink, TargetOf
<1>10. \A incl : Included(incl)' = Included(incl)
  BY <1>1 DEF Included
<1>11. QED
  BY <1>2, <1>4, <1>8, <1>9, <1>10

\* What a build is told besides only adds to what it names.
LEMMA EnsureNamesGrow ==
    ASSUME image' = image, observed' = observed,
           opts.includes \subseteq opts'.includes, opts.ensures \subseteq opts'.ensures
    PROVE  EnsureNames \subseteq EnsureNames'
<1>1. /\ RuntimeNames' = RuntimeNames /\ Scratch' = Scratch
      /\ \A incl : Included(incl)' = Included(incl)
  BY NamesLeft
<1>2. UNION {Included(incl) : incl \in opts.includes}
          \subseteq UNION {Included(incl)' : incl \in opts'.includes}
  BY <1>1
<1>3. IncludeNames \subseteq IncludeNames'
  BY <1>1, <1>2 DEF IncludeNames
<1>4. {e[1] : e \in opts.ensures} \subseteq {e[1] : e \in opts'.ensures}
  OBVIOUS
<1>5. QED
  BY <1>3, <1>4 DEF EnsureNames

LEMMA EnsureNamesListed ==
    ASSUME ListedInv, observed \in Observations
    PROVE  EnsureNames \subseteq Range(Order)
<1>1. PICK R : R = Range(Order)
  OBVIOUS
<1>2. image.elf \subseteq R /\ Range(FinalOf) \cup Range(SourceOf) \cup Scratch \subseteq R
  BY <1>1, OrderLists DEF ListedInv
<1>3. DOMAIN observed \subseteq R
  BY <1>1, ListedAssumption
<1>4. {e[1] : e \in opts.ensures} \subseteq R /\ \A incl \in opts.includes : Included(incl) \subseteq R
  BY <1>1 DEF ListedInv, OptionsListed
<1>5. NormalNames(ELFNames) \subseteq R
  <2>1. ELFNames \subseteq R
    BY <1>2, <1>3 DEF ELFNames
  <2>2. {FinalOf[q] : q \in ELFNames \cap DOMAIN FinalOf} \subseteq R
    BY <1>2 DEF Range
  <2>3. QED
    BY <2>1, <2>2 DEF NormalNames
<1>6. CompanionNames(NormalNames(ELFNames)) \subseteq R
  <2>1. \A c \in DOMAIN SourceOf : SourceOf[c] \in R
    BY <1>2 DEF Range
  <2>2. QED
    BY <2>1 DEF CompanionNames
<1>7. UNION {Included(incl) : incl \in opts.includes} \subseteq R
  BY <1>4
<1>8. IncludeNames \subseteq R
  BY <1>2, <1>5, <1>6, <1>7 DEF IncludeNames, RuntimeNames
<1>9. QED
  BY <1>1, <1>4, <1>8 DEF EnsureNames

\* The names of a build have what they were made from, and the targets of their links.
LEMMA NamesClosed ==
    ASSUME ListedInv, observed \in Observations
    PROVE  /\ EnsureNames \subseteq AllNames /\ AllNames \subseteq Range(Order)
           /\ LinkTargets(AllNames) \subseteq AllNames
           /\ \A c : EnsureNames \subseteq c /\ LinkTargets(c) \subseteq c => AllNames \subseteq c
<1>1. IsTree(tree) /\ InOrder /\ TargetsListed
  BY Givens, OrderLists DEF ListedInv
<1>2. EnsureNames \subseteq Range(Order)
  BY EnsureNamesListed
<1>3. QED
  BY <1>1, <1>2, ExpandedCloses DEF AllNames

LEMMA AllNamesGrow ==
    ASSUME ListedInv, observed \in Observations, image' = image, observed' = observed,
           opts.includes \subseteq opts'.includes, opts.ensures \subseteq opts'.ensures,
           EnsureNames' \subseteq Range(Order)
    PROVE  AllNames \subseteq AllNames'
<1>1. IsTree(tree) /\ InOrder /\ TargetsListed
  BY Givens, OrderLists DEF ListedInv
<1>2. PICK es, c : es = EnsureNames' /\ c = Expanded(es)
  OBVIOUS
<1>3. AllNames' = c
  BY <1>2, NamesLeft DEF AllNames
<1>4. es \subseteq c /\ LinkTargets(c) \subseteq c
  BY <1>1, <1>2, ExpandedCloses
<1>5. EnsureNames \subseteq c
  BY <1>2, <1>4, EnsureNamesGrow
<1>6. QED
  BY <1>3, <1>4, <1>5, NamesClosed

LEMMA NamesStep ==
    ASSUME NamesInv, ListedInv, observed \in Observations, [Next]_vars
    PROVE  NamesInv'
<1>1. image' = image /\ observed' = observed /\ opts' = opts /\ tree' = tree
  BY Writers DEF inputs, tree
<1>2. /\ ELFNames' = ELFNames /\ RuntimeNames' = RuntimeNames /\ Scratch' = Scratch
      /\ \A ps : Expanded(ps)' = Expanded(ps)
      /\ \A incl : Included(incl)' = Included(incl)
  BY <1>1, NamesLeft
<1>3. IncludeNames' = IncludeNames
  BY <1>1, <1>2 DEF IncludeNames
<1>4. EnsureNames' = EnsureNames
  BY <1>1, <1>3 DEF EnsureNames
<1>5. AllNames' = AllNames
  BY <1>2, <1>4 DEF AllNames
<1>6. CASE ResolveELF
  <2>1. phase = "extract" /\ phase' = "companions" /\ files' = AddNew(files, image.elf, "inferred-elf")
    BY <1>6 DEF ResolveELF, Step
  <2>2. DOMAIN files' = DOMAIN files \cup image.elf
    BY <2>1, Grown, Zenon
  <2>3. DOMAIN files' = ELFNames'
    BY <1>2, <2>1, <2>2 DEF NamesInv, ELFNames
  <2>4. QED
    BY <2>1, <2>3 DEF NamesInv
<1>7. CASE ResolveRuntimeCompanions
  <2>1. PICK fs : (\E of : fs = Normalised(files, of)) /\ files' = AddNew(fs, Companions(fs), "inferred-runtime")
    BY <1>7 DEF ResolveRuntimeCompanions
  <2>2. phase = "companions" /\ phase' = "scratch"
    BY <1>7 DEF ResolveRuntimeCompanions, Step
  <2>3. DOMAIN files = ELFNames
    BY <2>2 DEF NamesInv
  <2>4. DOMAIN fs = NormalNames(ELFNames)
    BY <2>1, <2>3 DEF Normalised, FinalNames, NormalNames
  <2>5. Companions(fs) = CompanionNames(NormalNames(ELFNames))
    BY <2>4 DEF Companions, CompanionNames
  <2>6. DOMAIN files' = DOMAIN fs \cup Companions(fs)
    BY <2>1, Grown, Zenon
  <2>7. DOMAIN files' = RuntimeNames'
    BY <1>2, <2>4, <2>5, <2>6 DEF RuntimeNames
  <2>8. QED
    BY <2>2, <2>7 DEF NamesInv
<1>8. CASE CheckScratchCompat
  <2>1. phase = "scratch" /\ phase' = "include" /\ files' = AddNew(files, Scratch, "scratch-compat")
    BY <1>8 DEF CheckScratchCompat, Step
  <2>2. DOMAIN files' = DOMAIN files \cup Scratch
    BY <2>1, Grown, Zenon
  <2>3. DOMAIN files' = RuntimeNames' \cup Scratch'
    BY <1>2, <2>1, <2>2 DEF NamesInv
  <2>4. QED
    BY <2>1, <2>3 DEF NamesInv
<1>9. CASE ApplyDirectoryInclusion
  <2>1. /\ phase = "include" /\ phase' = "ensure"
        /\ files' = AddNew(files, UNION {Included(incl) : incl \in opts.includes}, "directory-inclusion")
    BY <1>9 DEF ApplyDirectoryInclusion, Step
  <2>2. DOMAIN files' = DOMAIN files \cup UNION {Included(incl) : incl \in opts.includes}
    BY <2>1, Grown, Zenon
  <2>3. DOMAIN files = RuntimeNames \cup Scratch
    BY <2>1 DEF NamesInv
  <2>4. DOMAIN files' = IncludeNames'
    BY <1>3, <2>2, <2>3 DEF IncludeNames
  <2>5. QED
    BY <2>1, <2>4 DEF NamesInv
<1>10. CASE EnsurePaths
  <2>1. /\ phase = "ensure" /\ phase' \in {"failed", "expand"}
        /\ phase' = "expand" => files' = ApplyEnsurePaths(files, opts.ensures)
    BY <1>10 DEF EnsurePaths, Step
  <2>2. ASSUME phase' = "expand" PROVE DOMAIN files' = EnsureNames'
    <3>1. DOMAIN files' = DOMAIN files \cup {e[1] : e \in opts.ensures}
      BY <2>1, <2>2 DEF ApplyEnsurePaths
    <3>2. DOMAIN files = IncludeNames
      BY <2>1 DEF NamesInv
    <3>3. QED
      BY <1>4, <3>1, <3>2 DEF EnsureNames
  <2>3. QED
    BY <2>1, <2>2 DEF NamesInv
<1>11. CASE ExpandSymlinkTargets
  <2>1. /\ phase = "expand" /\ phase' \in {"failed", "open"}
        /\ files' = AddNew(files, Expanded(DOMAIN files), "symlink-target")
    BY <1>11 DEF ExpandSymlinkTargets, Step
  <2>2. DOMAIN files' = DOMAIN files \cup Expanded(DOMAIN files)
    BY <2>1, Grown, Zenon
  <2>3. DOMAIN files = EnsureNames
    BY <2>1 DEF NamesInv
  <2>4. EnsureNames \subseteq AllNames
    BY NamesClosed
  <2>5. DOMAIN files' = AllNames'
    BY <1>5, <2>2, <2>3, <2>4 DEF AllNames
  <2>6. QED
    BY <2>1, <2>5 DEF NamesInv
<1>12. CASE phase' = "failed"
  BY <1>12 DEF NamesInv
<1>13. CASE files' = files /\ phase' = phase
  BY <1>2, <1>3, <1>4, <1>5, <1>13, <1>1 DEF NamesInv
<1>14. CASE files' = files /\ {phase, phase'} \subseteq {"open", "digest", "result", "built"}
  <2>1. DOMAIN files' = AllNames'
    BY <1>5, <1>14 DEF NamesInv
  <2>2. phase' \in {"open", "digest", "result", "built"}
    BY <1>14
  <2>3. QED
    BY <2>1, <2>2 DEF NamesInv
<1>15. \/ ResolveELF \/ ResolveRuntimeCompanions \/ CheckScratchCompat \/ ApplyDirectoryInclusion
       \/ EnsurePaths \/ ExpandSymlinkTargets \/ phase' = "failed"
       \/ files' = files /\ phase' = phase
       \/ files' = files /\ {phase, phase'} \subseteq {"open", "digest", "result", "built"}
  BY DEF Next, vars, StepFails, OpenLayer, PeekStores, DigestLayer, Finish, Step
<1>16. QED
  BY <1>6, <1>7, <1>8, <1>9, <1>10, <1>11, <1>12, <1>13, <1>14, <1>15

\* A file below what is to be included is named, and one that is ensured.
LEMMA AskedIsKept ==
    ASSUME ListedInv, observed \in Observations, NEW w \in DOMAIN tree \ {<<>>},
           \/ HoldsFile(tree, w) /\ (Ancestors(w) \cup {w}) \cap opts.includes # {}
           \/ \E e \in opts.ensures : w = e[1]
    PROVE  Kept(AllNames, w)
<1>1. IsTree(tree) /\ w \in Seq(STRING)
  BY Givens, TreePaths DEF ListedInv
<1>2. EnsureNames \subseteq AllNames
  BY NamesClosed
<1>3. CASE \E e \in opts.ensures : w = e[1]
  BY <1>2, <1>3 DEF EnsureNames, Kept
<1>4. CASE HoldsFile(tree, w) /\ (Ancestors(w) \cup {w}) \cap opts.includes # {}
  <2>1. PICK q \in DOMAIN tree : IsPrefix(w, q) /\ tree[q].kind # "dir"
    BY <1>4 DEF HoldsFile
  <2>2. PICK a \in Ancestors(w) \cup {w} : a \in opts.includes
    BY <1>4
  <2>3. q \in Seq(STRING)
    BY <1>1, TreePaths
  <2>4. w = q \/ w \in Ancestors(q)
    BY <1>1, <2>1, <2>3, PrefixIsAncestor DEF IsStrictPrefix
  <2>5. a \in Ancestors(q) \cup {q}
    BY <1>1, <2>2, <2>3, <2>4, AncestorsAre
  <2>6. IsPrefix(a, q) /\ a \in DOMAIN tree
    <3>1. CASE a = q
      BY <2>3, <3>1, SubSeqFull DEF IsPrefix
    <3>2. CASE a \in Ancestors(q)
      BY <1>1, <2>3, <3>2, AncestorsAre, FoundInPlace DEF IsStrictPrefix
    <3>3. QED
      BY <2>5, <3>1, <3>2
  <2>7. q \in Included(a)
    BY <1>1, <2>1, <2>6, FileIncluded
  <2>8. q \in AllNames
    BY <1>2, <2>2, <2>7 DEF EnsureNames, IncludeNames
  <2>9. NonDirAncestor(tree, q) = NoPath
    BY <1>1, NothingInTheWay
  <2>10. QED
    BY <2>4, <2>8, <2>9 DEF Kept, OnTheWay
<1>5. QED
  BY <1>3, <1>4

\* What the image resolves and a finished layer has, it resolves, too, if the links on the
\* way can be named lexically.
LEMMA ResolvesInLayer ==
    ASSUME ListedInv, FinishedInv, NamesInv, observed \in Observations, phase = "built",
           NEW q \in DOMAIN layer, q \in DOMAIN tree, Resolve(tree, q) # NoPath,
           \A p \in Expanded({q}) : IsLink(p) => PlainLink(p)
    PROVE  Resolve(layer, q) # NoPath
<1>1. IsTree(tree) /\ InOrder /\ TargetsListed /\ IsTree(layer)
  BY Givens, OrderLists DEF ListedInv, FinishedInv
<1>2. MaxSymlinkHops \in Nat /\ TRUE \in BOOLEAN
  BY DEF MaxSymlinkHops
<1>3. Resolve(tree, q) = InImage(q, 0) /\ Resolve(layer, q) = InLayer(q, 0)
  BY <1>1, <1>2, WalkIs DEF Resolve, InImage, InLayer
<1>4. CASE layer[q].kind = "dir"
  <2>1. layer[q] = Dir
    BY <1>1, <1>4, KindOfDir
  <2>2. 0 \in 0..MaxSymlinkHops
    BY <1>2
  <2>3. InLayer(q, 0) = q
    BY <1>1, <1>2, <2>1, <2>2, StraightToDir DEF InLayer
  <2>4. q # NoPath
    BY <1>1, TreePaths
  <2>5. QED
    BY <1>3, <2>3, <2>4
<1>5. CASE layer[q].kind # "dir"
  <2>1. q # <<>>
    BY <1>1, <1>5 DEF IsTree, Dir
  <2>2. q \in DOMAIN files
    BY <1>5, <2>1 DEF FinishedInv, Sound, Dir
  <2>3. DOMAIN files = AllNames /\ DOMAIN files \subseteq Range(Order)
    BY DEF NamesInv, ListedInv, AllListed
  <2>4. PICK C : C = Expanded({q})
    OBVIOUS
  <2>5. /\ q \in C /\ LinkTargets(C) \subseteq C
        /\ \A c : {q} \subseteq c /\ LinkTargets(c) \subseteq c => C \subseteq c
    BY <1>1, <2>2, <2>3, <2>4, ExpandedCloses
  <2>6. C \subseteq DOMAIN files
    BY <2>2, <2>3, <2>5, NamesClosed
  <2>7. ASSUME NEW x \in C PROVE x \in Seq(STRING) /\ Cleaned(x)
    <3>1. x \in Range(Order)
      BY <2>3, <2>6, <2>7
    <3>2. PICK i \in DOMAIN Order : x = Order[i]
      BY <3>1 DEF Range
    <3>3. DOMAIN Order = 1..Len(Order) /\ Order \in Seq(Seq(STRING))
      BY <1>1 DEF InOrder
    <3>4. QED
      BY <1>1, <3>2, <3>3 DEF InOrder
  <2>8. ASSUME NEW x \in C, InRoot(tree, x) # NoPath PROVE x \in DOMAIN layer /\ Agrees(layer[x], x)
    BY <2>6, <2>8 DEF FinishedInv, AllAgree
  <2>9. Finished(C)
    BY <1>1, <2>4, <2>5, <2>7, <2>8 DEF Finished
  <2>10. SameAfter(q, 0)
    BY <2>5, <2>9, AllSame DEF AllSameAfter
  <2>11. InImage(q, 0) # NoPath => InLayer(q, 0) # NoPath
    BY <2>10 DEF SameAfter
  <2>12. QED
    BY <1>3, <2>11
<1>6. QED
  BY <1>4, <1>5
=============================================================================
