------------------------- MODULE LayerExtractProofs -------------------------
(***************************************************************************)
(* Proofs about LayerExtract, for every set of entries and manifests: what *)
(* is unpacked, and what is copied from it, are trees; what is unpacked is *)
(* what a container runtime has, up to the named quirks; and the copy of a *)
(* manifest that names nothing through a link is complete.                 *)
(***************************************************************************)
EXTENDS LayerExtract, ImageTreeProofs

-----------------------------------------------------------------------------
(* What one operation makes of a tree.                                     *)

LEMMA ConcatIs ==
    ASSUME NEW d \in Seq(STRING), NEW r \in Seq(STRING)
    PROVE  /\ d \o r \in Seq(STRING) /\ Len(d \o r) = Len(d) + Len(r)
           /\ \A k \in 1..(Len(d) + Len(r)) :
                  (d \o r)[k] = IF k <= Len(d) THEN d[k] ELSE r[k - Len(d)]
  OBVIOUS

\* The ancestors of what is put into a directory.
LEMMA AncestorsBelow ==
    ASSUME NEW d \in Seq(STRING), NEW r \in Seq(STRING), NEW a \in Ancestors(d \o r)
    PROVE  a \in Ancestors(d) \/ a = d \/ \E j \in 1..(Len(r) - 1) : a = d \o SubSeq(r, 1, j)
<1>1. PICK i \in 1..(Len(d \o r) - 1) : a = SubSeq(d \o r, 1, i)
  BY DEF Ancestors
<1>2. /\ d \o r \in Seq(STRING) /\ Len(d \o r) = Len(d) + Len(r)
      /\ Len(d) \in Nat /\ Len(r) \in Nat /\ i \in Nat /\ i <= Len(d) + Len(r) - 1 /\ i >= 1
  BY <1>1
<1>3. a \in Seq(STRING) /\ Len(a) = i /\ \A k \in 1..i : a[k] = (d \o r)[k]
  BY <1>1, <1>2
<1>4. CASE i < Len(d)
  <2>1. SubSeq(d, 1, i) \in Seq(STRING) /\ Len(SubSeq(d, 1, i)) = i
        /\ \A k \in 1..i : SubSeq(d, 1, i)[k] = d[k]
    BY <1>2, <1>4
  <2>2. \A k \in 1..i : a[k] = d[k]
    BY <1>2, <1>3, <1>4
  <2>3. a = SubSeq(d, 1, i)
    BY <1>3, <2>1, <2>2
  <2>4. i \in 1..(Len(d) - 1)
    BY <1>2, <1>4
  <2>5. QED
    BY <2>3, <2>4 DEF Ancestors
<1>5. CASE i = Len(d)
  <2>1. \A k \in 1..i : a[k] = d[k]
    BY <1>2, <1>3, <1>5
  <2>2. QED
    BY <1>3, <1>5, <2>1
<1>6. CASE i > Len(d)
  <2>1. PICK j : j = i - Len(d)
    OBVIOUS
  <2>2. j \in 1..(Len(r) - 1) /\ j \in Nat /\ j <= Len(r)
    BY <1>2, <1>6, <2>1
  <2>3. PICK s : s = SubSeq(r, 1, j)
    OBVIOUS
  <2>4. s \in Seq(STRING) /\ Len(s) = j /\ \A k \in 1..j : s[k] = r[k]
    BY <2>2, <2>3
  <2>5. d \o s \in Seq(STRING) /\ Len(d \o s) = i
        /\ \A k \in 1..i : (d \o s)[k] = IF k <= Len(d) THEN d[k] ELSE s[k - Len(d)]
    BY <1>2, <2>1, <2>2, <2>4
  <2>6. ASSUME NEW k \in 1..i PROVE a[k] = (d \o s)[k]
    <3>1. a[k] = IF k <= Len(d) THEN d[k] ELSE r[k - Len(d)]
      BY <1>2, <1>3
    <3>2. k > Len(d) => k - Len(d) \in 1..j
      BY <1>2, <2>1
    <3>3. QED
      BY <2>4, <2>5, <3>1, <3>2
  <2>7. a = d \o s
    BY <1>3, <2>5, <2>6, SMTT(30)
  <2>8. QED
    BY <2>2, <2>3, <2>7
<1>7. i < Len(d) \/ i = Len(d) \/ i > Len(d)
  BY <1>2
<1>8. QED
  BY <1>4, <1>5, <1>6, <1>7, Zenon

LEMMA RootIsTop ==
    ASSUME NEW q \in Seq(STRING)
    PROVE  ~IsStrictPrefix(q, <<>>)
<1> SUFFICES ASSUME IsStrictPrefix(q, <<>>) PROVE FALSE
  OBVIOUS
<1>1. Len(q) <= Len(<<>>) /\ Len(<<>>) = 0 /\ q # <<>> /\ Len(q) \in Nat
  BY DEF IsStrictPrefix, IsPrefix
<1>2. QED
  BY <1>1

LEMMA CleanedJoined ==
    ASSUME NEW d \in Seq(STRING), Cleaned(d), NEW r \in Seq(STRING), Cleaned(r)
    PROVE  d \o r \in Seq(STRING) /\ Cleaned(d \o r)
<1>1. /\ d \o r \in Seq(STRING) /\ Len(d \o r) = Len(d) + Len(r)
      /\ Len(d) \in Nat /\ Len(r) \in Nat
  OBVIOUS
<1>2. ASSUME NEW i \in 1..Len(d \o r) PROVE Plain((d \o r)[i])
  <2>1. CASE i <= Len(d)
    <3>1. (d \o r)[i] = d[i] /\ i \in 1..Len(d)
      BY <1>1, <2>1
    <3>2. QED
      BY <3>1, CleanedIs
  <2>2. CASE i > Len(d)
    <3>1. (d \o r)[i] = r[i - Len(d)] /\ i - Len(d) \in 1..Len(r)
      BY <1>1, <2>2
    <3>2. QED
      BY <3>1, CleanedIs
  <2>3. i <= Len(d) \/ i > Len(d)
    BY <1>1
  <2>4. QED
    BY <2>1, <2>2, <2>3, Zenon
<1>3. QED
  BY <1>1, <1>2, CleanedIs

\* Removing what is not the root, with all there is below it.
LEMMA Removed ==
    ASSUME NEW t, IsTree(t), NEW gone, <<>> \notin gone,
           \A p \in DOMAIN t \ gone : \A a \in Ancestors(p) : a \notin gone
    PROVE  IsTree(Without(t, gone))
<1>1. PICK u : u = Without(t, gone)
  OBVIOUS
<1>2. DOMAIN u = DOMAIN t \ gone /\ \A p \in DOMAIN u : u[p] = t[p]
  BY <1>1 DEF Without
<1>3. Has(u, <<>>) /\ u[<<>>] = Dir
  BY <1>2 DEF IsTree, Has
<1>4. ASSUME NEW p \in DOMAIN u
      PROVE  IsNode(u[p]) /\ Cleaned(p) /\ \A a \in Ancestors(p) : Has(u, a) /\ u[a] = Dir
  BY <1>2 DEF IsTree, Has
<1>5. DOMAIN u \subseteq Seq(STRING)
  BY <1>2 DEF IsTree
<1>6. IsTree(u)
  BY <1>3, <1>4, <1>5 DEF IsTree
<1>7. QED
  BY <1>1, <1>6

\* An entry of a directory is put in, or another put in its place.
LEMMA PutKeepsTree ==
    ASSUME NEW t, IsTree(t), NEW d \in DOMAIN t, t[d].kind = "dir",
           NEW c \in STRING, Plain(c), NEW n, IsNode(n)
    PROVE  IsTree(Put(t, Append(d, c), n))
<1>1. PICK q : q = Append(d, c)
  OBVIOUS
<1>2. d \in Seq(STRING) /\ Cleaned(d) /\ t[d] = Dir
  BY KindOfDir DEF IsTree
<1>3. <<c>> \in Seq(STRING) /\ Len(<<c>>) = 1 /\ Cleaned(<<c>>) /\ q = d \o <<c>>
  <2>1. <<c>> \in Seq(STRING) /\ Len(<<c>>) = 1 /\ <<c>>[1] = c
    OBVIOUS
  <2>2. \A i \in 1..1 : i = 1
    OBVIOUS
  <2>3. Cleaned(<<c>>)
    BY <2>1, <2>2, CleanedIs
  <2>4. QED
    BY <1>1, <1>2, <2>1, <2>3, OneAppended
<1>4. q \in Seq(STRING) /\ Cleaned(q) /\ q # <<>>
  <2>1. q \in Seq(STRING) /\ Cleaned(q)
    BY <1>2, <1>3, CleanedJoined
  <2>2. Len(q) = Len(d) + 1 /\ Len(d) \in Nat
    BY <1>1, <1>2
  <2>3. QED
    BY <2>1, <2>2
<1>5. \A a \in Ancestors(q) : a \in DOMAIN t /\ t[a] = Dir
  <2>1. ASSUME NEW a \in Ancestors(q) PROVE a \in Ancestors(d) \/ a = d
    <3>1. \A j \in 1..(Len(<<c>>) - 1) : FALSE
      BY <1>3
    <3>2. a \in Ancestors(d) \/ a = d \/ \E j \in 1..(Len(<<c>>) - 1) : a = d \o SubSeq(<<c>>, 1, j)
      BY <1>2, <1>3, AncestorsBelow
    <3>3. QED
      BY <3>1, <3>2
  <2>2. QED
    BY <1>2, <2>1 DEF IsTree, Has
<1>6. \A a \in Ancestors(q) : a # q /\ a \notin Below(t, q)
  <2>1. ASSUME NEW a \in Ancestors(q) PROVE IsStrictPrefix(a, q) /\ ~IsStrictPrefix(q, a) /\ a # q
    <3>1. PICK i \in 1..(Len(q) - 1) : a = SubSeq(q, 1, i)
      BY DEF Ancestors
    <3>2. Len(q) \in Nat /\ i \in Nat /\ i < Len(q)
      BY <1>4
    <3>3. Len(a) = i
      BY <1>4, <3>1, <3>2
    <3>4. IsStrictPrefix(a, q)
      BY <1>4, AncestorsAre
    <3>5. ~IsPrefix(q, a)
      BY <3>2, <3>3 DEF IsPrefix
    <3>6. QED
      BY <3>2, <3>3, <3>4, <3>5 DEF IsStrictPrefix
  <2>2. QED
    BY <2>1 DEF Below
<1>7. CASE Has(t, q) /\ t[q].kind = "dir" /\ n.kind = "dir"
  BY <1>1, <1>7 DEF Put
<1>8. CASE ~(Has(t, q) /\ t[q].kind = "dir" /\ n.kind = "dir")
  <2>1. PICK u : u = Put(t, q, n)
    OBVIOUS
  <2>2. /\ DOMAIN u = (DOMAIN t \ Below(t, q)) \cup {q}
        /\ u[q] = n /\ \A p \in DOMAIN u \ {q} : p \in DOMAIN t /\ u[p] = t[p]
    BY <1>8, <2>1 DEF Put
  <2>3. DOMAIN u \subseteq Seq(STRING)
    BY <1>4, <2>2 DEF IsTree
  <2>4. Has(u, <<>>) /\ u[<<>>] = Dir
    <3>1. <<>> \notin Below(t, q)
      BY <1>4, RootIsTop DEF Below
    <3>2. QED
      BY <1>4, <2>2, <3>1 DEF IsTree, Has
  <2>5. ASSUME NEW p \in DOMAIN u
        PROVE  IsNode(u[p]) /\ Cleaned(p) /\ \A a \in Ancestors(p) : Has(u, a) /\ u[a] = Dir
    <3>1. CASE p = q
      BY <1>4, <1>5, <1>6, <2>2, <3>1 DEF Has
    <3>2. CASE p # q
      <4>1. p \in DOMAIN t \ Below(t, q) /\ p \in Seq(STRING) /\ u[p] = t[p]
        BY <2>2, <2>3, <3>2
      <4>2. ASSUME NEW a \in Ancestors(p) PROVE a \in DOMAIN t \ Below(t, q) /\ a # q /\ t[a] = Dir
        <5>1. a \in DOMAIN t /\ t[a] = Dir
          BY <4>1 DEF IsTree, Has
        <5>2. a # q
          BY <4>1, AncestorsAre DEF Below
        <5>3. a \notin Below(t, q)
          <6>1. SUFFICES ASSUME IsStrictPrefix(q, a) PROVE FALSE
            BY DEF Below
          <6>2. q \in Ancestors(a)
            BY <1>4, <4>1, <6>1, AncestorsAre, PrefixIsAncestor
          <6>3. q \in Ancestors(p)
            BY <4>1, <6>2, AncestorsAre
          <6>4. QED
            BY <4>1, <6>3, AncestorsAre DEF Below
        <5>4. QED
          BY <5>1, <5>2, <5>3
      <4>3. QED
        BY <2>2, <4>1, <4>2 DEF IsTree, Has
    <3>3. QED
      BY <3>1, <3>2
  <2>6. IsTree(u)
    BY <2>3, <2>4, <2>5 DEF IsTree
  <2>7. QED
    BY <1>1, <2>1, <2>6
<1>9. QED
  BY <1>7, <1>8

\* A chain of directories is made where there is nothing.
Chain(d, rest) == {d \o SubSeq(rest, 1, i) : i \in 1..Len(rest)}

With(t, made) == [q \in DOMAIN t \cup made |-> IF Has(t, q) THEN t[q] ELSE Dir]

LEMMA ChainIsClosed ==
    ASSUME NEW d \in Seq(STRING), Cleaned(d), NEW rest \in Seq(STRING), Cleaned(rest),
           NEW x \in Chain(d, rest)
    PROVE  /\ x \in Seq(STRING) /\ Cleaned(x)
           /\ \A a \in Ancestors(x) : a \in Ancestors(d) \/ a = d \/ a \in Chain(d, rest)
           /\ x = d \o <<rest[1]>> \/ d \o <<rest[1]>> \in Ancestors(x)
<1>1. PICK i \in 1..Len(rest) : x = d \o SubSeq(rest, 1, i)
  BY DEF Chain
<1>2. i \in Nat /\ 1 <= i /\ i <= Len(rest) /\ Len(rest) \in Nat /\ Len(d) \in Nat
  OBVIOUS
<1>3. PICK r : r = SubSeq(rest, 1, i)
  OBVIOUS
<1>4. r \in Seq(STRING) /\ Len(r) = i /\ \A k \in 1..i : r[k] = rest[k]
  BY <1>2, <1>3
<1>5. Cleaned(r)
  <2>1. \A k \in 1..i : k \in 1..Len(rest)
    BY <1>2
  <2>2. QED
    BY <1>4, <2>1, CleanedIs
<1>6. x \in Seq(STRING) /\ Cleaned(x) /\ x = d \o r
  BY <1>1, <1>3, <1>4, <1>5, CleanedJoined
<1>7. ASSUME NEW a \in Ancestors(x) PROVE a \in Ancestors(d) \/ a = d \/ a \in Chain(d, rest)
  <2>1. a \in Ancestors(d) \/ a = d \/ \E j \in 1..(Len(r) - 1) : a = d \o SubSeq(r, 1, j)
    BY <1>4, <1>6, AncestorsBelow
  <2>2. ASSUME NEW j \in 1..(Len(r) - 1), a = d \o SubSeq(r, 1, j) PROVE a \in Chain(d, rest)
    <3>1. j \in Nat /\ 1 <= j /\ j < i /\ j <= Len(rest) /\ j \in 1..Len(rest)
      BY <1>2, <1>4
    <3>2. PICK u, v : u = SubSeq(r, 1, j) /\ v = SubSeq(rest, 1, j)
      OBVIOUS
    <3>3. u \in Seq(STRING) /\ Len(u) = j /\ \A k \in 1..j : u[k] = r[k]
      BY <1>4, <3>1, <3>2
    <3>4. v \in Seq(STRING) /\ Len(v) = j /\ \A k \in 1..j : v[k] = rest[k]
      BY <3>1, <3>2
    <3>5. \A k \in 1..j : k \in 1..i
      BY <3>1
    <3>6. u = v
      <4>1. \A k \in 1..j : u[k] = v[k]
        BY <1>4, <3>3, <3>4, <3>5
      <4>2. QED
        BY <3>3, <3>4, <4>1
    <3>7. QED
      BY <2>2, <3>1, <3>2, <3>6 DEF Chain
  <2>3. QED
    BY <2>1, <2>2
<1>8. PICK o : o = <<rest[1]>>
  OBVIOUS
<1>9. o \in Seq(STRING) /\ Len(o) = 1 /\ o[1] = rest[1]
  BY <1>2, <1>8
<1>10. CASE i = 1
  <2>1. r = o
    BY <1>4, <1>9, <1>10
  <2>2. QED
    BY <1>6, <1>7, <1>8, <2>1
<1>11. CASE i > 1
  <2>1. PICK y : y = d \o o
    OBVIOUS
  <2>2. y \in Seq(STRING) /\ Len(y) = Len(d) + 1
        /\ \A k \in 1..(Len(d) + 1) : y[k] = IF k <= Len(d) THEN d[k] ELSE o[k - Len(d)]
    <3>1. /\ y \in Seq(STRING) /\ Len(y) = Len(d) + Len(o)
          /\ \A k \in 1..(Len(d) + Len(o)) : y[k] = IF k <= Len(d) THEN d[k] ELSE o[k - Len(d)]
      BY <1>9, <2>1, ConcatIs
    <3>2. QED
      BY <1>9, <3>1
  <2>3. Len(x) = Len(d) + i
        /\ \A k \in 1..(Len(d) + i) : x[k] = IF k <= Len(d) THEN d[k] ELSE r[k - Len(d)]
    BY <1>4, <1>6, ConcatIs
  <2>4. PICK n : n = Len(d) + 1
    OBVIOUS
  <2>5. n \in Nat /\ n <= Len(x) - 1 /\ n >= 1 /\ n <= Len(x) /\ Len(x) \in Nat
    BY <1>2, <1>11, <2>3, <2>4
  <2>6. PICK z : z = SubSeq(x, 1, n)
    OBVIOUS
  <2>7. z \in Seq(STRING) /\ Len(z) = n /\ \A k \in 1..n : z[k] = x[k]
    BY <1>6, <2>5, <2>6
  <2>8. ASSUME NEW k \in 1..n PROVE z[k] = y[k]
    <3>1. k \in 1..(Len(d) + i) /\ k \in 1..(Len(d) + 1) /\ (k > Len(d) => k - Len(d) = 1)
      BY <1>2, <2>4
    <3>2. r[1] = o[1]
      BY <1>4, <1>9, <1>11
    <3>3. z[k] = IF k <= Len(d) THEN d[k] ELSE r[k - Len(d)]
      BY <2>3, <2>7, <3>1
    <3>4. y[k] = IF k <= Len(d) THEN d[k] ELSE o[k - Len(d)]
      BY <2>2, <3>1
    <3>5. CASE k <= Len(d)
      BY <3>3, <3>4, <3>5
    <3>6. CASE ~(k <= Len(d))
      <4>1. k > Len(d)
        BY <1>2, <3>6
      <4>2. QED
        BY <3>1, <3>2, <3>3, <3>4, <3>6, <4>1
    <3>7. QED
      BY <3>5, <3>6
  <2>9. z = y
    BY <2>2, <2>4, <2>7, <2>8
  <2>10. n \in 1..(Len(x) - 1)
    BY <2>5
  <2>11. y \in Ancestors(x)
    BY <2>6, <2>9, <2>10 DEF Ancestors
  <2>12. QED
    BY <1>6, <1>7, <1>8, <2>1, <2>11
<1>12. i = 1 \/ i > 1
  BY <1>2
<1>13. QED
  BY <1>10, <1>11, <1>12, Zenon

LEMMA ChainIsNew ==
    ASSUME NEW t, IsTree(t), NEW d \in DOMAIN t, t[d].kind = "dir",
           NEW rest \in Seq(STRING), Cleaned(rest), Append(d, rest[1]) \notin DOMAIN t,
           NEW p \in Chain(d, rest)
    PROVE  /\ p \in Seq(STRING) /\ Cleaned(p) /\ p \notin DOMAIN t
           /\ \A a \in Ancestors(p) : a \in Chain(d, rest) \/ (a \in DOMAIN t /\ t[a] = Dir)
<1>1. d \in Seq(STRING) /\ Cleaned(d) /\ t[d] = Dir
  BY KindOfDir DEF IsTree
<1>2. /\ p \in Seq(STRING) /\ Cleaned(p)
      /\ \A a \in Ancestors(p) : a \in Ancestors(d) \/ a = d \/ a \in Chain(d, rest)
      /\ p = d \o <<rest[1]>> \/ d \o <<rest[1]>> \in Ancestors(p)
  BY <1>1, ChainIsClosed
<1>3. d \o <<rest[1]>> \notin DOMAIN t
  <2>1. rest # <<>>
    BY DEF Chain
  <2>2. rest[1] \in STRING
    BY <2>1
  <2>3. QED
    BY <1>1, <2>2, OneAppended
<1>4. p \notin DOMAIN t
  BY <1>2, <1>3 DEF IsTree, Has
<1>5. QED
  BY <1>1, <1>2, <1>4 DEF IsTree, Has

LEMMA ChainKeepsTree ==
    ASSUME NEW t, IsTree(t), NEW d \in DOMAIN t, t[d].kind = "dir",
           NEW rest \in Seq(STRING), Cleaned(rest),
           rest = <<>> \/ Append(d, rest[1]) \notin DOMAIN t
    PROVE  IsTree(With(t, Chain(d, rest)))
<1>1. PICK made, u : made = Chain(d, rest) /\ u = With(t, made)
  OBVIOUS
<1>2. /\ DOMAIN u = DOMAIN t \cup made
      /\ \A p \in DOMAIN t : u[p] = t[p]
      /\ \A p \in made \ DOMAIN t : u[p] = Dir
  BY <1>1 DEF With, Has
<1>3. ASSUME NEW p \in made
      PROVE  /\ p \in Seq(STRING) /\ Cleaned(p) /\ p \notin DOMAIN t
             /\ \A a \in Ancestors(p) : a \in made \/ (a \in DOMAIN t /\ t[a] = Dir)
  <2>1. rest # <<>>
    BY <1>1 DEF Chain
  <2>2. QED
    BY <1>1, <2>1, ChainIsNew
<1>4. DOMAIN u \subseteq Seq(STRING)
  BY <1>2, <1>3 DEF IsTree
<1>5. Has(u, <<>>) /\ u[<<>>] = Dir
  BY <1>2 DEF IsTree, Has
<1>6. ASSUME NEW p \in DOMAIN u
      PROVE  IsNode(u[p]) /\ Cleaned(p) /\ \A a \in Ancestors(p) : Has(u, a) /\ u[a] = Dir
  <2>1. CASE p \in DOMAIN t
    BY <1>2, <2>1 DEF IsTree, Has
  <2>2. CASE p \in made
    BY <1>2, <1>3, <2>2 DEF IsNode, Has
  <2>3. QED
    BY <1>2, <2>1, <2>2
<1>7. IsTree(u)
  BY <1>4, <1>5, <1>6 DEF IsTree
<1>8. QED
  BY <1>1, <1>7

\* How far a path is there, and what MkdirAll does from there on.
Reached(t, p, i, rooted) == Walk(t, SubSeq(p, 1, i), MaxSymlinkHops, rooted)

Deepest(t, p, rooted) ==
    CHOOSE n \in 0..Len(p) :
        Reached(t, p, n, rooted) # NoPath /\ \A i \in (n + 1)..Len(p) : Reached(t, p, i, rooted) = NoPath

MadeFrom(t, p, n, rest, rooted) ==
    IF t[Reached(t, p, n, rooted)].kind # "dir" \/ (rest # <<>> /\ Has(t, Append(Reached(t, p, n, rooted), rest[1])))
    THEN Failed
    ELSE With(t, Chain(Reached(t, p, n, rooted), rest))

LEMMA MkdirAllIs ==
    ASSUME NEW t, NEW p, NEW rooted
    PROVE  MkdirAll(t, p, rooted) = MadeFrom(t, p, Deepest(t, p, rooted),
                                        SubSeq(p, Deepest(t, p, rooted) + 1, Len(p)), rooted)
  BY DEF MkdirAll, MadeFrom, Deepest, Reached, With, Chain

LEMMA DeepestIs ==
    ASSUME NEW t, IsTree(t), NEW rooted \in BOOLEAN, NEW p \in Seq(STRING)
    PROVE  /\ Deepest(t, p, rooted) \in 0..Len(p)
           /\ Reached(t, p, Deepest(t, p, rooted), rooted) # NoPath
           /\ \A i \in (Deepest(t, p, rooted) + 1)..Len(p) : Reached(t, p, i, rooted) = NoPath
<1> DEFINE Fits(n) == Reached(t, p, n, rooted) # NoPath
                      /\ \A i \in (n + 1)..Len(p) : Reached(t, p, i, rooted) = NoPath
           Left == {k \in 0..Len(p) : Reached(t, p, Len(p) - k, rooted) # NoPath}
<1>1. Len(p) \in Nat
  OBVIOUS
<1>2. Reached(t, p, 0, rooted) # NoPath
  <2>1. SubSeq(p, 1, 0) = <<>>
    OBVIOUS
  <2>2. <<>> \in DOMAIN t /\ t[<<>>] = Dir
    BY DEF IsTree, Has
  <2>3. Walk(t, <<>>, MaxSymlinkHops, rooted) = <<>>
    BY <2>2, WalkToDir DEF MaxSymlinkHops
  <2>4. QED
    BY <2>1, <2>2, <2>3, TreePaths DEF Reached
<1>3. Left \in SUBSET Nat /\ Left # {}
  <2>1. Len(p) \in 0..Len(p) /\ Len(p) - Len(p) = 0
    BY <1>1
  <2>2. Len(p) \in Left
    BY <1>2, <2>1
  <2>3. QED
    BY <1>1, <2>2
<1>4. PICK k \in Left : \A j \in Left : k <= j
  BY <1>3, Least
<1>5. PICK n : n = Len(p) - k
  OBVIOUS
<1>6. n \in 0..Len(p) /\ Reached(t, p, n, rooted) # NoPath
  BY <1>1, <1>4, <1>5
<1>7. ASSUME NEW i \in (n + 1)..Len(p) PROVE Reached(t, p, i, rooted) = NoPath
  <2>1. Len(p) - i \in 0..Len(p) /\ Len(p) - i < k /\ Len(p) - (Len(p) - i) = i
    BY <1>1, <1>4, <1>5
  <2>2. Len(p) - i \notin Left
    BY <1>1, <1>4, <2>1
  <2>3. QED
    BY <2>1, <2>2
<1>8. \E m \in 0..Len(p) : Fits(m)
  BY <1>6, <1>7
<1>9. Deepest(t, p, rooted) \in 0..Len(p) /\ Fits(Deepest(t, p, rooted))
  BY <1>8 DEF Deepest
<1>10. QED
  BY <1>9

\* What MkdirAll does when it does not fail.
Making(t, p, rooted, n, rest, d) ==
    /\ n \in 0..Len(p) /\ n = Deepest(t, p, rooted)
    /\ rest = SubSeq(p, n + 1, Len(p)) /\ rest \in Seq(STRING) /\ Cleaned(rest)
    /\ d = Reached(t, p, n, rooted) /\ d # NoPath
    /\ \A i \in (n + 1)..Len(p) : Reached(t, p, i, rooted) = NoPath
    /\ d \in DOMAIN t /\ d \in Seq(STRING) /\ Cleaned(d) /\ t[d].kind = "dir"
    /\ rest = <<>> \/ Append(d, rest[1]) \notin DOMAIN t
    /\ MkdirAll(t, p, rooted) = With(t, Chain(d, rest))

LEMMA MkdirAllMakes ==
    ASSUME NEW t, IsTree(t), NEW rooted \in BOOLEAN, NEW p \in Seq(STRING), Cleaned(p),
           MkdirAll(t, p, rooted) # Failed
    PROVE  \E n, rest, d : Making(t, p, rooted, n, rest, d)
<1>1. PICK n, rest, d : /\ n = Deepest(t, p, rooted)
                        /\ rest = SubSeq(p, n + 1, Len(p))
                        /\ d = Reached(t, p, n, rooted)
  OBVIOUS
<1>2. /\ n \in 0..Len(p) /\ d # NoPath /\ Len(p) \in Nat
      /\ \A i \in (n + 1)..Len(p) : Reached(t, p, i, rooted) = NoPath
  BY <1>1, DeepestIs
<1>3. d \in DOMAIN t /\ d \in Seq(STRING) /\ Cleaned(d)
  <2>1. SubSeq(p, 1, n) \in Seq(STRING)
    BY <1>2
  <2>2. d \in DOMAIN t
    BY <1>1, <1>2, <2>1, WalkEnds DEF Reached
  <2>3. QED
    BY <2>2 DEF IsTree
<1>4. rest \in Seq(STRING) /\ Cleaned(rest)
  <2>1. rest \in Seq(STRING) /\ Len(rest) = Len(p) - n /\ \A k \in 1..(Len(p) - n) : rest[k] = p[n + k]
    BY <1>1, <1>2
  <2>2. \A k \in 1..(Len(p) - n) : n + k \in 1..Len(p)
    BY <1>2
  <2>3. QED
    BY <2>1, <2>2, CleanedIs
<1>5. MkdirAll(t, p, rooted) = MadeFrom(t, p, n, rest, rooted)
  BY <1>1, MkdirAllIs
<1>6. /\ t[d].kind = "dir" /\ (rest = <<>> \/ Append(d, rest[1]) \notin DOMAIN t)
      /\ MkdirAll(t, p, rooted) = With(t, Chain(d, rest))
  BY <1>1, <1>5 DEF MadeFrom, Has
<1>7. QED
  BY <1>1, <1>2, <1>3, <1>4, <1>6 DEF Making

LEMMA MkdirAllKeepsTree ==
    ASSUME NEW t, IsTree(t), NEW rooted \in BOOLEAN, NEW p \in Seq(STRING), Cleaned(p),
           MkdirAll(t, p, rooted) # Failed
    PROVE  IsTree(MkdirAll(t, p, rooted))
<1>1. PICK n, rest, d : Making(t, p, rooted, n, rest, d)
  BY MkdirAllMakes
<1>2. QED
  BY <1>1, ChainKeepsTree DEF Making

LEMMA PrefixOfPrefix ==
    ASSUME NEW q \in Seq(STRING), NEW a \in Seq(STRING), NEW r \in Seq(STRING),
           IsPrefix(q, a), IsPrefix(a, r)
    PROVE  IsPrefix(q, r)
<1>1. Len(q) \in Nat /\ Len(a) \in Nat /\ Len(r) \in Nat /\ Len(q) <= Len(a) /\ Len(a) <= Len(r)
  BY DEF IsPrefix
<1>2. PICK u, v : u = SubSeq(q, 1, Len(q)) /\ v = SubSeq(r, 1, Len(q))
  OBVIOUS
<1>3. /\ u \in Seq(STRING) /\ Len(u) = Len(q) /\ \A k \in 1..Len(q) : u[k] = q[k]
      /\ v \in Seq(STRING) /\ Len(v) = Len(q) /\ \A k \in 1..Len(q) : v[k] = r[k]
  BY <1>1, <1>2
<1>4. \A k \in 1..Len(q) : q[k] = a[k]
  <2>1. SubSeq(q, 1, Len(q)) = SubSeq(a, 1, Len(q))
    BY DEF IsPrefix
  <2>2. \A k \in 1..Len(q) : SubSeq(a, 1, Len(q))[k] = a[k]
    BY <1>1
  <2>3. QED
    BY <1>2, <1>3, <2>1, <2>2
<1>5. \A k \in 1..Len(a) : a[k] = r[k]
  <2>1. SubSeq(a, 1, Len(a)) = SubSeq(r, 1, Len(a))
    BY DEF IsPrefix
  <2>2. \A k \in 1..Len(a) : SubSeq(r, 1, Len(a))[k] = r[k] /\ SubSeq(a, 1, Len(a))[k] = a[k]
    BY <1>1
  <2>3. QED
    BY <2>1, <2>2
<1>6. \A k \in 1..Len(q) : u[k] = v[k]
  <2>1. \A k \in 1..Len(q) : k \in 1..Len(a)
    BY <1>1
  <2>2. QED
    BY <1>3, <1>4, <1>5, <2>1
<1>7. u = v
  BY <1>3, <1>6, SMTT(30)
<1>8. QED
  BY <1>1, <1>2, <1>7 DEF IsPrefix

LEMMA AncestorIsPrefix ==
    ASSUME NEW p \in Seq(STRING), NEW a \in Ancestors(p)
    PROVE  a \in Seq(STRING) /\ IsPrefix(a, p) /\ Len(a) < Len(p) /\ Len(a) > 0
<1>1. PICK i \in 1..(Len(p) - 1) : a = SubSeq(p, 1, i)
  BY DEF Ancestors
<1>2. i \in Nat /\ i < Len(p) /\ i > 0 /\ Len(p) \in Nat
  OBVIOUS
<1>3. Len(a) = i
  BY <1>1, <1>2
<1>4. a \in Seq(STRING) /\ IsStrictPrefix(a, p)
  BY AncestorsAre
<1>5. QED
  BY <1>2, <1>3, <1>4 DEF IsStrictPrefix

\* Some of what lies below q goes, but nothing that something kept is below of.
LEMMA BelowRemoved ==
    ASSUME NEW t, IsTree(t), NEW q \in DOMAIN t, NEW gone \in SUBSET Below(t, q),
           \A r \in Below(t, q) \ gone : \A a \in Ancestors(r) : a \notin gone
    PROVE  IsTree(Without(t, gone))
<1>1. q \in Seq(STRING) /\ Len(q) \in Nat
  BY TreePaths
<1>2. <<>> \notin gone
  BY <1>1, RootIsTop DEF Below
<1>3. ASSUME NEW p \in DOMAIN t \ gone, NEW a \in Ancestors(p), a \in gone PROVE FALSE
  <2>1. p \in Seq(STRING) /\ Len(p) \in Nat
    BY TreePaths
  <2>2. a \in Seq(STRING) /\ IsPrefix(a, p) /\ Len(a) < Len(p)
    BY <2>1, AncestorIsPrefix
  <2>3. IsPrefix(q, a)
    BY <1>3 DEF Below, IsStrictPrefix
  <2>4. IsPrefix(q, p)
    BY <1>1, <2>1, <2>2, <2>3, PrefixOfPrefix
  <2>5. q # p
    <3>1. Len(q) <= Len(a) /\ Len(a) \in Nat
      BY <2>2, <2>3 DEF IsPrefix
    <3>2. QED
      BY <1>1, <2>1, <2>2, <3>1
  <2>6. p \in Below(t, q)
    BY <2>4, <2>5 DEF Below, IsStrictPrefix
  <2>7. QED
    BY <1>3, <2>6
<1>4. QED
  BY <1>2, <1>3, Removed

\* An entry other than the root goes, with all that is below it.
LEMMA EntryRemoved ==
    ASSUME NEW t, IsTree(t), NEW q \in DOMAIN t, q # <<>>
    PROVE  IsTree(Without(t, Below(t, q) \cup {q}))
<1>1. q \in Seq(STRING) /\ Len(q) \in Nat /\ Len(q) # 0
  BY TreePaths
<1>2. <<>> \notin Below(t, q) \cup {q}
  BY <1>1, RootIsTop DEF Below
<1>3. ASSUME NEW p \in DOMAIN t \ (Below(t, q) \cup {q}), NEW a \in Ancestors(p),
             a \in Below(t, q) \cup {q}
      PROVE  FALSE
  <2>1. p \in Seq(STRING) /\ p # q
    BY TreePaths
  <2>2. a \in Seq(STRING) /\ IsPrefix(a, p)
    BY <2>1, AncestorIsPrefix
  <2>3. CASE a = q
    BY <1>3, <2>1, <2>2, <2>3 DEF Below, IsStrictPrefix
  <2>4. CASE a \in Below(t, q)
    <3>1. IsPrefix(q, p)
      BY <1>1, <2>1, <2>2, <2>4, PrefixOfPrefix DEF Below, IsStrictPrefix
    <3>2. QED
      BY <1>3, <2>1, <3>1 DEF Below, IsStrictPrefix
  <2>5. QED
    BY <1>3, <2>3, <2>4
<1>4. QED
  BY <1>2, <1>3, Removed

LEMMA OsRemoveKeepsTree ==
    ASSUME NEW t, IsTree(t), NEW p \in Seq(STRING), p # <<>>
    PROVE  IsTree(OsRemove(t, p))
<1>1. PICK q : q = OnHost(t, p)
  OBVIOUS
<1>2. CASE q = NoPath \/ Below(t, q) # {}
  BY <1>1, <1>2 DEF OsRemove
<1>3. CASE q # NoPath /\ Below(t, q) = {}
  <2>1. q \in DOMAIN t /\ q # <<>>
    BY <1>1, <1>3, EntryFound DEF OnHost
  <2>2. OsRemove(t, p) = Without(t, Below(t, q) \cup {q})
    BY <1>1, <1>3 DEF OsRemove
  <2>3. QED
    BY <2>1, <2>2, EntryRemoved
<1>4. QED
  BY <1>2, <1>3

LEMMA OsRemoveContentsKeepsTree ==
    ASSUME NEW t, IsTree(t), NEW p \in Seq(STRING)
    PROVE  IsTree(OsRemoveContents(t, p))
<1>1. PICK q : q = OnHost(t, p)
  OBVIOUS
<1>2. CASE q = NoPath
  BY <1>1, <1>2 DEF OsRemoveContents
<1>3. CASE q # NoPath
  <2>1. q \in DOMAIN t
    BY <1>1, <1>3, EntryFound DEF OnHost
  <2>2. IsTree(Without(t, Below(t, q)))
    BY <2>1, BelowRemoved
  <2>3. QED
    BY <1>1, <1>3, <2>2 DEF OsRemoveContents
<1>4. QED
  BY <1>2, <1>3

LEMMA CreateKeepsTree ==
    ASSUME NEW t, IsTree(t), NEW p \in Seq(STRING), Cleaned(p), p # <<>>, NEW n, IsNode(n),
           Create(t, p, n) # Failed
    PROVE  IsTree(Create(t, p, n))
<1>1. PICK d, c : d = Walk(t, Front(p), MaxSymlinkHops, FALSE) /\ c = Last(p)
  OBVIOUS
<1>2. d # NoPath /\ t[d].kind = "dir" /\ Create(t, p, n) = Put(t, Append(d, c), n)
  BY <1>1 DEF Create
<1>3. Front(p) \in Seq(STRING) /\ c \in STRING /\ Plain(c)
  BY <1>1, CleanedParts
<1>4. d \in DOMAIN t
  BY <1>1, <1>2, <1>3, WalkEnds
<1>5. QED
  BY <1>2, <1>3, <1>4, PutKeepsTree

LEMMA NodesMade ==
    ASSUME NEW d, NEW to \in Seq(STRING), NEW abs \in BOOLEAN
    PROVE  IsNode(Dir) /\ IsNode(File(d)) /\ IsNode(Link(to, abs))
  BY DEF IsNode, File, Link

\* Nothing in a tree leads to a failed lookup.
LEMMA NotOnNoPath ==
    ASSUME NEW t, IsTree(t), NEW r \in DOMAIN t, r # <<>>
    PROVE  ~IsPrefix(r, NoPath)
<1> SUFFICES ASSUME IsPrefix(r, NoPath) PROVE FALSE
  OBVIOUS
<1>1. PICK c : NoPath = <<c>> /\ ~Plain(c)
  BY Zenon DEF NoPath, Plain
<1>2. r \in Seq(STRING) /\ Len(r) \in Nat /\ Len(r) # 0
  BY TreePaths
<1>3. <<c>> \in Seq({c}) /\ Len(<<c>>) = 1
  OBVIOUS
<1>4. Len(r) = 1 /\ SubSeq(r, 1, 1) = SubSeq(<<c>>, 1, 1)
  BY <1>1, <1>2, <1>3 DEF IsPrefix
<1>5. SubSeq(r, 1, 1)[1] = r[1] /\ SubSeq(<<c>>, 1, 1)[1] = c
  BY <1>2, <1>3, <1>4
<1>6. Plain(r[1])
  <2>1. Cleaned(r) /\ 1 \in 1..Len(r)
    BY <1>4 DEF IsTree
  <2>2. QED
    BY <2>1, CleanedIs
<1>7. QED
  BY <1>1, <1>4, <1>5, <1>6

LEMMA EntryIs ==
    ASSUME NEW e \in Entries
    PROVE  /\ e.kind \in {"dir", "file", "link", "hard", "whiteout", "opaque"}
           /\ e.path \in Seq(STRING) /\ Cleaned(e.path)
           /\ e.kind # "opaque" => e.path # <<>>
           /\ e.target \in Seq(STRING) /\ e.abs \in BOOLEAN
  BY EntriesAssumption

-----------------------------------------------------------------------------
(* What one entry makes of the staging tree, and of the runtime's.         *)

LEMMA ExtractKeepsTree ==
    ASSUME NEW t, IsTree(t), NEW e \in Entries, Extract(t, e) # Failed
    PROVE  IsTree(Extract(t, e))
<1>1. PICK t1, t2, from : /\ t1 = MkdirAll(t, Front(e.path), FALSE)
                          /\ t2 = OsRemove(t1, e.path)
                          /\ from = OnHost(t2, e.target)
  OBVIOUS
<1>2. /\ e.path \in Seq(STRING) /\ Cleaned(e.path) /\ e.target \in Seq(STRING) /\ e.abs \in BOOLEAN
      /\ e.kind # "opaque" => e.path # <<>>
  BY EntryIs
<1>3. CASE e.kind = "whiteout"
  <2>1. Extract(t, e) = OsRemove(t, e.path)
    BY <1>3 DEF Extract
  <2>2. QED
    BY <1>2, <1>3, <2>1, OsRemoveKeepsTree
<1>4. CASE e.kind = "opaque"
  <2>1. Extract(t, e) = OsRemoveContents(t, e.path)
    BY <1>4 DEF Extract
  <2>2. QED
    BY <1>2, <2>1, OsRemoveContentsKeepsTree
<1>5. CASE e.kind \in {"dir", "file", "link", "hard"}
  <2>1. t1 # Failed
    BY <1>1, <1>5 DEF Extract
  <2>2. Front(e.path) \in Seq(STRING) /\ Cleaned(Front(e.path)) /\ e.path # <<>>
    BY <1>2, <1>5, CleanedParts
  <2>3. IsTree(t1)
    BY <1>1, <2>1, <2>2, MkdirAllKeepsTree
  <2>4. IsTree(t2)
    BY <1>1, <1>2, <2>2, <2>3, OsRemoveKeepsTree
  <2>5. CASE e.kind = "dir"
    <3>1. Extract(t, e) = MkdirAll(t1, e.path, FALSE)
      BY <1>1, <2>1, <2>5 DEF Extract
    <3>2. QED
      BY <1>2, <2>3, <3>1, MkdirAllKeepsTree
  <2>6. CASE e.kind = "file"
    <3>1. Extract(t, e) = Create(t2, e.path, File(e.data))
      BY <1>1, <2>1, <2>6 DEF Extract
    <3>2. IsNode(File(e.data))
      BY <1>2, NodesMade
    <3>3. QED
      BY <1>2, <2>2, <2>4, <3>1, <3>2, CreateKeepsTree
  <2>7. CASE e.kind = "link"
    <3>1. Extract(t, e) = Create(t2, e.path, Link(e.target, e.abs))
      BY <1>1, <2>1, <2>7 DEF Extract
    <3>2. IsNode(Link(e.target, e.abs))
      BY <1>2, NodesMade
    <3>3. QED
      BY <1>2, <2>2, <2>4, <3>1, <3>2, CreateKeepsTree
  <2>8. CASE e.kind = "hard"
    <3>1. from # NoPath /\ Extract(t, e) = Create(t2, e.path, t2[from])
      BY <1>1, <2>1, <2>8 DEF Extract
    <3>2. IsNode(t2[from])
      <4>1. from \in DOMAIN t2
        BY <1>1, <1>2, <2>4, <3>1, EntryFound DEF OnHost
      <4>2. QED
        BY <2>4, <4>1 DEF IsTree
    <3>3. QED
      BY <1>2, <2>2, <2>4, <3>1, <3>2, CreateKeepsTree
  <2>9. QED
    BY <1>5, <2>5, <2>6, <2>7, <2>8
<1>6. QED
  BY <1>3, <1>4, <1>5, EntryIs

LEMMA RuntimeWriteKeepsTree ==
    ASSUME NEW t, IsTree(t), NEW e \in Entries, e.kind \in {"dir", "file", "link", "hard"},
           RuntimeWrite(t, e) # Failed
    PROVE  IsTree(RuntimeWrite(t, e))
<1>1. PICK t1, dir, from : /\ t1 = MkdirAll(t, Front(e.path), TRUE)
                           /\ dir = Resolve(t1, Front(e.path))
                           /\ from = InRoot(t1, e.target)
  OBVIOUS
<1>2. PICK node : node = CASE e.kind = "dir"  -> Dir
                           [] e.kind = "file" -> File(e.data)
                           [] e.kind = "link" -> Link(e.target, e.abs)
                           [] e.kind = "hard" -> t1[from]
  OBVIOUS
<1>3. /\ t1 # Failed /\ dir # NoPath /\ (e.kind = "hard" => from # NoPath) /\ t1[dir].kind = "dir"
      /\ RuntimeWrite(t, e) = Put(t1, Append(dir, Last(e.path)), node)
  BY <1>1, <1>2 DEF RuntimeWrite
<1>4. /\ Front(e.path) \in Seq(STRING) /\ Cleaned(Front(e.path))
      /\ Last(e.path) \in STRING /\ Plain(Last(e.path))
      /\ e.target \in Seq(STRING) /\ e.abs \in BOOLEAN
  BY EntryIs, CleanedParts
<1>5. IsTree(t1)
  BY <1>1, <1>3, <1>4, MkdirAllKeepsTree
<1>6. dir \in DOMAIN t1
  BY <1>1, <1>3, <1>4, <1>5, WalkEnds DEF Resolve
<1>7. IsNode(node)
  <2>1. CASE e.kind = "hard"
    <3>1. from \in DOMAIN t1
      BY <1>1, <1>3, <1>4, <1>5, <2>1, EntryFound DEF InRoot
    <3>2. QED
      BY <1>2, <1>5, <2>1, <3>1 DEF IsTree
  <2>2. CASE e.kind \in {"dir", "file", "link"}
    <3>1. node = Dir \/ node = File(e.data) \/ node = Link(e.target, e.abs)
      BY <1>2, <2>2
    <3>2. QED
      BY <1>4, <3>1, NodesMade
  <2>3. QED
    BY <2>1, <2>2
<1>8. QED
  BY <1>3, <1>4, <1>5, <1>6, <1>7, PutKeepsTree

LEMMA RuntimeOpaqueKeepsTree ==
    ASSUME NEW t, IsTree(t), NEW e \in Entries, NEW new, new \subseteq Seq(STRING) \cup {NoPath}
    PROVE  IsTree(RuntimeOpaque(t, e, new))
<1>1. PICK q : q = InRoot(t, e.path)
  OBVIOUS
<1>2. CASE q = NoPath
  BY <1>1, <1>2 DEF RuntimeOpaque
<1>3. CASE q # NoPath
  <2>1. q \in DOMAIN t
    BY <1>1, <1>3, EntryIs, EntryFound DEF InRoot
  <2>2. PICK gone : gone = {r \in Below(t, q) : \A s \in new : ~IsPrefix(r, s)}
    OBVIOUS
  <2>3. ASSUME NEW r \in Below(t, q) \ gone, NEW a \in Ancestors(r), a \in gone PROVE FALSE
    <3>1. PICK s \in new : IsPrefix(r, s)
      BY <2>2, <2>3
    <3>2. r \in Seq(STRING) /\ s \in Seq(STRING)
      <4>1. r \in DOMAIN t /\ IsStrictPrefix(q, r)
        BY DEF Below
      <4>2. r \in Seq(STRING) /\ q \in Seq(STRING)
        BY <2>1, <4>1, TreePaths
      <4>3. r # <<>>
        BY <4>1, <4>2, RootIsTop
      <4>4. s # NoPath
        BY <3>1, <4>1, <4>3, NotOnNoPath
      <4>5. QED
        BY <4>2, <4>4
    <3>3. a \in Seq(STRING) /\ IsPrefix(a, r)
      BY <3>2, AncestorIsPrefix
    <3>4. IsPrefix(a, s)
      BY <3>1, <3>2, <3>3, PrefixOfPrefix
    <3>5. QED
      BY <2>2, <2>3, <3>4
  <2>4. gone \in SUBSET Below(t, q)
    BY <2>2
  <2>5. IsTree(Without(t, gone))
    BY <2>1, <2>3, <2>4, BelowRemoved
  <2>6. RuntimeOpaque(t, e, new) = Without(t, gone)
    BY <1>1, <1>3, <2>2 DEF RuntimeOpaque
  <2>7. QED
    BY <2>5, <2>6
<1>4. QED
  BY <1>2, <1>3

LEMMA RuntimeKeepsTree ==
    ASSUME NEW t, IsTree(t), NEW e \in Entries, NEW new, new \subseteq Seq(STRING) \cup {NoPath},
           RuntimeApply(t, e, new) # Failed
    PROVE  IsTree(RuntimeApply(t, e, new))
<1>1. CASE e.kind = "whiteout"
  <2>1. PICK q : q = InRoot(t, e.path)
    OBVIOUS
  <2>2. RuntimeApply(t, e, new) = IF q = NoPath THEN t ELSE Without(t, Below(t, q) \cup {q})
    BY <1>1, <2>1 DEF RuntimeApply, RuntimeWhiteout
  <2>3. q # NoPath => q \in DOMAIN t /\ q # <<>>
    BY <1>1, <2>1, EntryIs, EntryFound DEF InRoot
  <2>4. QED
    BY <2>2, <2>3, EntryRemoved
<1>2. CASE e.kind = "opaque"
  BY <1>2, RuntimeOpaqueKeepsTree DEF RuntimeApply
<1>3. CASE e.kind \in {"dir", "file", "link", "hard"}
  BY <1>3, RuntimeWriteKeepsTree DEF RuntimeApply
<1>4. QED
  BY <1>1, <1>2, <1>3, EntryIs

-----------------------------------------------------------------------------
(* What a copy makes of the destination.                                   *)

LEMMA ContentKeepsTree ==
    ASSUME NEW t, IsTree(t), NEW at \in DOMAIN t, t[at].kind # "dir", NEW n, IsNode(n)
    PROVE  IsTree([t EXCEPT ![at] = n])
<1>1. PICK u : u = [t EXCEPT ![at] = n]
  OBVIOUS
<1>2. DOMAIN u = DOMAIN t /\ u[at] = n /\ \A p \in DOMAIN t \ {at} : u[p] = t[p]
  BY <1>1
<1>3. t[at] # Dir
  BY DEF Dir
<1>4. Has(u, <<>>) /\ u[<<>>] = Dir
  BY <1>2, <1>3 DEF IsTree, Has
<1>5. ASSUME NEW p \in DOMAIN u
      PROVE  IsNode(u[p]) /\ Cleaned(p) /\ \A a \in Ancestors(p) : Has(u, a) /\ u[a] = Dir
  <2>1. IsNode(u[p])
    BY <1>2 DEF IsTree
  <2>2. Cleaned(p)
    BY <1>2 DEF IsTree
  <2>3. ASSUME NEW a \in Ancestors(p) PROVE Has(u, a) /\ u[a] = Dir
    <3>1. a \in DOMAIN t /\ t[a] = Dir
      BY <1>2 DEF IsTree, Has
    <3>2. QED
      BY <1>2, <1>3, <3>1 DEF Has
  <2>4. QED
    BY <2>1, <2>2, <2>3
<1>6. DOMAIN u \subseteq Seq(STRING)
  BY <1>2 DEF IsTree
<1>7. IsTree(u)
  BY <1>4, <1>5, <1>6 DEF IsTree
<1>8. QED
  BY <1>1, <1>7

LEMMA CopyNodeKeepsTree ==
    ASSUME NEW t, IsTree(t), NEW p \in Seq(STRING), Cleaned(p), NEW node, IsNode(node),
           p = <<>> => node.kind = "dir", CopyNode(t, p, node) # Failed
    PROVE  IsTree(CopyNode(t, p, node))
<1>1. PICK t1, at : t1 = MkdirAll(t, Front(p), FALSE) /\ at = Walk(t1, p, MaxSymlinkHops, FALSE)
  OBVIOUS
<1>2. t1 # Failed
  BY <1>1 DEF CopyNode
<1>3. Front(p) \in Seq(STRING) /\ Cleaned(Front(p))
  <2>1. CASE p # <<>>
    BY <2>1, CleanedParts
  <2>2. CASE p = <<>>
    <3>1. Front(p) = <<>>
      BY <2>2 DEF Front
    <3>2. QED
      BY <2>2, <3>1
  <2>3. QED
    BY <2>1, <2>2
<1>4. IsTree(t1)
  BY <1>1, <1>2, <1>3, MkdirAllKeepsTree
<1>5. CASE node.kind = "dir"
  <2>1. CopyNode(t, p, node) = MkdirAll(t1, p, FALSE)
    BY <1>1, <1>2, <1>5 DEF CopyNode
  <2>2. QED
    BY <1>4, <2>1, MkdirAllKeepsTree
<1>6. CASE node.kind = "link"
  <2>1. p # <<>>
    BY <1>6
  <2>2. CopyNode(t, p, node) = Create(OsRemove(t1, p), p, node)
    BY <1>1, <1>2, <1>6 DEF CopyNode
  <2>3. IsTree(OsRemove(t1, p))
    BY <1>4, <2>1, OsRemoveKeepsTree
  <2>4. QED
    BY <2>1, <2>2, <2>3, CreateKeepsTree
<1>7. CASE node.kind \notin {"dir", "link"}
  <2>1. p # <<>>
    BY <1>7
  <2>2. CopyNode(t, p, node) =
            IF OnHost(t1, p) = NoPath THEN Create(t1, p, node)
            ELSE IF at = NoPath \/ t1[at].kind = "dir" THEN Failed
            ELSE [t1 EXCEPT ![at] = node]
    BY <1>1, <1>2, <1>7 DEF CopyNode
  <2>3. CASE OnHost(t1, p) = NoPath
    BY <1>4, <2>1, <2>2, <2>3, CreateKeepsTree
  <2>4. CASE OnHost(t1, p) # NoPath
    <3>1. /\ at # NoPath /\ t1[at].kind # "dir"
          /\ CopyNode(t, p, node) = [t1 EXCEPT ![at] = node]
      BY <2>2, <2>4
    <3>2. at \in DOMAIN t1
      BY <1>1, <1>4, <3>1, WalkEnds
    <3>3. IsTree([t1 EXCEPT ![at] = node])
      BY <1>4, <3>1, <3>2, ContentKeepsTree, Zenon
    <3>4. QED
      BY <3>1, <3>3, Zenon
  <2>5. QED
    BY <2>3, <2>4
<1>8. QED
  BY <1>5, <1>6, <1>7

-----------------------------------------------------------------------------
(* TypeOK: the three trees stay trees.  Of the paths of the current layer  *)
(* it is enough that they are paths.                                       *)

Trees ==
    /\ IsTree(staging) /\ IsTree(runtime) /\ IsTree(dest)
    /\ fresh \subseteq Seq(STRING) \cup {NoPath}
    /\ \A p \in files : p \in Seq(STRING) /\ Cleaned(p)
    /\ copied \subseteq files
    /\ phase \in {"extract", "copy", "done", "failed"}

LEMMA TreesFirst == Init => Trees
<1> SUFFICES ASSUME Init PROVE Trees
  OBVIOUS
<1>1. IsTree(EmptyTree)
  <2>1. DOMAIN EmptyTree = {<<>>} /\ EmptyTree[<<>>] = Dir
    BY DEF EmptyTree
  <2>2. <<>> \in Seq(STRING) /\ \A i \in 1..Len(<<>>) : FALSE
    OBVIOUS
  <2>3. Cleaned(<<>>)
    BY <2>2, CleanedIs
  <2>4. \A a \in Ancestors(<<>>) : FALSE
    BY DEF Ancestors
  <2>5. IsNode(Dir)
    BY DEF IsNode
  <2>6. QED
    BY <2>1, <2>2, <2>3, <2>4, <2>5 DEF IsTree, Has
<1>2. \A p \in files : p \in Seq(STRING) /\ Cleaned(p)
  BY ManifestsAssumption DEF Init
<1>3. QED
  BY <1>1, <1>2 DEF Init, Trees

LEMMA TreesNext == Trees /\ [Next]_vars => Trees'
<1> SUFFICES ASSUME Trees, [Next]_vars PROVE Trees'
  OBVIOUS
<1> USE DEF Trees
<1>1. CASE UNCHANGED vars
  BY <1>1 DEF vars
<1>2. ASSUME NEW e \in Entries, NextEntry(e) PROVE Trees'
  <2>1. PICK t, r : t = Extract(staging, e) /\ r = RuntimeApply(runtime, e, fresh)
    OBVIOUS
  <2>2. /\ r # Failed /\ phase = "extract"
        /\ files' = files /\ dest' = dest /\ copied' = copied
    BY <1>2, <2>1 DEF NextEntry
  <2>3. IsTree(r)
    BY <2>1, <2>2, RuntimeKeepsTree
  <2>4. CASE t = Failed
    <3>1. phase' = "failed" /\ staging' = staging /\ runtime' = runtime /\ fresh' = fresh
      BY <1>2, <2>1, <2>4 DEF NextEntry
    <3>2. QED
      BY <2>2, <3>1
  <2>5. CASE t # Failed
    <3>1. /\ staging' = t /\ runtime' = r /\ phase' = phase
          /\ fresh' = IF e.kind \in {"whiteout", "opaque"} THEN fresh
                      ELSE fresh \cup {InRoot(r, e.path)}
      BY <1>2, <2>1, <2>5 DEF NextEntry
    <3>2. IsTree(t)
      BY <2>1, <2>5, ExtractKeepsTree
    <3>3. InRoot(r, e.path) \in Seq(STRING) \cup {NoPath}
      BY <2>3, EntryIs, EntryFound, TreePaths DEF InRoot
    <3>4. fresh' \subseteq Seq(STRING) \cup {NoPath}
      BY <3>1, <3>3
    <3>5. QED
      BY <2>2, <2>3, <3>1, <3>2, <3>4
  <2>6. QED
    BY <2>4, <2>5
<1>3. ASSUME NEW p \in files, CopyOne(p) PROVE Trees'
  <2>1. PICK q, t : q = OnHost(staging, p) /\ t = CopyNode(dest, p, staging[q])
    OBVIOUS
  <2>2. /\ phase = "copy" /\ copied' = copied \cup {p}
        /\ files' = files /\ staging' = staging /\ runtime' = runtime /\ fresh' = fresh
    BY <1>3 DEF CopyOne
  <2>3. CASE q = NoPath \/ t = Failed
    <3>1. dest' = dest /\ phase' \in {"copy", "failed"}
      BY <1>3, <2>1, <2>2, <2>3 DEF CopyOne
    <3>2. QED
      BY <2>2, <3>1
  <2>4. CASE q # NoPath /\ t # Failed
    <3>1. dest' = t /\ phase' = phase
      BY <1>3, <2>1, <2>4 DEF CopyOne
    <3>2. q \in DOMAIN staging
      BY <2>1, <2>4, EntryFound DEF OnHost
    <3>3. IsNode(staging[q])
      BY <3>2 DEF IsTree
    <3>4. p = <<>> => staging[q].kind = "dir"
      <4>1. p = <<>> => q = <<>>
        BY <2>1 DEF OnHost, EntryAt
      <4>2. QED
        BY <4>1, Root
    <3>5. IsTree(t)
      BY <2>1, <2>4, <3>3, <3>4, CopyNodeKeepsTree
    <3>6. QED
      BY <2>2, <3>1, <3>5
  <2>5. QED
    BY <2>3, <2>4
<1>4. CASE NextLayer
  BY <1>4 DEF NextLayer
<1>5. CASE PullFails
  BY <1>5 DEF PullFails
<1>6. CASE EndOfLayers
  BY <1>6 DEF EndOfLayers
<1>7. CASE EndOfCopy
  BY <1>7 DEF EndOfCopy
<1>8. QED
  BY <1>1, <1>2, <1>3, <1>4, <1>5, <1>6, <1>7 DEF Next

LEMMA TreeIsWellFormed ==
    ASSUME NEW t, IsTree(t)
    PROVE  WellFormed(t)
<1>1. <<>> \in DOMAIN t
  BY DEF IsTree, Has
<1>2. ASSUME NEW p \in DOMAIN t, p # <<>> PROVE Has(t, Front(p)) /\ t[Front(p)].kind = "dir"
  BY <1>2, TreePaths DEF Has, Dir
<1>3. QED
  BY <1>1, <1>2 DEF WellFormed

\* Whatever an image is made of, in whatever order its layers' entries come,
\* and whichever of them is the last: what extractLayer leaves in the staging
\* directory and CopyFileSet in its destination is a tree.
THEOREM TypeCorrect == Spec => []TypeOK
<1>1. Init => Trees
  BY TreesFirst
<1>2. Trees /\ [Next]_vars => Trees'
  BY TreesNext
<1>3. Trees => TypeOK
  BY TreeIsWellFormed DEF Trees, TypeOK
<1>4. QED
  BY <1>1, <1>2, <1>3, PTL DEF Spec

-----------------------------------------------------------------------------
(* ExtractsWhatRuntimeHas.  What a walk finds it also finds in a larger    *)
(* tree, and when it may leave the root: so wherever the walks of the host *)
(* lead to something, the runtime's lead to the same.                      *)

LEMMA SubSeqSplit ==
    ASSUME NEW p \in Seq(STRING), NEW i \in 0..Len(p), NEW n \in 0..i
    PROVE  /\ SubSeq(p, 1, n) \in Seq(STRING) /\ SubSeq(p, n + 1, i) \in Seq(STRING)
           /\ SubSeq(p, 1, i) = SubSeq(p, 1, n) \o SubSeq(p, n + 1, i)
<1>1. Len(p) \in Nat /\ i \in Nat /\ n \in Nat /\ n <= i /\ i <= Len(p) /\ n <= Len(p)
  OBVIOUS
<1>2. PICK a, b, c : a = SubSeq(p, 1, n) /\ b = SubSeq(p, n + 1, i) /\ c = SubSeq(p, 1, i)
  OBVIOUS
<1>3. a \in Seq(STRING) /\ Len(a) = n /\ \A k \in 1..n : a[k] = p[k]
  BY <1>1, <1>2
<1>4. b \in Seq(STRING) /\ Len(b) = i - n /\ \A k \in 1..(i - n) : b[k] = p[n + k]
  BY <1>1, <1>2
<1>5. c \in Seq(STRING) /\ Len(c) = i /\ \A k \in 1..i : c[k] = p[k]
  BY <1>1, <1>2
<1>6. /\ a \o b \in Seq(STRING) /\ Len(a \o b) = n + (i - n)
      /\ \A k \in 1..(n + (i - n)) : (a \o b)[k] = IF k <= n THEN a[k] ELSE b[k - n]
  <2>1. /\ a \o b \in Seq(STRING) /\ Len(a \o b) = Len(a) + Len(b)
        /\ \A k \in 1..(Len(a) + Len(b)) : (a \o b)[k] = IF k <= Len(a) THEN a[k] ELSE b[k - Len(a)]
    BY <1>3, <1>4, ConcatIs
  <2>2. QED
    BY <1>3, <1>4, <2>1
<1>7. ASSUME NEW k \in 1..i PROVE (a \o b)[k] = c[k]
  <2>1. (a \o b)[k] = IF k <= n THEN a[k] ELSE b[k - n]
    BY <1>1, <1>6
  <2>2. CASE k <= n
    <3>1. k \in 1..n
      BY <2>2
    <3>2. QED
      BY <1>3, <1>5, <2>1, <2>2, <3>1
  <2>3. CASE ~(k <= n)
    <3>1. k - n \in 1..(i - n) /\ n + (k - n) = k
      BY <1>1, <2>3
    <3>2. QED
      BY <1>4, <1>5, <2>1, <2>3, <3>1
  <2>4. QED
    BY <2>2, <2>3
<1>8. Len(a \o b) = i
  BY <1>1, <1>6
<1>9. a \o b = c
  BY <1>5, <1>6, <1>7, <1>8
<1>10. QED
  BY <1>2, <1>3, <1>4, <1>9

LEMMA OneOf ==
    ASSUME NEW p \in Seq(STRING), NEW i \in 1..Len(p)
    PROVE  SubSeq(p, i, i) = <<p[i]>>
<1>1. i \in Nat /\ 1 <= i /\ i <= Len(p) /\ Len(p) \in Nat /\ i - i + 1 = 1 /\ p[i] \in STRING
  OBVIOUS
<1>2. PICK b, c : b = SubSeq(p, i, i) /\ c = <<p[i]>>
  OBVIOUS
<1>3. b \in Seq(STRING) /\ Len(b) = 1 /\ b[1] = p[i]
  BY <1>1, <1>2
<1>4. c \in Seq(STRING) /\ Len(c) = 1 /\ c[1] = p[i]
  BY <1>1, <1>2
<1>5. b = c
  BY <1>3, <1>4
<1>6. QED
  BY <1>2, <1>5

LEMMA ConcatAgain ==
    ASSUME NEW a \in Seq(STRING), NEW b \in Seq(STRING), NEW c \in Seq(STRING)
    PROVE  a \o (b \o c) = (a \o b) \o c
  OBVIOUS

LEMMA ConcatNothing ==
    ASSUME NEW d \in Seq(STRING)
    PROVE  d \o <<>> = d
  OBVIOUS

\* A chain of directories is walked to its end.
LEMMA ChainWalked ==
    ASSUME NEW t, IsTree(t), NEW rooted \in BOOLEAN, NEW f \in Seq(STRING),
           NEW rest \in Seq(STRING), Cleaned(rest), Walk(t, f, MaxSymlinkHops, rooted) # NoPath,
           \A q \in Chain(Walk(t, f, MaxSymlinkHops, rooted), rest) : q \in DOMAIN t /\ t[q] = Dir
    PROVE  Walk(t, f \o rest, MaxSymlinkHops, rooted) = Walk(t, f, MaxSymlinkHops, rooted) \o rest
<1>0. PICK d : d = Walk(t, f, MaxSymlinkHops, rooted)
  OBVIOUS
<1> DEFINE Upto(i) == SubSeq(rest, 1, i)
           Bad == {i \in 0..Len(rest) : Walk(t, f \o Upto(i), MaxSymlinkHops, rooted) # d \o Upto(i)}
<1>1. d \in DOMAIN t /\ d \in Seq(STRING) /\ Len(rest) \in Nat
  BY <1>0, WalkEnds
<1>2. SUFFICES ASSUME Bad # {} PROVE FALSE
  <2>1. Len(rest) \in 0..Len(rest) /\ Upto(Len(rest)) = rest
    BY <1>1
  <2>2. QED
    BY <1>0, <2>1
<1>3. Bad \in SUBSET Nat
  OBVIOUS
<1>4. PICK i \in Bad : \A j \in Bad : i <= j
  BY <1>2, <1>3, Least
<1>5. i \in 0..Len(rest) /\ i \in Nat /\ Walk(t, f \o Upto(i), MaxSymlinkHops, rooted) # d \o Upto(i)
  BY <1>4
<1>6. i # 0
  <2>1. Upto(0) = <<>>
    OBVIOUS
  <2>2. f \o <<>> = f /\ d \o <<>> = d
    BY <1>1
  <2>3. QED
    BY <1>0, <1>5, <2>1, <2>2
<1>7. PICK j : j = i - 1 /\ j \in 0..Len(rest) /\ j \in Nat /\ j \in 0..i /\ j + 1 = i
  BY <1>1, <1>5, <1>6, SMTT(30)
<1>8. PICK r, c : r = Upto(j) /\ c = rest[i]
  OBVIOUS
<1>9. r \in Seq(STRING) /\ c \in STRING /\ <<c>> \in Seq(STRING) /\ Plain(c) /\ Upto(i) = r \o <<c>>
  <2>1. i \in 1..Len(rest)
    BY <1>5, <1>6
  <2>2. c \in STRING /\ Plain(c)
    BY <1>8, <2>1, CleanedIs
  <2>3. /\ r \in Seq(STRING) /\ SubSeq(rest, j + 1, i) \in Seq(STRING)
        /\ Upto(i) = r \o SubSeq(rest, j + 1, i)
    BY <1>5, <1>7, <1>8, SubSeqSplit
  <2>4. SubSeq(rest, j + 1, i) = <<c>>
    BY <1>7, <1>8, <2>1, OneOf
  <2>5. QED
    BY <2>2, <2>3, <2>4
<1>10. Walk(t, f \o r, MaxSymlinkHops, rooted) = d \o r
  <2>1. j \notin Bad
    BY <1>4, <1>7
  <2>2. QED
    BY <1>7, <1>8, <2>1
<1> HIDE DEF Upto
<1>11. PICK v, g : v = d \o r /\ g = f \o r /\ v \in Seq(STRING) /\ g \in Seq(STRING)
  BY <1>1, <1>9, ConcatIs
<1>12. Append(v, c) = d \o Upto(i) /\ f \o Upto(i) = g \o <<c>>
  <2>1. Append(v, c) = v \o <<c>>
    BY <1>9, <1>11, OneAppended
  <2>2. PICK o \in Seq(STRING) : o = <<c>>
    BY <1>9
  <2>3. d \o (r \o o) = (d \o r) \o o
    BY <1>1, <1>9, <2>2, ConcatAgain, ZenonT(40)
  <2>4. f \o (r \o o) = (f \o r) \o o
    BY <1>9, <2>2, ConcatAgain, ZenonT(40)
  <2>5. QED
    BY <1>9, <1>11, <2>1, <2>2, <2>3, <2>4, Zenon
<1>13. Append(v, c) \in DOMAIN t /\ t[Append(v, c)] = Dir
  <2>1. i \in 1..Len(rest)
    BY <1>5, <1>6
  <2>2. d \o Upto(i) \in Chain(d, rest)
    BY <2>1 DEF Chain, Upto
  <2>3. QED
    BY <1>0, <1>12, <2>2
<1>14. v # NoPath
  <2>1. CASE j = 0
    <3>1. r = <<>>
      BY <1>8, <2>1 DEF Upto
    <3>2. v = d
      BY <1>1, <1>11, <3>1
    <3>3. QED
      BY <1>0, <3>2
  <2>2. CASE j # 0
    <3>1. j \in 1..Len(rest)
      BY <1>7, <2>2
    <3>2. v \in Chain(d, rest)
      BY <1>8, <1>11, <3>1 DEF Chain, Upto
    <3>3. QED
      BY <1>0, <3>2, TreePaths
  <2>3. QED
    BY <2>1, <2>2
<1>15. Walk(t, g \o <<c>>, MaxSymlinkHops, rooted) = Append(v, c)
  <2>1. /\ Walk(t, g, MaxSymlinkHops, rooted) # NoPath
        /\ Append(Walk(t, g, MaxSymlinkHops, rooted), c) \in DOMAIN t
        /\ t[Append(Walk(t, g, MaxSymlinkHops, rooted), c)].kind # "link"
    <3>1. Dir.kind # "link"
      BY DEF Dir
    <3>2. Walk(t, g, MaxSymlinkHops, rooted) = v
      BY <1>10, <1>11
    <3>3. QED
      BY <1>13, <1>14, <3>1, <3>2
  <2>2. c # ".." /\ MaxSymlinkHops \in Nat
    BY <1>9, Zenon DEF Plain, MaxSymlinkHops
  <2>3. Walk(t, g \o <<c>>, MaxSymlinkHops, rooted) = Append(Walk(t, g, MaxSymlinkHops, rooted), c)
    BY <1>9, <1>11, <2>1, <2>2, WalkOneMore
  <2>4. QED
    BY <1>10, <1>11, <2>3
<1>16. QED
  BY <1>5, <1>12, <1>15

\* The directory MkdirAll made is at the end of the chain.
Made(t, p, rooted, rest, d, u) ==
    /\ IsTree(u) /\ Within(t, u)
    /\ \A q \in DOMAIN u \ DOMAIN t : q \in Chain(d, rest) /\ u[q] = Dir
    /\ Walk(u, p, MaxSymlinkHops, rooted) = d \o rest
    /\ d \o rest \in DOMAIN u /\ u[d \o rest].kind = "dir"

LEMMA MadeWalked ==
    ASSUME NEW t, IsTree(t), NEW rooted \in BOOLEAN, NEW p \in Seq(STRING), Cleaned(p),
           NEW n, NEW rest, NEW d, Making(t, p, rooted, n, rest, d)
    PROVE  Made(t, p, rooted, rest, d, MkdirAll(t, p, rooted))
<1>0. PICK u : u = MkdirAll(t, p, rooted)
  OBVIOUS
<1>1. IsTree(u) /\ u = With(t, Chain(d, rest))
  BY <1>0, ChainKeepsTree DEF Making
<1>2. /\ DOMAIN u = DOMAIN t \cup Chain(d, rest)
      /\ \A q \in DOMAIN t : u[q] = t[q]
      /\ \A q \in DOMAIN u \ DOMAIN t : q \in Chain(d, rest) /\ u[q] = Dir
  BY <1>1 DEF With, Has
<1>3. Within(t, u)
  BY <1>2 DEF Within
<1>4. /\ rest \in Seq(STRING) /\ Cleaned(rest) /\ d # NoPath
      /\ d \in DOMAIN t /\ d \in Seq(STRING) /\ t[d].kind = "dir"
      /\ rest = <<>> \/ Append(d, rest[1]) \notin DOMAIN t
  BY DEF Making
<1>5. PICK f : f = SubSeq(p, 1, n)
  OBVIOUS
<1>6. f \in Seq(STRING) /\ p = f \o rest /\ Walk(t, f, MaxSymlinkHops, rooted) = d
  <2>1. Len(p) \in 0..Len(p) /\ n \in 0..Len(p) /\ SubSeq(p, 1, Len(p)) = p
    BY DEF Making
  <2>2. f \in Seq(STRING) /\ p = f \o SubSeq(p, n + 1, Len(p))
    BY <1>5, <2>1, SubSeqSplit
  <2>3. rest = SubSeq(p, n + 1, Len(p)) /\ d = Walk(t, f, MaxSymlinkHops, rooted)
    BY <1>5 DEF Making, Reached
  <2>4. QED
    BY <2>2, <2>3
<1>7. Walk(u, f, MaxSymlinkHops, rooted) = d
  <2>1. IsTree(u) /\ Walk(t, f, MaxSymlinkHops, rooted) # NoPath
    BY <1>1, <1>4, <1>6
  <2>2. Walk(u, f, MaxSymlinkHops, rooted) = Walk(t, f, MaxSymlinkHops, rooted)
    BY <1>3, <1>6, <2>1, WalkKeptAlike
  <2>3. QED
    BY <1>6, <2>2
<1>8. ASSUME NEW q \in Chain(d, rest) PROVE q \in DOMAIN u /\ u[q] = Dir
  <2>1. rest # <<>>
    BY DEF Chain
  <2>2. q \notin DOMAIN t
    BY <1>4, <2>1, ChainIsNew
  <2>3. QED
    BY <1>2, <2>2
<1>9. Walk(u, p, MaxSymlinkHops, rooted) = d \o rest
  <2>1. Walk(u, f, MaxSymlinkHops, rooted) # NoPath
    BY <1>4, <1>7
  <2>2. \A q \in Chain(Walk(u, f, MaxSymlinkHops, rooted), rest) : q \in DOMAIN u /\ u[q] = Dir
    BY <1>7, <1>8
  <2>3. IsTree(u) /\ rest \in Seq(STRING) /\ Cleaned(rest)
    BY <1>1, <1>4
  <2>4. f \in Seq(STRING)
    BY <1>6
  <2>5. Walk(u, f \o rest, MaxSymlinkHops, rooted) = Walk(u, f, MaxSymlinkHops, rooted) \o rest
    BY <2>1, <2>2, <2>3, <2>4, ChainWalked, Zenon
  <2>6. QED
    BY <1>6, <1>7, <2>5
<1>10. d \o rest \in DOMAIN u /\ u[d \o rest].kind = "dir"
  <2>1. CASE rest = <<>>
    <3>1. d \o rest = d
      BY <1>4, <2>1, ConcatNothing
    <3>2. QED
      BY <1>2, <1>4, <3>1
  <2>2. CASE rest # <<>>
    <3>1. Len(rest) \in 1..Len(rest) /\ SubSeq(rest, 1, Len(rest)) = rest
      BY <1>4, <2>2
    <3>2. d \o rest \in Chain(d, rest)
      BY <3>1 DEF Chain
    <3>3. QED
      BY <1>8, <3>2 DEF Dir
  <2>3. QED
    BY <2>1, <2>2
<1>11. QED
  BY <1>0, <1>1, <1>2, <1>3, <1>9, <1>10 DEF Made

\* Where the host has nothing, the runtime makes the same directories.
LEMMA MkdirAllSame ==
    ASSUME NEW t, IsTree(t), NEW p \in Seq(STRING), Cleaned(p), MkdirAll(t, p, FALSE) # Failed
    PROVE  MkdirAll(t, p, TRUE) = MkdirAll(t, p, FALSE)
<1>1. PICK n, rest, d : Making(t, p, FALSE, n, rest, d)
  BY MkdirAllMakes
<1>2. /\ n \in 0..Len(p) /\ rest = SubSeq(p, n + 1, Len(p)) /\ rest \in Seq(STRING) /\ Cleaned(rest)
      /\ d = Walk(t, SubSeq(p, 1, n), MaxSymlinkHops, FALSE) /\ d # NoPath
      /\ d \in DOMAIN t /\ t[d].kind = "dir"
      /\ rest = <<>> \/ Append(d, rest[1]) \notin DOMAIN t
      /\ MkdirAll(t, p, FALSE) = With(t, Chain(d, rest))
  BY <1>1 DEF Making, Reached
<1>3. Len(p) \in Nat /\ n \in Nat /\ n <= Len(p)
  BY <1>2
<1>4. PICK f : f = SubSeq(p, 1, n) /\ f \in Seq(STRING)
  <2>1. SubSeq(p, 1, n) \in Seq(STRING)
    BY <1>3
  <2>2. QED
    BY <2>1
<1>5. Reached(t, p, n, TRUE) = d
  <2>1. Within(t, t)
    BY DEF Within
  <2>2. QED
    BY <1>2, <1>4, <2>1, WalkKept, ZenonT(40) DEF Reached
<1>6. ASSUME NEW i \in (n + 1)..Len(p) PROVE Reached(t, p, i, TRUE) = NoPath
  <2>1. i \in Nat /\ n + 1 <= i /\ i <= Len(p) /\ n + 1 \in 1..Len(p) /\ n + 1 \in Nat
    BY <1>3
  <2>2. Len(rest) = Len(p) - n /\ Len(rest) # 0 /\ rest[1] = p[n + 1]
    BY <1>2, <1>3, <2>1
  <2>3. PICK c : c = p[n + 1] /\ c \in STRING /\ Plain(c)
    BY <2>1, CleanedIs
  <2>4. Append(d, c) \notin DOMAIN t
    BY <1>2, <2>2, <2>3
  <2>5. PICK a : a = SubSeq(p, 1, n + 1)
    OBVIOUS
  <2>6. a \in Seq(STRING) /\ Len(a) = n + 1 /\ a # <<>> /\ \A k \in 1..(n + 1) : a[k] = p[k]
    BY <1>3, <2>1, <2>5
  <2>7. Last(a) = c /\ Last(a) # ".."
    <3>1. Last(a) = c
      BY <2>1, <2>3, <2>6 DEF Last
    <3>2. QED
      BY <2>3, <3>1, Zenon DEF Plain
  <2>8. Front(a) = f
    <3>1. Front(a) = SubSeq(a, 1, n)
      BY <1>3, <2>6 DEF Front
    <3>2. PICK g : g = SubSeq(a, 1, n)
      OBVIOUS
    <3>3. g \in Seq(STRING) /\ Len(g) = n /\ \A k \in 1..n : g[k] = a[k]
      BY <1>3, <2>6, <3>2
    <3>4. f \in Seq(STRING) /\ Len(f) = n /\ \A k \in 1..n : f[k] = p[k]
      BY <1>3, <1>4
    <3>5. \A k \in 1..n : k \in 1..(n + 1)
      BY <1>3
    <3>6. \A k \in 1..n : g[k] = f[k]
      BY <2>6, <3>3, <3>4, <3>5
    <3>7. g = f
      BY <3>3, <3>4, <3>6
    <3>8. QED
      BY <3>1, <3>2, <3>7
  <2>9. InRoot(t, a) = NoPath
    <3>1. Walk(t, Front(a), MaxSymlinkHops, TRUE) = d
      BY <1>4, <1>5, <2>8 DEF Reached
    <3>2. QED
      BY <2>4, <2>6, <2>7, <3>1 DEF InRoot, EntryAt, Has
  <2>10. PICK b : b = SubSeq(p, n + 2, i)
    OBVIOUS
  <2>11. b \in Seq(STRING) /\ SubSeq(p, 1, i) = a \o b
    <3>1. i \in 0..Len(p) /\ n + 1 \in 0..i /\ (n + 1) + 1 = n + 2
      BY <1>3, <2>1
    <3>2. /\ SubSeq(p, (n + 1) + 1, i) \in Seq(STRING)
          /\ SubSeq(p, 1, i) = SubSeq(p, 1, n + 1) \o SubSeq(p, (n + 1) + 1, i)
      BY <3>1, SubSeqSplit
    <3>3. QED
      BY <2>5, <2>10, <3>1, <3>2
  <2>12. Resolve(t, a \o b) = NoPath
    BY <2>6, <2>7, <2>9, <2>11, NothingBelowAbsent
  <2>13. QED
    BY <2>11, <2>12 DEF Resolve, Reached
<1>7. Deepest(t, p, TRUE) = n
  <2> DEFINE Fits(k) == Reached(t, p, k, TRUE) # NoPath
                        /\ \A i \in (k + 1)..Len(p) : Reached(t, p, i, TRUE) = NoPath
  <2>1. Fits(n)
    BY <1>2, <1>5, <1>6
  <2>2. ASSUME NEW k \in 0..Len(p), Fits(k) PROVE k = n
    <3>1. CASE k < n
      <4>1. n \in (k + 1)..Len(p)
        BY <1>3, <3>1
      <4>2. QED
        BY <1>2, <1>5, <2>2, <4>1
    <3>2. CASE k > n
      <4>1. k \in (n + 1)..Len(p)
        BY <1>3, <3>2
      <4>2. QED
        BY <1>6, <2>2, <4>1
    <3>3. QED
      BY <1>3, <3>1, <3>2
  <2>3. Deepest(t, p, TRUE) = CHOOSE k \in 0..Len(p) : Fits(k)
    BY DEF Deepest
  <2> HIDE DEF Fits
  <2>4. QED
    BY <1>2, <2>1, <2>2, <2>3
<1>8. MkdirAll(t, p, TRUE) = MadeFrom(t, p, n, rest, TRUE)
  BY <1>2, <1>7, MkdirAllIs
<1>9. MadeFrom(t, p, n, rest, TRUE) = With(t, Chain(d, rest))
  BY <1>2, <1>5 DEF MadeFrom, Has
<1>10. QED
  BY <1>2, <1>8, <1>9

\* A directory entry makes one directory, or none.
LEMMA DirPlaced ==
    ASSUME NEW t, IsTree(t), NEW p \in Seq(STRING), Cleaned(p), p # <<>>,
           MkdirAll(t, p, FALSE) # Failed,
           Walk(t, Front(p), MaxSymlinkHops, FALSE) # NoPath,
           NEW y, y = Append(Walk(t, Front(p), MaxSymlinkHops, FALSE), Last(p)),
           y \in DOMAIN t => t[y].kind # "link"
    PROVE  \/ y \in DOMAIN t /\ t[y].kind = "dir" /\ MkdirAll(t, p, FALSE) = With(t, {})
           \/ y \notin DOMAIN t /\ MkdirAll(t, p, FALSE) = With(t, {y})
<1>0. PICK f, c : f = Front(p) /\ c = Last(p)
  OBVIOUS
<1>1. PICK n, rest, d : Making(t, p, FALSE, n, rest, d)
  BY MkdirAllMakes
<1>2. /\ n \in 0..Len(p) /\ rest = SubSeq(p, n + 1, Len(p)) /\ rest \in Seq(STRING)
      /\ d = Walk(t, SubSeq(p, 1, n), MaxSymlinkHops, FALSE) /\ d # NoPath
      /\ \A i \in (n + 1)..Len(p) : Walk(t, SubSeq(p, 1, i), MaxSymlinkHops, FALSE) = NoPath
      /\ d \in DOMAIN t /\ d \in Seq(STRING) /\ t[d].kind = "dir"
      /\ rest = <<>> \/ Append(d, rest[1]) \notin DOMAIN t
      /\ MkdirAll(t, p, FALSE) = With(t, Chain(d, rest))
  BY <1>1 DEF Making, Reached
<1>3. Len(p) \in Nat /\ Len(p) # 0 /\ Len(p) - 1 \in Nat /\ n \in Nat /\ n <= Len(p)
  BY <1>2
<1>4. f \in Seq(STRING) /\ c \in STRING /\ Plain(c) /\ p = f \o <<c>> /\ f = SubSeq(p, 1, Len(p) - 1)
  <2>1. f \in Seq(STRING) /\ c \in STRING /\ Plain(c)
    BY <1>0, CleanedParts
  <2>2. p = f \o <<c>>
    BY <1>0, FrontAndLast
  <2>3. QED
    BY <1>0, <2>1, <2>2 DEF Front
<1>5. PICK v : v = Walk(t, f, MaxSymlinkHops, FALSE)
  OBVIOUS
<1>6. v # NoPath /\ v \in Seq(STRING) /\ y = Append(v, c) /\ y = v \o <<c>>
  <2>1. v # NoPath /\ v \in Seq(STRING) /\ y = Append(v, c)
    BY <1>0, <1>4, <1>5, WalkEnds
  <2>2. QED
    BY <1>4, <2>1, OneAppended
<1>7. Within(t, t) /\ c # ".."
  BY <1>4, Zenon DEF Within, Plain
<1>8. CASE n = Len(p)
  <2>1. rest = <<>> /\ SubSeq(p, 1, n) = p
    BY <1>2, <1>3, <1>8
  <2>2. Chain(d, rest) = {}
    BY <2>1 DEF Chain
  <2>3. Walk(t, p, MaxSymlinkHops, FALSE) = d
    BY <1>2, <2>1
  <2>4. y \in DOMAIN t
    <3>1. SUFFICES ASSUME y \notin DOMAIN t PROVE FALSE
      OBVIOUS
    <3>2. Walk(t, f, MaxSymlinkHops, TRUE) = v
      BY <1>4, <1>5, <1>6, <1>7, WalkKept, ZenonT(40)
    <3>3. InRoot(t, p) = NoPath
      BY <1>0, <1>6, <3>1, <3>2 DEF InRoot, EntryAt, Has
    <3>4. Resolve(t, p \o <<>>) = NoPath
      <4>1. Last(p) # ".." /\ <<>> \in Seq(STRING)
        BY <1>0, <1>7
      <4>2. QED
        BY <3>3, <4>1, NothingBelowAbsent
    <3>5. Walk(t, p, MaxSymlinkHops, TRUE) = d
      BY <1>2, <1>7, <2>3, WalkKept, ZenonT(40)
    <3>6. QED
      BY <1>2, <3>4, <3>5, ConcatNothing DEF Resolve
  <2>5. Walk(t, f \o <<c>>, MaxSymlinkHops, FALSE) = Append(Walk(t, f, MaxSymlinkHops, FALSE), c)
    <3>1. MaxSymlinkHops \in Nat
      BY DEF MaxSymlinkHops
    <3>2. /\ Walk(t, f, MaxSymlinkHops, FALSE) # NoPath
          /\ Append(Walk(t, f, MaxSymlinkHops, FALSE), c) \in DOMAIN t
          /\ t[Append(Walk(t, f, MaxSymlinkHops, FALSE), c)].kind # "link"
      BY <1>0, <2>4
    <3>3. f \in Seq(STRING) /\ c \in STRING
      BY <1>4
    <3>4. QED
      BY <1>7, <3>1, <3>2, <3>3, WalkOneMore, Zenon
  <2>6. d = y
    BY <1>4, <1>5, <1>6, <2>3, <2>5
  <2>7. QED
    BY <1>2, <2>2, <2>4, <2>6
<1>9. CASE n # Len(p)
  <2>1. n = Len(p) - 1
    <3>1. CASE n < Len(p) - 1
      <4>1. Len(p) - 1 \in (n + 1)..Len(p)
        BY <1>3, <3>1
      <4>2. QED
        BY <1>2, <1>4, <1>5, <1>6, <4>1
    <3>2. QED
      BY <1>3, <1>9, <3>1
  <2>2. rest = <<c>> /\ d = v
    <3>1. Len(p) \in 1..Len(p) /\ n + 1 = Len(p) /\ p[Len(p)] = c
      BY <1>0, <1>3, <2>1 DEF Last
    <3>2. SubSeq(p, Len(p), Len(p)) = <<p[Len(p)]>>
      BY <3>1, OneOf
    <3>3. QED
      BY <1>2, <1>4, <1>5, <2>1, <3>1, <3>2
  <2>3. Len(rest) = 1 /\ rest[1] = c /\ SubSeq(rest, 1, 1) = rest /\ rest # <<>>
    <3>1. Len(rest) = 1 /\ rest[1] = c
      BY <2>2
    <3>2. SubSeq(rest, 1, 1) = <<rest[1]>>
      <4>1. rest \in Seq(STRING)
        BY <1>2
      <4>2. 1 \in 1..Len(rest)
        BY <3>1
      <4>3. QED
        BY <4>1, <4>2, OneOf, Zenon
    <3>3. rest # <<>>
      <4>1. SUFFICES ASSUME rest = <<>> PROVE FALSE
        OBVIOUS
      <4>2. Len(rest) = 1
        BY <3>1
      <4>3. QED
        BY <4>1, <4>2
    <3>4. QED
      BY <2>2, <3>1, <3>2, <3>3
  <2>4. Chain(d, rest) = {y}
    <3>1. \A i \in 1..Len(rest) : i = 1
      BY <2>3
    <3>2. 1 \in 1..Len(rest)
      BY <2>3
    <3>3. Chain(d, rest) = {d \o SubSeq(rest, 1, 1)}
      BY <3>1, <3>2 DEF Chain
    <3>4. QED
      BY <1>6, <2>2, <2>3, <3>3
  <2>5. y \notin DOMAIN t
    BY <1>2, <1>6, <2>2, <2>3
  <2>6. QED
    BY <1>2, <2>4, <2>5
<1>10. QED
  BY <1>8, <1>9

-----------------------------------------------------------------------------
(* What the code makes of an entry is what a runtime makes of it, but for  *)
(* the quirks.                                                             *)

LEMMA NothingBelowGap ==
    ASSUME NEW t, IsTree(t), NEW y \in Seq(STRING), y \notin DOMAIN t, y # <<>>
    PROVE  Below(t, y) = {}
<1> SUFFICES ASSUME NEW r \in Below(t, y) PROVE FALSE
  OBVIOUS
<1>1. r \in DOMAIN t /\ r \in Seq(STRING) /\ IsStrictPrefix(y, r)
  BY TreePaths DEF Below
<1>2. y \in Ancestors(r)
  BY <1>1, PrefixIsAncestor
<1>3. QED
  BY <1>1, <1>2 DEF IsTree, Has

LEMMA IsTreeWithin ==
    ASSUME NEW t
    PROVE  Within(t, t)
  BY DEF Within

\* os.Remove followed by a create is the replacement a runtime makes.
LEMMA CreateIsPut ==
    ASSUME NEW u, IsTree(u), NEW p \in Seq(STRING), Cleaned(p), p # <<>>,
           Walk(u, Front(p), MaxSymlinkHops, FALSE) # NoPath,
           NEW n, n.kind # "dir", Create(OsRemove(u, p), p, n) # Failed
    PROVE  Create(OsRemove(u, p), p, n) =
              Put(u, Append(Walk(u, Front(p), MaxSymlinkHops, FALSE), Last(p)), n)
<1>1. PICK f, c : f = Front(p) /\ c = Last(p)
  OBVIOUS
<1>2. f \in Seq(STRING) /\ c \in STRING /\ Plain(c)
  BY <1>1, CleanedParts
<1>3. PICK v : v = Walk(u, f, MaxSymlinkHops, FALSE) /\ v # NoPath
  BY <1>1
<1>4. v \in DOMAIN u /\ v \in Seq(STRING)
  BY <1>2, <1>3, WalkEnds
<1>5. PICK y : y = Append(v, c)
  OBVIOUS
<1>6. y \in Seq(STRING) /\ y # <<>>
  <2>1. v \in Seq(STRING) /\ c \in STRING
    BY <1>2, <1>4
  <2>2. Append(v, c) \in Seq(STRING) /\ Append(v, c) # <<>>
    BY <2>1, Appended, Zenon
  <2>3. QED
    BY <1>5, <2>2
<1>7. OnHost(u, p) = IF y \in DOMAIN u THEN y ELSE NoPath
  BY <1>1, <1>3, <1>5 DEF OnHost, EntryAt, Has
<1>8. PICK w : w = OsRemove(u, p)
  OBVIOUS
<1>9. PICK g : g = Walk(w, f, MaxSymlinkHops, FALSE)
  OBVIOUS
<1>10. OnHost(w, p) = NoPath /\ g # NoPath /\ Create(w, p, n) = Put(w, Append(g, c), n)
  BY <1>1, <1>8, <1>9 DEF Create
<1>11. CASE y \in DOMAIN u
  <2>1. OnHost(u, p) = y /\ y # NoPath
    BY <1>7, <1>11, TreePaths
  <2>2. Below(u, y) = {}
    BY <1>8, <1>10, <2>1 DEF OsRemove
  <2>3. w = Without(u, {y})
    BY <1>8, <2>1, <2>2 DEF OsRemove
  <2>4. DOMAIN w = DOMAIN u \ {y} /\ \A q \in DOMAIN w : w[q] = u[q]
    BY <2>3 DEF Without
  <2>5. IsTree(w) /\ Within(w, u)
    BY <1>8, <2>4, OsRemoveKeepsTree DEF Within
  <2>6. g = v
    BY <1>2, <1>3, <1>9, <1>10, <2>5, WalkKeptAlike
  <2>7. Below(w, y) = {}
    BY <2>2, <2>4 DEF Below
  <2>8. Put(w, y, n) = [q \in DOMAIN w \cup {y} |-> IF q = y THEN n ELSE w[q]]
    BY <2>7 DEF Put
  <2>9. Put(u, y, n) = [q \in DOMAIN u \cup {y} |-> IF q = y THEN n ELSE u[q]]
    BY <2>2 DEF Put
  <2>10. Put(w, y, n) = Put(u, y, n)
    BY <1>11, <2>4, <2>8, <2>9
  <2>11. QED
    BY <1>1, <1>3, <1>5, <1>8, <1>10, <2>6, <2>10
<1>12. CASE y \notin DOMAIN u
  <2>1. w = u
    BY <1>7, <1>8, <1>12 DEF OsRemove
  <2>2. QED
    BY <1>1, <1>3, <1>5, <1>8, <1>9, <1>10, <2>1
<1>13. QED
  BY <1>11, <1>12

LEMMA WhiteoutSame ==
    ASSUME NEW t, NEW e, e.kind = "whiteout", NEW new, Quirk(t, e, new) = {}
    PROVE  RuntimeApply(t, e, new) = Extract(t, e)
<1>1. PICK q : q = OnHost(t, e.path)
  OBVIOUS
<1>2. InRoot(t, e.path) = q /\ (q # NoPath => Below(t, q) = {})
  BY <1>1 DEF Quirk
<1>3. RuntimeApply(t, e, new) = IF q = NoPath THEN t ELSE Without(t, Below(t, q) \cup {q})
  BY <1>2 DEF RuntimeApply, RuntimeWhiteout
<1>4. Extract(t, e) = IF q = NoPath \/ Below(t, q) # {} THEN t ELSE Without(t, {q})
  BY <1>1 DEF Extract, OsRemove
<1>5. CASE q = NoPath
  BY <1>3, <1>4, <1>5
<1>6. CASE q # NoPath
  <2>1. Below(t, q) \cup {q} = {q}
    BY <1>2, <1>6
  <2>2. QED
    BY <1>2, <1>3, <1>4, <1>6, <2>1
<1>7. QED
  BY <1>5, <1>6

LEMMA OpaqueSame ==
    ASSUME NEW t, IsTree(t), NEW e, e.kind = "opaque", e.path \in Seq(STRING),
           NEW new \in SUBSET (Seq(STRING) \cup {NoPath}), Quirk(t, e, new) = {}
    PROVE  RuntimeApply(t, e, new) = Extract(t, e)
<1>1. PICK q : q = OnHost(t, e.path)
  OBVIOUS
<1>2. InRoot(t, e.path) = q /\ (q # NoPath => \A s \in new : ~IsStrictPrefix(q, s))
  BY <1>1 DEF Quirk
<1>3. RuntimeApply(t, e, new) = IF q = NoPath THEN t
                                ELSE Without(t, {r \in Below(t, q) : \A s \in new : ~IsPrefix(r, s)})
  BY <1>2 DEF RuntimeApply, RuntimeOpaque
<1>4. Extract(t, e) = IF q = NoPath THEN t ELSE Without(t, Below(t, q))
  BY <1>1 DEF Extract, OsRemoveContents
<1>5. CASE q = NoPath
  BY <1>3, <1>4, <1>5
<1>6. CASE q # NoPath
  <2>1. q \in DOMAIN t /\ q \in Seq(STRING) /\ Len(q) \in Nat
    <3>1. q \in DOMAIN t
      BY <1>1, <1>6, EntryFound DEF OnHost
    <3>2. QED
      BY <3>1, TreePaths
  <2>2. ASSUME NEW r \in Below(t, q), NEW s \in new, IsPrefix(r, s) PROVE FALSE
    <3>1. r \in DOMAIN t /\ r \in Seq(STRING) /\ IsPrefix(q, r) /\ r # q
      BY TreePaths DEF Below, IsStrictPrefix
    <3>2. r # <<>>
      BY <2>1, RootIsTop DEF Below
    <3>3. s # NoPath
      BY <2>2, <3>1, <3>2, NotOnNoPath
    <3>4. s \in Seq(STRING)
      BY <3>3
    <3>5. IsPrefix(q, s)
      BY <2>1, <2>2, <3>1, <3>4, PrefixOfPrefix
    <3>6. s = q
      BY <1>2, <1>6, <3>5 DEF IsStrictPrefix
    <3>7. r \in Ancestors(q)
      BY <2>1, <2>2, <3>1, <3>2, <3>6, PrefixIsAncestor DEF IsStrictPrefix
    <3>8. Len(r) < Len(q)
      BY <2>1, <3>7, AncestorIsPrefix
    <3>9. Len(q) <= Len(r)
      BY <3>1 DEF IsPrefix
    <3>10. Len(r) \in Nat
      BY <3>1
    <3>11. QED
      BY <2>1, <3>8, <3>9, <3>10
  <2>3. {r \in Below(t, q) : \A s \in new : ~IsPrefix(r, s)} = Below(t, q)
    BY <2>2
  <2>4. QED
    BY <1>3, <1>4, <1>6, <2>3
<1>7. QED
  BY <1>5, <1>6

\* A link at the place of a directory entry was there before its parents
\* were made.
LEMMA LinkWasThere ==
    ASSUME NEW t, IsTree(t), NEW p \in Seq(STRING), Cleaned(p), p # <<>>,
           NEW u, u = MkdirAll(t, Front(p), FALSE), u # Failed,
           NEW v, v = Walk(u, Front(p), MaxSymlinkHops, FALSE),
           NEW y, y = Append(v, Last(p)), y \in DOMAIN u, u[y].kind = "link"
    PROVE  OnHost(t, p) = y /\ y # NoPath /\ t[y].kind = "link"
<1>1. PICK f, c : f = Front(p) /\ c = Last(p)
  OBVIOUS
<1>2. f \in Seq(STRING) /\ Cleaned(f) /\ c \in STRING /\ Plain(c)
  BY <1>1, CleanedParts
<1>3. MkdirAll(t, f, FALSE) # Failed /\ MkdirAll(t, f, FALSE) = u
  BY <1>1
<1>4. PICK n, rest, d : Making(t, f, FALSE, n, rest, d)
  BY <1>2, <1>3, MkdirAllMakes
<1>5. /\ n \in 0..Len(f) /\ rest = SubSeq(f, n + 1, Len(f)) /\ rest \in Seq(STRING) /\ Cleaned(rest)
      /\ d = Walk(t, SubSeq(f, 1, n), MaxSymlinkHops, FALSE) /\ d # NoPath
      /\ d \in DOMAIN t /\ d \in Seq(STRING) /\ t[d].kind = "dir"
      /\ rest = <<>> \/ Append(d, rest[1]) \notin DOMAIN t
  BY <1>4 DEF Making, Reached
<1>6. Made(t, f, FALSE, rest, d, u)
  BY <1>2, <1>3, <1>4, MadeWalked
<1>7. /\ IsTree(u) /\ Within(t, u)
      /\ \A q \in DOMAIN u \ DOMAIN t : u[q] = Dir
      /\ v = d \o rest
  BY <1>1, <1>6 DEF Made
<1>8. y \in DOMAIN t /\ t[y] = u[y]
  <2>1. Dir.kind = "dir"
    BY DEF Dir
  <2>2. QED
    BY <1>7, <2>1 DEF Within
<1>9. v \in Seq(STRING) /\ y = Append(v, c)
  <2>1. d \in Seq(STRING) /\ rest \in Seq(STRING)
    BY <1>5
  <2>2. d \o rest \in Seq(STRING)
    BY <2>1, ConcatIs
  <2>3. QED
    BY <1>1, <1>7, <2>2
<1>10. v \in DOMAIN t
  <2>1. Front(y) = v /\ y # <<>>
    BY <1>2, <1>9, FrontOfAppend
  <2>2. QED
    BY <1>8, <2>1, TreePaths
<1>11. rest = <<>>
  <2>1. SUFFICES ASSUME rest # <<>> PROVE FALSE
    OBVIOUS
  <2>2. Len(rest) \in 1..Len(rest) /\ SubSeq(rest, 1, Len(rest)) = rest
    BY <1>5, <2>1
  <2>3. v \in Chain(d, rest)
    BY <1>7, <2>2 DEF Chain
  <2>4. Append(d, rest[1]) \notin DOMAIN t
    BY <1>5, <2>1
  <2>5. d \in DOMAIN t /\ t[d].kind = "dir" /\ rest \in Seq(STRING) /\ Cleaned(rest)
    BY <1>5
  <2>6. v \notin DOMAIN t
    BY <2>3, <2>4, <2>5, ChainIsNew, Zenon
  <2>7. QED
    BY <1>10, <2>6
<1>12. v = d
  BY <1>5, <1>7, <1>11, ConcatNothing
<1>13. Walk(t, f, MaxSymlinkHops, FALSE) = v
  <2>1. Len(f) \in Nat /\ SubSeq(f, 1, Len(f)) = f
    BY <1>2
  <2>2. Len(rest) = 0
    BY <1>11
  <2>3. n = Len(f)
    BY <1>5, <2>1, <2>2
  <2>4. QED
    BY <1>5, <1>12, <2>1, <2>3
<1>14. v # NoPath /\ y # NoPath
  BY <1>8, <1>10, TreePaths
<1>15. QED
  BY <1>1, <1>8, <1>9, <1>13, <1>14 DEF OnHost, EntryAt, Has

\* The parents of an entry, once made, are walked to alike.
LEMMA ParentSame ==
    ASSUME NEW t, IsTree(t), NEW f \in Seq(STRING), Cleaned(f), MkdirAll(t, f, FALSE) # Failed
    PROVE  \E v : /\ IsTree(MkdirAll(t, f, FALSE))
                  /\ v = Walk(MkdirAll(t, f, FALSE), f, MaxSymlinkHops, FALSE)
                  /\ v = Resolve(MkdirAll(t, f, FALSE), f)
                  /\ v # NoPath /\ v \in DOMAIN MkdirAll(t, f, FALSE)
                  /\ MkdirAll(t, f, FALSE)[v].kind = "dir"
                  /\ MkdirAll(t, f, FALSE) =
                        [q \in DOMAIN MkdirAll(t, f, FALSE) |-> MkdirAll(t, f, FALSE)[q]]
<1>1. PICK u : u = MkdirAll(t, f, FALSE)
  OBVIOUS
<1>2. PICK n, rest, d : Making(t, f, FALSE, n, rest, d)
  BY MkdirAllMakes
<1>3. Made(t, f, FALSE, rest, d, u)
  BY <1>1, <1>2, MadeWalked
<1>4. PICK v : v = Walk(u, f, MaxSymlinkHops, FALSE)
  OBVIOUS
<1>5. IsTree(u) /\ v \in DOMAIN u /\ u[v].kind = "dir"
  BY <1>3, <1>4 DEF Made
<1>6. v # NoPath
  BY <1>5, TreePaths
<1>7. Walk(u, f, MaxSymlinkHops, TRUE) = v
  BY <1>4, <1>5, <1>6, IsTreeWithin, WalkKept
<1>8. u = [q \in DOMAIN u |-> u[q]]
  <2>1. u = With(t, Chain(d, rest))
    BY <1>1, <1>2 DEF Making
  <2>2. QED
    BY <2>1 DEF With
<1>9. QED
  BY <1>1, <1>4, <1>5, <1>6, <1>7, <1>8 DEF Resolve

\* A directory entry that names no link.
LEMMA DirSame ==
    ASSUME NEW u, IsTree(u), u = [q \in DOMAIN u |-> u[q]],
           NEW p \in Seq(STRING), Cleaned(p), p # <<>>,
           NEW v, v = Walk(u, Front(p), MaxSymlinkHops, FALSE), v # NoPath,
           MkdirAll(u, p, FALSE) # Failed,
           Append(v, Last(p)) \in DOMAIN u => u[Append(v, Last(p))].kind # "link"
    PROVE  MkdirAll(u, p, FALSE) = Put(u, Append(v, Last(p)), Dir)
<1>1. PICK f, c : f = Front(p) /\ c = Last(p)
  OBVIOUS
<1>2. f \in Seq(STRING) /\ c \in STRING
  BY <1>1, CleanedParts
<1>3. v = Walk(u, f, MaxSymlinkHops, FALSE) /\ v \in Seq(STRING)
  BY <1>1, <1>2, WalkEnds
<1>4. PICK y : y = Append(v, c)
  OBVIOUS
<1>5. y \in Seq(STRING) /\ y # <<>> /\ (y \in DOMAIN u => u[y].kind # "link")
  <2>1. v \in Seq(STRING) /\ c \in STRING
    BY <1>2, <1>3
  <2>2. Append(v, c) \in Seq(STRING) /\ Append(v, c) # <<>>
    BY <2>1, Appended, Zenon
  <2>3. QED
    BY <1>1, <1>4, <2>2
<1>6. \/ y \in DOMAIN u /\ u[y].kind = "dir" /\ MkdirAll(u, p, FALSE) = With(u, {})
      \/ y \notin DOMAIN u /\ MkdirAll(u, p, FALSE) = With(u, {y})
  <2>1. Walk(u, Front(p), MaxSymlinkHops, FALSE) # NoPath
    OBVIOUS
  <2>2. y = Append(Walk(u, Front(p), MaxSymlinkHops, FALSE), Last(p))
    BY <1>1, <1>4
  <2>3. y \in DOMAIN u => u[y].kind # "link"
    BY <1>5
  <2>4. QED
    BY <2>1, <2>2, <2>3, DirPlaced, Zenon
<1>7. CASE y \in DOMAIN u /\ u[y].kind = "dir" /\ MkdirAll(u, p, FALSE) = With(u, {})
  <2>1. With(u, {}) = u
    BY DEF With, Has
  <2>2. Put(u, y, Dir) = u
    BY <1>7 DEF Put, Has, Dir
  <2>3. QED
    BY <1>1, <1>4, <1>7, <2>1, <2>2
<1>8. CASE y \notin DOMAIN u /\ MkdirAll(u, p, FALSE) = With(u, {y})
  <2>1. Below(u, y) = {}
    BY <1>5, <1>8, NothingBelowGap
  <2>2. Put(u, y, Dir) = [q \in DOMAIN u \cup {y} |-> IF q = y THEN Dir ELSE u[q]]
    BY <1>8, <2>1 DEF Put, Has
  <2>3. With(u, {y}) = [q \in DOMAIN u \cup {y} |-> IF q \in DOMAIN u THEN u[q] ELSE Dir]
    BY DEF With, Has
  <2>4. Put(u, y, Dir) = With(u, {y})
    BY <1>8, <2>2, <2>3
  <2>5. QED
    BY <1>1, <1>4, <1>8, <2>4
<1>9. QED
  BY <1>6, <1>7, <1>8

LEMMA OsRemoveWithin ==
    ASSUME NEW t, NEW p
    PROVE  Within(OsRemove(t, p), t)
<1>1. OsRemove(t, p) = t \/ \E gone : OsRemove(t, p) = Without(t, gone)
  BY DEF OsRemove
<1>2. ASSUME NEW gone PROVE Within(Without(t, gone), t)
  BY DEF Within, Without
<1>3. QED
  BY <1>1, <1>2, IsTreeWithin

LEMMA ExtractSame ==
    ASSUME NEW t, IsTree(t), NEW e \in Entries, NEW new \in SUBSET (Seq(STRING) \cup {NoPath}),
           Quirk(t, e, new) = {}, Extract(t, e) # Failed, RuntimeApply(t, e, new) # Failed
    PROVE  RuntimeApply(t, e, new) = Extract(t, e)
<1>1. PICK p : p = e.path
  OBVIOUS
<1>2. /\ p \in Seq(STRING) /\ Cleaned(p) /\ e.target \in Seq(STRING)
      /\ e.kind # "opaque" => p # <<>>
  BY <1>1, EntryIs
<1>3. CASE e.kind = "whiteout"
  BY <1>3, WhiteoutSame
<1>4. CASE e.kind = "opaque"
  BY <1>1, <1>2, <1>4, OpaqueSame
<1>5. CASE e.kind \in {"dir", "file", "link", "hard"}
  <2>1. PICK f, c : f = Front(p) /\ c = Last(p)
    OBVIOUS
  <2>2. f \in Seq(STRING) /\ Cleaned(f) /\ p # <<>>
    BY <1>2, <1>5, <2>1, CleanedParts
  <2>3. PICK u : u = MkdirAll(t, f, FALSE)
    OBVIOUS
  <2>4. MkdirAll(t, f, FALSE) # Failed
    BY <1>1, <1>5, <2>1 DEF Extract
  <2>5. PICK v : /\ IsTree(u) /\ v = Walk(u, f, MaxSymlinkHops, FALSE) /\ v = Resolve(u, f)
                 /\ v # NoPath /\ v \in DOMAIN u /\ u[v].kind = "dir"
                 /\ u = [q \in DOMAIN u |-> u[q]]
    BY <2>2, <2>3, <2>4, ParentSame, ZenonT(40)
  <2>6. MkdirAll(t, f, TRUE) = u
    BY <2>2, <2>3, <2>4, MkdirAllSame
  <2>7. RuntimeApply(t, e, new) = RuntimeWrite(t, e)
    BY <1>5 DEF RuntimeApply
  <2>8. PICK y : y = Append(v, c)
    OBVIOUS
  <2>9. PICK w : w = OsRemove(u, p)
    OBVIOUS
  <2>10. CASE e.kind = "dir"
    <3>1. Extract(t, e) = MkdirAll(u, p, FALSE)
      BY <1>1, <2>1, <2>3, <2>4, <2>10 DEF Extract
    <3>2. RuntimeWrite(t, e) = Put(u, y, Dir)
      BY <1>1, <2>1, <2>3, <2>4, <2>5, <2>6, <2>8, <2>10 DEF RuntimeWrite
    <3>3. y \in DOMAIN u => u[y].kind # "link"
      <4>1. SUFFICES ASSUME y \in DOMAIN u, u[y].kind = "link" PROVE FALSE
        OBVIOUS
      <4>2. OnHost(t, p) = y /\ y # NoPath /\ t[y].kind = "link"
        <5>1. u = MkdirAll(t, Front(p), FALSE) /\ u # Failed
          BY <2>1, <2>3, <2>4
        <5>2. v = Walk(u, Front(p), MaxSymlinkHops, FALSE) /\ y = Append(v, Last(p))
          BY <2>1, <2>5, <2>8
        <5>3. IsTree(t) /\ p \in Seq(STRING) /\ Cleaned(p) /\ p # <<>>
          BY <1>2, <2>2
        <5>4. QED
          BY <4>1, <5>1, <5>2, <5>3, LinkWasThere, ZenonT(60)
      <4>3. QED
        BY <1>1, <2>10, <4>2 DEF Quirk
    <3>4. MkdirAll(u, p, FALSE) = Put(u, y, Dir)
      <4>1. v = Walk(u, Front(p), MaxSymlinkHops, FALSE) /\ y = Append(v, Last(p))
        BY <2>1, <2>5, <2>8
      <4>2. MkdirAll(u, p, FALSE) # Failed
        BY <3>1
      <4>3. Append(v, Last(p)) \in DOMAIN u => u[Append(v, Last(p))].kind # "link"
        BY <3>3, <4>1
      <4>4. IsTree(u) /\ u = [q \in DOMAIN u |-> u[q]] /\ v # NoPath
        BY <2>5
      <4>5. v = Walk(u, Front(p), MaxSymlinkHops, FALSE)
        BY <4>1
      <4>6. MkdirAll(u, p, FALSE) = Put(u, Append(v, Last(p)), Dir)
        BY <1>2, <2>2, <4>2, <4>3, <4>4, <4>5, DirSame, Zenon
      <4>7. QED
        BY <4>1, <4>6
    <3>5. QED
      BY <2>7, <3>1, <3>2, <3>4
  <2>11. ASSUME NEW n, n.kind # "dir", Create(w, p, n) # Failed
         PROVE  Create(w, p, n) = Put(u, y, n)
    <3>1. v = Walk(u, Front(p), MaxSymlinkHops, FALSE) /\ v # NoPath /\ IsTree(u)
      BY <2>1, <2>5
    <3>2. Create(OsRemove(u, p), p, n) # Failed
      BY <2>9, <2>11
    <3>3. Create(OsRemove(u, p), p, n) =
             Put(u, Append(Walk(u, Front(p), MaxSymlinkHops, FALSE), Last(p)), n)
      <4>1. Walk(u, Front(p), MaxSymlinkHops, FALSE) # NoPath
        BY <3>1
      <4>2. IsTree(u)
        BY <3>1
      <4>3. p \in Seq(STRING) /\ Cleaned(p) /\ p # <<>>
        BY <1>2, <2>2
      <4>4. n.kind # "dir"
        BY <2>11
      <4>5. QED
        BY <3>2, <4>1, <4>2, <4>3, <4>4, CreateIsPut, Zenon
    <3>4. QED
      BY <2>1, <2>8, <2>9, <3>1, <3>3
  <2>12. CASE e.kind = "file"
    <3>1. Extract(t, e) = Create(w, p, File(e.data))
      BY <1>1, <2>1, <2>3, <2>4, <2>9, <2>12 DEF Extract
    <3>2. RuntimeWrite(t, e) = Put(u, y, File(e.data))
      BY <1>1, <2>1, <2>3, <2>4, <2>5, <2>6, <2>8, <2>12 DEF RuntimeWrite
    <3>3. File(e.data).kind # "dir"
      BY DEF File
    <3>4. QED
      BY <2>7, <2>11, <3>1, <3>2, <3>3
  <2>13. CASE e.kind = "link"
    <3>1. Extract(t, e) = Create(w, p, Link(e.target, e.abs))
      BY <1>1, <2>1, <2>3, <2>4, <2>9, <2>13 DEF Extract
    <3>2. RuntimeWrite(t, e) = Put(u, y, Link(e.target, e.abs))
      BY <1>1, <2>1, <2>3, <2>4, <2>5, <2>6, <2>8, <2>13 DEF RuntimeWrite
    <3>3. Link(e.target, e.abs).kind # "dir"
      BY DEF Link
    <3>4. QED
      BY <2>7, <2>11, <3>1, <3>2, <3>3
  <2>14. CASE e.kind = "hard"
    <3>1. PICK from : from = OnHost(w, e.target)
      OBVIOUS
    <3>2. /\ from # NoPath /\ w[from].kind # "dir"
          /\ Extract(t, e) = Create(w, p, w[from])
      BY <1>1, <2>1, <2>3, <2>4, <2>9, <2>14, <3>1 DEF Extract
    <3>3. IsTree(w) /\ Within(w, u)
      BY <1>2, <2>2, <2>5, <2>9, OsRemoveKeepsTree, OsRemoveWithin
    <3>4. EntryAt(w, e.target, FALSE) # NoPath /\ EntryAt(w, e.target, FALSE) = from
      BY <3>1, <3>2 DEF OnHost
    <3>5. EntryAt(u, e.target, TRUE) = EntryAt(w, e.target, FALSE)
      BY <1>2, <2>5, <3>3, <3>4, EntryKept, ZenonT(40)
    <3>6. InRoot(u, e.target) = from
      BY <3>4, <3>5 DEF InRoot
    <3>7. from \in DOMAIN w
      BY <1>2, <3>3, <3>4, EntryFound
    <3>8. u[from] = w[from]
      BY <3>3, <3>7 DEF Within
    <3>9. RuntimeWrite(t, e) = Put(u, y, u[from])
      BY <1>1, <2>1, <2>3, <2>4, <2>5, <2>6, <2>8, <2>14, <3>2, <3>6 DEF RuntimeWrite
    <3>10. QED
      BY <2>7, <2>11, <3>2, <3>8, <3>9
  <2>15. QED
    BY <1>5, <2>10, <2>12, <2>13, <2>14
<1>6. QED
  BY <1>3, <1>4, <1>5, EntryIs

\* As long as no quirk has been met, the two trees are one.
Same == phase # "failed" /\ quirks = {} => staging = runtime

LEMMA SameNext == Trees /\ Same /\ [Next]_vars => Same'
<1> SUFFICES ASSUME Trees, Same, [Next]_vars PROVE Same'
  OBVIOUS
<1> USE DEF Same
<1>1. CASE UNCHANGED vars
  BY <1>1 DEF vars
<1>2. ASSUME NEW e \in Entries, NextEntry(e) PROVE Same'
  <2>1. PICK t, r : t = Extract(staging, e) /\ r = RuntimeApply(runtime, e, fresh)
    OBVIOUS
  <2>2. SUFFICES ASSUME phase' # "failed", quirks' = {} PROVE staging' = runtime'
    OBVIOUS
  <2>3. t # Failed /\ r # Failed /\ phase = "extract"
    BY <1>2, <2>1, <2>2 DEF NextEntry
  <2>4. staging' = t /\ runtime' = r /\ quirks' = quirks \cup Quirk(staging, e, fresh)
    BY <1>2, <2>1, <2>3 DEF NextEntry
  <2>5. quirks = {} /\ Quirk(staging, e, fresh) = {}
    BY <2>2, <2>4
  <2>6. staging = runtime
    BY <2>3, <2>5
  <2>7. IsTree(staging) /\ fresh \in SUBSET (Seq(STRING) \cup {NoPath})
    BY DEF Trees
  <2>8. Extract(staging, e) # Failed /\ RuntimeApply(staging, e, fresh) # Failed
    BY <2>1, <2>3, <2>6
  <2>9. RuntimeApply(staging, e, fresh) = Extract(staging, e)
    BY <2>5, <2>7, <2>8, ExtractSame
  <2>10. QED
    BY <2>1, <2>4, <2>6, <2>9
<1>3. ASSUME NEW p \in files, CopyOne(p) PROVE Same'
  <2>1. quirks' = quirks /\ staging' = staging /\ runtime' = runtime /\ phase = "copy"
    BY <1>3 DEF CopyOne
  <2>2. QED
    BY <2>1
<1>4. CASE NextLayer
  BY <1>4 DEF NextLayer
<1>5. CASE PullFails
  BY <1>5 DEF PullFails
<1>6. CASE EndOfLayers
  BY <1>6 DEF EndOfLayers
<1>7. CASE EndOfCopy
  BY <1>7 DEF EndOfCopy
<1>8. QED
  BY <1>1, <1>2, <1>3, <1>4, <1>5, <1>6, <1>7 DEF Next

\* Whatever the layers hold: an extraction that meets none of the four quirks
\* leaves in the staging directory the file system the container saw.
THEOREM ExtractsWhatRuntimeHasHolds == Spec => []ExtractsWhatRuntimeHas
<1>1. Init => Trees /\ Same
  BY TreesFirst DEF Init, Same
<1>2. Trees /\ Same /\ [Next]_vars => Trees' /\ Same'
  BY TreesNext, SameNext
<1>3. Same => ExtractsWhatRuntimeHas
  BY DEF Same, ExtractsWhatRuntimeHas
<1>4. QED
  BY <1>1, <1>2, <1>3, PTL DEF Spec

-----------------------------------------------------------------------------
(* CopyComplete.  As long as every path of the manifest that the image has *)
(* leads to itself, through no link, the destination is a part of the      *)
(* staging tree: what a round makes on the way to its path are directories *)
(* there too, and what it creates is the node that stands there.  In part  *)
(* of a tree a walk finds what it finds in the whole, or nothing, and so   *)
(* no round writes anywhere but at its own path.                           *)

NamedDirectly == \A p \in files : OnHost(staging, p) \in {p, NoPath}

\* Up to a directory there are only directories.
LEMMA DirsUpTo ==
    ASSUME NEW s, IsTree(s), NEW p \in DOMAIN s, s[p] = Dir, NEW k \in 0..Len(p)
    PROVE  SubSeq(p, 1, k) \in DOMAIN s /\ s[SubSeq(p, 1, k)] = Dir
<1>1. p \in Seq(STRING) /\ Len(p) \in Nat
  BY TreePaths
<1>2. CASE k = 0
  <2>1. SubSeq(p, 1, k) = <<>>
    BY <1>1, <1>2
  <2>2. QED
    BY <2>1 DEF IsTree, Has
<1>3. CASE k = Len(p)
  <2>1. SubSeq(p, 1, k) = p
    BY <1>1, <1>3
  <2>2. QED
    BY <2>1
<1>4. CASE k # 0 /\ k # Len(p)
  <2>1. k \in 1..(Len(p) - 1)
    BY <1>1, <1>4
  <2>2. SubSeq(p, 1, k) \in Ancestors(p)
    BY <2>1 DEF Ancestors
  <2>3. QED
    BY <2>2 DEF IsTree, Has
<1>5. QED
  BY <1>2, <1>3, <1>4

LEMMA PartAfter ==
    ASSUME NEW p \in Seq(STRING), NEW n \in 0..Len(p), NEW i \in 1..Len(SubSeq(p, n + 1, Len(p)))
    PROVE  /\ n + i \in 0..Len(p)
           /\ SubSeq(p, 1, n) \o SubSeq(SubSeq(p, n + 1, Len(p)), 1, i) = SubSeq(p, 1, n + i)
<1>1. Len(p) \in Nat /\ n \in Nat /\ n <= Len(p)
  OBVIOUS
<1>2. PICK rest : rest = SubSeq(p, n + 1, Len(p))
  OBVIOUS
<1>3. rest \in Seq(STRING) /\ Len(rest) = Len(p) - n /\ \A k \in 1..(Len(p) - n) : rest[k] = p[n + k]
  BY <1>1, <1>2
<1>4. i \in Nat /\ 1 <= i /\ i <= Len(p) - n
  BY <1>1, <1>2, <1>3
<1>5. PICK a, b : a = SubSeq(rest, 1, i) /\ b = SubSeq(p, n + 1, n + i)
  OBVIOUS
<1>6. a \in Seq(STRING) /\ Len(a) = i /\ \A k \in 1..i : a[k] = p[n + k]
  BY <1>1, <1>3, <1>4, <1>5
<1>7. b \in Seq(STRING) /\ Len(b) = i /\ \A k \in 1..i : b[k] = p[n + k]
  <2>1. n + 1 \in 1..(Len(p) + 1) /\ n + i \in n..Len(p) /\ (n + i) - (n + 1) + 1 = i
    BY <1>1, <1>4
  <2>2. b \in Seq(STRING) /\ Len(b) = i
    BY <1>5, <2>1
  <2>3. ASSUME NEW k \in 1..i PROVE b[k] = p[n + k]
    BY <1>1, <1>5, <2>1
  <2>4. QED
    BY <2>2, <2>3
<1>8. a = b
  <2>1. Len(a) = Len(b)
    BY <1>6, <1>7
  <2>2. \A k \in 1 .. Len(a) : a[k] = b[k]
    BY <1>6, <1>7
  <2>3. QED
    BY <1>6, <1>7, <2>1, <2>2, SeqEqual
<1>9. n + i \in 0..Len(p) /\ n \in 0..(n + i)
  BY <1>1, <1>4
<1>10. SubSeq(p, 1, n + i) = SubSeq(p, 1, n) \o b
  BY <1>5, <1>9, SubSeqSplit
<1>11. QED
  BY <1>2, <1>5, <1>8, <1>9, <1>10

\* os.MkdirAll of a directory of s, in a part of s, makes more of that part.
LEMMA MkdirAllInside ==
    ASSUME NEW s, IsTree(s), NEW t, IsTree(t), Within(t, s), NEW p \in DOMAIN s, s[p] = Dir,
           NEW u, u = MkdirAll(t, p, FALSE), u # Failed
    PROVE  IsTree(u) /\ Within(t, u) /\ Within(u, s) /\ p \in DOMAIN u /\ u[p] = Dir
<1>1. p \in Seq(STRING) /\ Len(p) \in Nat /\ Cleaned(p)
  BY TreePaths DEF IsTree
<1>2. PICK n, rest, d : Making(t, p, FALSE, n, rest, d)
  BY <1>1, MkdirAllMakes
<1>3. Made(t, p, FALSE, rest, d, u)
  BY <1>1, <1>2, MadeWalked
<1>4. PICK g : g = SubSeq(p, 1, n)
  OBVIOUS
<1>5. n \in 0..Len(p) /\ rest = SubSeq(p, n + 1, Len(p)) /\ d \in Seq(STRING)
  BY <1>2 DEF Making
<1>6. g \in Seq(STRING) /\ g \in DOMAIN s /\ s[g] = Dir /\ p = g \o rest
  <2>1. g \in DOMAIN s /\ s[g] = Dir
    BY <1>4, <1>5, DirsUpTo
  <2>2. g \in Seq(STRING)
    BY <2>1, TreePaths
  <2>3. p = SubSeq(p, 1, n) \o SubSeq(p, n + 1, Len(p))
    <3>1. Len(p) \in 0..Len(p) /\ n \in 0..Len(p) /\ SubSeq(p, 1, Len(p)) = p
      BY <1>1, <1>5
    <3>2. QED
      BY <1>1, <3>1, SubSeqSplit, Zenon
  <2>4. QED
    BY <1>4, <1>5, <2>1, <2>2, <2>3
<1>7. d = g
  <2>1. d = Walk(t, g, MaxSymlinkHops, FALSE) /\ d # NoPath
    BY <1>2, <1>4 DEF Making, Reached
  <2>2. Walk(s, g, MaxSymlinkHops, FALSE) = g
    BY <1>6, WalkToDir DEF MaxSymlinkHops
  <2>3. QED
    BY <1>6, <2>1, <2>2, WalkKeptAlike
<1>8. p \in DOMAIN u /\ u[p] = Dir
  BY <1>3, <1>6, <1>7, KindOfDir DEF Made
<1>9. Within(u, s)
  <2>1. ASSUME NEW q \in DOMAIN u PROVE q \in DOMAIN s /\ s[q] = u[q]
    <3>1. CASE q \in DOMAIN t
      BY <1>3, <3>1 DEF Made, Within
    <3>2. CASE q \notin DOMAIN t
      <4>1. q \in Chain(g, rest) /\ u[q] = Dir
        BY <1>3, <1>7, <3>2 DEF Made
      <4>2. PICK i \in 1..Len(rest) : q = g \o SubSeq(rest, 1, i)
        BY <4>1 DEF Chain
      <4>3. q = SubSeq(p, 1, n + i) /\ n + i \in 0..Len(p)
        BY <1>1, <1>4, <1>5, <4>2, PartAfter
      <4>4. QED
        BY <4>1, <4>3, DirsUpTo
    <3>3. QED
      BY <3>1, <3>2
  <2>2. QED
    BY <2>1 DEF Within
<1>10. QED
  BY <1>3, <1>8, <1>9 DEF Made

\* So does creating there what s has, be it there already or not.
LEMMA PutInside ==
    ASSUME NEW s, IsTree(s), NEW t, IsTree(t), Within(t, s), NEW p \in DOMAIN s, s[p].kind # "dir"
    PROVE  LET u == Put(t, p, s[p]) IN Within(t, u) /\ Within(u, s) /\ p \in DOMAIN u
<1>1. PICK u : u = Put(t, p, s[p])
  OBVIOUS
<1>2. Below(t, p) = {}
  <2>1. SUFFICES ASSUME NEW q \in Below(t, p) PROVE FALSE
    OBVIOUS
  <2>2. q \in DOMAIN s /\ q \in Seq(STRING) /\ IsStrictPrefix(p, q) /\ p \in Seq(STRING) /\ p # <<>>
    BY TreePaths DEF Below, Within, IsTree, Dir
  <2>3. p \in Ancestors(q)
    BY <2>2, PrefixIsAncestor
  <2>4. QED
    BY <2>2, <2>3 DEF IsTree, Dir
<1>3. u = [q \in DOMAIN t \cup {p} |-> IF q = p THEN s[p] ELSE t[q]]
  BY <1>1, <1>2 DEF Put
<1>4. Within(t, u) /\ Within(u, s) /\ p \in DOMAIN u
  BY <1>3 DEF Within
<1>5. QED
  BY <1>1, <1>4

\* A walk to a file of the tree ends at that file.
LEMMA FileInPlace ==
    ASSUME NEW t, IsTree(t), NEW p \in DOMAIN t, p # <<>>, t[p].kind # "link"
    PROVE  Walk(t, p, MaxSymlinkHops, FALSE) = p
<1>1. PICK f, c, m, w : /\ f = Front(p) /\ c = Last(p) /\ m = MaxSymlinkHops
                        /\ w = Walk(t, Front(p), MaxSymlinkHops, FALSE)
  OBVIOUS
<1>2. p \in Seq(STRING) /\ f \in Seq(STRING) /\ c \in STRING /\ c # ".." /\ m \in Nat
  BY <1>1, TreePaths, Parts DEF MaxSymlinkHops
<1>3. f \in DOMAIN t /\ t[f] = Dir /\ f # NoPath
  BY <1>1, TreePaths
<1>4. w = Walk(t, f, m, FALSE) /\ w = f
  BY <1>1, <1>2, <1>3, WalkToDir
<1>5. f \o <<c>> = p
  BY <1>1, <1>2, FrontAndLast
<1>6. Append(w, c) = p
  BY <1>2, <1>4, <1>5, OneAppended
<1>7. Walk(t, f \o <<c>>, m, FALSE) = Append(w, c)
  <2>1. Walk(t, f, m, FALSE) # NoPath /\ Append(Walk(t, f, m, FALSE), c) \in DOMAIN t
        /\ t[Append(Walk(t, f, m, FALSE), c)].kind # "link"
    BY <1>3, <1>4, <1>6, Zenon
  <2>2. Walk(t, f \o <<c>>, m, FALSE) = Append(Walk(t, f, m, FALSE), c)
    BY <1>2, <2>1, WalkOneMore, Zenon
  <2>3. QED
    BY <1>4, <2>2, Zenon
<1>8. QED
  BY <1>1, <1>5, <1>6, <1>7, Zenon

\* One round of the loop of CopyFileSet, for a path that leads to itself.
LEMMA CopyInside ==
    ASSUME NEW s, IsTree(s), NEW t, IsTree(t), Within(t, s), NEW p \in DOMAIN s,
           NEW u, u = CopyNode(t, p, s[p]), u # Failed
    PROVE  Within(t, u) /\ Within(u, s) /\ p \in DOMAIN u
<1>1. p \in Seq(STRING) /\ Cleaned(p) /\ IsNode(s[p]) /\ s[p].kind \in {"dir", "file", "link"}
  BY TreePaths, NodeKinds DEF IsTree
<1>2. PICK f, t1 : f = Front(p) /\ t1 = MkdirAll(t, Front(p), FALSE)
  OBVIOUS
<1>3. t1 # Failed
  BY <1>2 DEF CopyNode
<1>4. f \in DOMAIN s /\ s[f] = Dir
  <2>1. CASE p = <<>>
    <3>1. f = <<>>
      BY <1>2, <2>1 DEF Front
    <3>2. QED
      BY <3>1 DEF IsTree, Has
  <2>2. CASE p # <<>>
    BY <1>2, <2>2, TreePaths
  <2>3. QED
    BY <2>1, <2>2
<1>5. IsTree(t1) /\ Within(t, t1) /\ Within(t1, s) /\ f \in DOMAIN t1 /\ t1[f] = Dir
  <2>1. Front(p) \in DOMAIN s /\ s[Front(p)] = Dir
    BY <1>2, <1>4
  <2>2. QED
    BY <1>2, <1>3, <2>1, MkdirAllInside
<1>6. Walk(t1, f, MaxSymlinkHops, FALSE) = f /\ f # NoPath
  BY <1>5, WalkToDir, TreePaths DEF MaxSymlinkHops
<1>7. SUFFICES Within(t1, u) /\ Within(u, s) /\ p \in DOMAIN u
  BY <1>5 DEF Within
<1>8. CASE s[p].kind = "dir"
  <2>1. u = MkdirAll(t1, p, FALSE)
    BY <1>2, <1>3, <1>8 DEF CopyNode
  <2>2. s[p] = Dir
    BY <1>8, KindOfDir
  <2>3. QED
    BY <1>5, <2>1, <2>2, MkdirAllInside
<1>9. ASSUME s[p].kind # "dir", p # <<>>, u = Put(t1, Append(f, Last(p)), s[p])
      PROVE  Within(t1, u) /\ Within(u, s) /\ p \in DOMAIN u
  <2>1. Append(f, Last(p)) = p
    BY <1>1, <1>2, <1>9, FrontAndLast, Parts, OneAppended
  <2>2. QED
    BY <1>5, <1>9, <2>1, PutInside
<1>10. CASE s[p].kind = "link"
  <2>1. p # <<>>
    BY <1>10 DEF IsTree, Dir
  <2>2. u = Create(OsRemove(t1, p), p, s[p])
    BY <1>2, <1>3, <1>10 DEF CopyNode
  <2>3. u = Put(t1, Append(f, Last(p)), s[p])
    BY <1>1, <1>2, <1>5, <1>6, <1>10, <2>1, <2>2, CreateIsPut
  <2>4. QED
    BY <1>9, <1>10, <2>1, <2>3
<1>11. CASE s[p].kind = "file"
  <2>1. p # <<>>
    BY <1>11 DEF IsTree, Dir
  <2>2. PICK at : at = Walk(t1, p, MaxSymlinkHops, FALSE)
    OBVIOUS
  <2>3. u = IF OnHost(t1, p) = NoPath THEN Create(t1, p, s[p])
            ELSE IF at = NoPath \/ t1[at].kind = "dir" THEN Failed
            ELSE [t1 EXCEPT ![at] = s[p]]
    BY <1>2, <1>3, <1>11, <2>2 DEF CopyNode
  <2>4. CASE OnHost(t1, p) = NoPath
    <3>1. u = Put(t1, Append(f, Last(p)), s[p])
      BY <1>2, <1>6, <2>3, <2>4 DEF Create
    <3>2. QED
      BY <1>9, <1>11, <2>1, <3>1
  <2>5. CASE OnHost(t1, p) # NoPath
    <3>1. Append(f, Last(p)) = p /\ p = f \o <<Last(p)>> /\ f \in Seq(STRING) /\ Last(p) \in STRING
      BY <1>1, <1>2, <2>1, FrontAndLast, Parts, OneAppended
    <3>2. p \in DOMAIN t1 /\ t1[p] = s[p]
      BY <1>2, <1>5, <1>6, <2>1, <2>5, <3>1 DEF OnHost, EntryAt, Has, Within
    <3>3. at = p
      BY <1>5, <1>11, <2>1, <2>2, <3>2, FileInPlace
    <3>4. u = [t1 EXCEPT ![p] = s[p]]
      BY <2>3, <2>5, <3>3
    <3>5. QED
      BY <1>5, <3>2, <3>4 DEF Within
  <2>6. QED
    BY <2>4, <2>5
<1>12. QED
  BY <1>1, <1>8, <1>10, <1>11

\* Nothing is copied before the last layer, everything when the copy is done.
CopyInv ==
    /\ phase = "extract" => dest = EmptyTree /\ copied = {}
    /\ phase \in {"copy", "done"} /\ NamedDirectly =>
          Within(dest, staging) /\ copied \ Missing \subseteq DOMAIN dest
    /\ phase = "done" => copied = files

LEMMA CopyNext == Trees /\ CopyInv /\ [Next]_vars => CopyInv'
<1> SUFFICES ASSUME Trees, CopyInv, [Next]_vars PROVE CopyInv'
  OBVIOUS
<1>1. CASE UNCHANGED vars
  BY <1>1 DEF vars, CopyInv, NamedDirectly, Missing
<1>2. ASSUME NEW e \in Entries, NextEntry(e) PROVE CopyInv'
  <2>1. phase = "extract" /\ phase' \in {"extract", "failed"} /\ dest' = dest /\ copied' = copied
    BY <1>2 DEF NextEntry
  <2>2. QED
    BY <2>1 DEF CopyInv
<1>3. ASSUME NEW p \in files, CopyOne(p) PROVE CopyInv'
  <2>1. PICK q, t : q = OnHost(staging, p) /\ t = CopyNode(dest, p, staging[q])
    OBVIOUS
  <2>2. /\ phase = "copy" /\ copied' = copied \cup {p}
        /\ files' = files /\ staging' = staging
    BY <1>3 DEF CopyOne
  <2>3. NamedDirectly' = NamedDirectly /\ Missing' = Missing
    BY <2>2 DEF NamedDirectly, Missing
  <2>4. phase' \in {"copy", "failed"}
    BY <1>3, <2>1, <2>2 DEF CopyOne
  <2>5. SUFFICES ASSUME phase' = "copy", NamedDirectly
                 PROVE  Within(dest', staging) /\ (copied \cup {p}) \ Missing \subseteq DOMAIN dest'
    BY <2>2, <2>3, <2>4 DEF CopyInv
  <2>6. Within(dest, staging) /\ copied \ Missing \subseteq DOMAIN dest
    BY <2>2, <2>5 DEF CopyInv
  <2>7. CASE q = NoPath
    <3>1. dest' = dest /\ p \in Missing
      BY <1>3, <2>1, <2>7 DEF CopyOne, Missing
    <3>2. QED
      BY <2>6, <3>1
  <2>8. CASE q # NoPath
    <3>1. t # Failed /\ dest' = t
      BY <1>3, <2>1, <2>5, <2>8 DEF CopyOne
    <3>2. q = p /\ IsTree(staging) /\ IsTree(dest)
      BY <2>1, <2>5, <2>8 DEF NamedDirectly, Trees
    <3>3. p \in DOMAIN staging
      BY <2>1, <2>8, <3>2, EntryFound DEF OnHost, Trees
    <3>4. Within(dest, t) /\ Within(t, staging) /\ p \in DOMAIN t
      BY <2>1, <2>6, <3>1, <3>2, <3>3, CopyInside
    <3>5. QED
      BY <2>6, <3>1, <3>4 DEF Within
  <2>9. QED
    BY <2>7, <2>8
<1>4. CASE NextLayer
  BY <1>4 DEF NextLayer, CopyInv
<1>5. CASE PullFails
  BY <1>5 DEF PullFails, CopyInv
<1>6. CASE EndOfLayers
  <2>1. /\ phase' = "copy" /\ dest' = EmptyTree /\ copied' = {} /\ staging' = staging
    BY <1>6 DEF EndOfLayers, CopyInv
  <2>2. Within(EmptyTree, staging)
    BY DEF EmptyTree, Within, Trees, IsTree, Has
  <2>3. QED
    BY <2>1, <2>2 DEF CopyInv
<1>7. CASE EndOfCopy
  <2>1. /\ phase = "copy" /\ copied = files /\ dest' = dest /\ copied' = copied
        /\ files' = files /\ staging' = staging /\ phase' = "done"
    BY <1>7 DEF EndOfCopy
  <2>2. NamedDirectly' = NamedDirectly /\ Missing' = Missing
    BY <2>1 DEF NamedDirectly, Missing
  <2>3. QED
    BY <2>1, <2>2 DEF CopyInv
<1>8. QED
  BY <1>1, <1>2, <1>3, <1>4, <1>5, <1>6, <1>7 DEF Next

\* In whatever order the map gives the paths: if each path of the manifest that
\* the image has leads to itself, a copy by CopyFileSet that ends without an
\* error holds all of them, each with its content.
THEOREM CopyCompleteNamedDirectly == Spec => [](NamedDirectly => CopyComplete)
<1>1. Init => Trees /\ CopyInv
  BY TreesFirst DEF Init, CopyInv
<1>2. Trees /\ CopyInv /\ [Next]_vars => Trees' /\ CopyInv'
  BY TreesNext, CopyNext
<1>3. Trees /\ CopyInv => (NamedDirectly => CopyComplete)
  <2>1. SUFFICES ASSUME Trees, CopyInv, NamedDirectly, phase = "done", NEW p \in files \ Missing
                 PROVE  OnHost(dest, p) # NoPath /\ dest[OnHost(dest, p)] = staging[OnHost(staging, p)]
    BY DEF CopyComplete
  <2>2. p \in DOMAIN dest /\ Within(dest, staging) /\ IsTree(dest)
    BY <2>1 DEF CopyInv, Trees
  <2>3. OnHost(dest, p) = p /\ p # NoPath
    BY <2>2, FoundInPlace
  <2>4. OnHost(staging, p) = p
    BY <2>1 DEF NamedDirectly, Missing
  <2>5. QED
    BY <2>2, <2>3, <2>4 DEF Within
<1>4. QED
  BY <1>1, <1>2, <1>3, PTL DEF Spec
=============================================================================
