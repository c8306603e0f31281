--------------------------- MODULE ImageTreeProofs ---------------------------
(***************************************************************************)
(* What the proofs about the hardener need of paths and walks: that a walk *)
(* through an image's tree comes to an end, and what it then has found.    *)
(***************************************************************************)
EXTENDS ImageTree, SequenceTheorems, WellFoundedInduction, TLAPS

\* A set of numbers has a least one.
LEMMA Least ==
    ASSUME NEW T \in SUBSET Nat, T # {}
    PROVE  \E x \in T : \A y \in T : x <= y
<1>1. PICK x \in T : \A y \in T : <<y, x>> \notin OpToRel(<, Nat)
  BY WFMin, NatLessThanWellFounded
<1>2. \A y \in T : ~(y < x)
  BY <1>1 DEF OpToRel
<1>3. QED
  BY <1>2

-----------------------------------------------------------------------------
(* Paths and their ancestors.                                              *)

LEMMA AncestorsAre ==
    ASSUME NEW p \in Seq(STRING), NEW a \in Ancestors(p)
    PROVE  /\ a \in Seq(STRING) /\ a # <<>>
           /\ IsStrictPrefix(a, p)
           /\ Ancestors(a) \subseteq Ancestors(p)
<1>1. PICK i \in 1 .. (Len(p) - 1) : a = SubSeq(p, 1, i)
  BY DEF Ancestors
<1>2. a \in Seq(STRING) /\ Len(a) = i /\ \A k \in 1 .. i : a[k] = p[k]
  BY <1>1
<1>3. ASSUME NEW b \in Ancestors(a) PROVE b \in Ancestors(p)
  <2>1. PICK j \in 1 .. (Len(a) - 1) : b = SubSeq(a, 1, j)
    BY DEF Ancestors
  <2>2. j \in 1 .. (Len(p) - 1) /\ SubSeq(p, 1, j) \in Seq(STRING) /\ b \in Seq(STRING)
    BY <1>1, <1>2, <2>1
  <2>3. Len(b) = j /\ Len(SubSeq(p, 1, j)) = j
        /\ \A k \in 1 .. j : b[k] = SubSeq(p, 1, j)[k]
    BY <1>1, <1>2, <2>1, <2>2
  <2>4. b = SubSeq(p, 1, j)
    BY <2>2, <2>3, SeqEqual
  <2>5. QED
    BY <2>2, <2>4 DEF Ancestors
<1>4. SubSeq(a, 1, Len(a)) = SubSeq(p, 1, Len(a))
  <2>1. SubSeq(a, 1, Len(a)) = a
    BY <1>2
  <2>2. QED
    BY <1>1, <1>2, <2>1
<1>5. a # p /\ Len(a) <= Len(p)
  BY <1>1, <1>2
<1>6. QED
  BY <1>2, <1>3, <1>4, <1>5 DEF IsStrictPrefix, IsPrefix

LEMMA PrefixIsAncestor ==
    ASSUME NEW p \in Seq(STRING), NEW a \in Seq(STRING), a # <<>>, IsStrictPrefix(a, p)
    PROVE  a \in Ancestors(p)
<1>1. Len(a) <= Len(p) /\ SubSeq(a, 1, Len(a)) = SubSeq(p, 1, Len(a)) /\ a # p
  BY DEF IsStrictPrefix, IsPrefix
<1>2. SubSeq(a, 1, Len(a)) = a /\ SubSeq(p, 1, Len(p)) = p
  OBVIOUS
<1>3. Len(a) # 0 /\ Len(a) # Len(p) /\ Len(a) \in Nat /\ Len(p) \in Nat
  <2>1. Len(a) # 0
    OBVIOUS
  <2>2. Len(a) = Len(p) => a = p
    BY <1>1, <1>2
  <2>3. QED
    BY <1>1, <2>1, <2>2
<1>4. Len(a) \in 1 .. (Len(p) - 1)
  BY <1>1, <1>3
<1>5. QED
  BY <1>1, <1>2, <1>4 DEF Ancestors

LEMMA FrontIsAncestor ==
    ASSUME NEW p \in Seq(STRING), p # <<>>, Front(p) # <<>>
    PROVE  Front(p) \in Ancestors(p)
<1>1. Front(p) = SubSeq(p, 1, Len(p) - 1)
  BY DEF Front
<1>2. Len(p) - 1 \in 1 .. (Len(p) - 1)
  BY <1>1
<1>3. QED
  BY <1>1, <1>2 DEF Ancestors

-----------------------------------------------------------------------------
(***************************************************************************)
(* A walk is tail-recursive: from each state it stops or goes on to one    *)
(* other.  It follows one more link or has one component less to go, which *)
(* is why the recursive definition has a solution, and why it may be       *)
(* reasoned about by the first state at which something goes wrong.        *)
(***************************************************************************)
States(m) == Seq(STRING) \X Seq(STRING) \X (0..m)

Value(at) == IF at[2] = <<>> THEN at[1] ELSE NoPath

LEMMA Parts ==
    ASSUME NEW q \in Seq(STRING), q # <<>>
    PROVE  /\ Head(q) \in STRING /\ Last(q) \in STRING
           /\ Tail(q) \in Seq(STRING) /\ Front(q) \in Seq(STRING)
           /\ Len(q) \in Nat /\ Len(Tail(q)) = Len(q) - 1
           /\ Len(Tail(q)) < Len(q)
<1>1. Len(q) \in Nat /\ Len(q) # 0
  OBVIOUS
<1>2. Head(q) \in STRING /\ Tail(q) \in Seq(STRING) /\ Len(Tail(q)) = Len(q) - 1
  OBVIOUS
<1>3. Last(q) \in STRING
  BY <1>1 DEF Last
<1>4. Front(q) \in Seq(STRING)
  BY <1>1 DEF Front
<1>5. QED
  BY <1>1, <1>2, <1>3, <1>4

LEMMA LinkType ==
    ASSUME NEW t, IsTree(t), NEW p \in DOMAIN t, t[p].kind = "link"
    PROVE  t[p].to \in Seq(STRING) /\ t[p].abs \in BOOLEAN
<1>1. IsNode(t[p])
  BY DEF IsTree
<1>2. Dir.kind # "link"
  BY DEF Dir
<1>3. QED
  BY <1>1, <1>2 DEF IsNode

LEMMA OnwardType ==
    ASSUME NEW t, IsTree(t), NEW m \in Nat, NEW rooted \in BOOLEAN, NEW at \in States(m),
           ~Stops(t, at, m, rooted)
    PROVE  /\ Onward(t, at) \in States(m)
           /\ \/ Onward(t, at)[3] = at[3] /\ Len(Onward(t, at)[2]) < Len(at[2])
              \/ Onward(t, at)[3] = at[3] + 1
<1>1. PICK cur, pending, hops : cur = at[1] /\ pending = at[2] /\ hops = at[3]
  OBVIOUS
<1>2. cur \in Seq(STRING) /\ pending \in Seq(STRING) /\ hops \in 0..m /\ pending # <<>>
  BY <1>1 DEF States, Stops
<1>3. PICK comp, rest, next :
          comp = Head(pending) /\ rest = Tail(pending) /\ next = Append(cur, comp)
  OBVIOUS
<1>4. /\ comp \in STRING /\ rest \in Seq(STRING) /\ next \in Seq(STRING)
      /\ Len(pending) \in Nat /\ Len(rest) < Len(pending)
  BY <1>2, <1>3, Parts
<1>5. Onward(t, at) =
        IF comp = ".." THEN <<IF cur = <<>> THEN cur ELSE Front(cur), rest, hops>>
        ELSE IF t[next].kind # "link" THEN <<next, rest, hops>>
        ELSE <<IF t[next].abs THEN <<>> ELSE cur, t[next].to \o rest, hops + 1>>
  BY <1>1, <1>3 DEF Onward
<1>6. CASE comp = ".."
  <2>1. PICK up : up = IF cur = <<>> THEN cur ELSE Front(cur)
    OBVIOUS
  <2>2. up \in Seq(STRING)
    BY <1>2, <2>1, Parts
  <2>3. Onward(t, at) = <<up, rest, hops>>
    BY <1>5, <1>6, <2>1
  <2>4. QED
    BY <1>1, <1>2, <1>4, <2>2, <2>3 DEF States
<1>7. CASE comp # ".." /\ t[next].kind # "link"
  <2>1. Onward(t, at) = <<next, rest, hops>>
    BY <1>5, <1>7
  <2>2. QED
    BY <1>1, <1>2, <1>4, <2>1 DEF States
<1>8. CASE comp # ".." /\ t[next].kind = "link"
  <2>1. PICK to, from : to = t[next].to \o rest /\ from = IF t[next].abs THEN <<>> ELSE cur
    OBVIOUS
  <2>2. next \in DOMAIN t /\ hops # m
    BY <1>1, <1>3, <1>8 DEF Stops, Has
  <2>3. t[next].to \in Seq(STRING)
    BY <1>8, <2>2, LinkType
  <2>4. to \in Seq(STRING) /\ from \in Seq(STRING) /\ hops + 1 \in 0..m
    <3>1. to \in Seq(STRING)
      BY <1>4, <2>1, <2>3
    <3>2. from \in Seq(STRING)
      <4>1. from = <<>> \/ from = cur
        BY <2>1, Zenon
      <4>2. <<>> \in Seq(STRING)
        OBVIOUS
      <4>3. QED
        BY <1>2, <4>1, <4>2
    <3>3. hops + 1 \in 0..m
      BY <1>2, <2>2
    <3>4. QED
      BY <3>1, <3>2, <3>3
  <2>5. Onward(t, at) = <<from, to, hops + 1>>
    BY <1>5, <1>8, <2>1
  <2>6. QED
    BY <1>1, <2>4, <2>5 DEF States
<1>9. QED
  BY <1>6, <1>7, <1>8

\* What is wrong at no state at which a walk stops, and at a state only if it is
\* wrong at the next, is never wrong.
LEMMA NeverWrong ==
    ASSUME NEW t, IsTree(t), NEW m \in Nat, NEW rooted \in BOOLEAN, NEW Wrong \in SUBSET States(m),
           \A at \in Wrong : ~Stops(t, at, m, rooted) /\ Onward(t, at) \in Wrong
    PROVE  Wrong = {}
<1> SUFFICES ASSUME Wrong # {} PROVE FALSE
  OBVIOUS
<1>1. \A at \in Wrong : at[3] \in 0..m /\ Len(at[2]) \in Nat
  BY DEF States
<1> DEFINE Left == {m - at[3] : at \in Wrong}
<1>2. Left \in SUBSET Nat /\ Left # {}
  <2>1. \A at \in Wrong : m - at[3] \in Nat
    BY <1>1
  <2>2. PICK at \in Wrong : TRUE
    OBVIOUS
  <2>3. QED
    BY <2>1, <2>2
<1>3. PICK least \in Left : \A x \in Left : least <= x
  BY <1>2, Least
<1>4. PICK first \in Wrong : least = m - first[3]
  OBVIOUS
<1>5. \A at \in Wrong : at[3] <= first[3]
  <2>1. ASSUME NEW at \in Wrong PROVE at[3] <= first[3]
    <3>1. m - at[3] \in Left /\ at[3] \in Nat /\ first[3] \in Nat
      BY <1>1
    <3>2. m - first[3] <= m - at[3]
      BY <1>3, <1>4, <3>1
    <3>3. QED
      BY <3>1, <3>2
  <2>2. QED
    BY <2>1
<1> DEFINE Last2 == {at \in Wrong : at[3] = first[3]}
           Lens == {Len(at[2]) : at \in Last2}
<1>6. Lens \in SUBSET Nat /\ Lens # {}
  BY <1>1
<1>7. PICK len \in Lens : \A x \in Lens : len <= x
  BY <1>6, Least
<1>8. PICK at \in Last2 : len = Len(at[2])
  OBVIOUS
<1>9. at \in Wrong /\ at[3] = first[3] /\ at \in States(m) /\ ~Stops(t, at, m, rooted)
  BY <1>8
<1>10. PICK after : after = Onward(t, at)
  OBVIOUS
<1>11. after \in Wrong
       /\ \/ after[3] = at[3] /\ Len(after[2]) < Len(at[2])
          \/ after[3] = at[3] + 1
  BY <1>9, <1>10, OnwardType
<1>12. CASE after[3] = at[3] + 1
  BY <1>1, <1>5, <1>9, <1>11, <1>12
<1>13. CASE after[3] = at[3] /\ Len(after[2]) < Len(at[2])
  <2>1. Len(after[2]) \in Lens
    BY <1>9, <1>11, <1>13
  <2>2. Len(at[2]) <= Len(after[2]) /\ Len(at[2]) \in Nat /\ Len(after[2]) \in Nat
    BY <1>1, <1>7, <1>8, <1>9, <1>11, <2>1
  <2>3. QED
    BY <1>13, <2>2
<1>14. QED
  BY <1>11, <1>12, <1>13

\* f solves the recursion of Walk.
Walks(t, m, rooted, f) ==
    f = [at \in States(m) |-> IF Stops(t, at, m, rooted) THEN Value(at) ELSE f[Onward(t, at)]]

\* f solves it on a set of states that is closed under going on.
WalksIn(t, m, rooted, D, f) ==
    /\ D \subseteq States(m)
    /\ \A at \in D :
          IF Stops(t, at, m, rooted) THEN f[at] = Value(at)
          ELSE Onward(t, at) \in D /\ f[at] = f[Onward(t, at)]

LEMMA WalkedFrom ==
    ASSUME NEW t, IsTree(t), NEW m \in Nat, NEW rooted \in BOOLEAN, NEW at \in States(m)
    PROVE  \E D, f : at \in D /\ WalksIn(t, m, rooted, D, f)
<1> DEFINE Wrong == {s \in States(m) : ~\E D, f : s \in D /\ WalksIn(t, m, rooted, D, f)}
<1>1. ASSUME NEW s \in Wrong, Stops(t, s, m, rooted) PROVE FALSE
  <2>1. WalksIn(t, m, rooted, {s}, [x \in {s} |-> Value(s)])
    BY <1>1 DEF WalksIn
  <2>2. QED
    BY <2>1
<1>2. ASSUME NEW s \in Wrong, ~Stops(t, s, m, rooted), Onward(t, s) \notin Wrong PROVE FALSE
  <2>1. PICK after : after = Onward(t, s)
    OBVIOUS
  <2>2. after \in States(m)
    BY <1>2, <2>1, OnwardType
  <2>3. PICK D, f : after \in D /\ WalksIn(t, m, rooted, D, f)
    BY <1>2, <2>1, <2>2
  <2>4. s \notin D
    BY <2>3
  <2> DEFINE g == [x \in D \cup {s} |-> IF x = s THEN f[after] ELSE f[x]]
  <2>5. g[s] = f[after] /\ \A x \in D : g[x] = f[x]
    BY <2>4
  <2> HIDE DEF g
  <2>6. WalksIn(t, m, rooted, D \cup {s}, g)
    <3>1. D \cup {s} \subseteq States(m)
      BY <2>3 DEF WalksIn
    <3>2. ASSUME NEW x \in D
          PROVE  IF Stops(t, x, m, rooted) THEN g[x] = Value(x)
                 ELSE Onward(t, x) \in D \cup {s} /\ g[x] = g[Onward(t, x)]
      BY <2>3, <2>5 DEF WalksIn
    <3>3. IF Stops(t, s, m, rooted) THEN g[s] = Value(s)
          ELSE Onward(t, s) \in D \cup {s} /\ g[s] = g[Onward(t, s)]
      BY <1>2, <2>1, <2>3, <2>5
    <3>4. QED
      BY <3>1, <3>2, <3>3 DEF WalksIn
  <2>7. QED
    BY <2>6
<1>3. Wrong = {}
  <2>1. Wrong \in SUBSET States(m)
    OBVIOUS
  <2>2. \A s \in Wrong : ~Stops(t, s, m, rooted) /\ Onward(t, s) \in Wrong
    BY <1>1, <1>2
  <2> HIDE DEF Wrong
  <2>3. QED
    BY <2>1, <2>2, NeverWrong
<1>4. QED
  BY <1>3

LEMMA WalksAgree ==
    ASSUME NEW t, IsTree(t), NEW m \in Nat, NEW rooted \in BOOLEAN,
           NEW D, NEW f, WalksIn(t, m, rooted, D, f), NEW E, NEW g, WalksIn(t, m, rooted, E, g),
           NEW at \in D \cap E
    PROVE  f[at] = g[at]
<1> DEFINE Wrong == {s \in D \cap E : f[s] # g[s]}
<1>1. Wrong \in SUBSET States(m)
  BY DEF WalksIn
<1>2. \A s \in Wrong : ~Stops(t, s, m, rooted) /\ Onward(t, s) \in Wrong
  BY DEF WalksIn
<1> HIDE DEF Wrong
<1>3. Wrong = {}
  BY <1>1, <1>2, NeverWrong
<1>4. QED
  BY <1>3 DEF Wrong

LEMMA WalkExists ==
    ASSUME NEW t, IsTree(t), NEW m \in Nat, NEW rooted \in BOOLEAN
    PROVE  \E f : Walks(t, m, rooted, f)
<1> DEFINE Found(at, v) == \E D, f : at \in D /\ WalksIn(t, m, rooted, D, f) /\ f[at] = v
           w == [at \in States(m) |-> CHOOSE v : Found(at, v)]
<1>1. ASSUME NEW at \in States(m) PROVE Found(at, w[at])
  <2>1. \E v : Found(at, v)
    BY WalkedFrom
  <2> HIDE DEF Found
  <2>2. QED
    BY <2>1
<1>2. ASSUME NEW at, NEW u, NEW v, Found(at, u), Found(at, v) PROVE u = v
  BY <1>2, WalksAgree
<1>3. ASSUME NEW at \in States(m), Stops(t, at, m, rooted) PROVE w[at] = Value(at)
  <2>1. PICK D, f : at \in D /\ WalksIn(t, m, rooted, D, f) /\ f[at] = w[at]
    BY <1>1
  <2> HIDE DEF w
  <2>2. QED
    BY <1>3, <2>1 DEF WalksIn
<1>4. ASSUME NEW at \in States(m), ~Stops(t, at, m, rooted) PROVE w[at] = w[Onward(t, at)]
  <2>1. PICK D, f : at \in D /\ WalksIn(t, m, rooted, D, f) /\ f[at] = w[at]
    BY <1>1
  <2>2. Onward(t, at) \in D /\ f[at] = f[Onward(t, at)] /\ Onward(t, at) \in States(m)
    BY <1>4, <2>1 DEF WalksIn
  <2> HIDE DEF w
  <2>3. Found(Onward(t, at), f[Onward(t, at)]) /\ Found(Onward(t, at), w[Onward(t, at)])
    BY <1>1, <2>1, <2>2
  <2>4. QED
    BY <1>2, <2>1, <2>2, <2>3
<1>5. w = [at \in States(m) |-> w[at]]
  OBVIOUS
<1> HIDE DEF w
<1>6. Walks(t, m, rooted, w)
  BY <1>3, <1>4, <1>5 DEF Walks
<1>7. QED
  BY <1>6

WalkFrom(t, m, rooted) == CHOOSE f : Walks(t, m, rooted, f)

\* The recursion of Walk, for use.
LEMMA WalkIs ==
    ASSUME NEW t, IsTree(t), NEW m \in Nat, NEW rooted \in BOOLEAN
    PROVE  /\ \A p : Walk(t, p, m, rooted) = WalkFrom(t, m, rooted)[<<<<>>, p, 0>>]
           /\ \A at \in States(m) :
                 WalkFrom(t, m, rooted)[at] =
                     IF Stops(t, at, m, rooted) THEN Value(at)
                     ELSE WalkFrom(t, m, rooted)[Onward(t, at)]
<1>1. \A p : Walk(t, p, m, rooted) = WalkFrom(t, m, rooted)[<<<<>>, p, 0>>]
  BY DEF Walk, WalkFrom, Walks, States, Value
<1>2. Walks(t, m, rooted, WalkFrom(t, m, rooted))
  BY WalkExists DEF WalkFrom
<1>3. PICK f : f = WalkFrom(t, m, rooted)
  OBVIOUS
<1>4. f = [at \in States(m) |-> IF Stops(t, at, m, rooted) THEN Value(at) ELSE f[Onward(t, at)]]
  BY <1>2, <1>3 DEF Walks
<1>5. \A at \in States(m) :
          f[at] = IF Stops(t, at, m, rooted) THEN Value(at) ELSE f[Onward(t, at)]
  BY <1>4
<1>6. QED
  BY <1>1, <1>3, <1>5

-----------------------------------------------------------------------------
(***************************************************************************)
(* What a walk finds.                                                      *)
(***************************************************************************)

LEMMA NodeKinds ==
    ASSUME NEW t, IsTree(t), NEW p \in DOMAIN t
    PROVE  t[p].kind \in {"dir", "file", "link"}
<1>1. IsNode(t[p])
  BY DEF IsTree
<1>2. Dir.kind = "dir"
  BY DEF Dir
<1>3. QED
  BY <1>1, <1>2 DEF IsNode

LEMMA Root ==
    ASSUME NEW t, IsTree(t)
    PROVE  <<>> \in DOMAIN t /\ t[<<>>].kind = "dir"
<1>1. <<>> \in DOMAIN t /\ t[<<>>] = Dir
  BY DEF IsTree, Has
<1>2. Dir.kind = "dir"
  BY DEF Dir
<1>3. QED
  BY <1>1, <1>2

LEMMA TreePaths ==
    ASSUME NEW t, IsTree(t)
    PROVE  /\ NoPath \notin DOMAIN t
           /\ \A p \in DOMAIN t : p \in Seq(STRING)
           /\ \A p \in DOMAIN t : p # <<>> =>
                 /\ Front(p) \in DOMAIN t /\ t[Front(p)] = Dir
                 /\ Last(p) # ".."
<1>1. NoPath \notin DOMAIN t
  <2>1. 1 \in 1..Len(NoPath) /\ NoPath[1] = ""
    BY DEF NoPath
  <2>2. QED
    BY <2>1 DEF IsTree, Cleaned
<1>2. \A p \in DOMAIN t : p \in Seq(STRING)
  BY DEF IsTree
<1>3. ASSUME NEW p \in DOMAIN t, p # <<>>
      PROVE  Front(p) \in DOMAIN t /\ t[Front(p)] = Dir /\ Last(p) # ".."
  <2>1. p \in Seq(STRING) /\ Len(p) \in 1..Len(p)
    BY <1>2, <1>3
  <2>2. Last(p) # ".."
    BY <2>1 DEF IsTree, Cleaned, Last
  <2>3. CASE Front(p) = <<>>
    BY <2>2, <2>3 DEF IsTree, Has
  <2>4. CASE Front(p) # <<>>
    <3>1. Front(p) \in Ancestors(p)
      BY <1>3, <2>1, <2>4, FrontIsAncestor
    <3>2. QED
      BY <2>2, <3>1 DEF IsTree, Has
  <2>5. QED
    BY <2>3, <2>4
<1>4. QED
  BY <1>1, <1>2, <1>3

\* What is resolved so far is in the tree, and no link.
Landed(t, p) == p \in DOMAIN t /\ t[p].kind # "link"

LEMMA OnwardLands ==
    ASSUME NEW t, IsTree(t), NEW m \in Nat, NEW rooted \in BOOLEAN, NEW at \in States(m),
           Landed(t, at[1]), ~Stops(t, at, m, rooted)
    PROVE  Landed(t, Onward(t, at)[1])
<1>1. PICK cur, comp, next : cur = at[1] /\ comp = Head(at[2]) /\ next = Append(cur, comp)
  OBVIOUS
<1>2. Landed(t, <<>>)
  BY Root DEF Landed
<1>3. CASE comp = ".."
  <2>1. Onward(t, at)[1] = IF cur = <<>> THEN cur ELSE Front(cur)
    BY <1>1, <1>3 DEF Onward
  <2>2. cur # <<>> => Landed(t, Front(cur))
    BY <1>1, TreePaths DEF Landed, Dir
  <2>3. QED
    BY <1>2, <2>1, <2>2
<1>4. CASE comp # ".." /\ t[next].kind # "link"
  <2>1. Onward(t, at)[1] = next
    BY <1>1, <1>4 DEF Onward
  <2>2. next \in DOMAIN t
    BY <1>1, <1>4 DEF Stops, Has
  <2>3. QED
    BY <1>4, <2>1, <2>2 DEF Landed
<1>5. CASE comp # ".." /\ t[next].kind = "link"
  <2>1. Onward(t, at)[1] = IF t[next].abs THEN <<>> ELSE cur
    BY <1>1, <1>5 DEF Onward
  <2>2. Onward(t, at)[1] = <<>> \/ Onward(t, at)[1] = cur
    BY <2>1, Zenon
  <2>3. QED
    BY <1>1, <1>2, <2>2
<1>6. QED
  BY <1>3, <1>4, <1>5

\* A walk that gets somewhere gets to a node that is no link.
LEMMA WalkLands ==
    ASSUME NEW t, IsTree(t), NEW m \in Nat, NEW rooted \in BOOLEAN, NEW at \in States(m),
           Landed(t, at[1])
    PROVE  WalkFrom(t, m, rooted)[at] = NoPath \/ Landed(t, WalkFrom(t, m, rooted)[at])
<1> DEFINE w == WalkFrom(t, m, rooted)
           Wrong == {s \in States(m) : Landed(t, s[1]) /\ w[s] # NoPath /\ ~Landed(t, w[s])}
<1>1. \A s \in States(m) : w[s] = IF Stops(t, s, m, rooted) THEN Value(s) ELSE w[Onward(t, s)]
  BY WalkIs
<1> HIDE DEF w
<1>2. ASSUME NEW s \in Wrong PROVE ~Stops(t, s, m, rooted) /\ Onward(t, s) \in Wrong
  <2>1. ~Stops(t, s, m, rooted)
    BY <1>1 DEF Value
  <2>2. Onward(t, s) \in States(m) /\ Landed(t, Onward(t, s)[1]) /\ w[s] = w[Onward(t, s)]
    BY <1>1, <2>1, OnwardType, OnwardLands
  <2>3. QED
    BY <2>1, <2>2
<1>3. Wrong = {}
  <2>1. Wrong \in SUBSET States(m)
    OBVIOUS
  <2> HIDE DEF Wrong
  <2>2. QED
    BY <1>2, <2>1, NeverWrong
<1>4. QED
  BY <1>3 DEF w

LEMMA HeadTailOfConcat ==
    ASSUME NEW p \in Seq(STRING), p # <<>>, NEW b \in Seq(STRING)
    PROVE  /\ Head(p \o b) = Head(p) /\ Tail(p \o b) = Tail(p) \o b
           /\ p \o b # <<>> /\ p \o b \in Seq(STRING)
<1>1. Len(p) \in Nat /\ Len(p) # 0 /\ Len(b) \in Nat
  OBVIOUS
<1>2. p \o b \in Seq(STRING) /\ Len(p \o b) = Len(p) + Len(b)
  OBVIOUS
<1>3. (p \o b)[1] = p[1] /\ Len(p \o b) # 0
  BY <1>1, <1>2
<1>4. Tail(p) \in Seq(STRING) /\ Len(Tail(p)) = Len(p) - 1
  BY Parts
<1>5. Tail(p \o b) \in Seq(STRING) /\ Len(Tail(p \o b)) = Len(p) + Len(b) - 1
  BY <1>1, <1>2
<1>6. Tail(p) \o b \in Seq(STRING) /\ Len(Tail(p) \o b) = Len(p) + Len(b) - 1
  BY <1>1, <1>4
<1>7. ASSUME NEW i \in 1..(Len(p) + Len(b) - 1) PROVE Tail(p \o b)[i] = (Tail(p) \o b)[i]
  <2>1. Tail(p \o b)[i] = (p \o b)[i + 1]
    BY <1>1, <1>2
  <2>2. CASE i <= Len(p) - 1
    <3>1. (p \o b)[i + 1] = p[i + 1]
      BY <1>1, <2>2
    <3>2. (Tail(p) \o b)[i] = Tail(p)[i] /\ Tail(p)[i] = p[i + 1]
      BY <1>1, <1>4, <2>2
    <3>3. QED
      BY <2>1, <3>1, <3>2
  <2>3. CASE ~(i <= Len(p) - 1)
    <3>1. (p \o b)[i + 1] = b[i + 1 - Len(p)]
      BY <1>1, <2>3
    <3>2. (Tail(p) \o b)[i] = b[i - (Len(p) - 1)]
      BY <1>1, <1>4, <2>3
    <3>3. i + 1 - Len(p) = i - (Len(p) - 1)
      BY <1>1
    <3>4. QED
      BY <2>1, <3>1, <3>2, <3>3
  <2>4. QED
    BY <2>2, <2>3
<1>8. Tail(p \o b) = Tail(p) \o b
  BY <1>5, <1>6, <1>7, SeqEqual
<1>9. Head(p \o b) = Head(p)
  BY <1>1, <1>2, <1>3
<1>10. p \o b # <<>>
  BY <1>2, <1>3
<1>11. QED
  BY <1>2, <1>8, <1>9, <1>10

\* A walk along a longer path begins like the walk along the shorter one.
LEMMA Longer ==
    ASSUME NEW t, IsTree(t), NEW m \in Nat, NEW rooted \in BOOLEAN, NEW b \in Seq(STRING),
           NEW at \in States(m), ~Stops(t, at, m, rooted)
    PROVE  /\ ~Stops(t, <<at[1], at[2] \o b, at[3]>>, m, rooted)
           /\ Onward(t, <<at[1], at[2] \o b, at[3]>>) =
                 <<Onward(t, at)[1], Onward(t, at)[2] \o b, Onward(t, at)[3]>>
<1>1. PICK cur, pending, hops : cur = at[1] /\ pending = at[2] /\ hops = at[3]
  OBVIOUS
<1>2. cur \in Seq(STRING) /\ pending \in Seq(STRING) /\ hops \in 0..m /\ pending # <<>>
  BY <1>1 DEF States, Stops
<1>3. PICK comp, rest, next :
          comp = Head(pending) /\ rest = Tail(pending) /\ next = Append(cur, comp)
  OBVIOUS
<1>4. /\ Head(pending \o b) = comp /\ Tail(pending \o b) = rest \o b
      /\ pending \o b # <<>> /\ rest \in Seq(STRING)
  BY <1>2, <1>3, HeadTailOfConcat
<1>5. ~Stops(t, <<cur, pending \o b, hops>>, m, rooted)
  BY <1>1, <1>3, <1>4 DEF Stops
<1>6. Onward(t, at) =
        IF comp = ".." THEN <<IF cur = <<>> THEN cur ELSE Front(cur), rest, hops>>
        ELSE IF t[next].kind # "link" THEN <<next, rest, hops>>
        ELSE <<IF t[next].abs THEN <<>> ELSE cur, t[next].to \o rest, hops + 1>>
  BY <1>1, <1>3 DEF Onward
<1>7. Onward(t, <<cur, pending \o b, hops>>) =
        IF comp = ".." THEN <<IF cur = <<>> THEN cur ELSE Front(cur), rest \o b, hops>>
        ELSE IF t[next].kind # "link" THEN <<next, rest \o b, hops>>
        ELSE <<IF t[next].abs THEN <<>> ELSE cur, t[next].to \o (rest \o b), hops + 1>>
  BY <1>3, <1>4 DEF Onward
<1>8. ASSUME NEW up, NEW left, NEW n, Onward(t, at) = <<up, left, n>>,
             Onward(t, <<cur, pending \o b, hops>>) = <<up, left \o b, n>>
      PROVE  Onward(t, <<cur, pending \o b, hops>>) =
                 <<Onward(t, at)[1], Onward(t, at)[2] \o b, Onward(t, at)[3]>>
  <2>1. Onward(t, at)[1] = up /\ Onward(t, at)[2] = left /\ Onward(t, at)[3] = n
    BY <1>8
  <2>2. QED
    BY <1>8, <2>1
<1>9. Onward(t, <<cur, pending \o b, hops>>) =
                 <<Onward(t, at)[1], Onward(t, at)[2] \o b, Onward(t, at)[3]>>
  <2>1. CASE comp = ".."
    <3>1. PICK up : up = IF cur = <<>> THEN cur ELSE Front(cur)
      OBVIOUS
    <3>2. Onward(t, at) = <<up, rest, hops>>
          /\ Onward(t, <<cur, pending \o b, hops>>) = <<up, rest \o b, hops>>
      BY <2>1, <3>1, <1>6, <1>7
    <3>3. QED
      BY <3>2, <1>8
  <2>2. CASE comp # ".." /\ t[next].kind # "link"
    <3>1. Onward(t, at) = <<next, rest, hops>>
          /\ Onward(t, <<cur, pending \o b, hops>>) = <<next, rest \o b, hops>>
      BY <2>2, <1>6, <1>7
    <3>2. QED
      BY <3>1, <1>8
  <2>3. CASE comp # ".." /\ t[next].kind = "link"
    <3>1. next \in DOMAIN t
      BY <1>1, <1>3, <2>3 DEF Stops, Has
    <3>2. PICK to, from : to = t[next].to /\ from = IF t[next].abs THEN <<>> ELSE cur
      OBVIOUS
    <3>3. to \in Seq(STRING)
      BY <2>3, <3>1, <3>2, LinkType
    <3>4. (to \o rest) \o b = to \o (rest \o b)
      <4>1. rest \in Seq(STRING)
        BY <1>4
      <4>2. QED
        BY <3>3, <4>1, ConcatAssociative
    <3>5. Onward(t, at) = <<from, to \o rest, hops + 1>>
      BY <2>3, <3>2, <1>6
    <3>6. Onward(t, <<cur, pending \o b, hops>>) = <<from, to \o (rest \o b), hops + 1>>
      BY <2>3, <3>2, <1>7
    <3>7. QED
      BY <3>4, <3>5, <3>6, <1>8
  <2>4. QED
    BY <2>1, <2>2, <2>3
<1>10. QED
  BY <1>1, <1>5, <1>9

\* Where the walk along the shorter path ends, the longer one goes on.
LEMMA WalkLonger ==
    ASSUME NEW t, IsTree(t), NEW m \in Nat, NEW rooted \in BOOLEAN,
           NEW a \in Seq(STRING), NEW b \in Seq(STRING)
    PROVE  \/ Walk(t, a, m, rooted) = NoPath /\ Walk(t, a \o b, m, rooted) = NoPath
           \/ /\ Landed(t, Walk(t, a, m, rooted))
              /\ \E h \in 0..m : Walk(t, a \o b, m, rooted) =
                                    WalkFrom(t, m, rooted)[<<Walk(t, a, m, rooted), b, h>>]
<1>0. PICK w : w = WalkFrom(t, m, rooted)
  OBVIOUS
<1> DEFINE Long(s) == <<s[1], s[2] \o b, s[3]>>
           Fine(s) == IF w[s] = NoPath THEN w[Long(s)] = NoPath
                      ELSE \E h \in 0..m : w[Long(s)] = w[<<w[s], b, h>>]
           Wrong == {s \in States(m) : Landed(t, s[1]) /\ ~Fine(s)}
<1>1. \A s \in States(m) : w[s] = IF Stops(t, s, m, rooted) THEN Value(s) ELSE w[Onward(t, s)]
  BY <1>0, WalkIs
<1>2. ASSUME NEW s \in Wrong, Stops(t, s, m, rooted) PROVE FALSE
  <2>1. PICK cur, pending, hops : cur = s[1] /\ pending = s[2] /\ hops = s[3]
    OBVIOUS
  <2>2. /\ s = <<cur, pending, hops>>
        /\ cur \in Seq(STRING) /\ pending \in Seq(STRING) /\ hops \in 0..m
        /\ pending \o b \in Seq(STRING)
    BY <2>1 DEF States
  <2>3. Long(s) = <<cur, pending \o b, hops>> /\ Long(s) \in States(m)
    BY <2>1, <2>2 DEF States
  <2>4. CASE pending = <<>>
    <3>1. w[s] = cur
      BY <1>1, <1>2, <2>1, <2>4 DEF Value
    <3>2. cur # NoPath
      BY <2>1, TreePaths DEF Landed
    <3>3. pending \o b = b
      BY <2>4
    <3>4. w[Long(s)] = w[<<w[s], b, hops>>]
      BY <2>3, <3>1, <3>3
    <3>5. QED
      BY <2>2, <3>1, <3>2, <3>4
  <2>5. CASE pending # <<>>
    <3>1. w[s] = NoPath
      BY <1>1, <1>2, <2>1, <2>5 DEF Value
    <3>2. Head(pending \o b) = Head(pending) /\ pending \o b # <<>>
      BY <2>2, <2>5, HeadTailOfConcat
    <3>3. Stops(t, Long(s), m, rooted)
      BY <1>2, <2>1, <2>3, <2>5, <3>2 DEF Stops
    <3>4. w[Long(s)] = NoPath
      BY <1>1, <2>3, <3>2, <3>3 DEF Value
    <3>5. QED
      BY <3>1, <3>4
  <2>6. QED
    BY <2>4, <2>5
<1>3. ASSUME NEW s \in Wrong, ~Stops(t, s, m, rooted) PROVE Onward(t, s) \in Wrong
  <2>1. PICK after : after = Onward(t, s)
    OBVIOUS
  <2>2. after \in States(m) /\ Landed(t, after[1]) /\ w[s] = w[after]
    BY <1>1, <1>3, <2>1, OnwardType, OnwardLands
  <2>3. s[1] \in Seq(STRING) /\ s[2] \o b \in Seq(STRING) /\ s[3] \in 0..m
    BY DEF States
  <2>4. Long(s) \in States(m)
    BY <2>3 DEF States
  <2>5. ~Stops(t, Long(s), m, rooted) /\ Onward(t, Long(s)) = Long(after)
    BY <1>3, <2>1, Longer
  <2>6. w[Long(s)] = w[Long(after)]
    BY <1>1, <2>4, <2>5
  <2> HIDE DEF Long
  <2>7. ~Fine(after)
    BY <2>2, <2>6
  <2>8. QED
    BY <2>1, <2>2, <2>7
<1>4. Wrong = {}
  <2>1. Wrong \in SUBSET States(m) /\ \A s \in Wrong : ~Stops(t, s, m, rooted) /\ Onward(t, s) \in Wrong
    BY <1>2, <1>3
  <2> HIDE DEF Wrong
  <2>2. QED
    BY <2>1, NeverWrong
<1>5. PICK at : at = <<<<>>, a, 0>>
  OBVIOUS
<1>6. at \in States(m) /\ Landed(t, at[1]) /\ Long(at) = <<<<>>, a \o b, 0>>
  <2>1. <<>> \in Seq(STRING) /\ 0 \in 0..m
    OBVIOUS
  <2>2. at[1] = <<>> /\ at[2] = a /\ at[3] = 0
    BY <1>5
  <2>3. QED
    BY <1>5, <2>1, <2>2, Root DEF States, Landed
<1>7. Fine(at)
  BY <1>4, <1>6
<1>8. Walk(t, a, m, rooted) = w[at] /\ Walk(t, a \o b, m, rooted) = w[Long(at)]
  <2>1. /\ Walk(t, a, m, rooted) = w[<<<<>>, a, 0>>]
        /\ Walk(t, a \o b, m, rooted) = w[<<<<>>, a \o b, 0>>]
    BY <1>0, WalkIs
  <2>2. QED
    BY <1>5, <1>6, <2>1
<1>9. w[at] = NoPath \/ Landed(t, w[at])
  BY <1>0, <1>6, WalkLands
<1> HIDE DEF Long
<1>10. QED
  BY <1>0, <1>7, <1>8, <1>9

-----------------------------------------------------------------------------
(* What is absent, and what is there.                                      *)

LEMMA FrontAndLast ==
    ASSUME NEW p \in Seq(STRING), p # <<>>
    PROVE  p = Front(p) \o <<Last(p)>>
<1>1. Len(p) \in Nat /\ Len(p) # 0 /\ Len(p) - 1 \in Nat
  OBVIOUS
<1>2. Front(p) = SubSeq(p, 1, Len(p) - 1) /\ Last(p) = p[Len(p)]
  BY DEF Front, Last
<1>3. Front(p) \in Seq(STRING) /\ Len(Front(p)) = Len(p) - 1 /\ Last(p) \in STRING
      /\ \A i \in 1..(Len(p) - 1) : Front(p)[i] = p[i]
  <2>1. Len(p) - 1 <= Len(p) /\ SubSeq(p, 1, Len(p) - 1) \in Seq(STRING)
    BY <1>1
  <2>2. Front(p) \in Seq(STRING) /\ Last(p) \in STRING
    BY Parts
  <2>3. PICK n : n = Len(p) - 1 /\ n \in Nat /\ n <= Len(p)
    <3>1. Len(p) - 1 <= Len(p)
      BY <1>1
    <3>2. QED
      BY <1>1, <3>1
  <2>4. Len(SubSeq(p, 1, n)) = n /\ \A i \in 1..n : SubSeq(p, 1, n)[i] = p[i]
    BY <2>3
  <2>5. QED
    BY <1>2, <2>2, <2>3, <2>4
<1>4. PICK f, l : f = Front(p) /\ l = Last(p)
  OBVIOUS
<1>5. f \o <<l>> \in Seq(STRING) /\ Len(f \o <<l>>) = Len(p)
  BY <1>1, <1>3, <1>4
<1>6. ASSUME NEW i \in 1..Len(p) PROVE (f \o <<l>>)[i] = p[i]
  <2>1. CASE i = Len(p)
    BY <1>1, <1>2, <1>3, <1>4, <2>1
  <2>2. CASE i # Len(p)
    <3>1. i \in 1..(Len(p) - 1)
      BY <1>1, <2>2
    <3>2. (f \o <<l>>)[i] = f[i]
      BY <1>3, <1>4, <3>1
    <3>3. QED
      BY <1>3, <1>4, <3>1, <3>2
  <2>3. QED
    BY <2>1, <2>2
<1>7. f \o <<l>> = p
  BY <1>5, <1>6, SeqEqual
<1>8. QED
  BY <1>4, <1>7

LEMMA AncestorThenRest ==
    ASSUME NEW p \in Seq(STRING), NEW a \in Ancestors(p)
    PROVE  \E rest \in Seq(STRING) : Front(p) = a \o rest
<1>1. PICK i \in 1 .. (Len(p) - 1) : a = SubSeq(p, 1, i)
  BY DEF Ancestors
<1>2. PICK rest : rest = SubSeq(p, i + 1, Len(p) - 1)
  OBVIOUS
<1>3. Len(p) \in Nat /\ i \in Nat /\ 1 <= i /\ i <= Len(p) - 1
  BY <1>1
<1>4. a \in Seq(STRING) /\ Len(a) = i /\ \A k \in 1 .. i : a[k] = p[k]
  BY <1>1, <1>3
<1>5. rest \in Seq(STRING) /\ Len(rest) = Len(p) - 1 - i
      /\ \A k \in 1..(Len(p) - 1 - i) : rest[k] = p[i + k]
  BY <1>2, <1>3
<1>6. Front(p) \in Seq(STRING) /\ Len(Front(p)) = Len(p) - 1
      /\ \A k \in 1..(Len(p) - 1) : Front(p)[k] = p[k]
  BY <1>3 DEF Front
<1>7. a \o rest \in Seq(STRING) /\ Len(a \o rest) = Len(p) - 1
  <2>0. a \in Seq(STRING) /\ rest \in Seq(STRING)
    BY <1>4, <1>5
  <2>1. Len(a \o rest) = Len(a) + Len(rest) /\ a \o rest \in Seq(STRING)
    BY <2>0, ConcatProperties
  <2>2. QED
    BY <1>3, <1>4, <1>5, <2>0, <2>1
<1>8. ASSUME NEW k \in 1..(Len(p) - 1) PROVE (a \o rest)[k] = p[k]
  <2>1. CASE k <= i
    BY <1>3, <1>4, <1>5, <2>1
  <2>2. CASE ~(k <= i)
    <3>1. k - i \in 1..(Len(p) - 1 - i) /\ i + (k - i) = k
      BY <1>3, <2>2
    <3>2. (a \o rest)[k] = rest[k - i]
      BY <1>3, <1>4, <1>5, <2>2
    <3>3. QED
      BY <1>5, <3>1, <3>2
  <2>3. QED
    BY <2>1, <2>2
<1>9. Front(p) = a \o rest
  BY <1>6, <1>7, <1>8, SeqEqual
<1>10. QED
  BY <1>5, <1>9

\* What an image does not have, it has nothing below, however the path goes on.
LEMMA NothingBelowAbsent ==
    ASSUME NEW t, IsTree(t), NEW a \in Seq(STRING), a # <<>>, Last(a) # "..", InRoot(t, a) = NoPath,
           NEW b \in Seq(STRING)
    PROVE  Resolve(t, a \o b) = NoPath
<1>1. PICK f, c, v, m, w : /\ f = Front(a) /\ c = Last(a) /\ m = MaxSymlinkHops
                           /\ v = Walk(t, f, m, TRUE) /\ w = WalkFrom(t, m, TRUE)
  OBVIOUS
<1>2. f \in Seq(STRING) /\ c \in STRING /\ c # ".." /\ a = f \o <<c>> /\ m \in Nat
  BY <1>1, Parts, FrontAndLast DEF MaxSymlinkHops
<1>3. <<c>> \in Seq(STRING) /\ Head(<<c>>) = c /\ <<c>> # <<>>
  BY <1>2
<1>4. Resolve(t, a) = NoPath
  <2>1. CASE v = NoPath
    <3>0. v \notin DOMAIN t
      BY <2>1, TreePaths
    <3>1. Walk(t, f \o <<c>>, m, TRUE) = NoPath
      BY <1>1, <1>2, <1>3, <3>0, WalkLonger, Zenon DEF Landed
    <3>2. QED
      BY <1>1, <1>2, <3>1 DEF Resolve
  <2>2. CASE v # NoPath
    <3>1. /\ Landed(t, v)
          /\ \E h \in 0..m : Walk(t, f \o <<c>>, m, TRUE) = w[<<v, <<c>>, h>>]
      <4>1. Walk(t, f, m, TRUE) # NoPath
        BY <1>1, <2>2
      <4>2. /\ Landed(t, Walk(t, f, m, TRUE))
            /\ \E h \in 0..m : Walk(t, f \o <<c>>, m, TRUE) =
                                  WalkFrom(t, m, TRUE)[<<Walk(t, f, m, TRUE), <<c>>, h>>]
        BY <1>2, <1>3, <4>1, WalkLonger, ZenonT(40)
      <4>3. QED
        BY <1>1, <4>2, Zenon
    <3>2. PICK h \in 0..m : Walk(t, f \o <<c>>, m, TRUE) = w[<<v, <<c>>, h>>]
      BY <3>1
    <3>3. v \in Seq(STRING)
      BY <3>1, TreePaths DEF Landed
    <3>4. <<v, <<c>>, h>> \in States(m)
      BY <1>3, <3>3 DEF States
    <3>5. ~Has(t, Append(v, c))
      <4>1. InRoot(t, a) = IF v # NoPath /\ Has(t, Append(v, c)) THEN Append(v, c) ELSE NoPath
        BY <1>1 DEF InRoot, EntryAt
      <4>2. NoPath \notin DOMAIN t
        BY TreePaths
      <4>3. QED
        BY <2>2, <4>1, <4>2 DEF Has
    <3>6. Stops(t, <<v, <<c>>, h>>, m, TRUE)
      BY <1>2, <1>3, <3>5 DEF Stops
    <3>7. w[<<v, <<c>>, h>>] = NoPath
      <4>1. w[<<v, <<c>>, h>>] = Value(<<v, <<c>>, h>>)
        BY <1>1, <1>2, <3>4, <3>6, WalkIs
      <4>2. QED
        BY <1>3, <4>1 DEF Value
    <3>8. QED
      BY <1>1, <1>2, <3>2, <3>7 DEF Resolve
  <2>3. QED
    BY <2>1, <2>2
<1>5. Walk(t, a, m, TRUE) = NoPath
  BY <1>1, <1>4 DEF Resolve
<1>6. Walk(t, a \o b, m, TRUE) = NoPath
  <2>1. Walk(t, a, m, TRUE) \notin DOMAIN t
    BY <1>5, TreePaths
  <2>2. QED
    BY <1>2, <2>1, WalkLonger, Zenon DEF Landed
<1>7. QED
  BY <1>1, <1>6 DEF Resolve

\* A path is absent if one of its ancestors is.
LEMMA BelowAbsent ==
    ASSUME NEW t, IsTree(t), NEW p \in Seq(STRING), NEW a \in Ancestors(p), Last(a) # "..",
           InRoot(t, a) = NoPath
    PROVE  InRoot(t, p) = NoPath
<1>1. a \in Seq(STRING) /\ a # <<>>
  BY AncestorsAre
<1>2. PICK rest \in Seq(STRING) : Front(p) = a \o rest
  BY AncestorThenRest
<1>3. Resolve(t, Front(p)) = NoPath
  BY <1>1, <1>2, NothingBelowAbsent
<1>4. p # <<>>
  BY DEF Ancestors
<1>5. QED
  BY <1>3, <1>4 DEF InRoot, EntryAt, Resolve

\* One component further, to something that is no link.
LEMMA WalkOneMore ==
    ASSUME NEW t, IsTree(t), NEW m \in Nat, NEW rooted \in BOOLEAN,
           NEW f \in Seq(STRING), NEW c \in STRING, c # "..",
           Walk(t, f, m, rooted) # NoPath,
           Append(Walk(t, f, m, rooted), c) \in DOMAIN t,
           t[Append(Walk(t, f, m, rooted), c)].kind # "link"
    PROVE  Walk(t, f \o <<c>>, m, rooted) = Append(Walk(t, f, m, rooted), c)
<1>0. PICK v : v = Walk(t, f, m, rooted)
  OBVIOUS
<1>1. PICK w, next : w = WalkFrom(t, m, rooted) /\ next = Append(v, c)
  OBVIOUS
<1>01. v # NoPath /\ next \in DOMAIN t /\ t[next].kind # "link"
  BY <1>0, <1>1
<1>2. <<c>> \in Seq(STRING) /\ Head(<<c>>) = c /\ <<c>> # <<>> /\ Tail(<<c>>) = <<>>
  OBVIOUS
<1>3. /\ Landed(t, v)
      /\ \E h \in 0..m : Walk(t, f \o <<c>>, m, rooted) = w[<<v, <<c>>, h>>]
  <2>1. Walk(t, f, m, rooted) # NoPath
    OBVIOUS
  <2>2. /\ Landed(t, Walk(t, f, m, rooted))
        /\ \E h \in 0..m : Walk(t, f \o <<c>>, m, rooted) =
                              WalkFrom(t, m, rooted)[<<Walk(t, f, m, rooted), <<c>>, h>>]
    BY <1>2, <2>1, WalkLonger, Zenon
  <2>3. QED
    BY <1>0, <1>1, <2>2, Zenon
<1>4. PICK h \in 0..m : Walk(t, f \o <<c>>, m, rooted) = w[<<v, <<c>>, h>>]
  BY <1>3
<1>5. v \in Seq(STRING) /\ next \in Seq(STRING) /\ <<>> \in Seq(STRING)
  BY <1>01, <1>3, TreePaths DEF Landed
<1>6. <<v, <<c>>, h>> \in States(m) /\ <<next, <<>>, h>> \in States(m)
  BY <1>2, <1>5 DEF States
<1>7. ~Stops(t, <<v, <<c>>, h>>, m, rooted)
  BY <1>01, <1>1, <1>2 DEF Stops, Has
<1>8. Onward(t, <<v, <<c>>, h>>) = <<next, <<>>, h>>
  BY <1>01, <1>1, <1>2 DEF Onward
<1>9. w[<<v, <<c>>, h>>] = w[<<next, <<>>, h>>]
  <2>1. w[<<v, <<c>>, h>>] = w[Onward(t, <<v, <<c>>, h>>)]
    BY <1>1, <1>6, <1>7, WalkIs
  <2>2. QED
    BY <1>8, <2>1
<1>10. w[<<next, <<>>, h>>] = next
  <2>1. Stops(t, <<next, <<>>, h>>, m, rooted)
    BY DEF Stops
  <2>2. w[<<next, <<>>, h>>] = Value(<<next, <<>>, h>>)
    BY <1>1, <1>6, <2>1, WalkIs
  <2>3. QED
    BY <2>2 DEF Value
<1>11. QED
  BY <1>0, <1>1, <1>4, <1>9, <1>10

\* What the image has under a name, and is no link, is what the name resolves to.
LEMMA NonLinkResolves ==
    ASSUME NEW t, IsTree(t), NEW a \in Seq(STRING), a # <<>>, Last(a) # "..",
           InRoot(t, a) # NoPath, t[InRoot(t, a)].kind # "link"
    PROVE  Resolve(t, a) = InRoot(t, a)
<1>1. PICK f, c, v, m : /\ f = Front(a) /\ c = Last(a) /\ m = MaxSymlinkHops
                        /\ v = Walk(t, f, m, TRUE)
  OBVIOUS
<1>2. f \in Seq(STRING) /\ c \in STRING /\ c # ".." /\ a = f \o <<c>> /\ m \in Nat
  BY <1>1, Parts, FrontAndLast DEF MaxSymlinkHops
<1>3. InRoot(t, a) = IF v # NoPath /\ Has(t, Append(v, c)) THEN Append(v, c) ELSE NoPath
  BY <1>1 DEF InRoot, EntryAt
<1>4. v # NoPath /\ Append(v, c) \in DOMAIN t /\ InRoot(t, a) = Append(v, c)
      /\ t[Append(v, c)].kind # "link"
  BY <1>3 DEF Has
<1>5. Walk(t, f \o <<c>>, m, TRUE) = Append(v, c)
  <2>1. /\ Walk(t, f, m, TRUE) # NoPath
        /\ Append(Walk(t, f, m, TRUE), c) \in DOMAIN t
        /\ t[Append(Walk(t, f, m, TRUE), c)].kind # "link"
    BY <1>1, <1>4
  <2>2. Walk(t, f \o <<c>>, m, TRUE) = Append(Walk(t, f, m, TRUE), c)
    BY <1>2, <2>1, WalkOneMore
  <2>3. QED
    BY <1>1, <2>2
<1>6. QED
  BY <1>1, <1>2, <1>4, <1>5 DEF Resolve

LEMMA OneAppended ==
    ASSUME NEW f \in Seq(STRING), NEW c \in STRING
    PROVE  Append(f, c) = f \o <<c>>
  BY AppendIsConcat

\* A directory of the tree is found where it is.
LEMMA WalkToDir ==
    ASSUME NEW t, IsTree(t), NEW m \in Nat, NEW rooted \in BOOLEAN, NEW d \in DOMAIN t, t[d] = Dir
    PROVE  Walk(t, d, m, rooted) = d
<1> DEFINE Lost == {p \in DOMAIN t : t[p] = Dir /\ Walk(t, p, m, rooted) # p}
           Lens == {Len(p) : p \in Lost}
<1>1. SUFFICES ASSUME Lost # {} PROVE FALSE
  OBVIOUS
<1>2. \A p \in Lost : p \in Seq(STRING) /\ Len(p) \in Nat
  BY TreePaths
<1>3. Lens \in SUBSET Nat /\ Lens # {}
  BY <1>1, <1>2
<1>4. PICK len \in Lens : \A k \in Lens : len <= k
  BY <1>3, Least
<1>5. PICK p \in Lost : len = Len(p)
  OBVIOUS
<1>6. p \in DOMAIN t /\ t[p] = Dir /\ Walk(t, p, m, rooted) # p /\ p \in Seq(STRING)
  BY <1>2
<1>7. CASE p = <<>>
  <2>1. <<<<>>, <<>>, 0>> \in States(m)
    <3>1. <<>> \in Seq(STRING) /\ 0 \in 0..m
      OBVIOUS
    <3>2. QED
      BY <3>1 DEF States
  <2>2. Stops(t, <<<<>>, <<>>, 0>>, m, rooted)
    BY DEF Stops
  <2>3. WalkFrom(t, m, rooted)[<<<<>>, <<>>, 0>>] = Value(<<<<>>, <<>>, 0>>)
    BY <2>1, <2>2, WalkIs
  <2>4. Walk(t, <<>>, m, rooted) = <<>>
    BY <2>3, WalkIs DEF Value
  <2>5. QED
    BY <1>6, <1>7, <2>4
<1>8. CASE p # <<>>
  <2>1. PICK f, c : f = Front(p) /\ c = Last(p)
    OBVIOUS
  <2>2. f \in DOMAIN t /\ t[f] = Dir /\ c # ".." /\ NoPath \notin DOMAIN t
    BY <1>6, <1>8, <2>1, TreePaths
  <2>3. f \in Seq(STRING) /\ c \in STRING /\ p = f \o <<c>>
    BY <1>6, <1>8, <2>1, Parts, FrontAndLast
  <2>4. Len(f) < Len(p) /\ Len(f) \in Nat /\ Len(p) \in Nat
    BY <2>3
  <2>5. f \notin Lost
    BY <1>4, <1>5, <2>4
  <2>6. Walk(t, f, m, rooted) = f
    BY <2>2, <2>5
  <2>7. Append(f, c) = p
    BY <2>3, OneAppended
  <2>8. t[p].kind # "link"
    BY <1>6 DEF Dir
  <2>9. Walk(t, f \o <<c>>, m, rooted) = p
    <3>1. /\ Walk(t, f, m, rooted) # NoPath
          /\ Append(Walk(t, f, m, rooted), c) \in DOMAIN t
          /\ t[Append(Walk(t, f, m, rooted), c)].kind # "link"
      BY <1>6, <2>2, <2>6, <2>7, <2>8
    <3>2. Walk(t, f \o <<c>>, m, rooted) = Append(Walk(t, f, m, rooted), c)
      BY <2>2, <2>3, <3>1, WalkOneMore
    <3>3. QED
      BY <2>6, <2>7, <3>2
  <2>10. QED
    BY <1>6, <2>3, <2>9
<1>9. QED
  BY <1>7, <1>8

\* What the tree has is found under its own path, and what lies in its way is a directory.
LEMMA FoundInPlace ==
    ASSUME NEW t, IsTree(t), NEW p \in DOMAIN t
    PROVE  /\ InRoot(t, p) = p /\ OnHost(t, p) = p /\ p # NoPath
           /\ \A a \in Ancestors(p) : a \in DOMAIN t /\ AncestorIsDir(t, a) = "dir"
<1>1. ASSUME NEW q \in DOMAIN t, NEW rooted \in BOOLEAN PROVE EntryAt(t, q, rooted) = q
  <2>1. CASE q = <<>>
    BY <2>1 DEF EntryAt
  <2>2. CASE q # <<>>
    <3>1. PICK f, c : f = Front(q) /\ c = Last(q)
      OBVIOUS
    <3>2. f \in DOMAIN t /\ t[f] = Dir /\ NoPath \notin DOMAIN t /\ q \in Seq(STRING)
      BY <2>2, <3>1, TreePaths
    <3>3. f \in Seq(STRING) /\ c \in STRING /\ q = f \o <<c>>
      BY <2>2, <3>1, <3>2, Parts, FrontAndLast
    <3>4. Append(f, c) = q
      BY <3>3, OneAppended
    <3>5. Walk(t, f, MaxSymlinkHops, rooted) = f
      BY <3>2, WalkToDir DEF MaxSymlinkHops
    <3>6. f # NoPath /\ Has(t, q)
      BY <3>2 DEF Has
    <3>7. QED
      BY <2>2, <3>1, <3>4, <3>5, <3>6 DEF EntryAt
  <2>3. QED
    BY <2>1, <2>2
<1>2. InRoot(t, p) = p /\ OnHost(t, p) = p
  BY <1>1 DEF InRoot, OnHost
<1>3. ASSUME NEW a \in Ancestors(p) PROVE a \in DOMAIN t /\ AncestorIsDir(t, a) = "dir"
  <2>1. a \in DOMAIN t /\ t[a] = Dir
    BY DEF IsTree, Has
  <2>2. InRoot(t, a) = a /\ a # NoPath
    BY <1>1, <2>1, TreePaths DEF InRoot
  <2>3. Resolve(t, a) = a
    BY <2>1, WalkToDir DEF Resolve, MaxSymlinkHops
  <2>4. QED
    BY <2>1, <2>2, <2>3 DEF AncestorIsDir, Dir
<1>4. p # NoPath
  BY TreePaths
<1>5. QED
  BY <1>2, <1>3, <1>4

LEMMA KindOfDir ==
    ASSUME NEW t, IsTree(t), NEW p \in DOMAIN t, t[p].kind = "dir"
    PROVE  t[p] = Dir
<1>1. IsNode(t[p])
  BY DEF IsTree
<1>2. QED
  BY <1>1 DEF IsNode

\* What no cleaned path has as a component.
Plain(c) == c \notin {"", ".."}

LEMMA CleanedIs ==
    ASSUME NEW p
    PROVE  Cleaned(p) <=> \A i \in 1..Len(p) : Plain(p[i])
  BY Zenon DEF Cleaned, Plain

LEMMA CleanedParts ==
    ASSUME NEW p \in Seq(STRING), Cleaned(p), p # <<>>
    PROVE  /\ Front(p) \in Seq(STRING) /\ Cleaned(Front(p))
           /\ Last(p) \in STRING /\ Plain(Last(p))
<1>1. Len(p) \in Nat /\ Len(p) # 0 /\ Len(p) - 1 \in Nat
  OBVIOUS
<1>2. Front(p) \in Seq(STRING) /\ Last(p) \in STRING
  BY Parts
<1>3. Plain(Last(p))
  <2>1. Len(p) \in 1..Len(p)
    BY <1>1
  <2>2. QED
    BY <2>1, CleanedIs DEF Last
<1>4. PICK n : n = Len(p) - 1 /\ n \in Nat /\ n <= Len(p)
  <2>1. Len(p) - 1 <= Len(p)
    BY <1>1
  <2>2. QED
    BY <1>1, <2>1
<1>5. Front(p) = SubSeq(p, 1, n)
  BY <1>4 DEF Front
<1>6. Cleaned(Front(p))
  <2>1. Len(Front(p)) = n /\ \A i \in 1..n : Front(p)[i] = p[i]
    BY <1>4, <1>5
  <2>2. \A i \in 1..n : i \in 1..Len(p)
    BY <1>1, <1>4
  <2>3. QED
    BY <2>1, <2>2, CleanedIs
<1>7. QED
  BY <1>2, <1>3, <1>6

LEMMA Appended ==
    ASSUME NEW d \in Seq(STRING), NEW c \in STRING
    PROVE  Append(d, c) \in Seq(STRING) /\ Append(d, c) # <<>>
  BY AppendProperties

LEMMA FrontOfAppend ==
    ASSUME NEW d \in Seq(STRING), NEW c \in STRING
    PROVE  Front(Append(d, c)) = d /\ Append(d, c) # <<>>
<1>1. PICK y : y = Append(d, c)
  OBVIOUS
<1>2. /\ y \in Seq(STRING) /\ Len(y) = Len(d) + 1 /\ Len(d) \in Nat
      /\ \A k \in 1..Len(d) : y[k] = d[k]
  <2>1. Append(d, c) \in Seq(STRING)
    BY AppendProperties
  <2>2. Len(d) \in Nat
    OBVIOUS
  <2>3. Len(Append(d, c)) = Len(d) + 1
    OBVIOUS
  <2>4. ASSUME NEW k \in 1..Len(d) PROVE Append(d, c)[k] = d[k]
    OBVIOUS
  <2>5. QED
    BY <1>1, <2>1, <2>2, <2>3, <2>4
<1>3. PICK n : n = Len(d)
  OBVIOUS
<1>4. n \in Nat /\ Len(y) - 1 = n /\ n <= Len(y)
  BY <1>2, <1>3
<1>5. Front(y) = SubSeq(y, 1, n)
  BY <1>4 DEF Front
<1>6. PICK g : g = SubSeq(y, 1, n)
  OBVIOUS
<1>7. g \in Seq(STRING) /\ Len(g) = n /\ \A k \in 1..n : g[k] = y[k]
  BY <1>2, <1>4, <1>6
<1>8. g = d
  BY <1>2, <1>3, <1>7
<1>9. y # <<>>
  BY <1>2
<1>10. QED
  BY <1>1, <1>5, <1>6, <1>8, <1>9

LEMMA WalkEnds ==
    ASSUME NEW t, IsTree(t), NEW p \in Seq(STRING), NEW rooted \in BOOLEAN,
           Walk(t, p, MaxSymlinkHops, rooted) # NoPath
    PROVE  /\ Walk(t, p, MaxSymlinkHops, rooted) \in DOMAIN t
           /\ Walk(t, p, MaxSymlinkHops, rooted) \in Seq(STRING)
           /\ t[Walk(t, p, MaxSymlinkHops, rooted)].kind # "link"
<1>1. MaxSymlinkHops \in Nat /\ <<>> \in Seq(STRING)
  BY DEF MaxSymlinkHops
<1>2. Landed(t, Walk(t, p, MaxSymlinkHops, rooted))
  BY <1>1, WalkLonger
<1>3. QED
  BY <1>2, TreePaths DEF Landed

LEMMA EntryFound ==
    ASSUME NEW t, IsTree(t), NEW p \in Seq(STRING), NEW rooted \in BOOLEAN,
           EntryAt(t, p, rooted) # NoPath
    PROVE  /\ EntryAt(t, p, rooted) \in DOMAIN t
           /\ p # <<>> => EntryAt(t, p, rooted) # <<>>
<1>1. CASE p = <<>>
  BY <1>1 DEF EntryAt, IsTree, Has
<1>2. CASE p # <<>>
  <2>1. PICK d : d = Walk(t, Front(p), MaxSymlinkHops, rooted)
    OBVIOUS
  <2>2. EntryAt(t, p, rooted) = Append(d, Last(p)) /\ d # NoPath /\ Has(t, Append(d, Last(p)))
    BY <1>2, <2>1 DEF EntryAt
  <2>3. Front(p) \in Seq(STRING) /\ Last(p) \in STRING
    BY <1>2, Parts
  <2>4. d \in Seq(STRING)
    BY <2>1, <2>2, <2>3, WalkEnds
  <2>5. Append(d, Last(p)) # <<>>
    BY <2>3, <2>4
  <2>6. QED
    BY <2>2, <2>5 DEF Has
<1>3. QED
  BY <1>1, <1>2

-----------------------------------------------------------------------------
(* What a walk finds it also finds in a larger tree, and when it may leave *)
(* the root.                                                               *)

Within(t, u) == DOMAIN t \subseteq DOMAIN u /\ \A p \in DOMAIN t : u[p] = t[p]

LEMMA OnwardKept ==
    ASSUME NEW t, NEW u, Within(t, u), NEW m \in Nat, NEW rooted \in BOOLEAN, NEW other \in BOOLEAN,
           rooted => other, NEW at, ~Stops(t, at, m, rooted)
    PROVE  ~Stops(u, at, m, other) /\ Onward(u, at) = Onward(t, at)
<1>1. PICK comp, next : comp = Head(at[2]) /\ next = Append(at[1], comp)
  OBVIOUS
<1>2. /\ at[2] # <<>>
      /\ ~(comp = ".." /\ at[1] = <<>> /\ ~rooted)
      /\ comp # ".." => /\ next \in DOMAIN t
                        /\ ~(t[next].kind = "link" /\ (at[3] = m \/ (t[next].abs /\ ~rooted)))
  BY <1>1 DEF Stops, Has
<1>3. CASE comp = ".."
  <2>1. ~Stops(u, at, m, other)
    BY <1>1, <1>2, <1>3 DEF Stops
  <2>2. Onward(u, at) = Onward(t, at)
    BY <1>1, <1>3 DEF Onward
  <2>3. QED
    BY <2>1, <2>2
<1>4. CASE comp # ".."
  <2>1. next \in DOMAIN u /\ u[next] = t[next]
    BY <1>2, <1>4 DEF Within
  <2>2. ~Stops(u, at, m, other)
    BY <1>1, <1>2, <1>4, <2>1 DEF Stops, Has
  <2>3. Onward(u, at) = Onward(t, at)
    BY <1>1, <1>4, <2>1 DEF Onward
  <2>4. QED
    BY <2>2, <2>3
<1>5. QED
  BY <1>3, <1>4

LEMMA WalkKept ==
    ASSUME NEW t, IsTree(t), NEW u, IsTree(u), Within(t, u),
           NEW rooted \in BOOLEAN, NEW other \in BOOLEAN, rooted => other,
           NEW p \in Seq(STRING), Walk(t, p, MaxSymlinkHops, rooted) # NoPath
    PROVE  Walk(u, p, MaxSymlinkHops, other) = Walk(t, p, MaxSymlinkHops, rooted)
<1>0. PICK m : m = MaxSymlinkHops /\ m \in Nat
  BY DEF MaxSymlinkHops
<1>1. PICK w, x : w = WalkFrom(t, m, rooted) /\ x = WalkFrom(u, m, other)
  OBVIOUS
<1>2. /\ \A s \in States(m) : w[s] = IF Stops(t, s, m, rooted) THEN Value(s) ELSE w[Onward(t, s)]
      /\ \A s \in States(m) : x[s] = IF Stops(u, s, m, other) THEN Value(s) ELSE x[Onward(u, s)]
      /\ Walk(t, p, m, rooted) = w[<<<<>>, p, 0>>] /\ Walk(u, p, m, other) = x[<<<<>>, p, 0>>]
  BY <1>0, <1>1, WalkIs
<1> DEFINE Wrong == {s \in States(m) : w[s] # NoPath /\ x[s] # w[s]}
<1>3. ASSUME NEW s \in Wrong PROVE ~Stops(t, s, m, rooted) /\ Onward(t, s) \in Wrong
  <2>1. CASE Stops(t, s, m, rooted)
    <3>1. w[s] = Value(s) /\ w[s] # NoPath
      BY <1>2, <2>1
    <3>2. s[2] = <<>>
      BY <3>1 DEF Value
    <3>3. Stops(u, s, m, other)
      BY <3>2 DEF Stops
    <3>4. QED
      BY <1>2, <3>1, <3>3
  <2>2. CASE ~Stops(t, s, m, rooted)
    <3>1. ~Stops(u, s, m, other) /\ Onward(u, s) = Onward(t, s)
      BY <1>0, <2>2, OnwardKept
    <3>2. Onward(t, s) \in States(m)
      BY <1>0, <2>2, OnwardType
    <3>3. w[s] = w[Onward(t, s)] /\ x[s] = x[Onward(t, s)]
      BY <1>2, <2>2, <3>1
    <3>4. QED
      BY <2>2, <3>2, <3>3
  <2>3. QED
    BY <2>1, <2>2
<1>4. Wrong = {}
  <2>1. Wrong \in SUBSET States(m)
    OBVIOUS
  <2> HIDE DEF Wrong
  <2>2. QED
    BY <1>0, <1>3, <2>1, NeverWrong
<1>5. <<<<>>, p, 0>> \in States(m)
  <2>1. <<>> \in Seq(STRING) /\ 0 \in 0..m
    BY <1>0
  <2>2. QED
    BY <2>1 DEF States
<1>6. QED
  BY <1>0, <1>2, <1>4, <1>5

LEMMA WalkKeptAlike ==
    ASSUME NEW t, IsTree(t), NEW u, IsTree(u), Within(t, u), NEW rooted \in BOOLEAN,
           NEW p \in Seq(STRING), Walk(t, p, MaxSymlinkHops, rooted) # NoPath
    PROVE  Walk(u, p, MaxSymlinkHops, rooted) = Walk(t, p, MaxSymlinkHops, rooted)
<1>0. TRUE \in BOOLEAN /\ FALSE \in BOOLEAN
  OBVIOUS
<1>1. CASE rooted = TRUE
  <2>1. Walk(t, p, MaxSymlinkHops, TRUE) # NoPath
    BY <1>1
  <2>2. Walk(u, p, MaxSymlinkHops, TRUE) = Walk(t, p, MaxSymlinkHops, TRUE)
    BY <1>0, <2>1, WalkKept, ZenonT(40)
  <2>3. QED
    BY <1>1, <2>2
<1>2. CASE rooted = FALSE
  <2>1. Walk(t, p, MaxSymlinkHops, FALSE) # NoPath
    BY <1>2
  <2>2. Walk(u, p, MaxSymlinkHops, FALSE) = Walk(t, p, MaxSymlinkHops, FALSE)
    BY <1>0, <2>1, WalkKept, Zenon
  <2>3. QED
    BY <1>2, <2>2
<1>3. QED
  BY <1>1, <1>2

LEMMA EntryKept ==
    ASSUME NEW t, IsTree(t), NEW u, IsTree(u), Within(t, u),
           NEW rooted \in BOOLEAN, NEW other \in BOOLEAN, rooted => other,
           NEW p \in Seq(STRING), EntryAt(t, p, rooted) # NoPath
    PROVE  EntryAt(u, p, other) = EntryAt(t, p, rooted)
<1>1. CASE p = <<>>
  BY <1>1 DEF EntryAt
<1>2. CASE p # <<>>
  <2>1. PICK f, d : f = Front(p) /\ d = Walk(t, f, MaxSymlinkHops, rooted)
    OBVIOUS
  <2>2. d # NoPath /\ Has(t, Append(d, Last(p))) /\ EntryAt(t, p, rooted) = Append(d, Last(p))
    BY <1>2, <2>1 DEF EntryAt
  <2>3. Walk(u, f, MaxSymlinkHops, other) = d
    <3>1. f \in Seq(STRING)
      BY <1>2, <2>1, Parts
    <3>2. QED
      BY <2>1, <2>2, <3>1, WalkKept
  <2>4. Has(u, Append(d, Last(p)))
    BY <2>2 DEF Within, Has
  <2>5. QED
    BY <1>2, <2>1, <2>2, <2>3, <2>4 DEF EntryAt
<1>3. QED
  BY <1>1, <1>2

-----------------------------------------------------------------------------
(***************************************************************************)
(* Walks in an image's root that begin elsewhere, or after links.  A walk  *)
(* depends on the number of links followed so far only in that it may come *)
(* to be too many.                                                         *)
(***************************************************************************)

\* How many links the next step follows.
Hop(t, at) == Onward(t, at)[3] - at[3]

LEMMA AtHops ==
    ASSUME NEW t, IsTree(t), NEW m \in Nat, NEW at \in States(m), ~Stops(t, at, m, TRUE),
           NEW n \in 0..m, n + Hop(t, at) <= m
    PROVE  /\ Hop(t, at) \in {0, 1}
           /\ <<at[1], at[2], n>> \in States(m)
           /\ ~Stops(t, <<at[1], at[2], n>>, m, TRUE)
           /\ Onward(t, <<at[1], at[2], n>>) =
                 <<Onward(t, at)[1], Onward(t, at)[2], n + Hop(t, at)>>
<1>1. PICK cur, pending, hops : cur = at[1] /\ pending = at[2] /\ hops = at[3]
  OBVIOUS
<1>2. cur \in Seq(STRING) /\ pending \in Seq(STRING) /\ hops \in 0..m /\ pending # <<>>
  BY <1>1 DEF States, Stops
<1>3. PICK comp, rest, next :
          comp = Head(pending) /\ rest = Tail(pending) /\ next = Append(cur, comp)
  OBVIOUS
<1>4. comp # ".." => next \in DOMAIN t
  BY <1>1, <1>3 DEF Stops, Has
<1>5. <<cur, pending, n>> \in States(m)
  BY <1>2 DEF States
<1>6. Onward(t, at) =
        IF comp = ".." THEN <<IF cur = <<>> THEN cur ELSE Front(cur), rest, hops>>
        ELSE IF t[next].kind # "link" THEN <<next, rest, hops>>
        ELSE <<IF t[next].abs THEN <<>> ELSE cur, t[next].to \o rest, hops + 1>>
  BY <1>1, <1>3 DEF Onward
<1>7. Onward(t, <<cur, pending, n>>) =
        IF comp = ".." THEN <<IF cur = <<>> THEN cur ELSE Front(cur), rest, n>>
        ELSE IF t[next].kind # "link" THEN <<next, rest, n>>
        ELSE <<IF t[next].abs THEN <<>> ELSE cur, t[next].to \o rest, n + 1>>
  BY <1>3 DEF Onward
<1>8. PICK on, hop : on = Onward(t, at) /\ hop = Hop(t, at)
  OBVIOUS
<1>9. hop = on[3] - hops /\ n + hop <= m
  BY <1>1, <1>8 DEF Hop
<1> DEFINE Same == /\ hop \in {0, 1}
                   /\ ~Stops(t, <<cur, pending, n>>, m, TRUE)
                   /\ Onward(t, <<cur, pending, n>>) = <<on[1], on[2], n + hop>>
<1>10. ASSUME comp = ".." PROVE Same
  <2>1. PICK up : up = IF cur = <<>> THEN cur ELSE Front(cur)
    OBVIOUS
  <2>2. on = <<up, rest, hops>> /\ Onward(t, <<cur, pending, n>>) = <<up, rest, n>>
    BY <1>6, <1>7, <1>8, <1>10, <2>1
  <2>3. hop = 0 /\ n + hop = n
    BY <1>2, <1>9, <2>2
  <2>4. ~Stops(t, <<cur, pending, n>>, m, TRUE)
    BY <1>2, <1>3, <1>10 DEF Stops
  <2>5. on[1] = up /\ on[2] = rest
    BY <2>2
  <2>6. QED
    BY <2>2, <2>3, <2>4, <2>5
<1>11. ASSUME comp # ".." /\ t[next].kind # "link" PROVE Same
  <2>1. on = <<next, rest, hops>> /\ Onward(t, <<cur, pending, n>>) = <<next, rest, n>>
    BY <1>6, <1>7, <1>8, <1>11
  <2>2. hop = 0 /\ n + hop = n
    BY <1>2, <1>9, <2>1
  <2>3. ~Stops(t, <<cur, pending, n>>, m, TRUE)
    BY <1>2, <1>3, <1>4, <1>11 DEF Stops, Has
  <2>4. on[1] = next /\ on[2] = rest
    BY <2>1
  <2>5. QED
    BY <2>1, <2>2, <2>3, <2>4
<1>12. ASSUME comp # ".." /\ t[next].kind = "link" PROVE Same
  <2>1. PICK from, to : from = (IF t[next].abs THEN <<>> ELSE cur) /\ to = t[next].to \o rest
    OBVIOUS
  <2>2. on = <<from, to, hops + 1>> /\ Onward(t, <<cur, pending, n>>) = <<from, to, n + 1>>
    BY <1>6, <1>7, <1>8, <1>12, <2>1
  <2>3. hop = 1 /\ n # m
    BY <1>2, <1>9, <2>2
  <2>4. ~Stops(t, <<cur, pending, n>>, m, TRUE)
    BY <1>2, <1>3, <1>4, <1>12, <2>3 DEF Stops, Has
  <2>5. on[1] = from /\ on[2] = to
    BY <2>2
  <2>6. QED
    BY <2>2, <2>3, <2>4, <2>5
<1>13. Same
  BY <1>10, <1>11, <1>12
<1>14. <<at[1], at[2], n>> = <<cur, pending, n>>
  BY <1>1
<1>15. QED
  BY <1>5, <1>8, <1>13, <1>14

\* Having followed fewer links does no harm.
LEMMA FewerHops ==
    ASSUME NEW t, IsTree(t), NEW m \in Nat, NEW at \in States(m), NEW n \in 0..at[3],
           WalkFrom(t, m, TRUE)[at] # NoPath
    PROVE  WalkFrom(t, m, TRUE)[<<at[1], at[2], n>>] = WalkFrom(t, m, TRUE)[at]
<1>1. PICK w : w = WalkFrom(t, m, TRUE)
  OBVIOUS
<1>2. \A s \in States(m) : w[s] = IF Stops(t, s, m, TRUE) THEN Value(s) ELSE w[Onward(t, s)]
  <2>1. TRUE \in BOOLEAN
    OBVIOUS
  <2>2. QED
    BY <1>1, <2>1, WalkIs
<1> DEFINE Wrong == {s \in States(m) : w[s] # NoPath /\ \E k \in 0..s[3] : w[<<s[1], s[2], k>>] # w[s]}
<1>3. ASSUME NEW s \in Wrong PROVE ~Stops(t, s, m, TRUE) /\ Onward(t, s) \in Wrong
  <2>1. PICK k \in 0..s[3] : w[<<s[1], s[2], k>>] # w[s]
    BY <1>3
  <2>2. s \in States(m) /\ w[s] # NoPath /\ s[3] \in 0..m /\ k \in 0..m /\ k <= s[3]
    BY DEF States
  <2>3. <<s[1], s[2], k>> \in States(m)
    BY <2>2 DEF States
  <2>4. ~Stops(t, s, m, TRUE)
    <3>1. SUFFICES ASSUME Stops(t, s, m, TRUE) PROVE FALSE
      OBVIOUS
    <3>2. s[2] = <<>> /\ w[s] = s[1]
      BY <1>2, <2>2, <3>1 DEF Value
    <3>3. Stops(t, <<s[1], s[2], k>>, m, TRUE)
      BY <3>2 DEF Stops
    <3>4. w[<<s[1], s[2], k>>] = s[1]
      BY <1>2, <2>3, <3>2, <3>3 DEF Value
    <3>5. QED
      BY <2>1, <3>2, <3>4
  <2>5. PICK on, hop : on = Onward(t, s) /\ hop = Hop(t, s)
    OBVIOUS
  <2>6. on \in States(m) /\ on[3] \in 0..m /\ hop = on[3] - s[3]
    BY <2>2, <2>4, <2>5, OnwardType DEF Hop, States
  <2>7. k + hop <= m
    BY <2>2, <2>6
  <2>8. /\ hop \in {0, 1}
        /\ ~Stops(t, <<s[1], s[2], k>>, m, TRUE)
        /\ Onward(t, <<s[1], s[2], k>>) = <<on[1], on[2], k + hop>>
    BY <2>2, <2>4, <2>5, <2>7, AtHops
  <2>9. w[s] = w[on] /\ w[<<s[1], s[2], k>>] = w[<<on[1], on[2], k + hop>>]
    BY <1>2, <2>2, <2>3, <2>4, <2>5, <2>8
  <2>10. k + hop \in 0..on[3]
    BY <2>2, <2>6, <2>8
  <2>11. QED
    BY <2>1, <2>2, <2>4, <2>5, <2>6, <2>9, <2>10
<1>4. Wrong = {}
  <2>1. Wrong \in SUBSET States(m) /\ TRUE \in BOOLEAN
    OBVIOUS
  <2> HIDE DEF Wrong
  <2>2. QED
    BY <1>3, <2>1, NeverWrong
<1>5. QED
  BY <1>1, <1>4

\* One link more than the most is one too many.
LEMMA TooMany ==
    ASSUME NEW t, IsTree(t), NEW m \in Nat, NEW at \in States(m), ~Stops(t, at, m, TRUE),
           Hop(t, at) # 0
    PROVE  Stops(t, <<at[1], at[2], m>>, m, TRUE) /\ at[2] # <<>>
<1>1. PICK cur, pending, hops : cur = at[1] /\ pending = at[2] /\ hops = at[3]
  OBVIOUS
<1>2. cur \in Seq(STRING) /\ pending \in Seq(STRING) /\ hops \in 0..m /\ pending # <<>>
  BY <1>1 DEF States, Stops
<1>3. PICK comp, rest, next :
          comp = Head(pending) /\ rest = Tail(pending) /\ next = Append(cur, comp)
  OBVIOUS
<1>4. Onward(t, at) =
        IF comp = ".." THEN <<IF cur = <<>> THEN cur ELSE Front(cur), rest, hops>>
        ELSE IF t[next].kind # "link" THEN <<next, rest, hops>>
        ELSE <<IF t[next].abs THEN <<>> ELSE cur, t[next].to \o rest, hops + 1>>
  BY <1>1, <1>3 DEF Onward
<1>5. comp # ".." /\ t[next].kind = "link"
  <2>1. SUFFICES ASSUME comp = ".." \/ t[next].kind # "link" PROVE FALSE
    OBVIOUS
  <2>2. Onward(t, at)[3] = hops
    BY <1>4, <2>1
  <2>3. QED
    BY <1>1, <1>2, <2>2 DEF Hop
<1>6. Stops(t, <<cur, pending, m>>, m, TRUE)
  BY <1>3, <1>5 DEF Stops
<1>7. QED
  BY <1>1, <1>2, <1>6

\* A walk that gets to w[at] after k links goes on from there, whatever is to come and
\* however many links it has followed before -- or there are too many.
Ahead(m, w, at, k) ==
    \A c \in Seq(STRING) : \A n \in 0..m :
        /\ n + k <= m => w[<<at[1], at[2] \o c, n>>] = w[<<w[at], c, n + k>>]
        /\ ~(n + k <= m) => w[<<at[1], at[2] \o c, n>>] = NoPath

LEMMA PathAhead ==
    ASSUME NEW t, IsTree(t), NEW m \in Nat, NEW at \in States(m), WalkFrom(t, m, TRUE)[at] # NoPath
    PROVE  \E k \in Nat : Ahead(m, WalkFrom(t, m, TRUE), at, k)
<1>1. PICK w : w = WalkFrom(t, m, TRUE)
  OBVIOUS
<1>2. \A s \in States(m) : w[s] = IF Stops(t, s, m, TRUE) THEN Value(s) ELSE w[Onward(t, s)]
  <2>1. TRUE \in BOOLEAN
    OBVIOUS
  <2>2. QED
    BY <1>1, <2>1, WalkIs
<1> DEFINE After(s, k) == \A c \in Seq(STRING) : \A n \in 0..m :
                              /\ n + k <= m => w[<<s[1], s[2] \o c, n>>] = w[<<w[s], c, n + k>>]
                              /\ ~(n + k <= m) => w[<<s[1], s[2] \o c, n>>] = NoPath
           Wrong == {s \in States(m) : w[s] # NoPath /\ ~\E k \in Nat : After(s, k)}
<1>3. ASSUME NEW s \in Wrong PROVE ~Stops(t, s, m, TRUE) /\ Onward(t, s) \in Wrong
  <2>1. s \in States(m) /\ w[s] # NoPath /\ ~\E k \in Nat : After(s, k)
    BY <1>3
  <2>2. s[1] \in Seq(STRING) /\ s[2] \in Seq(STRING) /\ s[3] \in 0..m
    BY DEF States
  <2>3. ~Stops(t, s, m, TRUE)
    <3>1. SUFFICES ASSUME Stops(t, s, m, TRUE) PROVE FALSE
      OBVIOUS
    <3>2. s[2] = <<>> /\ w[s] = s[1]
      BY <1>2, <2>1, <3>1 DEF Value
    <3>3. After(s, 0)
      <4>1. SUFFICES ASSUME NEW c \in Seq(STRING), NEW n \in 0..m
                     PROVE  n + 0 <= m /\ w[<<s[1], s[2] \o c, n>>] = w[<<w[s], c, n + 0>>]
        OBVIOUS
      <4>2. s[2] \o c = c /\ n + 0 = n /\ n <= m
        BY <3>2
      <4>3. QED
        BY <3>2, <4>2
    <3>4. QED
      BY <2>1, <3>3
  <2>4. PICK on, hop : on = Onward(t, s) /\ hop = Hop(t, s)
    OBVIOUS
  <2>5. on \in States(m) /\ hop = on[3] - s[3] /\ w[s] = w[on] /\ on[3] \in 0..m
    BY <1>2, <2>1, <2>3, <2>4, OnwardType DEF Hop, States
  <2>6. hop \in {0, 1}
    <3>1. s[3] + Hop(t, s) <= m
      BY <2>2, <2>4, <2>5
    <3>2. QED
      BY <2>1, <2>2, <2>3, <2>4, <3>1, AtHops
  <2>7. ASSUME NEW k \in Nat, After(on, k) PROVE After(s, k + hop)
    <3>1. SUFFICES ASSUME NEW c \in Seq(STRING), NEW n \in 0..m
                   PROVE  /\ n + (k + hop) <= m =>
                                 w[<<s[1], s[2] \o c, n>>] = w[<<w[s], c, n + (k + hop)>>]
                          /\ ~(n + (k + hop) <= m) => w[<<s[1], s[2] \o c, n>>] = NoPath
      OBVIOUS
    <3>2. PICK s2, o2 : s2 = s[2] \o c /\ o2 = on[2] \o c
      OBVIOUS
    <3>3. s2 \in Seq(STRING) /\ <<s[1], s2, s[3]>> \in States(m)
      <4>1. s2 \in Seq(STRING)
        BY <2>2, <3>2, ConcatProperties
      <4>2. QED
        BY <2>2, <4>1 DEF States
    <3>4. ~Stops(t, <<s[1], s2, s[3]>>, m, TRUE)
          /\ Onward(t, <<s[1], s2, s[3]>>) = <<on[1], o2, on[3]>>
      <4>1. TRUE \in BOOLEAN
        OBVIOUS
      <4>2. /\ ~Stops(t, <<s[1], s[2] \o c, s[3]>>, m, TRUE)
            /\ Onward(t, <<s[1], s[2] \o c, s[3]>>) =
                  <<Onward(t, s)[1], Onward(t, s)[2] \o c, Onward(t, s)[3]>>
        <5>1. s \in States(m)
          BY <2>1
        <5> HIDE DEF Wrong
        <5>2. QED
          BY <2>3, <4>1, <5>1, Longer, Zenon
      <4>3. QED
        BY <2>4, <3>2, <4>2
    <3>5. Hop(t, <<s[1], s2, s[3]>>) = hop
      BY <2>5, <3>4 DEF Hop
    <3>6. CASE ~(n + hop <= m)
      <4>1. hop # 0 /\ n = m
        BY <2>6, <3>6
      <4>2. PICK x : x = <<s[1], s2, s[3]>>
        OBVIOUS
      <4>3. x \in States(m) /\ ~Stops(t, x, m, TRUE) /\ Hop(t, x) # 0 /\ x[1] = s[1] /\ x[2] = s2
        BY <3>3, <3>4, <3>5, <4>1, <4>2
      <4>4. Stops(t, <<x[1], x[2], m>>, m, TRUE) /\ x[2] # <<>>
        BY <4>3, TooMany
      <4>5. PICK y : y = <<s[1], s2, n>>
        OBVIOUS
      <4>6. y \in States(m) /\ y[2] # <<>>
        BY <2>2, <3>3, <4>3, <4>4, <4>5 DEF States
      <4>7. Stops(t, y, m, TRUE)
        BY <4>1, <4>3, <4>4, <4>5
      <4>8. w[y] = NoPath
        BY <1>2, <4>6, <4>7 DEF Value
      <4>9. ~(n + (k + hop) <= m)
        BY <2>6, <3>6
      <4>10. QED
        BY <3>2, <4>5, <4>8, <4>9
    <3>7. CASE n + hop <= m
      <4>1. n + hop \in 0..m /\ (n + hop) + k = n + (k + hop)
        BY <2>6, <3>7
      <4>2. PICK x : x = <<s[1], s2, s[3]>>
        OBVIOUS
      <4>3. x \in States(m) /\ ~Stops(t, x, m, TRUE) /\ Onward(t, x) = <<on[1], o2, on[3]>>
        BY <3>3, <3>4, <4>2
      <4>4. Hop(t, x) = hop /\ n + Hop(t, x) <= m
        BY <3>5, <3>7, <4>2
      <4>5. x[1] = s[1] /\ x[2] = s2
        BY <4>2
      <4>6. /\ <<x[1], x[2], n>> \in States(m)
            /\ ~Stops(t, <<x[1], x[2], n>>, m, TRUE)
            /\ Onward(t, <<x[1], x[2], n>>) = <<Onward(t, x)[1], Onward(t, x)[2], n + Hop(t, x)>>
        <5>1. n \in 0..m /\ x \in States(m) /\ ~Stops(t, x, m, TRUE) /\ n + Hop(t, x) <= m
          BY <4>3, <4>4
        <5> HIDE DEF After, Wrong
        <5>2. QED
          BY <5>1, AtHops
      <4>7. Onward(t, x)[1] = on[1] /\ Onward(t, x)[2] = o2
        BY <4>3
      <4>8. w[<<s[1], s2, n>>] = w[<<on[1], o2, n + hop>>]
        BY <1>2, <4>4, <4>5, <4>6, <4>7
      <4>9. /\ (n + hop) + k <= m => w[<<on[1], o2, n + hop>>] = w[<<w[on], c, (n + hop) + k>>]
            /\ ~((n + hop) + k <= m) => w[<<on[1], o2, n + hop>>] = NoPath
        BY <2>7, <3>2, <4>1
      <4>10. QED
        BY <2>5, <3>2, <4>1, <4>8, <4>9
    <3>8. QED
      BY <3>6, <3>7
  <2>8. ASSUME NEW k \in Nat, After(on, k) PROVE FALSE
    <3>1. k + hop \in Nat
      BY <2>6
    <3> HIDE DEF After
    <3>2. QED
      BY <2>1, <2>7, <2>8, <3>1
  <2> HIDE DEF After
  <2>9. QED
    BY <2>1, <2>3, <2>4, <2>5, <2>8
<1>4. Wrong = {}
  <2>1. Wrong \in SUBSET States(m) /\ TRUE \in BOOLEAN
    OBVIOUS
  <2> HIDE DEF Wrong
  <2>2. QED
    BY <1>3, <2>1, NeverWrong
<1>5. PICK k \in Nat : After(at, k)
  <2> HIDE DEF After
  <2>1. at \in States(m) /\ w[at] # NoPath
    BY <1>1
  <2>2. QED
    BY <1>4, <2>1
<1>6. Ahead(m, w, at, k)
  BY <1>5 DEF Ahead
<1>7. QED
  BY <1>1, <1>6

LEMMA NoDotDot ==
    ASSUME NEW p \in Seq(STRING), Cleaned(p), NEW a \in Ancestors(p) \cup {p}, a # <<>>
    PROVE  a \in Seq(STRING) /\ Last(a) # ".." /\ a # NoPath
<1>1. PICK k \in 1..Len(p) : Len(a) = k /\ a[k] = p[k] /\ a[1] = p[1] /\ a \in Seq(STRING)
  <2>1. CASE a = p
    <3>1. Len(p) \in Nat /\ Len(p) # 0
      BY <2>1
    <3>2. Len(p) \in 1..Len(p)
      BY <3>1
    <3>3. QED
      BY <2>1, <3>2
  <2>2. CASE a \in Ancestors(p)
    <3>1. PICK k \in 1..(Len(p) - 1) : a = SubSeq(p, 1, k)
      BY <2>2 DEF Ancestors
    <3>2. a \in Seq(STRING) /\ Len(a) = k /\ a[k] = p[k] /\ a[1] = p[1]
      BY <3>1
    <3>3. k \in 1..Len(p)
      BY <3>1
    <3>4. QED
      BY <3>2, <3>3
  <2>3. QED
    BY <2>1, <2>2
<1>2. Last(a) = p[k]
  BY <1>1 DEF Last
<1>3. 1 \in 1..Len(p) /\ NoPath[1] = ""
  BY <1>1 DEF NoPath
<1>4. \A i \in 1..Len(p) : p[i] \notin {"", ".."}
  BY DEF Cleaned
<1>5. p[k] # ".." /\ p[1] # ""
  BY <1>1, <1>3, <1>4
<1>6. QED
  BY <1>1, <1>2, <1>3, <1>5


\* What is found of a path is found below directories.
LEMMA FoundBelow ==
    ASSUME NEW t, IsTree(t), NEW p \in Seq(STRING), p # <<>>, InRoot(t, p) # NoPath
    PROVE  /\ Resolve(t, Front(p)) # NoPath /\ Resolve(t, Front(p)) \in Seq(STRING)
           /\ InRoot(t, p) = Append(Resolve(t, Front(p)), Last(p))
           /\ InRoot(t, p) \in DOMAIN t
<1>1. PICK f, d, q : /\ f = Front(p) /\ d = Walk(t, f, MaxSymlinkHops, TRUE)
                     /\ q = Append(d, Last(p))
  OBVIOUS
<1>2. InRoot(t, p) = IF d # NoPath /\ Has(t, q) THEN q ELSE NoPath
  BY <1>1 DEF InRoot, EntryAt
<1>3. d # NoPath /\ Has(t, q) /\ InRoot(t, p) = q
  BY <1>2
<1>4. d \in Seq(STRING)
  <2>1. TRUE \in BOOLEAN /\ f \in Seq(STRING) /\ Walk(t, f, MaxSymlinkHops, TRUE) # NoPath
    BY <1>1, <1>3, Parts
  <2>2. Walk(t, f, MaxSymlinkHops, TRUE) \in Seq(STRING)
    BY <2>1, WalkEnds, Zenon
  <2>3. QED
    BY <1>1, <2>2
<1>5. QED
  BY <1>1, <1>3, <1>4 DEF Resolve, Has

\* On the way to what is found everything is a directory.
LEMMA DirsOnTheWay ==
    ASSUME NEW t, IsTree(t), NEW p \in Seq(STRING), Cleaned(p), InRoot(t, p) # NoPath,
           NEW a \in Ancestors(p)
    PROVE  InRoot(t, a) # NoPath /\ AncestorIsDir(t, a) = "dir"
<1>1. PICK i \in 1..(Len(p) - 1) : a = SubSeq(p, 1, i)
  BY DEF Ancestors
<1>2. i \in Nat /\ i + 1 \in 1..Len(p) /\ Len(p) \in Nat
  BY <1>1
<1>3. PICK b : b = SubSeq(p, 1, i + 1)
  OBVIOUS
<1>4. b \in Seq(STRING) /\ Len(b) = i + 1 /\ b # <<>> /\ Front(b) = a
  <2>1. b \in Seq(STRING) /\ Len(b) = i + 1 /\ \A k \in 1..(i + 1) : b[k] = p[k]
    BY <1>2, <1>3
  <2>2. Front(b) = SubSeq(b, 1, i)
    BY <1>2, <2>1 DEF Front
  <2>3. SubSeq(b, 1, i) = SubSeq(p, 1, i)
    BY <1>2, <2>1
  <2>4. QED
    BY <1>1, <2>1, <2>2, <2>3
<1>5. a \in Seq(STRING) /\ a # <<>> /\ Last(a) # ".."
  BY AncestorsAre, NoDotDot
<1>6. InRoot(t, a) # NoPath
  BY <1>5, BelowAbsent
<1>7. InRoot(t, b) # NoPath
  <2>1. CASE b = p
    BY <2>1
  <2>2. CASE b # p
    <3>1. i + 1 # Len(p)
      <4>1. SUFFICES ASSUME i + 1 = Len(p) PROVE FALSE
        OBVIOUS
      <4>2. SubSeq(p, 1, Len(p)) = p
        OBVIOUS
      <4>3. QED
        BY <1>3, <2>2, <4>1, <4>2
    <3>2. i + 1 \in 1..(Len(p) - 1)
      BY <1>2, <3>1
    <3>3. b \in Ancestors(p)
      BY <1>3, <3>2 DEF Ancestors
    <3>4. Last(b) # ".."
      BY <1>4, <3>3, NoDotDot
    <3>5. QED
      BY <3>3, <3>4, BelowAbsent
  <2>3. QED
    BY <2>1, <2>2
<1>8. PICK r, c : r = Resolve(t, a) /\ c = Last(b)
  OBVIOUS
<1>9. r # NoPath /\ r \in Seq(STRING) /\ c \in STRING /\ Append(r, c) \in DOMAIN t
  BY <1>4, <1>7, <1>8, FoundBelow, Parts
<1>10. r \in DOMAIN t /\ t[r].kind = "dir"
  <2>1. Front(Append(r, c)) = r /\ Append(r, c) # <<>>
    BY <1>9, FrontOfAppend
  <2>2. r \in DOMAIN t /\ t[r] = Dir
    BY <1>9, <2>1, TreePaths
  <2>3. QED
    BY <2>2 DEF Dir
<1>11. QED
  BY <1>6, <1>8, <1>9, <1>10 DEF AncestorIsDir

\* A walk gets through the directories of a tree by their names.
LEMMA ThroughDirs ==
    ASSUME NEW t, IsTree(t), NEW m \in Nat, NEW d \in DOMAIN t, t[d] = Dir,
           NEW b \in Seq(STRING), NEW h \in 0..m
    PROVE  WalkFrom(t, m, TRUE)[<<<<>>, d \o b, h>>] = WalkFrom(t, m, TRUE)[<<d, b, h>>]
<1>1. PICK w : w = WalkFrom(t, m, TRUE)
  OBVIOUS
<1>2. \A s \in States(m) : w[s] = IF Stops(t, s, m, TRUE) THEN Value(s) ELSE w[Onward(t, s)]
  <2>1. TRUE \in BOOLEAN
    OBVIOUS
  <2>2. QED
    BY <1>1, <2>1, WalkIs
<1> DEFINE Through(x) == \A c \in Seq(STRING) : w[<<<<>>, x \o c, h>>] = w[<<x, c, h>>]
           Bad == {x \in DOMAIN t : t[x] = Dir /\ ~Through(x)}
           Lens == {Len(x) : x \in Bad}
<1>3. ASSUME NEW x \in Bad, \A y \in Bad : Len(x) <= Len(y) PROVE FALSE
  <2>1. x \in DOMAIN t /\ t[x] = Dir /\ x \in Seq(STRING) /\ ~Through(x)
    BY <1>3, TreePaths
  <2>2. x # <<>>
    <3>1. \A c \in Seq(STRING) : <<>> \o c = c
      OBVIOUS
    <3>2. Through(<<>>)
      BY <3>1
    <3> HIDE DEF Through
    <3>3. QED
      BY <2>1, <3>2
  <2>3. PICK f, l : f = Front(x) /\ l = Last(x)
    OBVIOUS
  <2>4. f \in Seq(STRING) /\ l \in STRING /\ l # ".." /\ f \in DOMAIN t /\ t[f] = Dir /\ x = f \o <<l>>
    BY <2>1, <2>2, <2>3, Parts, TreePaths, FrontAndLast
  <2>5. Append(f, l) = x
    BY <2>4, OneAppended
  <2>6. Len(f) < Len(x)
    BY <2>4
  <2>7. Through(f)
    <3>1. Len(x) \in Nat /\ Len(f) \in Nat /\ ~(Len(x) <= Len(f))
      BY <2>1, <2>4, <2>6
    <3>2. f \notin Bad
      BY <1>3, <3>1
    <3> HIDE DEF Through
    <3>3. QED
      BY <2>4, <3>2
  <2>8. ASSUME NEW c \in Seq(STRING) PROVE w[<<<<>>, x \o c, h>>] = w[<<x, c, h>>]
    <3>1. PICK lc : lc = <<l>> \o c
      OBVIOUS
    <3>2. lc \in Seq(STRING) /\ Head(lc) = l /\ Tail(lc) = c /\ lc # <<>>
      BY <2>4, <3>1, SMTT(30)
    <3>3. x \o c = f \o lc
      BY <2>4, <3>1, SMTT(30)
    <3>4. w[<<<<>>, f \o lc, h>>] = w[<<f, lc, h>>]
      BY <2>7, <3>2
    <3>5. PICK s : s = <<f, lc, h>>
      OBVIOUS
    <3>6. s \in States(m)
      BY <2>4, <3>2, <3>5 DEF States
    <3>7. /\ s[1] = f /\ s[2] = lc /\ s[3] = h /\ Head(s[2]) = l /\ Tail(s[2]) = c /\ s[2] # <<>>
           /\ Append(s[1], Head(s[2])) = x /\ x \in DOMAIN t /\ t[x].kind = "dir" /\ l # ".."
      BY <2>1, <2>4, <2>5, <3>2, <3>5, SMTT(30) DEF Dir
    <3> HIDE DEF Through, Bad
    <3>8. ~Stops(t, s, m, TRUE)
      BY <3>7, Zenon DEF Stops, Has
    <3>9. Onward(t, s) = <<x, c, h>>
      <4>1. Onward(t, s) = <<x, Tail(s[2]), s[3]>>
        BY <3>7 DEF Onward
      <4>2. QED
        BY <3>7, <4>1
    <3>10. QED
      BY <1>2, <3>3, <3>4, <3>5, <3>6, <3>8, <3>9
  <2>9. QED
    BY <2>1, <2>8
<1>4. Bad = {}
  <2>1. SUFFICES ASSUME Bad # {} PROVE FALSE
    OBVIOUS
  <2>2. Lens \in SUBSET Nat /\ Lens # {}
    <3>1. \A x \in Bad : Len(x) \in Nat
      BY TreePaths
    <3> HIDE DEF Bad
    <3>2. QED
      BY <2>1, <3>1
  <2>3. PICK n \in Lens : \A k \in Lens : n <= k
    BY <2>2, Least
  <2> HIDE DEF Bad
  <2>4. PICK x \in Bad : Len(x) = n
    BY <2>3
  <2>5. QED
    BY <1>3, <2>3, <2>4
<1>5. QED
  BY <1>1, <1>4

LEMMA AppendFurther ==
    ASSUME NEW a \in Seq(STRING), NEW f \in Seq(STRING), NEW c \in STRING
    PROVE  a \o Append(f, c) = Append(a \o f, c)
<1>1. <<c>> \in Seq(STRING)
  <2>1. <<>> \in Seq(STRING) /\ Append(<<>>, c) = <<c>>
    OBVIOUS
  <2>2. Append(<<>>, c) \in Seq(STRING)
    BY <2>1, AppendProperties, Zenon
  <2>3. QED
    BY <2>1, <2>2, Zenon
<1>2. a \o f \in Seq(STRING)
  BY ConcatProperties
<1>3. Append(f, c) = f \o <<c>> /\ Append(a \o f, c) = (a \o f) \o <<c>>
  BY <1>2, OneAppended
<1>4. (a \o f) \o <<c>> = a \o (f \o <<c>>)
  BY <1>1, ConcatAssociative
<1>5. QED
  BY <1>3, <1>4

LEMMA HeadGoesFirst ==
    ASSUME NEW d \in Seq(STRING), NEW p \in Seq(STRING), p # <<>>
    PROVE  d \o p = Append(d, Head(p)) \o Tail(p)
<1>1. PICK c, r : c = Head(p) /\ r = Tail(p)
  OBVIOUS
<1>2. c \in STRING /\ r \in Seq(STRING)
  BY <1>1, Parts
<1>3. p = <<c>> \o r
  BY <1>1, <1>2
<1>4. <<c>> \in Seq(STRING)
  <2>1. <<>> \in Seq(STRING) /\ Append(<<>>, c) = <<c>>
    OBVIOUS
  <2>2. Append(<<>>, c) \in Seq(STRING)
    BY <1>2, <2>1, AppendProperties, Zenon
  <2>3. QED
    BY <2>1, <2>2, Zenon
<1>5. Append(d, c) = d \o <<c>>
  BY <1>2, OneAppended
<1>6. (d \o <<c>>) \o r = d \o (<<c>> \o r)
  BY <1>2, <1>4, ConcatAssociative
<1>7. QED
  BY <1>1, <1>3, <1>5, <1>6

\* A walk to a directory by its name gets there.
LEMMA StraightToDir ==
    ASSUME NEW t, IsTree(t), NEW m \in Nat, NEW d \in DOMAIN t, t[d] = Dir, NEW h \in 0..m
    PROVE  WalkFrom(t, m, TRUE)[<<<<>>, d, h>>] = d
<1>1. PICK w : w = WalkFrom(t, m, TRUE)
  OBVIOUS
<1>2. d \in Seq(STRING) /\ <<>> \in Seq(STRING) /\ d \o <<>> = d
  BY TreePaths
<1>3. w[<<<<>>, d, h>>] = w[<<d, <<>>, h>>]
  <2>1. w[<<<<>>, d \o <<>>, h>>] = w[<<d, <<>>, h>>]
    BY <1>1, <1>2, ThroughDirs, ZenonT(40)
  <2>2. QED
    BY <1>2, <2>1, Zenon
<1>4. PICK s : s = <<d, <<>>, h>>
  OBVIOUS
<1>5. s \in States(m) /\ s[1] = d /\ s[2] = <<>>
  BY <1>2, <1>4 DEF States
<1>6. Stops(t, s, m, TRUE)
  BY <1>5 DEF Stops
<1>7. w[s] = d
  <2>1. TRUE \in BOOLEAN
    OBVIOUS
  <2>2. w[s] = Value(s)
    BY <1>1, <1>5, <1>6, <2>1, WalkIs
  <2>3. QED
    BY <1>5, <2>2 DEF Value
<1>8. QED
  BY <1>1, <1>3, <1>4, <1>7

\* The last step of a walk, when what it looks for is there.
StepTo(t, m, w, d, c, e, h) ==
    /\ t[e].kind # "link" => w[<<d, <<c>>, h>>] = e
    /\ t[e].kind = "link" /\ h = m => w[<<d, <<c>>, h>>] = NoPath
    /\ t[e].kind = "link" /\ h # m =>
          w[<<d, <<c>>, h>>] = w[<<IF t[e].abs THEN <<>> ELSE d, t[e].to, h + 1>>]

LEMMA LastStep ==
    ASSUME NEW t, IsTree(t), NEW m \in Nat, NEW d \in DOMAIN t, NEW c \in STRING, c # "..",
           NEW e \in DOMAIN t, e = Append(d, c), NEW h \in 0..m
    PROVE  StepTo(t, m, WalkFrom(t, m, TRUE), d, c, e, h)
<1>1. PICK w, s : w = WalkFrom(t, m, TRUE) /\ s = <<d, <<c>>, h>>
  OBVIOUS
<1>2. \A x \in States(m) : w[x] = IF Stops(t, x, m, TRUE) THEN Value(x) ELSE w[Onward(t, x)]
  <2>1. TRUE \in BOOLEAN
    OBVIOUS
  <2>2. QED
    BY <1>1, <2>1, WalkIs
<1>3. d \in Seq(STRING) /\ <<c>> \in Seq(STRING) /\ Head(<<c>>) = c /\ <<c>> # <<>> /\ Tail(<<c>>) = <<>>
  <2>1. d \in Seq(STRING)
    BY TreePaths
  <2>2. <<>> \in Seq(STRING) /\ Append(<<>>, c) = <<c>>
    OBVIOUS
  <2>3. Append(<<>>, c) \in Seq(STRING)
    BY <2>2, AppendProperties, Zenon
  <2>4. Head(<<c>>) = c /\ <<c>> # <<>> /\ Tail(<<c>>) = <<>>
    OBVIOUS
  <2>5. QED
    BY <2>1, <2>2, <2>3, <2>4
<1>4. s \in States(m) /\ s[1] = d /\ s[3] = h /\ Head(s[2]) = c /\ Tail(s[2]) = <<>> /\ s[2] # <<>>
  BY <1>1, <1>3 DEF States
<1>5. Append(s[1], Head(s[2])) = e
  BY <1>4
<1>6. CASE t[e].kind # "link"
  <2>1. ~Stops(t, s, m, TRUE)
    BY <1>4, <1>5, <1>6 DEF Stops, Has
  <2>2. Onward(t, s) = <<e, <<>>, h>>
    BY <1>4, <1>5, <1>6 DEF Onward
  <2>3. PICK x : x = <<e, <<>>, h>>
    OBVIOUS
  <2>4. x \in States(m) /\ x[1] = e /\ x[2] = <<>>
    <3>1. e \in Seq(STRING) /\ <<>> \in Seq(STRING)
      BY TreePaths
    <3>2. QED
      BY <2>3, <3>1 DEF States
  <2>5. Stops(t, x, m, TRUE)
    BY <2>4 DEF Stops
  <2>6. w[x] = e
    BY <1>2, <2>4, <2>5 DEF Value
  <2>7. w[s] = e
    BY <1>2, <1>4, <2>1, <2>2, <2>3, <2>6
  <2>8. QED
    BY <1>1, <1>6, <2>7 DEF StepTo
<1>7. CASE t[e].kind = "link" /\ h = m
  <2>1. Stops(t, s, m, TRUE)
    BY <1>4, <1>5, <1>7 DEF Stops
  <2>2. w[s] = NoPath
    BY <1>2, <1>4, <2>1 DEF Value
  <2>3. QED
    BY <1>1, <1>7, <2>2 DEF StepTo
<1>8. CASE t[e].kind = "link" /\ h # m
  <2>1. ~Stops(t, s, m, TRUE)
    BY <1>4, <1>5, <1>8 DEF Stops, Has
  <2>2. t[e].to \in Seq(STRING)
    BY <1>8, LinkType
  <2>3. t[e].to \o <<>> = t[e].to
    BY <2>2
  <2>4. Onward(t, s) = <<IF t[e].abs THEN <<>> ELSE d, t[e].to \o <<>>, h + 1>>
    BY <1>4, <1>5, <1>8 DEF Onward
  <2>5. w[s] = w[<<IF t[e].abs THEN <<>> ELSE d, t[e].to, h + 1>>]
    BY <1>2, <1>4, <2>1, <2>3, <2>4
  <2>6. QED
    BY <1>1, <1>8, <2>5 DEF StepTo
<1>9. QED
  BY <1>6, <1>7, <1>8

\* What a walk from the root finds, however many links it may still follow, is what
\* the path resolves to.
LEMMA ResolvesTo ==
    ASSUME NEW t, IsTree(t), NEW p \in Seq(STRING), NEW h \in 0..MaxSymlinkHops,
           WalkFrom(t, MaxSymlinkHops, TRUE)[<<<<>>, p, h>>] # NoPath
    PROVE  Resolve(t, p) = WalkFrom(t, MaxSymlinkHops, TRUE)[<<<<>>, p, h>>]
<1>1. PICK m, w, s : m = MaxSymlinkHops /\ w = WalkFrom(t, m, TRUE) /\ s = <<<<>>, p, h>>
  OBVIOUS
<1>2. m \in Nat /\ s \in States(m) /\ s[1] = <<>> /\ s[2] = p /\ s[3] = h /\ 0 \in 0..s[3]
  <2>1. m \in Nat /\ h \in 0..m
    BY <1>1 DEF MaxSymlinkHops
  <2>2. <<>> \in Seq(STRING)
    OBVIOUS
  <2>3. s \in States(m)
    BY <1>1, <2>1, <2>2 DEF States
  <2>4. s[1] = <<>> /\ s[2] = p /\ s[3] = h
    BY <1>1
  <2>5. 0 \in 0..h
    BY <2>1
  <2>6. QED
    BY <2>1, <2>3, <2>4, <2>5, Zenon
<1>3. WalkFrom(t, m, TRUE)[s] # NoPath
  BY <1>1
<1>4. WalkFrom(t, m, TRUE)[<<s[1], s[2], 0>>] = WalkFrom(t, m, TRUE)[s]
  BY <1>2, <1>3, FewerHops
<1>5. Walk(t, p, m, TRUE) = WalkFrom(t, m, TRUE)[<<<<>>, p, 0>>]
  <2>1. TRUE \in BOOLEAN
    OBVIOUS
  <2>2. QED
    BY <1>2, <2>1, WalkIs
<1>6. QED
  BY <1>1, <1>2, <1>4, <1>5 DEF Resolve

LEMMA ResolvedIsThere ==
    ASSUME NEW t, IsTree(t), NEW p \in Seq(STRING), p # <<>>, Last(p) # "..", Resolve(t, p) # NoPath
    PROVE  InRoot(t, p) # NoPath
<1>1. SUFFICES ASSUME InRoot(t, p) = NoPath PROVE FALSE
  OBVIOUS
<1>2. <<>> \in Seq(STRING) /\ p \o <<>> = p
  OBVIOUS
<1>3. Resolve(t, p \o <<>>) = NoPath
  BY <1>1, <1>2, NothingBelowAbsent
<1>4. QED
  BY <1>2, <1>3

\* A walk that ends at a path whose entry is a link goes on from that link's directory,
\* or from the root; a relative target may also be appended to the directory's name.
GoesOn(t, w, p, q, e, d, h) ==
    /\ t[d] = Dir /\ e = Append(d, Last(p))
    /\ t[e].abs => q = w[<<<<>>, t[e].to, h + 1>>]
    /\ ~t[e].abs => q = w[<<d, t[e].to, h + 1>>] /\ q = w[<<<<>>, Front(p) \o t[e].to, h + 1>>]

LEMMA FollowLink ==
    ASSUME NEW t, IsTree(t), NEW p \in Seq(STRING), p # <<>>, Last(p) # "..",
           NEW m, m = MaxSymlinkHops, NEW h \in 0..m, NEW w, w = WalkFrom(t, m, TRUE),
           NEW q, q = w[<<<<>>, p, h>>], q # NoPath,
           NEW e, e = InRoot(t, p), e # NoPath, t[e].kind = "link"
    PROVE  h # m /\ \E d \in DOMAIN t : GoesOn(t, w, p, q, e, d, h)
<1>1. m \in Nat /\ MaxSymlinkHops = m /\ 0 \in 0..m
  BY DEF MaxSymlinkHops
<1>2. PICK f, c, d : f = Front(p) /\ c = Last(p) /\ d = Resolve(t, f)
  OBVIOUS
<1>3. f \in Seq(STRING) /\ c \in STRING /\ c # ".." /\ p = f \o <<c>> /\ <<>> \in Seq(STRING)
  BY <1>2, Parts, FrontAndLast
<1>4. d # NoPath /\ d \in Seq(STRING) /\ e = Append(d, c) /\ e \in DOMAIN t
  BY <1>2, FoundBelow
<1>5. d \in DOMAIN t /\ t[d] = Dir
  <2>1. e # <<>> /\ Front(e) = d
    BY <1>3, <1>4, FrontOfAppend
  <2>2. QED
    BY <1>4, <2>1, TreePaths
<1>6. w[<<<<>>, f, 0>>] = d
  <2>1. TRUE \in BOOLEAN
    OBVIOUS
  <2>2. Walk(t, f, m, TRUE) = WalkFrom(t, m, TRUE)[<<<<>>, f, 0>>]
    BY <1>1, <1>3, <2>1, WalkIs, ZenonT(40)
  <2>3. QED
    BY <1>1, <1>2, <2>2 DEF Resolve
<1>7. PICK k \in Nat : \A r \in Seq(STRING) : \A n \in 0..m :
                          /\ n + k <= m => w[<<<<>>, f \o r, n>>] = w[<<d, r, n + k>>]
                          /\ ~(n + k <= m) => w[<<<<>>, f \o r, n>>] = NoPath
  <2>1. PICK s : s = <<<<>>, f, 0>>
    OBVIOUS
  <2>2. s[1] = <<>> /\ s[2] = f /\ w[s] = d
    BY <1>6, <2>1
  <2>3. s \in States(m)
    BY <1>1, <1>3, <2>1 DEF States
  <2>4. WalkFrom(t, m, TRUE)[s] # NoPath
    BY <1>4, <1>6, <2>1
  <2>5. \E k \in Nat : Ahead(m, WalkFrom(t, m, TRUE), s, k)
    BY <1>1, <2>3, <2>4, PathAhead
  <2>6. PICK k \in Nat : Ahead(m, w, s, k)
    BY <2>5
  <2>7. \A r \in Seq(STRING) : \A n \in 0..m :
           /\ n + k <= m => w[<<<<>>, f \o r, n>>] = w[<<d, r, n + k>>]
           /\ ~(n + k <= m) => w[<<<<>>, f \o r, n>>] = NoPath
    <3>1. ASSUME NEW r \in Seq(STRING), NEW n \in 0..m
          PROVE  /\ n + k <= m => w[<<<<>>, f \o r, n>>] = w[<<d, r, n + k>>]
                 /\ ~(n + k <= m) => w[<<<<>>, f \o r, n>>] = NoPath
      <4>1. /\ n + k <= m => w[<<s[1], s[2] \o r, n>>] = w[<<w[s], r, n + k>>]
            /\ ~(n + k <= m) => w[<<s[1], s[2] \o r, n>>] = NoPath
        BY <2>6, <3>1, Zenon DEF Ahead
      <4>2. s[2] \o r = f \o r
        BY <2>2
      <4>3. QED
        BY <2>2, <4>1, <4>2
    <3>2. QED
      BY <3>1
  <2>8. QED
    BY <2>7
<1>8. <<c>> \in Seq(STRING)
  <2>1. <<>> \in Seq(STRING) /\ Append(<<>>, c) = <<c>>
    OBVIOUS
  <2>2. Append(<<>>, c) \in Seq(STRING)
    BY <1>3, <2>1, AppendProperties, Zenon
  <2>3. QED
    BY <2>1, <2>2, Zenon
<1>9. h + k <= m /\ q = w[<<d, <<c>>, h + k>>]
  BY <1>3, <1>7, <1>8
<1>10. PICK n : n = h + k
  OBVIOUS
<1>11. n \in 0..m /\ h \in 0..n
  BY <1>1, <1>9, <1>10
<1>12. PICK b, to : b = (IF t[e].abs THEN <<>> ELSE d) /\ to = t[e].to
  OBVIOUS
<1>13. n # m /\ q = w[<<b, to, n + 1>>]
  <2>1. m \in Nat /\ c \in STRING /\ c # ".." /\ e = Append(d, c) /\ e \in DOMAIN t
        /\ d \in DOMAIN t /\ t[d] = Dir /\ n \in 0..m
    BY <1>1, <1>3, <1>4, <1>5, <1>11, Zenon
  <2>2. StepTo(t, m, WalkFrom(t, m, TRUE), d, c, e, n)
    BY <2>1, LastStep
  <2>3. StepTo(t, m, w, d, c, e, n)
    BY <2>2
  <2>4. n # m
    BY <1>9, <1>10, <2>3 DEF StepTo
  <2>5. QED
    BY <1>9, <1>10, <1>12, <2>3, <2>4 DEF StepTo
<1>14. to \in Seq(STRING) /\ b \in Seq(STRING) /\ n + 1 \in 0..m /\ h + 1 \in 0..(n + 1) /\ h + 1 \in 0..m
  <2>1. t[e].to \in Seq(STRING)
    BY <1>4, LinkType
  <2>2. to \in Seq(STRING) /\ b \in Seq(STRING)
    BY <1>3, <1>4, <1>12, <2>1
  <2>3. n + 1 \in 0..m /\ h + 1 \in 0..(n + 1) /\ h + 1 \in 0..m
    <3>1. n # m
      BY <1>13
    <3>2. QED
      BY <1>1, <1>11, <3>1
  <2>4. QED
    BY <2>2, <2>3
<1>15. q = w[<<b, to, h + 1>>]
  <2>1. PICK s : s = <<b, to, n + 1>>
    OBVIOUS
  <2>2. s[1] = b /\ s[2] = to /\ s[3] = n + 1
    BY <2>1
  <2>3. s \in States(m)
    BY <1>14, <2>1 DEF States
  <2>4. h + 1 \in 0..s[3]
    BY <1>14, <2>2
  <2>5. WalkFrom(t, m, TRUE)[s] = q
    BY <1>13, <2>1
  <2>6. WalkFrom(t, m, TRUE)[<<s[1], s[2], h + 1>>] = WalkFrom(t, m, TRUE)[s]
    BY <1>1, <2>3, <2>4, <2>5, FewerHops
  <2>7. QED
    BY <2>2, <2>5, <2>6
<1>16. w[<<<<>>, f \o to, h + 1>>] = w[<<d, to, n + 1>>]
  <2>1. PICK x : x = h + 1
    OBVIOUS
  <2>2. x + k <= m /\ x + k = n + 1 /\ x \in 0..m /\ to \in Seq(STRING)
    <3>1. n # m /\ x \in 0..m /\ to \in Seq(STRING)
      BY <1>13, <1>14, <2>1
    <3>2. m \in Nat /\ n \in 0..m /\ h \in Nat /\ n = h + k
      BY <1>1, <1>10, <1>11
    <3>3. x + k = n + 1
      BY <2>1, <3>2
    <3>4. n + 1 <= m
      BY <3>1, <3>2
    <3>5. QED
      BY <3>1, <3>3, <3>4
  <2>3. w[<<<<>>, f \o to, x>>] = w[<<d, to, x + k>>]
    BY <1>7, <2>2, Zenon
  <2>4. QED
    BY <2>1, <2>2, <2>3, Zenon
<1>17. h # m
  BY <1>11, <1>13, <1>1
<1>18. t[e].abs => q = w[<<<<>>, t[e].to, h + 1>>]
  BY <1>12, <1>15
<1>19. ~t[e].abs => q = w[<<d, t[e].to, h + 1>>] /\ q = w[<<<<>>, Front(p) \o t[e].to, h + 1>>]
  BY <1>2, <1>12, <1>13, <1>15, <1>16
<1>20. GoesOn(t, w, p, q, e, d, h)
  BY <1>2, <1>4, <1>5, <1>18, <1>19 DEF GoesOn
<1>21. QED
  BY <1>5, <1>17, <1>20
=============================================================================
