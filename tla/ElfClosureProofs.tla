-------------------------- MODULE ElfClosureProofs --------------------------
(***************************************************************************)
(* Proofs about ElfClosure, for every set of paths, libraries and images.  *)
(***************************************************************************)
EXTENDS ElfClosure, WellFoundedInduction, TLAPS

\* A set of numbers has a least one, and a largest below a bound.
LEMMA Least ==
    ASSUME NEW T \in SUBSET Nat, T # {}
    PROVE  \E x \in T : \A y \in T : x <= y
<1>1. PICK x \in T : \A y \in T : <<y, x>> \notin OpToRel(<, Nat)
  BY WFMin, NatLessThanWellFounded
<1>2. \A y \in T : ~(y < x)
  BY <1>1 DEF OpToRel
<1>3. QED
  BY <1>2

LEMMA Largest ==
    ASSUME NEW n \in Nat, NEW T \in SUBSET (1 .. n), T # {}
    PROVE  \E x \in T : \A y \in T : y <= x
<1> DEFINE U == {n - x : x \in T}
<1>1. U \in SUBSET Nat /\ U # {}
  <2>1. \A x \in T : n - x \in Nat
    OBVIOUS
  <2>2. PICK x \in T : TRUE
    OBVIOUS
  <2>3. QED
    BY <2>1, <2>2
<1>2. PICK u \in U : \A v \in U : u <= v
  BY <1>1, Least
<1>3. PICK x \in T : u = n - x
  OBVIOUS
<1>4. ASSUME NEW y \in T PROVE y <= x
  <2>1. n - x <= n - y
    BY <1>2, <1>3
  <2>2. QED
    BY <2>1
<1>5. QED
  BY <1>4

\* The calls that are active in a stack.
Frames(s) == {s[i] : i \in 1 .. Len(s)}

NewFrame(real, label, interp) ==
    [elf |-> real, label |-> label, interp |-> interp, next |-> 0, await |-> FALSE,
     unresolved |-> {}]

-----------------------------------------------------------------------------
(***************************************************************************)
(* The search for a library, and the steps of the call stack.              *)
(***************************************************************************)

\* A library is found under a path that resolves, or under none.
LEMMA FindLibType ==
    ASSUME NEW lib \in Libs, NEW dirs \in Seq(Dirs), FindLib(lib, dirs) # NoPath
    PROVE  /\ FindLib(lib, dirs) \in Paths
           /\ Real[FindLib(lib, dirs)] \in Paths
<1>1. Hits(lib, dirs) \in SUBSET Nat
  BY DEF Hits
<1>2. Hits(lib, dirs) # {}
  BY DEF FindLib
<1>3. PICK i \in Hits(lib, dirs) :
            /\ \A j \in Hits(lib, dirs) : i <= j
            /\ FindLib(lib, dirs) = At[<<dirs[i], lib>>]
  BY <1>1, <1>2, Least DEF FindLib
<1>4. i \in 1 .. Len(dirs) /\ Real[At[<<dirs[i], lib>>]] # NoPath
  BY <1>3 DEF Hits
<1>5. At[<<dirs[i], lib>>] \in Paths
  BY <1>4, ElfAssumption
<1>6. QED
  BY <1>3, <1>4, <1>5, ElfAssumption

\* The search path of a file, and what is found on it.
LEMMA FoundType ==
    ASSUME TypeOK, NEW e \in Paths, NEW n \in 1 .. Len(image.needed[e]), Found(e, n) # NoPath
    PROVE  Found(e, n) \in Paths /\ Real[Found(e, n)] \in Paths
<1>1. /\ image.needed[e] \in Seq(Libs)
      /\ image.runpath[e] \in Seq(Dirs) /\ image.rpath[e] \in Seq(Dirs)
      /\ ldPaths \in Seq(Dirs)
  BY DEF TypeOK, Image
<1>2. SearchPaths(e) \in Seq(Dirs) /\ image.needed[e][n] \in Libs
  BY <1>1 DEF SearchPaths
<1>3. QED
  BY <1>2, FindLibType DEF Found

\* The call on top of the stack goes on.
LEMMA Resumed ==
    ASSUME stack \in Seq(Frame), stack # <<>>, NEW g \in Frame
    PROVE  /\ WithTop(g) \in Seq(Frame)
           /\ Len(WithTop(g)) = Len(stack) /\ Len(stack) \in Nat \ {0}
           /\ Top \in Frame /\ Top \in Frames(stack)
           /\ g \in Frames(WithTop(g))
           /\ Frames(WithTop(g)) \subseteq Frames(stack) \cup {g}
           /\ \A f \in Frames(stack) : f = Top \/ f \in Frames(WithTop(g))
<1>1. /\ Len(stack) \in Nat \ {0} /\ Len(stack) \in 1 .. Len(stack)
      /\ WithTop(g) \in Seq(Frame)
      /\ Len(WithTop(g)) = Len(stack)
      /\ WithTop(g)[Len(stack)] = g
      /\ \A i \in 1 .. Len(stack) : i # Len(stack) => WithTop(g)[i] = stack[i]
  BY DEF WithTop
<1>2. Top \in Frame /\ Top \in Frames(stack)
  BY <1>1 DEF Top, Frames
<1>3. g \in Frames(WithTop(g))
  BY <1>1 DEF Frames
<1>4. Frames(WithTop(g)) \subseteq Frames(stack) \cup {g}
  BY <1>1 DEF Frames
<1>5. \A f \in Frames(stack) : f = Top \/ f \in Frames(WithTop(g))
  BY <1>1 DEF Frames, Top
<1>6. QED
  BY <1>1, <1>2, <1>3, <1>4, <1>5

\* A failed call takes its callers with it, up to the one that drops the error.
LEMMA FailEffect ==
    ASSUME NEW s \in Seq(Frame), s # <<>>, outcome = "run", abandoned \in SUBSET Paths, Fail(s)
    PROVE  /\ stack' \in Seq(Frame) /\ Frames(stack') \subseteq Frames(s)
           /\ abandoned \subseteq abandoned' /\ abandoned' \in SUBSET Paths
           /\ s[Len(s)].elf \in abandoned'
           /\ \A f \in Frames(s) : f.elf \in abandoned' \/ f \in Frames(stack')
           /\ outcome' = "run" \/ (outcome' = "error" /\ stack' = <<>>)
<1> DEFINE k == IF Catchers(s) = {} THEN 1
                ELSE CHOOSE i \in Catchers(s) : \A j \in Catchers(s) : j <= i
<1>1. /\ stack' = SubSeq(s, 1, k - 1)
      /\ abandoned' = abandoned \cup {s[i].elf : i \in k .. Len(s)}
      /\ outcome' = IF Catchers(s) = {} THEN "error" ELSE outcome
  BY DEF Fail
<1>2. Len(s) \in Nat \ {0} /\ \A i \in 1 .. Len(s) : s[i] \in Frame
  OBVIOUS
<1>3. k \in 1 .. Len(s) /\ (Catchers(s) = {} => k = 1)
  <2>1. CASE Catchers(s) = {}
    BY <1>2, <2>1
  <2>2. CASE Catchers(s) # {}
    <3>1. Catchers(s) \in SUBSET (1 .. Len(s))
      BY DEF Catchers
    <3>2. \E i \in Catchers(s) : \A j \in Catchers(s) : j <= i
      BY <1>2, <2>2, <3>1, Largest
    <3>3. QED
      BY <2>2, <3>1, <3>2
  <2>3. QED
    BY <2>1, <2>2
<1> HIDE DEF k
<1>4. /\ stack' \in Seq(Frame)
      /\ Len(stack') = k - 1
      /\ \A i \in 1 .. k - 1 : stack'[i] = s[i]
  <2>1. k - 1 \in Int /\ \A i \in 1 .. k - 1 : s[i] \in Frame
    BY <1>2, <1>3
  <2>2. QED
    BY <1>1, <1>3, <2>1
<1>5. Frames(stack') \subseteq Frames(s)
  BY <1>2, <1>3, <1>4 DEF Frames
<1>6. \A i \in k .. Len(s) : s[i].elf \in abandoned' /\ s[i].elf \in Paths
  BY <1>1, <1>2, <1>3 DEF Frame
<1>7. abandoned \subseteq abandoned' /\ abandoned' \in SUBSET Paths
  BY <1>1, <1>6
<1>8. s[Len(s)].elf \in abandoned'
  BY <1>2, <1>3, <1>6
<1>9. ASSUME NEW f \in Frames(s) PROVE f.elf \in abandoned' \/ f \in Frames(stack')
  <2>1. PICK i \in 1 .. Len(s) : f = s[i]
    BY DEF Frames
  <2>2. CASE i < k
    BY <1>2, <1>3, <1>4, <2>1, <2>2 DEF Frames
  <2>3. CASE ~(i < k)
    BY <1>2, <1>3, <1>6, <2>1, <2>3
  <2>4. QED
    BY <2>2, <2>3
<1>10. outcome' = "run" \/ (outcome' = "error" /\ stack' = <<>>)
  BY <1>1, <1>3
<1>11. QED
  BY <1>4, <1>5, <1>7, <1>8, <1>9, <1>10

\* A call enters the file, returns at once, or fails: a file it has entered is
\* active or abandoned, and so is what was active.
CallEffect(s, real, new) ==
    /\ stack' \in Seq(Frame)
    /\ \A f \in Frames(stack') : f \in Frames(s) \/ (f = new /\ real \in Elfs)
    /\ visited' = visited \cup {real}
    /\ abandoned \subseteq abandoned' /\ abandoned' \in SUBSET Paths
    /\ \A f \in Frames(s) : f.elf \in abandoned' \/ f \in Frames(stack')
    /\ real \in Elfs \ visited => real \in abandoned' \/ new \in Frames(stack')
    /\ outcome' = "run" \/ (outcome' = "error" /\ stack' = <<>>)
    /\ abandoned' = {} => Frames(s) \subseteq Frames(stack')

LEMMA Called ==
    ASSUME NEW s \in Seq(Frame), NEW real \in Paths, NEW label \in Paths, NEW interp \in BOOLEAN,
           outcome = "run", abandoned \in SUBSET Paths, Call(s, real, label, interp)
    PROVE  CallEffect(s, real, NewFrame(real, label, interp))
<1> DEFINE new == NewFrame(real, label, interp)
<1>1. new \in Frame /\ new.elf = real
  BY DEF Frame, NewFrame
<1>2. /\ visited' = visited \cup {real}
      /\ \/ /\ real \in visited \/ real \notin Elfs
            /\ stack' = s
            /\ UNCHANGED <<abandoned, outcome>>
         \/ /\ real \in Elfs \ visited
            /\ stack' = Append(s, new)
            /\ UNCHANGED <<abandoned, outcome>>
         \/ /\ real \in Elfs \ visited
            /\ Fail(Append(s, new))
  BY DEF Call, NewFrame
<1> HIDE DEF new
<1>3. /\ Append(s, new) \in Seq(Frame) /\ Append(s, new) # <<>>
      /\ Append(s, new)[Len(Append(s, new))] = new
  BY <1>1
<1>4. Frames(Append(s, new)) = Frames(s) \cup {new}
  <2>1. /\ Len(Append(s, new)) = Len(s) + 1 /\ Len(s) \in Nat
        /\ Append(s, new)[Len(s) + 1] = new
        /\ \A i \in 1 .. Len(s) : Append(s, new)[i] = s[i]
    BY <1>1
  <2>2. Frames(Append(s, new)) \subseteq Frames(s) \cup {new}
    BY <2>1 DEF Frames
  <2>3. Len(s) + 1 \in 1 .. Len(s) + 1 /\ \A i \in 1 .. Len(s) : i \in 1 .. Len(s) + 1
    BY <2>1
  <2>4. Frames(s) \cup {new} \subseteq Frames(Append(s, new))
    BY <2>1, <2>3 DEF Frames
  <2>5. QED
    BY <2>2, <2>4
<1>5. CASE stack' = s /\ (real \in visited \/ real \notin Elfs) /\ UNCHANGED <<abandoned, outcome>>
  BY <1>2, <1>5 DEF CallEffect, new
<1>6. CASE real \in Elfs \ visited /\ stack' = Append(s, new) /\ UNCHANGED <<abandoned, outcome>>
  BY <1>2, <1>3, <1>4, <1>6 DEF CallEffect, new
<1>7. CASE real \in Elfs \ visited /\ Fail(Append(s, new))
  BY <1>1, <1>2, <1>3, <1>4, <1>7, FailEffect DEF CallEffect, new
<1>8. QED
  BY <1>2, <1>5, <1>6, <1>7

-----------------------------------------------------------------------------
(***************************************************************************)
(* Types.                                                                  *)
(***************************************************************************)

\* A call waits for the library it is at, which has been found.
AwaitOK ==
    \A f \in Frames(stack) :
        f.await => f.next \in 1 .. Len(image.needed[f.elf]) /\ Found(f.elf, f.next) # NoPath

TypeInv == TypeOK /\ AwaitOK

LEMMA TypeInit == Init => TypeInv
<1> SUFFICES ASSUME Init PROVE TypeInv
  OBVIOUS
<1>1. image \in Image /\ image.conf \in [Confs -> Seq(Line)] /\ MainConf \in Confs
  BY ElfAssumption DEF Init, Image
<1>2. reading \in Seq(Seq(Line))
  BY <1>1 DEF Init
<1>3. files \in SUBSET Paths /\ seeds \subseteq image.observed
  BY <1>1 DEF Init, Image
<1>4. TypeOK
  BY <1>1, <1>2, <1>3 DEF Init, TypeOK
<1>5. AwaitOK
  BY DEF Init, AwaitOK, Frames
<1>6. QED
  BY <1>4, <1>5 DEF TypeInv

LEMMA ReadTypes ==
    ASSUME TypeInv, ReadConf
    PROVE  TypeInv'
<1> USE DEF confVars, resultVars
<1>1. outcome = "conf" /\ stack = <<>> /\ stack' = <<>>
  BY DEF ReadConf, ReadDirectory, ReadInclude, EndOfConf, StartResolving, TypeInv, TypeOK
<1>2. AwaitOK'
  BY <1>1 DEF AwaitOK, Frames
<1>3. /\ reading \in Seq(Seq(Line)) /\ ldPaths \in Seq(Dirs) /\ seen \subseteq Confs
      /\ image \in Image /\ image.conf \in [Confs -> Seq(Line)]
  BY DEF TypeInv, TypeOK, Image
<1>4. ASSUME reading # <<>>, ConfTop # <<>>
      PROVE  Head(ConfTop) \in Line /\ Tail(ConfTop) \in Seq(Line) /\ ConfRest \in Seq(Seq(Line))
  <2>1. ConfTop \in Seq(Line) /\ Len(reading) \in 1 .. Len(reading)
    BY <1>3, <1>4 DEF ConfTop
  <2>2. Head(ConfTop) \in Line /\ Tail(ConfTop) \in Seq(Line)
    BY <1>4, <2>1
  <2>3. ConfRest = [reading EXCEPT ![Len(reading)] = Tail(ConfTop)]
    BY DEF ConfRest, ConfTop
  <2>4. QED
    BY <1>3, <2>1, <2>2, <2>3
<1>5. CASE ReadDirectory
  <2>1. Head(ConfTop).dir \in Dirs
    BY <1>4, <1>5 DEF ReadDirectory, Line
  <2>2. ldPaths' \in Seq(Dirs) /\ reading' \in Seq(Seq(Line))
    BY <1>3, <1>4, <1>5, <2>1 DEF ReadDirectory
  <2>3. QED
    BY <1>2, <1>5, <2>2 DEF ReadDirectory, TypeInv, TypeOK
<1>6. CASE ReadInclude
  <2> DEFINE confs == Head(ConfTop).confs
             rest  == [kind |-> "include", confs |-> Tail(confs)]
             left  == [reading EXCEPT ![Len(reading)] = <<rest>> \o Tail(@)]
  <2>1. confs \in Seq(Confs)
    BY <1>4, <1>6 DEF ReadInclude, Line
  <2>2. ASSUME confs # <<>> PROVE left \in Seq(Seq(Line)) /\ Head(confs) \in Confs
    <3>1. Head(confs) \in Confs /\ Tail(confs) \in Seq(Confs)
      BY <2>1, <2>2
    <3>2. rest \in Line
      BY <3>1 DEF Line
    <3>3. <<rest>> \o Tail(ConfTop) \in Seq(Line)
      BY <1>4, <1>6, <3>2 DEF ReadInclude
    <3>4. left = [reading EXCEPT ![Len(reading)] = <<rest>> \o Tail(ConfTop)]
      BY DEF ConfTop
    <3> HIDE DEF left, rest
    <3>5. QED
      BY <1>3, <1>6, <3>1, <3>3, <3>4 DEF ReadInclude
  <2>3. reading' \in Seq(Seq(Line)) /\ seen' \subseteq Confs
    <3>1. CASE confs = <<>> /\ reading' = ConfRest /\ seen' = seen
      BY <1>3, <1>4, <1>6, <3>1 DEF ReadInclude
    <3>2. CASE /\ confs # <<>>
               /\ seen' = seen \cup {Head(confs)}
               /\ reading' = IF Head(confs) \in seen THEN left
                             ELSE Append(left, image.conf[Head(confs)])
      <4> HIDE DEF left, confs
      <4>1. left \in Seq(Seq(Line)) /\ Head(confs) \in Confs
        BY <2>2, <3>2
      <4>2. image.conf[Head(confs)] \in Seq(Line)
        BY <1>3, <4>1
      <4>3. QED
        BY <1>3, <3>2, <4>1, <4>2
    <3>3. QED
      BY <1>6, <3>1, <3>2 DEF ReadInclude
  <2>4. QED
    BY <1>2, <1>6, <2>3 DEF ReadInclude, TypeInv, TypeOK
<1>7. CASE EndOfConf
  <2>1. reading' \in Seq(Seq(Line))
    <3>1. Len(reading) - 1 \in Int /\ \A i \in 1 .. Len(reading) - 1 : reading[i] \in Seq(Line)
      BY <1>3, <1>7 DEF EndOfConf
    <3>2. QED
      BY <1>3, <1>7, <3>1 DEF EndOfConf
  <2>2. QED
    BY <1>2, <1>7, <2>1 DEF EndOfConf, TypeInv, TypeOK
<1>8. CASE StartResolving
  <2>1. ldPaths' \in Seq(Dirs)
    BY <1>3, <1>8, ElfAssumption DEF StartResolving
  <2>2. QED
    BY <1>1, <1>2, <1>8, <2>1 DEF StartResolving, TypeInv, TypeOK
<1>9. QED
  BY <1>5, <1>6, <1>7, <1>8 DEF ReadConf

\* What resolving leaves alone, and where it looks.
LEMMA ResolveFrame ==
    ASSUME Resolve \/ \E p \in seeds : Seed(p)
    PROVE  outcome = "run" /\ UNCHANGED <<image, reading, seen, ldPaths>>
  BY DEF Resolve, ResolveInterp, ResolveLib, LibResolved, ResolveReturns, AtLib, Seed, confVars

LEMMA FoundStays ==
    ASSUME UNCHANGED <<image, ldPaths>>, NEW e, NEW n
    PROVE  /\ Found(e, n)' = Found(e, n)
           /\ Loaded(e, n)' = Loaded(e, n)
           /\ Found(e, n) = Loaded(e, n)
           /\ HasInterp(e)' = HasInterp(e)
<1>1. SearchPaths(e)' = SearchPaths(e)
  BY DEF SearchPaths
<1>2. /\ Found(e, n)' = FindLib(image.needed[e][n], SearchPaths(e))
      /\ Found(e, n) = FindLib(image.needed[e][n], SearchPaths(e))
  BY <1>1 DEF Found, FindLib, Hits
<1>3. HasInterp(e)' = HasInterp(e)
  BY DEF HasInterp
<1>4. /\ Loaded(e, n) = FindLib(image.needed[e][n], SearchPaths(e))
      /\ Loaded(e, n)' = FindLib(image.needed[e][n], SearchPaths(e))
  <2> DEFINE dirs == (IF image.runpath[e] = <<>> THEN image.rpath[e] ELSE image.runpath[e])
                        \o ldPaths
  <2>1. dirs = SearchPaths(e)
    BY DEF SearchPaths
  <2>2. /\ Loaded(e, n) = FindLib(image.needed[e][n], dirs)
        /\ Loaded(e, n)' = FindLib(image.needed[e][n], dirs)
    BY DEF Loaded, FindLib, Hits
  <2>3. QED
    BY <2>1, <2>2
<1>5. QED
  BY <1>2, <1>3, <1>4

\* The frame of a call that has not changed but for what it could not resolve.
Kept(f) ==
    \E g \in Frames(stack) :
        f.elf = g.elf /\ f.label = g.label /\ f.next = g.next /\ f.await = g.await

\* The caller of a call that returns takes over what that could not resolve.
LEMMA Returned ==
    ASSUME stack \in Seq(Frame), unresolved \in SUBSET (Paths \X Libs), ResolveReturns
    PROVE  /\ stack' \in Seq(Frame) /\ unresolved' \in SUBSET (Paths \X Libs)
           /\ Top \in Frame /\ Top \in Frames(stack)
           /\ \A f \in Frames(stack') : Kept(f)
           /\ \A g \in Frames(stack) :
                 \/ g = Top
                 \/ \E f \in Frames(stack') : f.elf = g.elf /\ g.unresolved \subseteq f.unresolved
           /\ unresolved \subseteq unresolved'
           /\ \/ Top.unresolved \subseteq unresolved'
              \/ \E f \in Frames(stack') : Top.unresolved \subseteq f.unresolved
<1> DEFINE n == Len(stack) - 1
           below == SubSeq(stack, 1, n)
           caller == [below[n] EXCEPT !.unresolved = @ \cup Top.unresolved]
<1>1. stack # <<>> /\ Len(stack) \in Nat \ {0} /\ n \in Nat
  BY DEF ResolveReturns
<1>2. Top \in Frame /\ Top \in Frames(stack) /\ Top.unresolved \in SUBSET (Paths \X Libs)
  <2>1. Len(stack) \in 1 .. Len(stack)
    BY <1>1
  <2>2. stack[Len(stack)] \in Frame
    BY <2>1
  <2>3. QED
    BY <2>1, <2>2 DEF Top, Frames, Frame
<1>3. /\ below \in Seq(Frame) /\ Len(below) = n
      /\ \A i \in 1 .. n : below[i] = stack[i] /\ stack[i] \in Frame
  <2>1. PICK m \in Nat : m = n
    BY <1>1
  <2>2. m <= Len(stack) /\ \A i \in 1 .. m : stack[i] \in Frame
    BY <1>1, <2>1
  <2>3. /\ SubSeq(stack, 1, m) \in Seq(Frame) /\ Len(SubSeq(stack, 1, m)) = m
        /\ \A i \in 1 .. m : SubSeq(stack, 1, m)[i] = stack[i]
    BY <2>2
  <2>4. QED
    BY <2>1, <2>2, <2>3
<1> HIDE DEF below, n
<1>4. CASE n = 0 /\ stack' = <<>> /\ unresolved' = unresolved \cup Top.unresolved
  <2>1. Frames(stack') = {}
    BY <1>4 DEF Frames
  <2>2. \A g \in Frames(stack) : g = Top
    <3>1. Len(stack) = 1
      BY <1>1, <1>4 DEF n
    <3>2. QED
      BY <3>1 DEF Frames, Top
  <2>3. QED
    BY <1>2, <1>4, <2>1, <2>2
<1>5. CASE /\ n > 0
           /\ stack' = [below EXCEPT ![n].unresolved = @ \cup Top.unresolved]
           /\ unresolved' = unresolved
  <2>1. n \in 1 .. n /\ below[n] = stack[n] /\ stack[n] \in Frame
    BY <1>1, <1>3, <1>5 DEF n
  <2>2. /\ caller \in Frame
        /\ caller.elf = stack[n].elf /\ caller.label = stack[n].label
        /\ caller.next = stack[n].next /\ caller.await = stack[n].await
        /\ caller.unresolved = stack[n].unresolved \cup Top.unresolved
    BY <1>2, <2>1 DEF Frame
  <2>3. stack' = [below EXCEPT ![n] = caller]
    BY <1>5
  <2> HIDE DEF caller
  <2>4. /\ stack' \in Seq(Frame) /\ Len(stack') = n
        /\ stack'[n] = caller
        /\ \A i \in 1 .. n : i # n => stack'[i] = stack[i]
    BY <1>3, <2>1, <2>2, <2>3
  <2>5. \A i \in 1 .. n : stack[i] \in Frames(stack)
    BY <1>1 DEF Frames, n
  <2>6. ASSUME NEW f \in Frames(stack') PROVE Kept(f)
    <3>1. PICK i \in 1 .. n : f = stack'[i]
      BY <2>4 DEF Frames
    <3>2. QED
      BY <2>2, <2>4, <2>5, <3>1 DEF Kept
  <2>7. caller \in Frames(stack')
    BY <2>1, <2>4 DEF Frames
  <2>8. ASSUME NEW g \in Frames(stack), g # Top
        PROVE  \E f \in Frames(stack') : f.elf = g.elf /\ g.unresolved \subseteq f.unresolved
    <3>1. PICK i \in 1 .. Len(stack) : g = stack[i]
      BY DEF Frames
    <3>2. i \in 1 .. n
      BY <1>1, <2>8, <3>1 DEF Top, n
    <3>3. CASE i = n
      BY <2>2, <2>7, <3>1, <3>3
    <3>4. CASE i # n
      <4>1. g \in Frames(stack')
        BY <2>4, <3>1, <3>2, <3>4 DEF Frames
      <4>2. QED
        BY <4>1
    <3>5. QED
      BY <3>3, <3>4
  <2>9. QED
    BY <1>2, <1>5, <2>2, <2>4, <2>6, <2>7, <2>8
<1>6. QED
  BY <1>4, <1>5 DEF ResolveReturns, n, below

\* What every step of resolving has in common.
LEMMA StepTypes ==
    ASSUME TypeInv, outcome = "run", UNCHANGED <<image, reading, seen, ldPaths>>,
           seeds' \subseteq seeds, stack' \in Seq(Frame), visited' \in SUBSET Paths,
           files' \in SUBSET Paths, unresolved' \in SUBSET (Paths \X Libs),
           abandoned' \in SUBSET Paths,
           outcome' = "run" \/ (outcome' \in {"done", "error"} /\ stack' = <<>>),
           \A f \in Frames(stack') :
              f.await => \/ Kept(f)
                         \/ f.next \in 1 .. Len(image.needed[f.elf]) /\ Found(f.elf, f.next) # NoPath
    PROVE  TypeInv'
<1>1. TypeOK'
  BY DEF TypeInv, TypeOK
<1>2. ASSUME NEW f \in Frames(stack'), f.await
      PROVE  f.next \in 1 .. Len(image.needed[f.elf]) /\ Found(f.elf, f.next) # NoPath
  BY <1>2 DEF Kept, TypeInv, AwaitOK
<1>3. AwaitOK'
  BY <1>2, FoundStays DEF AwaitOK
<1>4. QED
  BY <1>1, <1>3 DEF TypeInv

\* The call on top of the stack.
LEMMA TopType ==
    ASSUME TypeInv, stack # <<>>
    PROVE  /\ Top \in Frame /\ Top \in Frames(stack)
           /\ Top.elf \in Paths /\ Top.label \in Paths /\ Top.next \in Nat
           /\ Top.unresolved \in SUBSET (Paths \X Libs)
           /\ image.needed[Top.elf] \in Seq(Libs)
<1>1. Top \in Frame /\ Top \in Frames(stack)
  <2>1. stack \in Seq(Frame) /\ Len(stack) \in 1 .. Len(stack)
    BY DEF TypeInv, TypeOK
  <2>2. QED
    BY <2>1 DEF Top, Frames
<1>2. image \in Image
  BY DEF TypeInv, TypeOK
<1>3. QED
  BY <1>1, <1>2 DEF Frame, Image

\* Where the call on top of the stack stands after each step.
AtFirstLib == [Top EXCEPT !.next = 1]
Awaiting   == [Top EXCEPT !.await = TRUE]
PastLib    == [Top EXCEPT !.next = @ + 1, !.await = FALSE]
Missed     == [Top EXCEPT !.next = @ + 1,
                          !.unresolved = @ \cup {<<Top.elf, image.needed[Top.elf][Top.next]>>}]

LEMMA InterpEffect ==
    ASSUME TypeInv, ResolveInterp
    PROVE  /\ AtFirstLib \in Frame
           /\ \/ /\ ~HasInterp(Top.elf)
                 /\ stack' = WithTop(AtFirstLib)
                 /\ UNCHANGED <<files, from, visited, abandoned, outcome>>
              \/ /\ HasInterp(Top.elf)
                 /\ image.interp[Top.elf] \in Paths /\ Real[image.interp[Top.elf]] \in Paths
                 /\ AddInferred({image.interp[Top.elf]}, Top.label)
                 /\ CallEffect(WithTop(AtFirstLib), Real[image.interp[Top.elf]],
                               NewFrame(Real[image.interp[Top.elf]], image.interp[Top.elf], TRUE))
<1>1. outcome = "run" /\ stack # <<>>
  BY DEF ResolveInterp
<1>2. AtFirstLib \in Frame
  BY <1>1, TopType DEF AtFirstLib, Frame
<1>3. WithTop(AtFirstLib) \in Seq(Frame)
  BY <1>1, <1>2, Resumed DEF TypeInv, TypeOK
<1>4. ASSUME HasInterp(Top.elf)
      PROVE  image.interp[Top.elf] \in Paths /\ Real[image.interp[Top.elf]] \in Paths
  <2>1. image.interp[Top.elf] \in Paths \cup {NoPath}
    BY <1>1, TopType DEF TypeInv, TypeOK, Image
  <2>2. QED
    BY <1>4, <2>1, ElfAssumption DEF HasInterp
<1>5. abandoned \in SUBSET Paths
  BY DEF TypeInv, TypeOK
<1>6. QED
  BY <1>1, <1>2, <1>3, <1>4, <1>5, Called DEF ResolveInterp, AtFirstLib

LEMMA LibEffect ==
    ASSUME TypeInv, ResolveLib
    PROVE  /\ Top.next \in 1 .. Len(image.needed[Top.elf])
           /\ \/ /\ Found(Top.elf, Top.next) = NoPath
                 /\ Missed \in Frame
                 /\ stack' = WithTop(Missed)
                 /\ UNCHANGED <<files, from, visited, abandoned, outcome>>
              \/ /\ Found(Top.elf, Top.next) # NoPath
                 /\ Awaiting \in Frame
                 /\ Found(Top.elf, Top.next) \in Paths /\ Real[Found(Top.elf, Top.next)] \in Paths
                 /\ AddInferred({Found(Top.elf, Top.next)}, Top.label)
                 /\ CallEffect(WithTop(Awaiting), Real[Found(Top.elf, Top.next)],
                               NewFrame(Real[Found(Top.elf, Top.next)],
                                        Found(Top.elf, Top.next), FALSE))
<1> DEFINE path == Found(Top.elf, Top.next)
<1>1. /\ outcome = "run" /\ stack # <<>>
      /\ Top.next \in 1 .. Len(image.needed[Top.elf])
  BY DEF ResolveLib, AtLib
<1>2. Missed \in Frame
  <2>1. image.needed[Top.elf][Top.next] \in Libs
    BY <1>1, TopType
  <2> DEFINE U == Top.unresolved \cup {<<Top.elf, image.needed[Top.elf][Top.next]>>}
  <2>2. U \in SUBSET (Paths \X Libs)
    BY <1>1, <2>1, TopType
  <2>3. Missed = [Top EXCEPT !.next = Top.next + 1, !.unresolved = U]
    BY DEF Missed
  <2>4. Top \in Frame /\ Top.next + 1 \in Nat
    BY <1>1, TopType
  <2> HIDE DEF U
  <2>5. QED
    BY <2>2, <2>3, <2>4 DEF Frame
<1>3. Awaiting \in Frame
  BY <1>1, TopType DEF Awaiting, Frame
<1>4. WithTop(Awaiting) \in Seq(Frame)
  BY <1>1, <1>3, Resumed DEF TypeInv, TypeOK
<1>5. abandoned \in SUBSET Paths
  BY DEF TypeInv, TypeOK
<1>6. path # NoPath => path \in Paths /\ Real[path] \in Paths
  BY <1>1, TopType, FoundType DEF TypeInv
<1>7. \/ /\ path = NoPath
         /\ stack' = WithTop(Missed)
         /\ UNCHANGED <<files, from, visited, abandoned, outcome>>
      \/ /\ path # NoPath
         /\ AddInferred({path}, Top.label)
         /\ Call(WithTop(Awaiting), Real[path], path, FALSE)
  BY DEF ResolveLib, Missed, Awaiting
<1> HIDE DEF path
<1>8. CASE path = NoPath
  BY <1>1, <1>2, <1>7, <1>8 DEF path
<1>9. CASE path # NoPath
  <2>1. CallEffect(WithTop(Awaiting), Real[path], NewFrame(Real[path], path, FALSE))
    BY <1>1, <1>4, <1>5, <1>6, <1>7, <1>9, Called
  <2>2. QED
    BY <1>1, <1>3, <1>6, <1>7, <1>9, <2>1 DEF path
<1>10. QED
  BY <1>8, <1>9

LEMMA RealEffect ==
    ASSUME TypeInv, LibResolved
    PROVE  /\ Top.next \in 1 .. Len(image.needed[Top.elf])
           /\ PastLib \in Frame
           /\ stack' = WithTop(PastLib)
           /\ Found(Top.elf, Top.next) # NoPath
           /\ Real[Found(Top.elf, Top.next)] \in Paths
           /\ AddInferred({Real[Found(Top.elf, Top.next)]}, Top.label)
<1>1. /\ outcome = "run" /\ stack # <<>> /\ Top.await
      /\ Top.next \in 1 .. Len(image.needed[Top.elf])
  BY DEF LibResolved, AtLib
<1>2. PastLib \in Frame
  <2>1. Top \in Frame /\ Top.next + 1 \in Nat
    BY <1>1, TopType
  <2>2. QED
    BY <2>1 DEF PastLib, Frame
<1>3. Found(Top.elf, Top.next) # NoPath
  BY <1>1, TopType DEF TypeInv, AwaitOK
<1>4. Real[Found(Top.elf, Top.next)] \in Paths
  BY <1>1, <1>3, TopType, FoundType DEF TypeInv
<1>5. QED
  BY <1>1, <1>2, <1>3, <1>4 DEF LibResolved, PastLib

LEMMA ResolveTypes ==
    ASSUME TypeInv, Resolve
    PROVE  TypeInv'
<1>1. /\ outcome = "run" /\ stack # <<>> /\ stack \in Seq(Frame)
      /\ UNCHANGED <<image, reading, seen, ldPaths>> /\ seeds' \subseteq seeds
  BY DEF Resolve, ResolveInterp, ResolveLib, LibResolved, ResolveReturns, AtLib, confVars, TypeInv,
         TypeOK
<1>2. /\ visited \in SUBSET Paths /\ files \in SUBSET Paths /\ abandoned \in SUBSET Paths
      /\ unresolved \in SUBSET (Paths \X Libs)
  BY DEF TypeInv, TypeOK
<1>3. \A f \in Frames(stack) : Kept(f)
  BY DEF Kept
<1>4. CASE ResolveInterp
  <2>1. /\ AtFirstLib \in Frame
        /\ AtFirstLib.await = Top.await /\ AtFirstLib.elf = Top.elf /\ AtFirstLib.next = 1
        /\ ~Top.await
    <3>1. Top.next = 0
      BY <1>4 DEF ResolveInterp
    <3>2. ~Top.await
      BY <1>1, <3>1, TopType DEF TypeInv, AwaitOK
    <3>3. QED
      BY <1>1, <1>4, <3>2, TopType, InterpEffect DEF AtFirstLib, Frame
  <2>2. \A f \in Frames(WithTop(AtFirstLib)) : f.await => Kept(f)
    BY <1>1, <1>3, <2>1, Resumed
  <2>3. WithTop(AtFirstLib) \in Seq(Frame)
    BY <1>1, <2>1, Resumed
  <2>4. unresolved' = unresolved
    BY <1>4 DEF ResolveInterp
  <2>5. CASE stack' = WithTop(AtFirstLib) /\ UNCHANGED <<files, from, visited, abandoned, outcome>>
    BY <1>1, <1>2, <2>2, <2>3, <2>4, <2>5, StepTypes
  <2>6. ASSUME NEW p \in Paths, NEW real \in Paths, AddInferred({p}, Top.label),
               CallEffect(WithTop(AtFirstLib), real, NewFrame(real, p, TRUE))
        PROVE  TypeInv'
    <3>1. files' \in SUBSET Paths
      BY <1>2, <2>6 DEF AddInferred
    <3>2. \A f \in Frames(stack') : f.await => Kept(f)
      BY <2>2, <2>6 DEF CallEffect, NewFrame
    <3>3. QED
      BY <1>1, <1>2, <2>4, <2>6, <3>1, <3>2, StepTypes DEF CallEffect
  <2>7. QED
    BY <1>4, <2>5, <2>6, InterpEffect
<1>5. CASE ResolveLib
  <2> DEFINE path == Found(Top.elf, Top.next)
  <2>1. unresolved' = unresolved
    BY <1>5 DEF ResolveLib
  <2>2. CASE path = NoPath
    <3>1. /\ Missed \in Frame /\ ~Missed.await /\ stack' = WithTop(Missed)
          /\ UNCHANGED <<files, from, visited, abandoned, outcome>>
      BY <1>1, <1>5, <2>2, LibEffect, TopType DEF Missed, Frame, ResolveLib
    <3>2. stack' \in Seq(Frame) /\ \A f \in Frames(stack') : f.await => Kept(f)
      BY <1>1, <1>3, <3>1, Resumed
    <3>3. QED
      BY <1>1, <1>2, <2>1, <3>1, <3>2, StepTypes
  <2>3. CASE path # NoPath
    <3>1. /\ Awaiting \in Frame /\ path \in Paths /\ Real[path] \in Paths
          /\ AddInferred({path}, Top.label)
          /\ CallEffect(WithTop(Awaiting), Real[path], NewFrame(Real[path], path, FALSE))
          /\ Top.next \in 1 .. Len(image.needed[Top.elf])
      BY <1>5, <2>3, LibEffect
    <3>2. Awaiting.elf = Top.elf /\ Awaiting.next = Top.next
      BY <1>1, TopType DEF Awaiting, Frame
    <3>3. \A f \in Frames(stack') :
             \/ ~f.await
             \/ Kept(f)
             \/ f = Awaiting
      BY <1>1, <1>3, <3>1, Resumed DEF CallEffect, NewFrame
    <3>4. files' \in SUBSET Paths
      BY <1>2, <3>1 DEF AddInferred
    <3>5. QED
      BY <1>1, <1>2, <2>1, <2>3, <3>1, <3>2, <3>3, <3>4, StepTypes DEF CallEffect
  <2>4. QED
    BY <2>2, <2>3
<1>6. CASE LibResolved
  <2>1. /\ PastLib \in Frame /\ stack' = WithTop(PastLib) /\ ~PastLib.await
    BY <1>1, <1>6, RealEffect, TopType DEF PastLib, Frame
  <2>2. stack' \in Seq(Frame) /\ \A f \in Frames(stack') : f.await => Kept(f)
    BY <1>1, <1>3, <2>1, Resumed
  <2>3. files' \in SUBSET Paths /\ UNCHANGED <<visited, unresolved, abandoned, outcome>>
    BY <1>2, <1>6, RealEffect DEF AddInferred, LibResolved
  <2>4. QED
    BY <1>1, <1>2, <2>2, <2>3, StepTypes
<1>7. CASE ResolveReturns
  <2>1. UNCHANGED <<visited, files, abandoned, outcome>>
    BY <1>7 DEF ResolveReturns
  <2>2. /\ stack' \in Seq(Frame) /\ unresolved' \in SUBSET (Paths \X Libs)
        /\ \A f \in Frames(stack') : Kept(f)
    BY <1>1, <1>2, <1>7, Returned
  <2>3. QED
    BY <1>1, <1>2, <2>1, <2>2, StepTypes
<1>8. QED
  BY <1>4, <1>5, <1>6, <1>7 DEF Resolve

\* The call for an observed file, if it leads to an ELF file.
LEMMA SeedEffect ==
    ASSUME TypeInv, NEW p \in seeds, Seed(p)
    PROVE  /\ p \in Paths /\ p \in image.observed
           /\ outcome = "run" /\ stack = <<>> /\ Frames(stack) = {}
           /\ UNCHANGED <<image, reading, seen, ldPaths, files, from, unresolved>>
           /\ \/ UNCHANGED <<stack, visited, abandoned, outcome>>
              \/ /\ Real[p] \in Elfs /\ Real[p] \in Paths
                 /\ CallEffect(stack, Real[p], NewFrame(Real[p], p, FALSE))
<1>1. p \in Paths /\ p \in image.observed /\ abandoned \in SUBSET Paths /\ stack \in Seq(Frame)
  BY DEF TypeInv, TypeOK, Image
<1>2. /\ outcome = "run" /\ stack = <<>> /\ Frames(stack) = {}
      /\ UNCHANGED <<image, reading, seen, ldPaths, files, from, unresolved>>
  BY DEF Seed, confVars, resultVars, Frames
<1>3. ASSUME Real[p] \in Elfs, Call(stack, Real[p], p, FALSE)
      PROVE  Real[p] \in Paths /\ CallEffect(stack, Real[p], NewFrame(Real[p], p, FALSE))
  <2>1. Real[p] \in Paths
    BY <1>3, ElfAssumption
  <2>2. QED
    BY <1>1, <1>2, <1>3, <2>1, Called
<1>4. QED
  BY <1>1, <1>2, <1>3 DEF Seed

LEMMA TypeStep == TypeInv /\ [Next]_vars => TypeInv'
<1> SUFFICES ASSUME TypeInv, [Next]_vars PROVE TypeInv'
  OBVIOUS
<1>1. CASE ReadConf
  BY <1>1, ReadTypes
<1>2. CASE Resolve
  BY <1>2, ResolveTypes
<1>3. ASSUME NEW p \in seeds, Seed(p) PROVE TypeInv'
  <2>1. /\ visited \in SUBSET Paths /\ files \in SUBSET Paths /\ abandoned \in SUBSET Paths
        /\ unresolved \in SUBSET (Paths \X Libs) /\ stack \in Seq(Frame)
    BY DEF TypeInv, TypeOK
  <2>2. seeds' \subseteq seeds
    BY <1>3 DEF Seed
  <2>3. CASE UNCHANGED <<stack, visited, abandoned, outcome>>
    BY <1>3, <2>1, <2>2, <2>3, SeedEffect, StepTypes
  <2>4. CASE Real[p] \in Paths /\ CallEffect(stack, Real[p], NewFrame(Real[p], p, FALSE))
    <3>1. \A f \in Frames(stack') : ~f.await
      BY <1>3, <2>4, SeedEffect DEF CallEffect, NewFrame
    <3>2. QED
      BY <1>3, <2>1, <2>2, <2>4, <3>1, SeedEffect, StepTypes DEF CallEffect
  <2>5. QED
    BY <1>3, <2>3, <2>4, SeedEffect
<1>4. CASE Finish
  <2>1. /\ visited \in SUBSET Paths /\ files \in SUBSET Paths /\ abandoned \in SUBSET Paths
        /\ unresolved \in SUBSET (Paths \X Libs) /\ stack \in Seq(Frame)
    BY DEF TypeInv, TypeOK
  <2>2. /\ outcome = "run" /\ stack' = stack /\ stack = <<>> /\ outcome' = "done"
        /\ UNCHANGED <<image, reading, seen, ldPaths, seeds, visited, files, unresolved, abandoned>>
    BY <1>4 DEF Finish, confVars, resultVars
  <2>3. \A f \in Frames(stack') : f.await => Kept(f)
    BY <2>2 DEF Frames
  <2>4. QED
    BY <2>1, <2>2, <2>3, StepTypes
<1>5. CASE UNCHANGED vars
  <2>1. TypeOK'
    BY <1>5 DEF vars, confVars, resultVars, TypeInv, TypeOK
  <2>2. AwaitOK'
    BY <1>5, FoundStays DEF vars, confVars, resultVars, TypeInv, AwaitOK
  <2>3. QED
    BY <2>1, <2>2 DEF TypeInv
<1>6. QED
  BY <1>1, <1>2, <1>3, <1>4, <1>5 DEF Next

LEMMA TypeInvariant == Spec => []TypeInv
  BY TypeInit, TypeStep, PTL DEF Spec

\* Every variable keeps its type; the call stack is empty but while resolving, an
\* error included.
THEOREM TypeCorrect == Spec => []TypeOK
<1>1. TypeInv => TypeOK
  BY DEF TypeInv
<1>2. QED
  BY <1>1, TypeInvariant, PTL

-----------------------------------------------------------------------------
(***************************************************************************)
(* What resolve() has done.                                                *)
(***************************************************************************)

\* e's interpreter is in the manifest and has been visited.
InterpDone(e) ==
    HasInterp(e) => image.interp[e] \in files /\ Real[image.interp[e]] \in visited

\* The n-th library e needs is included, or reported unless something failed.
NeedDone(e, n) ==
    IF Loaded(e, n) # NoPath THEN Included(e, n)
    ELSE abandoned = {} => <<e, image.needed[e][n]>> \in Reported

\* An active call is for an ELF file visited, its label leads there, and what it
\* has passed is done; the library it awaits the call for has been visited.
FrameOK(f) ==
    /\ f.elf \in visited \cap Elfs
    /\ f.label \in files /\ Real[f.label] = f.elf
    /\ f.next >= 1 => InterpDone(f.elf)
    /\ \A n \in 1 .. Len(image.needed[f.elf]) : n < f.next => NeedDone(f.elf, n)
    /\ f.await => LET path == Found(f.elf, f.next)
                  IN  path \in files /\ Real[path] \in visited

\* Every ELF file visited is being resolved, has failed or is done with.
Settled(e) ==
    \/ \E f \in Frames(stack) : f.elf = e
    \/ e \in abandoned
    \/ InterpDone(e) /\ \A n \in 1 .. Len(image.needed[e]) : NeedDone(e, n)

DoneInv ==
    /\ \A f \in Frames(stack) : FrameOK(f)
    /\ \A e \in visited \cap Elfs : Settled(e)
    /\ image.observed \subseteq files
    /\ outcome = "conf" => visited = {} /\ files = image.observed /\ DOMAIN from = {}

\* What is done stays done.
Grown ==
    /\ UNCHANGED <<image, ldPaths>>
    /\ visited \subseteq visited' /\ files \subseteq files' /\ abandoned \subseteq abandoned'
    /\ abandoned' = {} => Reported \subseteq Reported'

LEMMA DoneStays ==
    ASSUME Grown
    PROVE  /\ \A e : InterpDone(e) => InterpDone(e)'
           /\ \A e, n : NeedDone(e, n) => NeedDone(e, n)'
           /\ \A f : FrameOK(f) => FrameOK(f)'
<1>1. /\ \A e, n : Found(e, n)' = Found(e, n) /\ Loaded(e, n)' = Loaded(e, n)
      /\ \A e : HasInterp(e)' = HasInterp(e)
  BY FoundStays DEF Grown
<1>2. \A e : InterpDone(e) => InterpDone(e)'
  BY <1>1 DEF InterpDone, Grown
<1>3. ASSUME NEW e, NEW n, NeedDone(e, n) PROVE NeedDone(e, n)'
  <2>1. Included(e, n) => Included(e, n)'
    BY <1>1 DEF Included, Grown
  <2>2. QED
    BY <1>1, <1>3, <2>1 DEF NeedDone, Grown
<1>4. ASSUME NEW f, FrameOK(f) PROVE FrameOK(f)'
  BY <1>1, <1>2, <1>3, <1>4 DEF FrameOK, Grown
<1>5. QED
  BY <1>2, <1>3, <1>4

LEMMA ReportedStays ==
    ASSUME unresolved \subseteq unresolved',
           \A g \in Frames(stack) :
              \/ g.unresolved \subseteq unresolved'
              \/ \E f \in Frames(stack') : g.unresolved \subseteq f.unresolved
    PROVE  Reported \subseteq Reported'
<1>1. \A i \in 1 .. Len(stack) : stack[i] \in Frames(stack)
  BY DEF Frames
<1>2. \A f \in Frames(stack') : f.unresolved \subseteq Reported'
  BY DEF Frames, Reported
<1>3. unresolved' \subseteq Reported'
  BY DEF Reported
<1>4. QED
  BY <1>1, <1>2, <1>3 DEF Reported

LEMMA KeptOK ==
    ASSUME DoneInv, NEW f, Kept(f)
    PROVE  FrameOK(f)
<1>1. PICK g \in Frames(stack) :
            f.elf = g.elf /\ f.label = g.label /\ f.next = g.next /\ f.await = g.await
  BY DEF Kept
<1>2. FrameOK(g)
  BY DEF DoneInv
<1>3. QED
  BY <1>1, <1>2 DEF FrameOK

LEMMA StepDone ==
    ASSUME DoneInv, Grown, outcome = "run", outcome' # "conf",
           \A f \in Frames(stack') : FrameOK(f)',
           \A f \in Frames(stack) : Settled(f.elf)',
           \A e \in (visited' \ visited) \cap Elfs : Settled(e)'
    PROVE  DoneInv'
<1>1. ASSUME NEW e \in visited' \cap Elfs PROVE Settled(e)'
  <2>1. CASE e \in visited
    <3>1. CASE e \in abandoned \/ \E f \in Frames(stack) : f.elf = e
      BY <3>1 DEF Settled, Grown
    <3>2. CASE InterpDone(e) /\ \A n \in 1 .. Len(image.needed[e]) : NeedDone(e, n)
      BY <3>2, DoneStays DEF Settled, Grown
    <3>3. QED
      BY <2>1, <3>1, <3>2 DEF DoneInv, Settled
  <2>2. QED
    BY <2>1
<1>2. image.observed' \subseteq files'
  BY DEF DoneInv, Grown
<1>3. QED
  BY <1>1, <1>2 DEF DoneInv

\* A call that has been made: what it enters is active, or has failed.
LEMMA CallGrown ==
    ASSUME TypeInv, DoneInv, outcome = "run", stack # <<>>, UNCHANGED <<image, ldPaths, unresolved>>,
           NEW g \in Frame, Top.unresolved \subseteq g.unresolved,
           NEW p, NEW real, NEW new, AddInferred({p}, Top.label),
           CallEffect(WithTop(g), real, new)
    PROVE  Grown /\ p \in files' /\ real \in visited'
<1>1. files \subseteq files' /\ p \in files'
  BY DEF AddInferred
<1>2. visited \subseteq visited' /\ real \in visited' /\ abandoned \subseteq abandoned'
  BY DEF CallEffect
<1>3. ASSUME abandoned' = {} PROVE Reported \subseteq Reported'
  <2>1. Frames(WithTop(g)) \subseteq Frames(stack')
    BY <1>3 DEF CallEffect
  <2>2. \A f \in Frames(stack) : \E h \in Frames(stack') : f.unresolved \subseteq h.unresolved
    BY <2>1, Resumed DEF TypeInv, TypeOK
  <2>3. QED
    BY <2>2, ReportedStays
<1>4. QED
  BY <1>1, <1>2, <1>3 DEF Grown

LEMMA CallDone ==
    ASSUME TypeInv, DoneInv, Grown, outcome = "run", stack # <<>>,
           NEW g \in Frame, g.elf = Top.elf, FrameOK(g)',
           NEW p \in files', NEW real, Real[p] = real, NEW b,
           CallEffect(WithTop(g), real, NewFrame(real, p, b))
    PROVE  DoneInv'
<1> DEFINE new == NewFrame(real, p, b)
<1>1. new.elf = real /\ new.label = p /\ new.next = 0 /\ new.await = FALSE
  BY DEF NewFrame
<1>2. real \in visited' /\ outcome' # "conf"
  BY DEF CallEffect
<1>3. real \in Elfs => FrameOK(new)'
  BY <1>1, <1>2 DEF FrameOK
<1> HIDE DEF new
<1>4. \A f \in Frames(stack') : f \in Frames(WithTop(g)) \/ (f = new /\ real \in Elfs)
  BY DEF CallEffect, new
<1>5. ASSUME NEW f \in Frames(stack') PROVE FrameOK(f)'
  <2>1. f \in Frames(stack) \/ f = g \/ (f = new /\ real \in Elfs)
    BY <1>4, Resumed DEF TypeInv, TypeOK
  <2>2. f \in Frames(stack) => FrameOK(f)'
    BY DoneStays DEF DoneInv
  <2>3. QED
    BY <1>3, <2>1, <2>2
<1>6. ASSUME NEW f \in Frames(stack) PROVE Settled(f.elf)'
  <2>1. PICK h \in Frames(WithTop(g)) : h.elf = f.elf
    BY Resumed DEF TypeInv, TypeOK
  <2>2. h.elf \in abandoned' \/ h \in Frames(stack')
    BY DEF CallEffect
  <2>3. QED
    BY <2>1, <2>2 DEF Settled
<1>7. ASSUME NEW e \in (visited' \ visited) \cap Elfs PROVE Settled(e)'
  <2>1. e = real
    BY DEF CallEffect
  <2>2. real \in abandoned' \/ new \in Frames(stack')
    BY <2>1 DEF CallEffect, new
  <2>3. QED
    BY <1>1, <2>1, <2>2 DEF Settled
<1>8. QED
  BY <1>2, <1>5, <1>6, <1>7, StepDone

\* The call on top goes on without another call.
LEMMA NextDone ==
    ASSUME TypeInv, DoneInv, Grown, outcome = "run", outcome' = "run", stack # <<>>,
           UNCHANGED visited, NEW g \in Frame, g.elf = Top.elf, FrameOK(g)', stack' = WithTop(g)
    PROVE  DoneInv'
<1>1. ASSUME NEW f \in Frames(stack') PROVE FrameOK(f)'
  <2>1. f \in Frames(stack) \/ f = g
    BY Resumed DEF TypeInv, TypeOK
  <2>2. f \in Frames(stack) => FrameOK(f)'
    BY DoneStays DEF DoneInv
  <2>3. QED
    BY <2>1, <2>2
<1>2. ASSUME NEW f \in Frames(stack) PROVE Settled(f.elf)'
  BY Resumed DEF TypeInv, TypeOK, Settled
<1>3. QED
  BY <1>1, <1>2, StepDone

\* What can be reported of the call on top stays reported as it goes on.
LEMMA NextReported ==
    ASSUME TypeInv, stack # <<>>, UNCHANGED unresolved,
           NEW g \in Frame, Top.unresolved \subseteq g.unresolved, stack' = WithTop(g)
    PROVE  Reported \subseteq Reported' /\ g.unresolved \subseteq Reported'
<1>1. \A f \in Frames(stack) : \E h \in Frames(stack') : f.unresolved \subseteq h.unresolved
  BY Resumed DEF TypeInv, TypeOK
<1>2. g \in Frames(stack')
  BY Resumed DEF TypeInv, TypeOK
<1>3. Reported \subseteq Reported'
  BY <1>1, ReportedStays
<1>4. g.unresolved \subseteq Reported'
  BY <1>2 DEF Frames, Reported
<1>5. QED
  BY <1>3, <1>4

LEMMA InterpDoneStep ==
    ASSUME TypeInv, DoneInv, ResolveInterp
    PROVE  DoneInv'
<1>1. /\ outcome = "run" /\ stack # <<>> /\ Top.next = 0
      /\ UNCHANGED <<image, ldPaths, unresolved>>
  BY DEF ResolveInterp, confVars
<1>2. PICK top, g, p : top = Top /\ g = AtFirstLib /\ p = image.interp[top.elf]
  OBVIOUS
<1>3. top \in Frame /\ FrameOK(top) /\ ~top.await
  BY <1>1, <1>2, TopType DEF DoneInv, TypeInv, AwaitOK
<1>4. /\ g \in Frame /\ g.elf = top.elf /\ g.label = top.label /\ g.next = 1 /\ g.await = FALSE
      /\ g.unresolved = top.unresolved
  BY <1>2, <1>3, InterpEffect DEF AtFirstLib, Frame
<1>5. ASSUME Grown, InterpDone(top.elf)' PROVE FrameOK(g)'
  <2>1. g.elf \in visited' \cap Elfs /\ g.label \in files' /\ Real[g.label] = g.elf
    BY <1>3, <1>4, <1>5 DEF FrameOK, Grown
  <2>2. \A n \in 1 .. Len(image'.needed[g.elf]) : ~(n < g.next)
    BY <1>4
  <2>3. QED
    BY <1>4, <1>5, <2>1, <2>2 DEF FrameOK
<1>6. CASE /\ ~HasInterp(top.elf)
           /\ stack' = WithTop(g)
           /\ UNCHANGED <<files, from, visited, abandoned, outcome>>
  <2>1. Grown
    BY <1>1, <1>2, <1>4, <1>6, NextReported DEF Grown
  <2>2. InterpDone(top.elf)'
    BY <1>1, <1>6, FoundStays DEF InterpDone
  <2>3. QED
    BY <1>1, <1>2, <1>4, <1>5, <1>6, <2>1, <2>2, NextDone
<1>7. CASE /\ HasInterp(top.elf)
           /\ AddInferred({p}, Top.label)
           /\ CallEffect(WithTop(g), Real[p], NewFrame(Real[p], p, TRUE))
  <2>1. Grown /\ p \in files' /\ Real[p] \in visited'
    BY <1>1, <1>2, <1>4, <1>7, CallGrown
  <2>2. InterpDone(top.elf)'
    BY <1>1, <1>2, <2>1 DEF InterpDone
  <2>3. QED
    BY <1>1, <1>2, <1>4, <1>5, <1>7, <2>1, <2>2, CallDone
<1>8. QED
  BY <1>2, <1>6, <1>7, InterpEffect

LEMMA LibDoneStep ==
    ASSUME TypeInv, DoneInv, ResolveLib
    PROVE  DoneInv'
<1>1. /\ outcome = "run" /\ stack # <<>> /\ ~Top.await
      /\ UNCHANGED <<image, ldPaths, unresolved>>
  BY DEF ResolveLib, AtLib, confVars
<1>2. PICK top, e, n, p : top = Top /\ e = top.elf /\ n = top.next /\ p = Found(e, n)
  OBVIOUS
<1>3. top \in Frame /\ FrameOK(top) /\ n \in 1 .. Len(image.needed[e]) /\ ~top.await
  BY <1>1, <1>2, TopType, LibEffect DEF DoneInv
<1>4. p = Loaded(e, n) /\ Loaded(e, n)' = p /\ Found(e, n)' = p
  BY <1>1, <1>2, FoundStays
<1>5. ASSUME NEW g \in Frame, Grown, g.elf = e, g.label = top.label,
             \/ g.next = n /\ (g.await => p \in files' /\ Real[p] \in visited')
             \/ g.next = n + 1 /\ ~g.await /\ NeedDone(e, n)'
      PROVE  FrameOK(g)'
  <2>1. g.elf \in visited' \cap Elfs /\ g.label \in files' /\ Real[g.label] = g.elf
    BY <1>2, <1>3, <1>5 DEF FrameOK, Grown
  <2>2. InterpDone(e)'
    BY <1>2, <1>3, <1>5, DoneStays DEF FrameOK
  <2>3. ASSUME NEW m \in 1 .. Len(image.needed[e]), m < g.next
        PROVE  NeedDone(e, m)'
    <3>1. CASE m < n
      BY <1>2, <1>3, <1>5, <3>1, DoneStays DEF FrameOK
    <3>2. CASE ~(m < n)
      <4>1. m = n /\ g.next # n
        BY <1>3, <1>5, <2>3, <3>2
      <4>2. QED
        BY <1>5, <4>1
    <3>3. QED
      BY <3>1, <3>2
  <2>4. g.await => /\ Found(g.elf, g.next)' = p
                   /\ p \in files' /\ Real[p] \in visited'
    BY <1>4, <1>5
  <2>5. image' = image
    BY <1>1
  <2>6. QED
    BY <1>5, <2>1, <2>2, <2>3, <2>4, <2>5 DEF FrameOK
<1>6. CASE p = NoPath
  <2>1. PICK g \in Frame :
           /\ g = Missed
           /\ stack' = WithTop(g)
           /\ UNCHANGED <<files, from, visited, abandoned, outcome>>
    BY <1>2, <1>6, LibEffect
  <2>2. /\ g.elf = e /\ g.label = top.label /\ g.next = n + 1 /\ ~g.await
        /\ g.unresolved = top.unresolved \cup {<<e, image.needed[e][n]>>}
    BY <1>2, <1>3, <2>1 DEF Missed, Frame
  <2>3. Reported \subseteq Reported' /\ g.unresolved \subseteq Reported'
    BY <1>1, <1>2, <2>1, <2>2, NextReported
  <2>4. Grown
    BY <1>1, <2>1, <2>3 DEF Grown
  <2>5. NeedDone(e, n)'
    BY <1>1, <1>4, <1>6, <2>2, <2>3 DEF NeedDone
  <2>6. FrameOK(g)'
    BY <1>5, <2>2, <2>4, <2>5
  <2>7. QED
    BY <1>1, <1>2, <2>1, <2>2, <2>4, <2>6, NextDone
<1>7. CASE p # NoPath
  <2>1. PICK g \in Frame :
           /\ g = Awaiting
           /\ AddInferred({p}, Top.label)
           /\ CallEffect(WithTop(g), Real[p], NewFrame(Real[p], p, FALSE))
    BY <1>2, <1>7, LibEffect
  <2>2. /\ g.elf = e /\ g.label = top.label /\ g.next = n /\ g.unresolved = top.unresolved
    BY <1>2, <1>3, <2>1 DEF Awaiting, Frame
  <2>3. Grown /\ p \in files' /\ Real[p] \in visited'
    BY <1>1, <1>2, <2>1, <2>2, CallGrown
  <2>4. FrameOK(g)'
    BY <1>5, <2>2, <2>3
  <2>5. QED
    BY <1>1, <1>2, <2>1, <2>2, <2>3, <2>4, CallDone
<1>8. QED
  BY <1>6, <1>7

LEMMA RealDoneStep ==
    ASSUME TypeInv, DoneInv, LibResolved
    PROVE  DoneInv'
<1>1. /\ outcome = "run" /\ outcome' = "run" /\ stack # <<>> /\ Top.await
      /\ UNCHANGED <<image, ldPaths, visited, unresolved, abandoned>>
  BY DEF LibResolved, AtLib, confVars
<1>2. PICK top, e, n, p : top = Top /\ e = top.elf /\ n = top.next /\ p = Found(e, n)
  OBVIOUS
<1>3. PICK g \in Frame : g = PastLib /\ stack' = WithTop(g)
  BY RealEffect
<1>4. /\ top \in Frame /\ FrameOK(top) /\ n \in 1 .. Len(image.needed[e]) /\ p # NoPath
      /\ p \in files /\ Real[p] \in visited
  BY <1>1, <1>2, TopType, RealEffect DEF DoneInv, FrameOK
<1>5. /\ g.elf = e /\ g.label = top.label /\ g.next = n + 1 /\ ~g.await
      /\ g.unresolved = top.unresolved
  BY <1>2, <1>3, <1>4 DEF PastLib, Frame
<1>6. files' = files \cup {Real[p]}
  BY <1>2, RealEffect DEF AddInferred
<1>7. Grown
  BY <1>1, <1>2, <1>3, <1>5, <1>6, NextReported DEF Grown
<1>8. NeedDone(e, n)'
  <2>1. Loaded(e, n)' = p
    BY <1>1, <1>2, FoundStays
  <2>2. QED
    BY <1>1, <1>4, <1>6, <2>1 DEF NeedDone, Included
<1>9. FrameOK(g)'
  <2>1. g.elf \in visited' \cap Elfs /\ g.label \in files' /\ Real[g.label] = g.elf
    BY <1>2, <1>4, <1>5, <1>7 DEF FrameOK, Grown
  <2>2. InterpDone(e)'
    BY <1>2, <1>4, <1>7, DoneStays DEF FrameOK
  <2>3. ASSUME NEW m \in 1 .. Len(image.needed[e]), m < g.next
        PROVE  NeedDone(e, m)'
    <3>1. CASE m < n
      BY <1>2, <1>4, <1>7, <3>1, DoneStays DEF FrameOK
    <3>2. CASE ~(m < n)
      <4>1. m = n
        BY <1>4, <1>5, <2>3, <3>2
      <4>2. QED
        BY <1>8, <4>1
    <3>3. QED
      BY <3>1, <3>2
  <2>4. QED
    BY <1>1, <1>5, <2>1, <2>2, <2>3 DEF FrameOK
<1>10. QED
  BY <1>1, <1>2, <1>3, <1>5, <1>7, <1>9, NextDone

LEMMA ReturnDoneStep ==
    ASSUME TypeInv, DoneInv, ResolveReturns
    PROVE  DoneInv'
<1>1. /\ outcome = "run" /\ outcome' = "run" /\ stack # <<>>
      /\ UNCHANGED <<image, ldPaths, visited, files, abandoned>>
      /\ Top.next = Len(image.needed[Top.elf]) + 1
      /\ stack \in Seq(Frame) /\ unresolved \in SUBSET (Paths \X Libs)
  BY DEF ResolveReturns, confVars, TypeInv, TypeOK
<1>2. PICK top, e : top = Top /\ e = top.elf
  OBVIOUS
<1>3. /\ top \in Frame /\ FrameOK(top) /\ Len(image.needed[e]) \in Nat
      /\ top.next = Len(image.needed[e]) + 1
  BY <1>1, <1>2, TopType DEF DoneInv
<1>4. /\ \A f \in Frames(stack') : Kept(f)
      /\ \A f \in Frames(stack) :
            \/ f = top
            \/ \E h \in Frames(stack') : h.elf = f.elf /\ f.unresolved \subseteq h.unresolved
      /\ unresolved \subseteq unresolved'
      /\ \/ top.unresolved \subseteq unresolved'
         \/ \E h \in Frames(stack') : top.unresolved \subseteq h.unresolved
  BY <1>1, <1>2, Returned
<1>5. Reported \subseteq Reported'
  BY <1>4, ReportedStays
<1>6. Grown
  BY <1>1, <1>5 DEF Grown
<1>7. \A f \in Frames(stack') : FrameOK(f)'
  BY <1>4, <1>6, KeptOK, DoneStays
<1>8. InterpDone(e)' /\ \A n \in 1 .. Len(image.needed[e]) : NeedDone(e, n)'
  <2>1. InterpDone(e) /\ \A n \in 1 .. Len(image.needed[e]) : NeedDone(e, n)
    BY <1>2, <1>3 DEF FrameOK
  <2>2. QED
    BY <1>6, <2>1, DoneStays
<1>9. ASSUME NEW f \in Frames(stack) PROVE Settled(f.elf)'
  <2>1. CASE f = top
    BY <1>1, <1>2, <1>8, <2>1 DEF Settled
  <2>2. CASE f # top
    BY <1>4, <2>2 DEF Settled
  <2>3. QED
    BY <2>1, <2>2
<1>10. QED
  BY <1>1, <1>6, <1>7, <1>9, StepDone

LEMMA SeedDoneStep ==
    ASSUME TypeInv, DoneInv, NEW p \in seeds, Seed(p)
    PROVE  DoneInv'
<1>1. /\ outcome = "run" /\ stack = <<>> /\ Frames(stack) = {} /\ p \in files
      /\ UNCHANGED <<image, ldPaths, files, from, unresolved>>
  BY SeedEffect DEF DoneInv
<1>2. Reported \subseteq Reported'
  BY <1>1, ReportedStays
<1>3. CASE UNCHANGED <<stack, visited, abandoned, outcome>>
  <2>1. Grown
    BY <1>1, <1>2, <1>3 DEF Grown
  <2>2. QED
    BY <1>1, <1>3, <2>1, StepDone
<1>4. CASE /\ Real[p] \in Elfs /\ Real[p] \in Paths
           /\ CallEffect(stack, Real[p], NewFrame(Real[p], p, FALSE))
  <2>1. Grown /\ outcome' # "conf" /\ visited' = visited \cup {Real[p]}
    BY <1>1, <1>2, <1>4 DEF Grown, CallEffect
  <2>2. PICK new : /\ new = NewFrame(Real[p], p, FALSE)
                   /\ new.elf = Real[p] /\ new.label = p /\ new.next = 0 /\ new.await = FALSE
    <3>1. LET new == NewFrame(Real[p], p, FALSE)
          IN  new.elf = Real[p] /\ new.label = p /\ new.next = 0 /\ new.await = FALSE
      BY DEF NewFrame
    <3>2. QED
      BY <3>1
  <2>3. FrameOK(new)'
    <3>1. new.elf = Real[p] /\ new.label = p /\ new.next = 0 /\ new.await = FALSE
      BY <2>2
    <3>2. new.elf \in visited' \cap Elfs /\ new.label \in files'
      BY <1>1, <1>4, <2>1, <3>1
    <3>3. QED
      BY <3>1, <3>2 DEF FrameOK
  <2>4. \A f \in Frames(stack') : f = new
    BY <1>1, <1>4, <2>2 DEF CallEffect
  <2>5. ASSUME NEW e \in (visited' \ visited) \cap Elfs PROVE Settled(e)'
    <3>1. e = Real[p] /\ (e \in abandoned' \/ new \in Frames(stack'))
      BY <1>4, <2>1, <2>2 DEF CallEffect
    <3>2. QED
      BY <2>2, <3>1 DEF Settled
  <2>6. QED
    BY <1>1, <2>1, <2>3, <2>4, <2>5, StepDone
<1>5. QED
  BY <1>3, <1>4, SeedEffect

LEMMA DoneInit == Init => DoneInv
  BY DEF Init, DoneInv, Frames

LEMMA DoneStep == TypeInv /\ DoneInv /\ [Next]_vars => DoneInv'
<1> SUFFICES ASSUME TypeInv, DoneInv, [Next]_vars PROVE DoneInv'
  OBVIOUS
<1>1. CASE ReadConf
  <2>1. /\ stack = <<>> /\ stack' = <<>> /\ visited = {} /\ files = image.observed
        /\ DOMAIN from = {}
        /\ UNCHANGED <<image, visited, files, from>>
    BY <1>1 DEF ReadConf, ReadDirectory, ReadInclude, EndOfConf, StartResolving, resultVars, DoneInv,
       TypeInv, TypeOK
  <2>2. QED
    BY <2>1 DEF DoneInv, Frames
<1>2. ASSUME NEW p \in seeds, Seed(p) PROVE DoneInv'
  BY <1>2, SeedDoneStep
<1>3. CASE Resolve
  BY <1>3, InterpDoneStep, LibDoneStep, RealDoneStep, ReturnDoneStep DEF Resolve
<1>4. CASE Finish \/ UNCHANGED vars
  <2>1. /\ UNCHANGED <<image, ldPaths, stack, visited, files, from, unresolved, abandoned>>
        /\ outcome' = "conf" => outcome = "conf"
    BY <1>4 DEF Finish, vars, confVars, resultVars
  <2>2. Grown
    BY <2>1 DEF Grown, Reported
  <2>3. /\ \A f \in Frames(stack') : FrameOK(f)'
        /\ image.observed' \subseteq files'
    BY <2>1, <2>2, DoneStays DEF DoneInv
  <2>4. ASSUME NEW e \in visited' \cap Elfs PROVE Settled(e)'
    BY <2>1, <2>2, DoneStays DEF DoneInv, Settled
  <2>5. QED
    BY <2>1, <2>3, <2>4 DEF DoneInv
<1>5. QED
  BY <1>1, <1>2, <1>3, <1>4 DEF Next

LEMMA DoneInvariant == Spec => [](TypeInv /\ DoneInv)
<1>1. TypeInv /\ DoneInv /\ [Next]_vars => DoneInv'
  BY DoneStep
<1>2. QED
  BY <1>1, DoneInit, TypeInvariant, PTL DEF Spec

\* What the properties say of a visited ELF file that is not active.
LEMMA SettledDone ==
    ASSUME DoneInv, NEW e \in visited \cap Elfs, ~Active(e), e \notin abandoned
    PROVE  InterpDone(e) /\ \A n \in 1 .. Len(image.needed[e]) : NeedDone(e, n)
<1>1. ~ \E f \in Frames(stack) : f.elf = e
  BY DEF Active, Frames
<1>2. QED
  BY <1>1 DEF DoneInv, Settled

\* EveryNeedAccounted: an ELF file that resolve() is done with has every library
\* it needs in the manifest, under the name it is found by and its real location,
\* itself resolved, or reported as missing; for any images, cycles and failures.
THEOREM EveryNeedAccountedHolds == Spec => []EveryNeedAccounted
<1>1. DoneInv => EveryNeedAccounted
  BY SettledDone DEF EveryNeedAccounted, NeedDone
<1>2. QED
  BY <1>1, DoneInvariant, PTL

\* InterpreterIncluded: its program interpreter too.
THEOREM InterpreterIncludedHolds == Spec => []InterpreterIncluded
<1>1. DoneInv => InterpreterIncluded
  BY SettledDone DEF InterpreterIncluded, InterpDone
<1>2. QED
  BY <1>1, DoneInvariant, PTL

-----------------------------------------------------------------------------
(***************************************************************************)
(* Nothing but what is needed, and the audit trail.                        *)
(***************************************************************************)

LEMMA NamesStay ==
    ASSUME UNCHANGED <<image, ldPaths>>, NEW e
    PROVE  /\ LibNames(e)' = LibNames(e)
           /\ InterpNames(e)' = InterpNames(e)
           /\ DependsOn(e)' = DependsOn(e)
<1>1. LibNames(e)' = LibNames(e)
  <2>1. \A n : Loaded(e, n)' = Loaded(e, n)
    BY FoundStays
  <2>2. QED
    BY <2>1 DEF LibNames
<1>2. InterpNames(e)' = InterpNames(e)
  BY FoundStays DEF InterpNames
<1>3. QED
  BY <1>1, <1>2 DEF DependsOn

\* The call on top is for an ELF file visited, which its label leads to.
LEMMA TopDone ==
    ASSUME TypeInv, DoneInv, stack # <<>>
    PROVE  /\ Top.elf \in visited \cap Elfs
           /\ Top.label \in files /\ Real[Top.label] = Top.elf
  BY TopType DEF DoneInv, FrameOK

\* A library found is one of the names the file on top reaches its needs by.
LEMMA FoundIsName ==
    ASSUME TypeInv, stack # <<>>, Top.next \in 1 .. Len(image.needed[Top.elf]),
           Found(Top.elf, Top.next) # NoPath
    PROVE  /\ Found(Top.elf, Top.next) \in LibNames(Top.elf)
           /\ Real[Found(Top.elf, Top.next)] \in DependsOn(Top.elf)
<1>1. Found(Top.elf, Top.next) = Loaded(Top.elf, Top.next)
  BY DEF Found, Loaded, SearchPaths
<1>2. Found(Top.elf, Top.next) \in LibNames(Top.elf)
  BY <1>1 DEF LibNames
<1>3. QED
  BY <1>2 DEF DependsOn

\* What comes to be visited was observed, or a file visited depends on it.
LEMMA VisitsNeeded ==
    ASSUME TypeInv, DoneInv, [Next]_vars, NEW x \in visited' \ visited
    PROVE  /\ outcome = "run" /\ UNCHANGED <<image, ldPaths>>
           /\ \/ \E p \in image.observed : x = Real[p]
              \/ \E e \in visited \cap Elfs : x \in DependsOn(e)
<1>1. CASE ResolveInterp
  <2>1. stack # <<>> /\ outcome = "run" /\ UNCHANGED <<image, ldPaths>>
    BY <1>1 DEF ResolveInterp, confVars
  <2>2. HasInterp(Top.elf) /\ x = Real[image.interp[Top.elf]]
    BY <1>1, InterpEffect DEF CallEffect
  <2>3. x \in DependsOn(Top.elf)
    BY <2>2 DEF DependsOn, InterpNames
  <2>4. QED
    BY <2>1, <2>3, TopDone
<1>2. CASE ResolveLib
  <2>1. stack # <<>> /\ outcome = "run" /\ UNCHANGED <<image, ldPaths>>
    BY <1>2 DEF ResolveLib, AtLib, confVars
  <2>2. /\ Top.next \in 1 .. Len(image.needed[Top.elf]) /\ Found(Top.elf, Top.next) # NoPath
        /\ x = Real[Found(Top.elf, Top.next)]
    BY <1>2, LibEffect DEF CallEffect
  <2>3. QED
    BY <2>1, <2>2, TopDone, FoundIsName
<1>3. ASSUME NEW p \in seeds, Seed(p)
      PROVE  outcome = "run" /\ UNCHANGED <<image, ldPaths>> /\ \E q \in image.observed : x = Real[q]
  BY <1>3, SeedEffect DEF CallEffect
<1>4. CASE UNCHANGED visited
  BY <1>4
<1>5. QED
  BY <1>1, <1>2, <1>3, <1>4 DEF Next, ReadConf, ReadDirectory, ReadInclude, EndOfConf, StartResolving,
     Resolve, LibResolved, ResolveReturns, Finish, vars, confVars, resultVars

\* OnlyNeeded: nothing is added that the observed files do not need; whatever the
\* order of seeds and calls, resolve() stays inside every set of ELF files that
\* holds those observed and is closed under dependency.
THEOREM OnlyNeededHolds == Spec => []OnlyNeeded
<1>1. Init => OnlyNeeded
  BY DEF Init, OnlyNeeded
<1>2. TypeInv /\ DoneInv /\ OnlyNeeded /\ [Next]_vars => OnlyNeeded'
  <2> SUFFICES ASSUME TypeInv, DoneInv, OnlyNeeded, [Next]_vars, outcome' # "conf",
                      NEW S \in SUBSET Elfs, ({Real[p] : p \in image.observed} \cap Elfs \subseteq S)',
                      Closed(S)', NEW x \in visited' \cap Elfs
               PROVE  x \in S
    BY DEF OnlyNeeded
  <2>1. CASE x \in visited
    <3>1. outcome # "conf"
      BY <2>1 DEF DoneInv
    <3>2. UNCHANGED <<image, ldPaths>>
      BY <3>1 DEF Next, ReadConf, ReadDirectory, ReadInclude, EndOfConf, StartResolving, Resolve,
         ResolveInterp, ResolveLib, LibResolved, ResolveReturns, Seed, Finish, vars, confVars
    <3>3. Closed(S) /\ {Real[p] : p \in image.observed} \cap Elfs \subseteq S
      BY <3>2, NamesStay DEF Closed
    <3>4. QED
      BY <2>1, <3>1, <3>3 DEF OnlyNeeded
  <2>2. CASE x \notin visited
    <3>1. /\ outcome = "run" /\ UNCHANGED <<image, ldPaths>>
          /\ \/ \E p \in image.observed : x = Real[p]
             \/ \E e \in visited \cap Elfs : x \in DependsOn(e)
      BY <2>2, VisitsNeeded
    <3>2. Closed(S) /\ {Real[p] : p \in image.observed} \cap Elfs \subseteq S
      BY <3>1, NamesStay DEF Closed
    <3>3. visited \cap Elfs \subseteq S
      BY <3>1, <3>2 DEF OnlyNeeded
    <3>4. QED
      BY <3>1, <3>2, <3>3 DEF Closed
  <2>3. QED
    BY <2>1, <2>2
<1>3. QED
  BY <1>1, <1>2, DoneInvariant, PTL DEF Spec

\* Only resolve() adds to the manifest, what the file it is called for needs and
\* under the path it was called by.
LEMMA AddsNeeded ==
    ASSUME TypeInv, DoneInv, [Next]_vars
    PROVE  \/ UNCHANGED <<files, from>>
           \/ /\ outcome = "run" /\ UNCHANGED <<image, ldPaths>> /\ stack # <<>>
              /\ \E q \in LibNames(Top.elf) \cup InterpNames(Top.elf) \cup DependsOn(Top.elf) :
                    AddInferred({q}, Top.label)
<1> DEFINE Goal == \/ UNCHANGED <<files, from>>
                   \/ /\ outcome = "run" /\ UNCHANGED <<image, ldPaths>> /\ stack # <<>>
                      /\ \E q \in LibNames(Top.elf) \cup InterpNames(Top.elf) \cup DependsOn(Top.elf) :
                            AddInferred({q}, Top.label)
<1>1. CASE ResolveInterp
  <2>1. stack # <<>> /\ outcome = "run" /\ UNCHANGED <<image, ldPaths>>
    BY <1>1 DEF ResolveInterp, confVars
  <2>2. HasInterp(Top.elf) => image.interp[Top.elf] \in InterpNames(Top.elf)
    BY DEF InterpNames
  <2>3. QED
    BY <1>1, <2>1, <2>2, InterpEffect
<1>2. CASE ResolveLib
  <2>1. stack # <<>> /\ outcome = "run" /\ UNCHANGED <<image, ldPaths>>
    BY <1>2 DEF ResolveLib, AtLib, confVars
  <2>2. QED
    BY <1>2, <2>1, LibEffect, FoundIsName
<1>3. CASE LibResolved
  <2>1. stack # <<>> /\ outcome = "run" /\ UNCHANGED <<image, ldPaths>>
    BY <1>3 DEF LibResolved, AtLib, confVars
  <2>2. QED
    BY <1>3, <2>1, RealEffect, FoundIsName
<1>4. ASSUME NEW p \in seeds, Seed(p) PROVE Goal
  BY <1>4, SeedEffect
<1>5. QED
  BY <1>1, <1>2, <1>3, <1>4 DEF Next, ReadConf, ReadDirectory, ReadInclude, EndOfConf, StartResolving,
     Resolve, ResolveReturns, Finish, vars, confVars, resultVars

\* AuditTrail: InferredFrom names, for each path added and for no other, a path
\* of the manifest that leads to an ELF file which needs it.
THEOREM AuditTrailHolds == Spec => []AuditTrail
<1>1. Init => AuditTrail
  BY DEF Init, AuditTrail
<1>2. TypeInv /\ DoneInv /\ AuditTrail /\ [Next]_vars => AuditTrail'
  <2> SUFFICES ASSUME TypeInv, DoneInv, AuditTrail, [Next]_vars PROVE AuditTrail'
    OBVIOUS
  <2>1. image' = image /\ visited \subseteq visited'
    <3>1. ASSUME NEW p \in seeds, Seed(p) PROVE <2>1
      BY <3>1, SeedEffect DEF CallEffect
    <3>2. CASE Resolve
      BY <3>2, InterpEffect, LibEffect DEF CallEffect, Resolve, ResolveInterp, ResolveLib,
         LibResolved, ResolveReturns
    <3>3. QED
      BY <3>1, <3>2 DEF Next, ReadConf, ReadDirectory, ReadInclude, EndOfConf, StartResolving,
         Finish, vars
  <2> DEFINE Needs(e) == LibNames(e) \cup InterpNames(e) \cup DependsOn(e)
  <2>2. CASE UNCHANGED <<files, from>>
    <3>1. DOMAIN from' = files' \ image'.observed
      BY <2>1, <2>2 DEF AuditTrail
    <3>2. ASSUME NEW p \in DOMAIN from
          PROVE  /\ from[p] \in files /\ Real[from[p]] \in visited \cap Elfs
                 /\ p \in Needs(Real[from[p]])'
      <4>1. outcome # "conf"
        BY <3>2 DEF DoneInv
      <4>2. UNCHANGED <<image, ldPaths>>
        BY <4>1 DEF Next, ReadConf, ReadDirectory, ReadInclude, EndOfConf, StartResolving, Resolve,
           ResolveInterp, ResolveLib, LibResolved, ResolveReturns, Seed, Finish, vars, confVars
      <4>3. QED
        BY <2>2, <3>2, <4>2, NamesStay DEF AuditTrail
    <3>3. QED
      BY <2>1, <2>2, <3>1, <3>2 DEF AuditTrail
  <2>3. CASE /\ outcome = "run" /\ UNCHANGED <<image, ldPaths>> /\ stack # <<>>
             /\ \E q \in Needs(Top.elf) : AddInferred({q}, Top.label)
    <3>1. PICK q, top : q \in Needs(top.elf) /\ top = Top /\ AddInferred({q}, top.label)
      BY <2>3
    <3>2. top.label \in files /\ Real[top.label] = top.elf /\ top.elf \in visited \cap Elfs
      BY <2>3, <3>1, TopDone
    <3>3. /\ files' = files \cup {q}
          /\ DOMAIN from' = DOMAIN from \cup ({q} \ files)
          /\ \A p \in DOMAIN from' : from'[p] = IF p \in {q} \ files THEN top.label ELSE from[p]
      BY <3>1 DEF AddInferred
    <3>4. DOMAIN from' = files' \ image'.observed
      BY <2>1, <3>3 DEF AuditTrail, DoneInv
    <3>5. ASSUME NEW p \in DOMAIN from'
          PROVE  /\ from'[p] \in files' /\ Real[from'[p]] \in visited' \cap Elfs
                 /\ p \in Needs(Real[from'[p]])
      BY <2>1, <3>1, <3>2, <3>3, <3>5 DEF AuditTrail
    <3>6. \A e : Needs(e)' = Needs(e)
      BY <2>3, NamesStay
    <3>7. QED
      BY <3>4, <3>5, <3>6 DEF AuditTrail
  <2>4. QED
    BY <2>2, <2>3, AddsNeeded
<1>3. QED
  BY <1>1, <1>2, DoneInvariant, PTL DEF Spec
=============================================================================
