-------------------------- MODULE ObservationProofs --------------------------
(***************************************************************************)
(* Proofs about Observation, for every set of paths, scripts and names,    *)
(* every interval and minimum window, and any number of accesses.          *)
(***************************************************************************)
EXTENDS Observation, SequenceTheorems, FiniteSetTheorems, TLAPS

Named == Raw \cup {Scripts[raw] : raw \in DOMAIN Scripts}
Paths == {Clean(raw) : raw \in Named}

Event ==
    [kind : {"open"}, path : Raw, flags : OpenFlags]
    \cup [kind : {"stat"}, path : Raw]
    \cup [kind : {"exec"}, path : Raw, interp : Named]
    \cup [kind : {"mmap"}, name : {NameOf[raw] : raw \in Raw}, of : Raw]

Rec == [path : Paths, modes : SUBSET {"r", "w", "x", "s"}, at : Nat]

Entry == [modes : SUBSET {"r", "w", "x", "m"}, first : Nat, last : Nat, count : Nat \ {0}]

Files == UNION {[ps -> Entry] : ps \in SUBSET Paths}

TypeInv ==
    /\ now \in Nat /\ nextSnapshotAt \in Nat
    /\ said \in Seq(Event) /\ ring \in Seq(Event)
    /\ pending \in Seq(Rec)
    /\ files \in Files
    /\ snaps \in Seq([at : Nat, files : Files])

-----------------------------------------------------------------------------
(* What the operators of the handlers do.                                  *)

LEMMA FilesType ==
    ASSUME NEW fs
    PROVE  fs \in Files <=> /\ fs = [p \in DOMAIN fs |-> fs[p]]
                            /\ DOMAIN fs \subseteq Paths
                            /\ \A p \in DOMAIN fs : fs[p] \in Entry
<1>1. ASSUME fs \in Files
      PROVE  /\ fs = [p \in DOMAIN fs |-> fs[p]]
             /\ DOMAIN fs \subseteq Paths
             /\ \A p \in DOMAIN fs : fs[p] \in Entry
  <2>1. PICK ps \in SUBSET Paths : fs \in [ps -> Entry]
    BY <1>1 DEF Files
  <2>2. QED
    BY <2>1
<1>2. ASSUME fs = [p \in DOMAIN fs |-> fs[p]], DOMAIN fs \subseteq Paths,
             \A p \in DOMAIN fs : fs[p] \in Entry
      PROVE  fs \in Files
  <2>1. fs \in [DOMAIN fs -> Entry]
    BY <1>2
  <2>2. QED
    BY <1>2, <2>1 DEF Files
<1>3. QED
  BY <1>1, <1>2

\* RecordFile touches one entry: it is there afterwards, counted once more, with
\* the new modes besides the old, its first time kept.
OneRecorded(fs, p, modes, t, new) ==
    /\ new \in Files
    /\ DOMAIN new = DOMAIN fs \cup {p}
    /\ \A q \in DOMAIN fs \ {p} : new[q] = fs[q]
    /\ p \in DOMAIN fs =>
          /\ new[p].modes = fs[p].modes \cup (modes \ {"s"})
          /\ new[p].first = fs[p].first
          /\ new[p].last = IF t > fs[p].last THEN t ELSE fs[p].last
          /\ new[p].count = fs[p].count + 1
    /\ p \notin DOMAIN fs =>
          /\ new[p].modes = modes \ {"s"}
          /\ new[p].first = t /\ new[p].last = t /\ new[p].count = 1

LEMMA Recorded ==
    ASSUME NEW fs \in Files, NEW p \in Paths, NEW modes \in SUBSET {"r", "w", "x", "s"},
           NEW t \in Nat
    PROVE  OneRecorded(fs, p, modes, t, RecordFile(fs, p, modes, t))
<1> DEFINE e == IF p \in DOMAIN fs
                THEN [modes |-> DedupeAccessModes(fs[p].modes, modes),
                      first |-> fs[p].first,
                      last  |-> IF t > fs[p].last THEN t ELSE fs[p].last,
                      count |-> fs[p].count + 1]
                ELSE [modes |-> DedupeAccessModes({}, modes),
                      first |-> t, last |-> t, count |-> 1]
           new == RecordFile(fs, p, modes, t)
<1>1. new = [q \in DOMAIN fs \cup {p} |-> IF q # p THEN fs[q] ELSE e]
  BY DEF RecordFile
<1>2. /\ DOMAIN fs \subseteq Paths
      /\ \A q \in DOMAIN fs : fs[q] \in Entry
  BY FilesType
<1>3. e \in Entry /\ (p \in DOMAIN fs =>
                    /\ e.modes = fs[p].modes \cup (modes \ {"s"})
                    /\ e.first = fs[p].first
                    /\ e.last = IF t > fs[p].last THEN t ELSE fs[p].last
                    /\ e.count = fs[p].count + 1)
                 /\ (p \notin DOMAIN fs =>
                    /\ e.modes = modes \ {"s"}
                    /\ e.first = t /\ e.last = t /\ e.count = 1)
  <2>1. CASE p \in DOMAIN fs
    <3>1. fs[p] \in Entry
      BY <1>2, <2>1
    <3>2. /\ fs[p].modes \in SUBSET {"r", "w", "x", "m"}
          /\ fs[p].first \in Nat /\ fs[p].last \in Nat /\ fs[p].count \in Nat \ {0}
      BY <3>1 DEF Entry
    <3>3. DedupeAccessModes(fs[p].modes, modes) = fs[p].modes \cup (modes \ {"s"})
      BY <3>2 DEF DedupeAccessModes
    <3>4. fs[p].modes \cup (modes \ {"s"}) \in SUBSET {"r", "w", "x", "m"}
      BY <3>2
    <3>5. (IF t > fs[p].last THEN t ELSE fs[p].last) \in Nat /\ fs[p].count + 1 \in Nat \ {0}
      BY <3>2
    <3>6. QED
      BY <2>1, <3>2, <3>3, <3>4, <3>5 DEF Entry
  <2>2. CASE p \notin DOMAIN fs
    <3>1. DedupeAccessModes({}, modes) = modes \ {"s"}
      BY DEF DedupeAccessModes
    <3>2. modes \ {"s"} \in SUBSET {"r", "w", "x", "m"}
      OBVIOUS
    <3>3. QED
      BY <2>2, <3>1, <3>2 DEF Entry
  <2>3. QED
    BY <2>1, <2>2
<1> HIDE DEF e, new
<1>4. DOMAIN new = DOMAIN fs \cup {p} /\ new[p] = e /\ \A q \in DOMAIN fs \ {p} : new[q] = fs[q]
  BY <1>1
<1>5. new = [q \in DOMAIN new |-> new[q]]
  BY <1>1
<1>6. new \in Files
  BY <1>2, <1>3, <1>4, <1>5, FilesType
<1>7. OneRecorded(fs, p, modes, t, new)
  BY <1>3, <1>4, <1>6 DEF OneRecorded
<1>8. QED
  BY <1>7 DEF new

\* MergeAccessModeByBasename adds "m" to the entries of that name; it makes none.
LEMMA Merged ==
    ASSUME NEW fs \in Files, NEW name, NEW t \in Nat
    PROVE  LET new == MergeAccessModeByBasename(fs, name, "m", t)
           IN /\ new \in Files
              /\ DOMAIN new = DOMAIN fs
              /\ \A q \in DOMAIN fs :
                    /\ new[q].first = fs[q].first /\ new[q].count = fs[q].count
                    /\ new[q].last \in {fs[q].last, t} /\ fs[q].last =< new[q].last
                    /\ new[q].modes \in {fs[q].modes, fs[q].modes \cup {"m"}}
                    /\ Last(q) = name => "m" \in new[q].modes
<1> DEFINE new == MergeAccessModeByBasename(fs, name, "m", t)
           E(q) == [fs[q] EXCEPT !.modes = DedupeAccessModes(@, {"m"}),
                                 !.last = IF t > @ THEN t ELSE @]
<1>1. /\ DOMAIN new = DOMAIN fs
      /\ new = [q \in DOMAIN new |-> new[q]]
      /\ \A q \in DOMAIN fs : new[q] = IF Last(q) = name THEN E(q) ELSE fs[q]
  BY DEF MergeAccessModeByBasename
<1>2. /\ DOMAIN fs \subseteq Paths
      /\ \A q \in DOMAIN fs : fs[q] \in Entry
  BY FilesType
<1>3. ASSUME NEW q \in DOMAIN fs
      PROVE  /\ E(q) \in Entry
             /\ E(q).first = fs[q].first /\ E(q).count = fs[q].count
             /\ E(q).last \in {fs[q].last, t} /\ fs[q].last =< E(q).last
             /\ E(q).modes = fs[q].modes \cup {"m"}
  <2>1. PICK en : en = fs[q] /\ en \in Entry
    BY <1>2
  <2>2. /\ en.modes \in SUBSET {"r", "w", "x", "m"}
        /\ en.first \in Nat /\ en.last \in Nat /\ en.count \in Nat \ {0}
    BY <2>1 DEF Entry
  <2>3. DedupeAccessModes(en.modes, {"m"}) = en.modes \cup {"m"}
    BY <2>2 DEF DedupeAccessModes
  <2>4. PICK m, l : m = en.modes \cup {"m"} /\ l = (IF t > en.last THEN t ELSE en.last)
    OBVIOUS
  <2>5. m \in SUBSET {"r", "w", "x", "m"} /\ l \in Nat /\ l \in {en.last, t} /\ en.last =< l
    BY <2>2, <2>4
  <2>6. E(q) = [en EXCEPT !.modes = m, !.last = l]
    BY <2>1, <2>3, <2>4
  <2>7. /\ E(q) \in Entry /\ E(q).first = en.first /\ E(q).count = en.count
        /\ E(q).last = l /\ E(q).modes = m
    BY <2>1, <2>2, <2>5, <2>6 DEF Entry
  <2>8. QED
    BY <2>1, <2>4, <2>5, <2>7
<1>4. ASSUME NEW q \in DOMAIN fs PROVE fs[q].last =< fs[q].last
  BY <1>2 DEF Entry
<1> HIDE DEF E, new
<1>5. new \in Files
  BY <1>1, <1>2, <1>3, FilesType
<1>6. ASSUME NEW q \in DOMAIN fs
      PROVE  /\ new[q].first = fs[q].first /\ new[q].count = fs[q].count
             /\ new[q].last \in {fs[q].last, t} /\ fs[q].last =< new[q].last
             /\ new[q].modes \in {fs[q].modes, fs[q].modes \cup {"m"}}
             /\ Last(q) = name => "m" \in new[q].modes
  <2>1. CASE Last(q) = name
    BY <1>1, <1>3, <2>1
  <2>2. CASE Last(q) # name
    BY <1>1, <1>4, <2>2
  <2>3. QED
    BY <2>1, <2>2
<1>7. QED
  BY <1>1, <1>5, <1>6 DEF new

\* The paths an event asks to be recorded.
Kepts(e) == {Clean(raw) : raw \in {r \in Names(e) : Kept(r)}}

\* The modes it asks for that dedupeAccessModes keeps: all but a stat's.
Keeps(e) == Asks(e) \ {"s"}

\* Records makes one record for each of them, at the time of the event, with the
\* modes it asks for; a "s" besides is not kept.
LEMMA RecordsMade ==
    ASSUME now \in Nat, NEW e \in Event, e.kind # "mmap"
    PROVE  LET rs == Records(e)
           IN /\ rs \in Seq(Rec)
              /\ {rs[k].path : k \in DOMAIN rs} = Kepts(e)
              /\ \A k \in DOMAIN rs : rs[k].modes \ {"s"} = Keeps(e) /\ rs[k].at = now
              /\ \A k, l \in DOMAIN rs : rs[k].path = rs[l].path => k = l
<1> DEFINE One(raw, modes) == IF Kept(raw) THEN <<[path |-> Clean(raw), modes |-> modes, at |-> now]>>
                                           ELSE <<>>
           Good(rs, kept, modes) ==
              /\ rs \in Seq(Rec)
              /\ {rs[k].path : k \in DOMAIN rs} = kept
              /\ \A k \in DOMAIN rs : rs[k].modes \ {"s"} = modes /\ rs[k].at = now
              /\ \A k, l \in DOMAIN rs : rs[k].path = rs[l].path => k = l
<1>1. ASSUME NEW raw \in Named, NEW modes \in SUBSET {"r", "w", "x", "s"}
      PROVE  Good(One(raw, modes), {Clean(q) : q \in {r \in {raw} : Kept(r)}}, modes \ {"s"})
  <2>1. CASE Kept(raw)
    <3>1. PICK r : r = [path |-> Clean(raw), modes |-> modes, at |-> now]
      OBVIOUS
    <3>2. r \in Rec /\ r.path = Clean(raw) /\ r.modes = modes /\ r.at = now
      BY <3>1 DEF Rec, Paths
    <3>3. One(raw, modes) = <<r>> /\ {Clean(q) : q \in {s \in {raw} : Kept(s)}} = {Clean(raw)}
      BY <2>1, <3>1
    <3>4. DOMAIN <<r>> = {1} /\ <<r>>[1] = r /\ <<r>> \in Seq(Rec)
      BY <3>2
    <3>5. QED
      BY <3>2, <3>3, <3>4
  <2>2. CASE ~Kept(raw)
    <3>1. One(raw, modes) = <<>> /\ {Clean(q) : q \in {s \in {raw} : Kept(s)}} = {}
      BY <2>2
    <3>2. PICK rs : rs = <<>>
      OBVIOUS
    <3>3. DOMAIN rs = {} /\ rs \in Seq(Rec)
      BY <3>2
    <3>4. Good(rs, {}, modes \ {"s"})
      BY <3>3
    <3> HIDE DEF Good, One
    <3>5. QED
      BY <3>1, <3>2, <3>4
  <2>3. QED
    BY <2>1, <2>2
<1>2. CASE e.kind = "open"
  <2>1. AccessModesFromFlags(e.flags) \in SUBSET {"r", "w", "x", "s"}
        /\ AccessModesFromFlags(e.flags) \ {"s"} = AccessModesFromFlags(e.flags)
    BY DEF AccessModesFromFlags
  <2>2. Records(e) = One(e.path, AccessModesFromFlags(e.flags))
    BY <1>2 DEF Records
  <2>3. Names(e) = {e.path} /\ Keeps(e) = AccessModesFromFlags(e.flags)
    BY <1>2, <2>1 DEF Names, Asks, Keeps
  <2>4. e.path \in Named
    BY <1>2 DEF Event, Named
  <2>5. QED
    BY <1>1, <2>1, <2>2, <2>3, <2>4 DEF Kepts
<1>3. CASE e.kind = "stat"
  <2>1. Records(e) = One(e.path, {"s"})
    BY <1>3 DEF Records
  <2>2. Names(e) = {e.path} /\ Keeps(e) = {} /\ {"s"} \ {"s"} = {}
    BY <1>3 DEF Names, Asks, Keeps
  <2>3. e.path \in Named
    BY <1>3 DEF Event, Named
  <2>4. {"s"} \in SUBSET {"r", "w", "x", "s"}
    OBVIOUS
  <2>5. Kepts(e) = {Clean(q) : q \in {r \in {e.path} : Kept(r)}}
    BY <2>2 DEF Kepts
  <2> HIDE DEF Good, One
  <2>6. Good(One(e.path, {"s"}), Kepts(e), {"s"} \ {"s"})
    BY <1>1, <2>3, <2>4, <2>5
  <2>7. Good(Records(e), Kepts(e), Keeps(e))
    BY <2>1, <2>2, <2>6
  <2>8. QED
    BY <2>7 DEF Good
<1>4. CASE e.kind = "exec"
  <2>1. e.path \in Named /\ e.interp \in Named /\ Keeps(e) = {"x"}
    BY <1>4 DEF Event, Named, Asks, Keeps
  <2>2. {"x"} \in SUBSET {"r", "w", "x", "s"} /\ {"x"} \ {"s"} = {"x"}
    OBVIOUS
  <2>3. Good(One(e.path, {"x"}), {Clean(q) : q \in {r \in {e.path} : Kept(r)}}, {"x"})
    BY <1>1, <2>1, <2>2
  <2>4. Good(One(e.interp, {"x"}), {Clean(q) : q \in {r \in {e.interp} : Kept(r)}}, {"x"})
    BY <1>1, <2>1, <2>2
  <2>5. CASE Kept(e.path) /\ Clean(e.interp) # Clean(e.path)
    <3>1. PICK a, b : a = One(e.path, {"x"}) /\ b = One(e.interp, {"x"})
      OBVIOUS
    <3>2. a \in Seq(Rec) /\ b \in Seq(Rec) /\ Records(e) = a \o b
      BY <1>4, <2>3, <2>4, <2>5, <3>1 DEF Records
    <3>3. PICK rs : rs = a \o b
      OBVIOUS
    <3>4. /\ rs \in Seq(Rec) /\ Len(rs) = Len(a) + Len(b)
          /\ DOMAIN rs = 1 .. Len(rs) /\ DOMAIN a = 1 .. Len(a) /\ DOMAIN b = 1 .. Len(b)
          /\ Len(a) \in Nat /\ Len(b) \in Nat
          /\ \A k \in 1 .. Len(a) : rs[k] = a[k]
          /\ \A k \in 1 .. Len(b) : rs[Len(a) + k] = b[k]
      BY <3>2, <3>3
    <3>5. \A k \in DOMAIN rs : k \in DOMAIN a \/ (k \notin DOMAIN a /\ k - Len(a) \in DOMAIN b
                                                   /\ rs[k] = b[k - Len(a)])
      BY <3>4
    <3>6. \A k \in DOMAIN rs : IF k \in DOMAIN a THEN rs[k] = a[k]
                               ELSE k - Len(a) \in DOMAIN b /\ rs[k] = b[k - Len(a)]
      BY <3>4, <3>5
    <3>7. /\ {a[k].path : k \in DOMAIN a} = {Clean(e.path)}
          /\ {b[k].path : k \in DOMAIN b} = {Clean(q) : q \in {r \in {e.interp} : Kept(r)}}
      BY <2>3, <2>4, <2>5, <3>1
    <3>8. Kepts(e) = {Clean(e.path)} \cup {Clean(q) : q \in {r \in {e.interp} : Kept(r)}}
      BY <1>4, <2>5 DEF Kepts, Names
    <3>9. {rs[k].path : k \in DOMAIN rs} = {a[k].path : k \in DOMAIN a} \cup {b[k].path : k \in DOMAIN b}
      <4>1. \A k \in DOMAIN a : k \in DOMAIN rs /\ rs[k] = a[k]
        BY <3>4
      <4>2. \A k \in DOMAIN b : Len(a) + k \in DOMAIN rs /\ rs[Len(a) + k] = b[k]
        BY <3>4
      <4>3. QED
        BY <4>1, <4>2, <3>6
    <3>10. ASSUME NEW k \in DOMAIN rs PROVE rs[k].modes \ {"s"} = {"x"} /\ rs[k].at = now
      BY <2>3, <2>4, <3>1, <3>6
    <3>11. ASSUME NEW k \in DOMAIN rs, NEW l \in DOMAIN rs, rs[k].path = rs[l].path
           PROVE  k = l
      <4>1. \A i \in DOMAIN a : a[i].path = Clean(e.path)
        BY <3>7
      <4>2. \A i \in DOMAIN b : b[i].path = Clean(e.interp)
        BY <3>7
      <4>3. k \in DOMAIN a <=> l \in DOMAIN a
        BY <2>5, <3>6, <3>11, <4>1, <4>2
      <4>4. CASE k \in DOMAIN a
        BY <2>3, <3>1, <3>6, <3>11, <4>3, <4>4
      <4>5. CASE k \notin DOMAIN a
        <5>1. PICK i \in DOMAIN b, j \in DOMAIN b : i = k - Len(a) /\ j = l - Len(a)
          BY <3>6, <4>3, <4>5
        <5>2. i = j
          BY <2>4, <3>1, <3>6, <3>11, <4>3, <4>5, <5>1
        <5>3. k \in Nat /\ l \in Nat /\ Len(a) \in Nat
          BY <3>4
        <5>4. QED
          BY <5>1, <5>2, <5>3
      <4>6. QED
        BY <4>4, <4>5
    <3>12. {rs[k].path : k \in DOMAIN rs} = Kepts(e)
      BY <3>7, <3>8, <3>9
    <3>13. Good(rs, Kepts(e), {"x"})
      BY <3>4, <3>10, <3>11, <3>12
    <3>14. rs = Records(e)
      BY <3>2, <3>3
    <3> HIDE DEF Good
    <3>15. Good(Records(e), Kepts(e), Keeps(e))
      BY <2>1, <3>13, <3>14
    <3>16. QED
      BY <3>15 DEF Good
  <2>6. CASE ~(Kept(e.path) /\ Clean(e.interp) # Clean(e.path))
    <3>1. Records(e) = One(e.path, {"x"})
      BY <1>4, <2>6 DEF Records
    <3>2. Kepts(e) = {Clean(q) : q \in {r \in {e.path} : Kept(r)}}
      <4>1. CASE Kept(e.path)
        <5>1. Names(e) = {e.path, e.interp} /\ Clean(e.interp) = Clean(e.path)
          BY <1>4, <2>6, <4>1 DEF Names
        <5>2. QED
          BY <4>1, <5>1 DEF Kepts
      <4>2. CASE ~Kept(e.path)
        BY <1>4, <4>2 DEF Kepts, Names
      <4>3. QED
        BY <4>1, <4>2
    <3>3. QED
      BY <2>1, <2>3, <3>1, <3>2
  <2>7. QED
    BY <2>5, <2>6
<1>5. e.kind \in {"open", "stat", "exec", "mmap"}
  BY DEF Event
<1>6. QED
  BY <1>2, <1>3, <1>4, <1>5

\* An access says a few events of the types there are, all of the same path, and
\* a map is of a path that was opened or executed before.
Grounded(events) ==
    \A k \in DOMAIN events :
        events[k].kind = "mmap" =>
            \E j \in DOMAIN said :
                said[j].kind \in {"open", "exec"} /\ said[j].path = events[k].of

LEMMA ProcessSays ==
    ASSUME TypeInv, Process
    PROVE  \E events \in Seq(Event) : Emit(events) /\ Grounded(events)
<1>1. PICK raw \in Raw : (\E f \in OpenFlags : Open(raw, f)) \/ Stat(raw) \/ Exec(raw) \/ MapExec(raw)
  BY DEF Process
<1>2. ASSUME NEW e \in Event, Emit(<<e>>),
             e.kind = "mmap" => \E j \in DOMAIN said :
                                    said[j].kind \in {"open", "exec"} /\ said[j].path = e.of
      PROVE  \E events \in Seq(Event) : Emit(events) /\ Grounded(events)
  <2>1. PICK events : events = <<e>>
    OBVIOUS
  <2>2. events \in Seq(Event) /\ DOMAIN events = {1} /\ events[1] = e
    BY <2>1
  <2>3. Emit(events)
    BY <1>2, <2>1
  <2>4. Grounded(events)
    BY <1>2, <2>2 DEF Grounded
  <2>5. QED
    BY <2>2, <2>3, <2>4
<1>3. CASE \E f \in OpenFlags : Open(raw, f)
  <2>1. PICK f \in OpenFlags : Open(raw, f)
    BY <1>3
  <2>2. PICK e : e = [kind |-> "open", path |-> raw, flags |-> f]
    OBVIOUS
  <2>3. e \in Event /\ e.kind # "mmap" /\ Emit(<<e>>)
    BY <2>1, <2>2 DEF Event, Open
  <2>4. QED
    BY <1>2, <2>3
<1>4. CASE Stat(raw)
  <2>1. PICK e : e = [kind |-> "stat", path |-> raw]
    OBVIOUS
  <2>2. e \in Event /\ e.kind # "mmap" /\ Emit(<<e>>)
    BY <1>4, <2>1 DEF Event, Stat
  <2>3. QED
    BY <1>2, <2>2
<1>5. CASE Exec(raw)
  <2>1. PICK e, i : /\ e = [kind |-> "exec", path |-> raw, interp |-> raw]
                    /\ i = [kind |-> "exec", path |-> raw, interp |-> Scripts[raw]]
    OBVIOUS
  <2>2. e \in Event /\ e.kind # "mmap" /\ i.kind # "mmap" /\ (raw \in DOMAIN Scripts => i \in Event)
    BY <2>1 DEF Event, Named
  <2>3. PICK a, b : a = <<e>> /\ b = IF raw \in DOMAIN Scripts THEN <<i>> ELSE <<>>
    OBVIOUS
  <2>4. /\ a \in Seq(Event) /\ b \in Seq(Event)
        /\ \A k \in DOMAIN a : a[k].kind # "mmap"
        /\ \A k \in DOMAIN b : b[k].kind # "mmap"
    BY <2>2, <2>3
  <2>5. PICK events : events = a \o b
    OBVIOUS
  <2>6. Emit(events)
    BY <1>5, <2>1, <2>3, <2>5 DEF Exec
  <2>7. /\ events \in Seq(Event) /\ DOMAIN events = 1 .. (Len(a) + Len(b))
        /\ Len(a) \in Nat /\ Len(b) \in Nat
        /\ \A k \in 1 .. Len(a) : events[k] = a[k]
        /\ \A k \in 1 .. Len(b) : events[Len(a) + k] = b[k]
    BY <2>4, <2>5
  <2>8. \A k \in DOMAIN events : events[k].kind # "mmap"
    <3>1. ASSUME NEW k \in DOMAIN events PROVE events[k].kind # "mmap"
      <4>1. CASE k \in 1 .. Len(a)
        BY <2>4, <2>7, <4>1
      <4>2. CASE k \notin 1 .. Len(a)
        <5>1. k - Len(a) \in 1 .. Len(b) /\ Len(a) + (k - Len(a)) = k
          BY <2>7, <4>2
        <5>2. k - Len(a) \in DOMAIN b
          BY <2>4, <5>1
        <5>3. QED
          BY <2>4, <2>7, <5>1, <5>2
      <4>3. QED
        BY <4>1, <4>2
    <3>2. QED
      BY <3>1
  <2>9. QED
    BY <2>6, <2>7, <2>8 DEF Grounded
<1>6. CASE MapExec(raw)
  <2>1. PICK e : e = [kind |-> "mmap", name |-> NameOf[raw], of |-> raw]
    OBVIOUS
  <2>2. e \in Event /\ e.of = raw /\ Emit(<<e>>)
    BY <1>6, <2>1 DEF Event, MapExec
  <2>3. PICK d \in Range(said) : d.kind \in {"open", "exec"} /\ d.path = raw
    BY <1>6 DEF MapExec
  <2>4. PICK j \in DOMAIN said : said[j] = d
    BY <2>3 DEF Range
  <2>5. QED
    BY <1>2, <2>2, <2>3, <2>4
<1>7. QED
  BY <1>1, <1>3, <1>4, <1>5, <1>6

LEMMA Times == Interval \in Nat \ {0} /\ MinWindow \in Nat /\ MaxTime \in Nat
BY ObservationAssumption

LEMMA TypeInit == Init => TypeInv
<1> SUFFICES ASSUME Init PROVE TypeInv
  OBVIOUS
<1>1. now \in Nat /\ nextSnapshotAt \in Nat
  BY Times DEF Init
<1>2. files \in Files
  <2>1. files = <<>> /\ DOMAIN files = {}
    BY DEF Init
  <2>2. files = [p \in DOMAIN files |-> files[p]]
    BY <2>1
  <2>3. QED
    BY <2>1, <2>2, FilesType
<1>3. said = <<>> /\ ring = <<>> /\ pending = <<>> /\ snaps = <<>>
  BY DEF Init
<1>4. QED
  BY <1>1, <1>2, <1>3 DEF TypeInv

LEMMA TypeStep ==
    ASSUME TypeInv, [Next]_vars
    PROVE  TypeInv'
<1> USE DEF TypeInv, loopVars
<1>1. CASE Tick
  BY <1>1 DEF Tick
<1>2. CASE Process
  <2>1. PICK events \in Seq(Event) : Emit(events)
    BY <1>2, ProcessSays
  <2>2. said \o events \in Seq(Event) /\ ring \o events \in Seq(Event)
    OBVIOUS
  <2>3. QED
    BY <2>1, <2>2 DEF Emit
<1>3. CASE Handle
  <2>1. Head(ring) \in Event /\ Tail(ring) \in Seq(Event)
    BY <1>3, HeadTailProperties DEF Handle
  <2>2. pending' \in Seq(Rec)
    BY <1>3, <2>1, RecordsMade DEF Handle
  <2>3. QED
    BY <1>3, <2>1, <2>2 DEF Handle
<1>4. CASE HandleMmap
  <2>1. Tail(ring) \in Seq(Event)
    BY <1>4, HeadTailProperties DEF HandleMmap
  <2>2. files' \in Files
    BY <1>4, Merged DEF HandleMmap
  <2>3. QED
    BY <1>4, <2>1, <2>2 DEF HandleMmap
<1>5. CASE Record
  <2>1. Head(pending) \in Rec /\ Tail(pending) \in Seq(Rec)
    BY <1>5, HeadTailProperties DEF Record
  <2>2. files' \in Files
    BY <1>5, <2>1, Recorded DEF Record, Rec, OneRecorded
  <2>3. QED
    BY <1>5, <2>1, <2>2 DEF Record
<1>6. CASE Pass
  <2>1. nextSnapshotAt' \in Nat
    BY <1>6, Times DEF Pass, NextDue
  <2>2. PICK s : s = [at |-> now, files |-> files]
    OBVIOUS
  <2>3. s \in [at : Nat, files : Files] /\ snaps' = Append(snaps, s)
    BY <1>6, <2>2 DEF Pass
  <2>4. snaps' \in Seq([at : Nat, files : Files])
    BY <2>3
  <2>5. QED
    BY <1>6, <2>1, <2>4 DEF Pass
<1>7. CASE UNCHANGED vars
  BY <1>7 DEF vars
<1>8. QED
  BY <1>1, <1>2, <1>3, <1>4, <1>5, <1>6, <1>7 DEF Next

-----------------------------------------------------------------------------
(* The pace of the snapshots.                                              *)

\* However late the last two passes were, the next is due an interval after the
\* one before the last.
PaceInv ==
    LET k == Len(snaps)
    IN /\ SnapshotPace
       /\ \A i \in DOMAIN snaps : snaps[i].at =< now
       /\ k >= 1 => nextSnapshotAt > snaps[k].at
       /\ k >= 2 => nextSnapshotAt > snaps[k - 1].at + Interval

LEMMA PaceInit == Init => PaceInv
BY Times DEF Init, PaceInv, SnapshotPace

LEMMA PaceStep ==
    ASSUME TypeInv, PaceInv, [Next]_vars
    PROVE  PaceInv'
<1>t. /\ now \in Nat /\ nextSnapshotAt \in Nat /\ Interval \in Nat \ {0}
      /\ snaps \in Seq([at : Nat, files : Files]) /\ Len(snaps) \in Nat
      /\ DOMAIN snaps = 1 .. Len(snaps)
      /\ \A i \in DOMAIN snaps : snaps[i].at \in Nat
  <2>1. /\ now \in Nat /\ nextSnapshotAt \in Nat /\ Interval \in Nat \ {0}
        /\ snaps \in Seq([at : Nat, files : Files])
    BY Times DEF TypeInv
  <2>2. Len(snaps) \in Nat /\ DOMAIN snaps = 1 .. Len(snaps)
    BY <2>1
  <2>3. \A i \in DOMAIN snaps : snaps[i] \in [at : Nat, files : Files]
    BY <2>1, <2>2, ElementOfSeq
  <2>4. QED
    BY <2>1, <2>2, <2>3
<1>1. CASE Pass
  <2>1. PICK s, k : s = [at |-> now, files |-> files] /\ k = Len(snaps)
    OBVIOUS
  <2>2. s.at = now /\ snaps' = Append(snaps, s) /\ now >= nextSnapshotAt /\ now' = now
    BY <1>1, <2>1 DEF Pass
  <2>3. PICK t : t = snaps'
    OBVIOUS
  <2>4. /\ DOMAIN t = 1 .. (k + 1) /\ Len(t) = k + 1 /\ k \in Nat
        /\ \A i \in 1 .. k : t[i] = snaps[i]
        /\ t[k + 1] = s
    BY <1>t, <2>1, <2>2, <2>3
  <2>5. PICK d : d = NextDue /\ nextSnapshotAt' = d
    BY <1>1 DEF Pass
  <2>6. d \in Nat /\ d > now /\ d >= nextSnapshotAt + Interval /\ d =< now + Interval
    BY <1>t, <2>2, <2>5 DEF NextDue
  <2>7. ASSUME k >= 1
        PROVE  snaps[k].at \in Nat /\ nextSnapshotAt > snaps[k].at
    BY <1>t, <2>1, <2>4, <2>7 DEF PaceInv
  <2>8. ASSUME k >= 2
        PROVE  snaps[k - 1].at \in Nat /\ nextSnapshotAt > snaps[k - 1].at + Interval
    BY <1>t, <2>1, <2>4, <2>8, SMTT(30) DEF PaceInv
  <2>9. \A i \in DOMAIN t : t[i].at =< now
    <3>1. SUFFICES ASSUME NEW i \in DOMAIN t PROVE t[i].at =< now
      OBVIOUS
    <3>2. CASE i = k + 1
      BY <1>t, <2>2, <2>4, <3>2
    <3>3. CASE i # k + 1
      <4>1. i \in 1 .. k
        BY <2>4, <3>1, <3>3
      <4>2. i \in DOMAIN snaps /\ t[i] = snaps[i]
        BY <1>t, <2>1, <2>4, <4>1
      <4>3. QED
        BY <4>2 DEF PaceInv
    <3>4. QED
      BY <3>2, <3>3
  <2>10. ASSUME NEW i \in DOMAIN t, i + 2 \in DOMAIN t
         PROVE  t[i + 2].at - t[i].at > Interval
    <3>1. CASE i + 2 = k + 1
      <4>1. i = k - 1 /\ k >= 2 /\ t[i] = snaps[k - 1]
        BY <2>4, <2>10, <3>1
      <4>2. t[i + 2].at = now
        BY <2>2, <2>4, <3>1
      <4>3. QED
        BY <1>t, <2>2, <2>8, <4>1, <4>2, SMTT(30)
    <3>2. CASE i + 2 # k + 1
      <4>1. i \in DOMAIN snaps /\ i + 2 \in DOMAIN snaps /\ t[i] = snaps[i] /\ t[i + 2] = snaps[i + 2]
        BY <1>t, <2>1, <2>4, <2>10, <3>2
      <4>2. QED
        BY <4>1 DEF PaceInv, SnapshotPace
    <3>3. QED
      BY <3>1, <3>2
  <2>11. k + 1 >= 2 => d > t[k].at + Interval
    <3>1. SUFFICES ASSUME k >= 1 PROVE d > t[k].at + Interval
      BY <2>4
    <3>2. t[k] = snaps[k]
      BY <2>4, <3>1
    <3>3. QED
      BY <1>t, <2>6, <2>7, <3>1, <3>2
  <2>12. (k + 1) - 1 = k
    BY <2>4
  <2>13. QED
    BY <2>2, <2>3, <2>4, <2>5, <2>6, <2>9, <2>10, <2>11, <2>12 DEF PaceInv, SnapshotPace
<1>2. CASE UNCHANGED loopVars /\ now' \in {now, now + 1}
  <2>1. UNCHANGED <<snaps, nextSnapshotAt>> /\ now' \in Nat /\ now =< now'
    BY <1>t, <1>2 DEF loopVars
  <2>2. \A i \in DOMAIN snaps : snaps[i].at =< now'
    <3>1. SUFFICES ASSUME NEW i \in DOMAIN snaps PROVE snaps[i].at =< now'
      OBVIOUS
    <3>2. snaps[i].at \in Nat /\ snaps[i].at =< now
      BY <1>t DEF PaceInv
    <3>3. QED
      BY <1>t, <2>1, <3>2
  <2>3. nextSnapshotAt =< now' + Interval
    <3>1. nextSnapshotAt =< now + Interval
      BY DEF PaceInv, SnapshotPace
    <3>2. PICK m, x, i : m = now' /\ x = nextSnapshotAt /\ i = Interval
      OBVIOUS
    <3>3. m \in Nat /\ x \in Nat /\ i \in Nat /\ now \in Nat /\ now =< m
      BY <1>t, <2>1, <3>2
    <3>4. x =< now + i
      BY <3>1, <3>2
    <3>5. x =< m + i
      BY <3>3, <3>4
    <3>6. QED
      BY <3>2, <3>5
  <2>4. QED
    BY <2>1, <2>2, <2>3 DEF PaceInv, SnapshotPace
<1>3. Pass \/ (UNCHANGED loopVars /\ now' \in {now, now + 1})
  <2>1. ASSUME Process PROVE UNCHANGED <<loopVars, now>>
    BY <2>1, ProcessSays DEF Emit
  <2>2. QED
    BY <2>1 DEF Next, vars, Tick, Handle, HandleMmap, Record
<1>4. QED
  BY <1>1, <1>2, <1>3

\* SnapshotPace: two passes after one another are never within an interval of the
\* one before them, and the next is never due later than an interval from now.
THEOREM SnapshotPaceHolds == Spec => []SnapshotPace
<1>1. TypeInv /\ PaceInv /\ [Next]_vars => TypeInv' /\ PaceInv'
  BY TypeStep, PaceStep
<1>2. PaceInv => SnapshotPace
  BY DEF PaceInv
<1>3. QED
  BY TypeInit, PaceInit, <1>1, <1>2, PTL DEF Spec

-----------------------------------------------------------------------------
(* What grows.                                                             *)

\* What is recorded stays: the entries, their modes, first times and counts.
Grown(old, new) ==
    \A p \in DOMAIN old :
        /\ p \in DOMAIN new
        /\ old[p].modes \subseteq new[p].modes
        /\ old[p].first = new[p].first
        /\ old[p].count =< new[p].count

LEMMA GrownSelf ==
    ASSUME NEW fs \in Files
    PROVE  Grown(fs, fs)
<1>1. \A p \in DOMAIN fs : fs[p] \in Entry
  BY FilesType
<1>2. \A p \in DOMAIN fs : fs[p].count \in Nat
  BY <1>1 DEF Entry
<1>3. QED
  BY <1>2 DEF Grown

LEMMA GrownOn ==
    ASSUME NEW a \in Files, NEW b \in Files, NEW c \in Files, Grown(a, b), Grown(b, c)
    PROVE  Grown(a, c)
<1>1. SUFFICES ASSUME NEW p \in DOMAIN a
               PROVE  /\ p \in DOMAIN c
                      /\ a[p].modes \subseteq c[p].modes
                      /\ a[p].first = c[p].first
                      /\ a[p].count =< c[p].count
  BY DEF Grown
<1>2. /\ p \in DOMAIN b /\ a[p].modes \subseteq b[p].modes
      /\ a[p].first = b[p].first /\ a[p].count =< b[p].count
  BY DEF Grown
<1>3. /\ p \in DOMAIN c /\ b[p].modes \subseteq c[p].modes
      /\ b[p].first = c[p].first /\ b[p].count =< c[p].count
  BY <1>2 DEF Grown
<1>4. a[p].count \in Nat /\ b[p].count \in Nat /\ c[p].count \in Nat
  BY <1>2, <1>3, FilesType DEF Entry
<1>5. QED
  BY <1>2, <1>3, <1>4

\* A shorter window is penalised no less, and a profile of direct entries by
\* nothing else: its score grows with its window.
LEMMA PenaltyShrinks ==
    ASSUME NEW least \in Nat, NEW a \in Nat, NEW b \in Nat, a =< b
    PROVE  /\ WindowPenalty(a, least) \in {0, 4, 8, 14, 20}
           /\ WindowPenalty(b, least) =< WindowPenalty(a, least)
BY DEF WindowPenalty

ScoreAt(fs, t) == Score([p \in DOMAIN fs |-> "direct"], t, MinWindow)

LEMMA ScoreGrows ==
    ASSUME NEW old, NEW new, Grown(old, new), NEW a \in Nat, NEW b \in Nat, a =< b
    PROVE  ScoreAt(old, a) =< ScoreAt(new, b)
<1> DEFINE none(fs) == IF \E p \in DOMAIN [q \in DOMAIN fs |-> "direct"] :
                              [q \in DOMAIN fs |-> "direct"][p] = "direct" THEN 0 ELSE 60
           points(fs, t) == 100 - none(fs) - WindowPenalty(t, MinWindow)
\* Nothing in the profile is manual.
<1>1. ASSUME NEW fs, NEW t \in Nat
      PROVE  ScoreAt(fs, t) = IF points(fs, t) < 0 THEN 0 ELSE points(fs, t)
  <2>1. PICK d : d = [q \in DOMAIN fs |-> "direct"]
    OBVIOUS
  <2>2. \A p \in DOMAIN d : d[p] = "direct"
    BY <2>1
  <2>3. UserManual(d) = {}
    BY <2>2 DEF UserManual, Manual
  <2>4. Capped({}, 5, 25) = 0 /\ Capped({}, 3, 12) = 0 /\ Capped({}, 3, 9) = 0
    BY FS_EmptySet DEF Capped
  <2>5. {p \in {} : d[p] = "startup-race"} = {} /\ {p \in {} : d[p] = "undocumented"} = {}
    OBVIOUS
  <2>6. WindowPenalty(t, MinWindow) \in {0, 4, 8, 14, 20}
    BY PenaltyShrinks, Times
  <2>7. PICK x, w : x = none(fs) /\ w = WindowPenalty(t, MinWindow)
    OBVIOUS
  <2>8. x \in {0, 60} /\ w \in {0, 4, 8, 14, 20}
    BY <2>6, <2>7
  <2>9. 100 - x - w - 0 - 0 - 0 = 100 - x - w
    BY <2>8
  <2>10. ScoreAt(fs, t) = IF 100 - x - w - 0 - 0 - 0 < 0 THEN 0 ELSE 100 - x - w - 0 - 0 - 0
    BY <2>1, <2>3, <2>4, <2>5, <2>7 DEF ScoreAt, Score
  <2>11. QED
    BY <2>7, <2>9, <2>10
<1>2. none(new) =< none(old) /\ none(new) \in {0, 60} /\ none(old) \in {0, 60}
  <2>1. DOMAIN old \subseteq DOMAIN new
    BY DEF Grown
  <2>2. \A fs : none(fs) = IF DOMAIN fs = {} THEN 60 ELSE 0
    OBVIOUS
  <2>3. QED
    BY <2>1, <2>2
<1>3. /\ WindowPenalty(b, MinWindow) =< WindowPenalty(a, MinWindow)
      /\ WindowPenalty(a, MinWindow) \in {0, 4, 8, 14, 20}
      /\ WindowPenalty(b, MinWindow) \in {0, 4, 8, 14, 20}
  BY PenaltyShrinks, Times
<1>4. PICK x, y, v, w : /\ x = none(old) /\ y = none(new)
                        /\ v = WindowPenalty(a, MinWindow) /\ w = WindowPenalty(b, MinWindow)
  OBVIOUS
<1>5. 100 - x - v =< 100 - y - w /\ 100 - x - v \in Int /\ 100 - y - w \in Int
  BY <1>2, <1>3, <1>4
<1>6. /\ ScoreAt(old, a) = IF 100 - x - v < 0 THEN 0 ELSE 100 - x - v
      /\ ScoreAt(new, b) = IF 100 - y - w < 0 THEN 0 ELSE 100 - y - w
  BY <1>1, <1>4
<1>7. QED
  BY <1>5, <1>6

\* Every snapshot is outgrown by the ones after it and by the aggregator.
GrowInv ==
    /\ \A i \in DOMAIN snaps : snaps[i].at =< now /\ Grown(snaps[i].files, files)
    /\ \A i, j \in DOMAIN snaps : i < j =>
           snaps[i].at =< snaps[j].at /\ Grown(snaps[i].files, snaps[j].files)

LEMMA SnapType ==
    ASSUME TypeInv
    PROVE  /\ DOMAIN snaps = 1 .. Len(snaps) /\ Len(snaps) \in Nat
           /\ \A i \in DOMAIN snaps : snaps[i].at \in Nat /\ snaps[i].files \in Files
<1>1. snaps \in Seq([at : Nat, files : Files])
  BY DEF TypeInv
<1>2. DOMAIN snaps = 1 .. Len(snaps) /\ Len(snaps) \in Nat
  BY <1>1
<1>3. \A i \in DOMAIN snaps : snaps[i] \in [at : Nat, files : Files]
  BY <1>1, <1>2, ElementOfSeq
<1>4. QED
  BY <1>2, <1>3

LEMMA FilesGrow ==
    ASSUME TypeInv, [Next]_vars
    PROVE  Grown(files, files')
<1>1. files \in Files
  BY DEF TypeInv
<1>2. CASE UNCHANGED files
  BY <1>1, <1>2, GrownSelf
<1>3. CASE HandleMmap
  <2>1. PICK new : new = MergeAccessModeByBasename(files, Head(ring).name, "m", now) /\ files' = new
    BY <1>3 DEF HandleMmap
  <2>2. now \in Nat
    BY DEF TypeInv
  <2>3. /\ DOMAIN new = DOMAIN files
        /\ \A q \in DOMAIN files :
              /\ new[q].first = files[q].first /\ new[q].count = files[q].count
              /\ files[q].modes \subseteq new[q].modes
    BY <1>1, <2>1, <2>2, Merged
  <2>4. \A p \in DOMAIN files : files[p].count =< files[p].count
    BY <1>1, GrownSelf DEF Grown
  <2>5. QED
    BY <2>1, <2>3, <2>4 DEF Grown
<1>4. CASE Record
  <2>1. PICK r : r = Head(pending) /\ files' = RecordFile(files, r.path, r.modes, r.at)
    BY <1>4 DEF Record
  <2>2. r \in Rec
    BY <1>4, <2>1, HeadTailProperties DEF Record, TypeInv
  <2>3. PICK new : new = files'
    OBVIOUS
  <2>4. /\ DOMAIN new = DOMAIN files \cup {r.path}
        /\ \A q \in DOMAIN files \ {r.path} : new[q] = files[q]
        /\ r.path \in DOMAIN files =>
              /\ files[r.path].modes \subseteq new[r.path].modes
              /\ new[r.path].first = files[r.path].first
              /\ new[r.path].count = files[r.path].count + 1
    <3>1. PICK p, m, t : p = r.path /\ m = r.modes /\ t = r.at
      OBVIOUS
    <3>2. p \in Paths /\ m \in SUBSET {"r", "w", "x", "s"} /\ t \in Nat
      BY <2>2, <3>1 DEF Rec
    <3>3. new = RecordFile(files, p, m, t)
      BY <2>1, <2>3, <3>1
    <3>4. OneRecorded(files, p, m, t, new)
      BY <1>1, <3>2, <3>3, Recorded
    <3>5. QED
      BY <3>1, <3>4 DEF OneRecorded
  <2>5. \A p \in DOMAIN files : files[p].count =< files[p].count /\ files[p].count =< files[p].count + 1
    <3>1. \A p \in DOMAIN files : files[p] \in Entry
      BY <1>1, FilesType
    <3>2. \A p \in DOMAIN files : files[p].count \in Nat
      BY <3>1 DEF Entry
    <3>3. QED
      BY <3>2
  <2>6. QED
    BY <2>3, <2>4, <2>5 DEF Grown
<1>5. UNCHANGED files \/ HandleMmap \/ Record
  <2>1. ASSUME Process PROVE UNCHANGED files
    BY <2>1, ProcessSays DEF Emit
  <2>2. QED
    BY <2>1 DEF Next, vars, Tick, Handle, Pass
<1>6. QED
  BY <1>2, <1>3, <1>4, <1>5

LEMMA GrowStep ==
    ASSUME TypeInv, GrowInv, [Next]_vars
    PROVE  GrowInv'
<1>1. /\ files \in Files /\ files' \in Files /\ now \in Nat /\ now' \in Nat
      /\ Grown(files, files')
  BY TypeStep, FilesGrow DEF TypeInv
<1>2. \A i \in DOMAIN snaps : snaps[i].at \in Nat /\ snaps[i].files \in Files
  BY SnapType
<1>3. now =< now'
  <2>1. ASSUME Process PROVE UNCHANGED now
    BY <2>1, ProcessSays DEF Emit
  <2>2. now =< now /\ now =< now + 1
    BY <1>1
  <2>3. QED
    BY <2>1, <2>2 DEF Next, vars, Tick, Handle, HandleMmap, Record, Pass
<1>4. ASSUME NEW i \in DOMAIN snaps
      PROVE  snaps[i].at =< now' /\ Grown(snaps[i].files, files')
  <2>1. snaps[i].at =< now /\ Grown(snaps[i].files, files)
    BY DEF GrowInv
  <2>2. snaps[i].at =< now'
    BY <1>1, <1>2, <1>3, <2>1
  <2>3. Grown(snaps[i].files, files')
    BY <1>1, <1>2, <2>1, GrownOn
  <2>4. QED
    BY <2>2, <2>3
<1>5. CASE UNCHANGED snaps
  BY <1>4, <1>5 DEF GrowInv
<1>6. CASE Pass
  <2>1. PICK s, k, t : s = [at |-> now, files |-> files] /\ k = Len(snaps) /\ t = snaps'
    OBVIOUS
  <2>2. s.at = now /\ s.files = files /\ t = Append(snaps, s) /\ UNCHANGED <<now, files>>
    BY <1>6, <2>1 DEF Pass
  <2>3. /\ DOMAIN t = 1 .. (k + 1) /\ k \in Nat /\ DOMAIN snaps = 1 .. k
        /\ \A i \in 1 .. k : t[i] = snaps[i]
        /\ t[k + 1] = s
    BY <2>1, <2>2 DEF TypeInv
  <2>4. Grown(files, files) /\ now =< now
    BY <1>1, GrownSelf
  <2>5. ASSUME NEW i \in DOMAIN t
        PROVE  t[i].at =< now /\ Grown(t[i].files, files)
    <3>1. CASE i = k + 1
      BY <2>2, <2>3, <2>4, <3>1
    <3>2. CASE i # k + 1
      <4>1. i \in DOMAIN snaps /\ t[i] = snaps[i]
        BY <2>3, <3>2
      <4>2. QED
        BY <1>4, <2>2, <4>1
    <3>3. QED
      BY <3>1, <3>2
  <2>6. ASSUME NEW i \in DOMAIN t, NEW j \in DOMAIN t, i < j
        PROVE  t[i].at =< t[j].at /\ Grown(t[i].files, t[j].files)
    <3>1. CASE j = k + 1
      BY <2>2, <2>3, <2>5, <3>1
    <3>2. CASE j # k + 1
      <4>1. i \in DOMAIN snaps /\ t[i] = snaps[i] /\ j \in DOMAIN snaps /\ t[j] = snaps[j]
        BY <2>3, <2>6, <3>2
      <4>2. QED
        BY <2>6, <4>1 DEF GrowInv
    <3>3. QED
      BY <3>1, <3>2
  <2>7. QED
    BY <2>1, <2>2, <2>5, <2>6 DEF GrowInv
<1>7. UNCHANGED snaps \/ Pass
  <2>1. ASSUME Process PROVE UNCHANGED snaps
    BY <2>1, ProcessSays DEF Emit, loopVars
  <2>2. QED
    BY <2>1 DEF Next, vars, loopVars, Tick, Handle, HandleMmap, Record
<1>8. QED
  BY <1>5, <1>6, <1>7

\* SnapshotsGrow: a lost interim POST is superseded by the next, which has all it
\* had and is scored no lower.
THEOREM SnapshotsGrowHolds == Spec => []SnapshotsGrow
<1>1. Init => GrowInv
  BY DEF Init, GrowInv
<1>2. TypeInv /\ GrowInv /\ [Next]_vars => TypeInv' /\ GrowInv'
  BY TypeStep, GrowStep
<1>3. TypeInv /\ GrowInv => SnapshotsGrow
  <2>1. SUFFICES ASSUME TypeInv, GrowInv, NEW i \in DOMAIN snaps, NEW j \in DOMAIN snaps, i < j
                 PROVE  /\ Grown(snaps[i].files, snaps[j].files)
                        /\ ScoreAt(snaps[i].files, snaps[i].at) =< ScoreAt(snaps[j].files, snaps[j].at)
    BY DEF SnapshotsGrow, Grown, ScoreAt
  <2>2. snaps[i].at =< snaps[j].at /\ Grown(snaps[i].files, snaps[j].files)
    BY <2>1 DEF GrowInv
  <2>3. snaps[i].at \in Nat /\ snaps[j].at \in Nat
    BY <2>1, SnapType
  <2>4. QED
    BY <2>2, <2>3, ScoreGrows
<1>4. QED
  BY TypeInit, <1>1, <1>2, <1>3, PTL DEF Spec

-----------------------------------------------------------------------------
(* What is recorded.                                                       *)

\* How many events have been handled; the paths the last of them has yet to have
\* recorded; and the events whose record of p has been made.
Handled == Len(said) - Len(ring)

Waiting == {pending[k].path : k \in DOMAIN pending}

DoneOf(events, n, waiting, p) ==
    {i \in 1 .. n : p \in Kepts(events[i]) /\ ~(i = n /\ p \in waiting)}

Done(p) == DoneOf(said, Handled, Waiting, p)

\* The ring buffer holds the events that have not been handled, in their order,
\* and the handler's records are of the last that has been.
OrderInv ==
    /\ Handled \in Nat
    /\ \A j \in DOMAIN ring : ring[j] = said[Handled + j]
    /\ pending # <<>> => Handled \in DOMAIN said
    /\ \A k \in DOMAIN pending :
          /\ pending[k].path \in Kepts(said[Handled])
          /\ pending[k].modes \ {"s"} = Keeps(said[Handled])
          /\ pending[k].at =< now
    /\ \A k, l \in DOMAIN pending : pending[k].path = pending[l].path => k = l

\* An entry is there if, has been counted as often as, and has the modes of the
\* events whose record of it has been made.
EntryOK(events, done, fs, p, t) ==
    /\ p \in DOMAIN fs <=> done # {}
    /\ p \in DOMAIN fs =>
          /\ fs[p].modes \ {"m"} = UNION {Keeps(events[i]) : i \in done}
          /\ fs[p].count = Cardinality(done)
          /\ fs[p].first =< fs[p].last /\ fs[p].last =< t

EntryInv == \A p \in Paths : EntryOK(said, Done(p), files, p, now)

\* A map comes after the open or the exec of its file, and has left its mark.
Marked(e, fs) ==
    e.kind = "mmap" /\ Kept(e.of) /\ Last(Clean(e.of)) = e.name =>
        Clean(e.of) \in DOMAIN fs /\ "m" \in fs[Clean(e.of)].modes

MapInv ==
    /\ \A i \in DOMAIN said :
          said[i].kind = "mmap" =>
              \E j \in 1 .. (i - 1) : said[j].kind \in {"open", "exec"} /\ said[j].path = said[i].of
    /\ \A i \in 1 .. Handled : Marked(said[i], files)

LEMMA SeqTypes ==
    ASSUME TypeInv
    PROVE  /\ now \in Nat /\ files \in Files
           /\ Len(said) \in Nat /\ DOMAIN said = 1 .. Len(said)
           /\ Len(ring) \in Nat /\ DOMAIN ring = 1 .. Len(ring)
           /\ Len(pending) \in Nat /\ DOMAIN pending = 1 .. Len(pending)
           /\ \A i \in DOMAIN said : said[i] \in Event
           /\ \A k \in DOMAIN pending : pending[k] \in Rec
<1>1. /\ now \in Nat /\ files \in Files
      /\ said \in Seq(Event) /\ ring \in Seq(Event) /\ pending \in Seq(Rec)
  BY DEF TypeInv
<1>2. /\ Len(said) \in Nat /\ DOMAIN said = 1 .. Len(said)
      /\ Len(ring) \in Nat /\ DOMAIN ring = 1 .. Len(ring)
      /\ Len(pending) \in Nat /\ DOMAIN pending = 1 .. Len(pending)
  BY <1>1
<1>3. \A i \in DOMAIN said : said[i] \in Event
  BY <1>1, <1>2, ElementOfSeq
<1>4. \A k \in DOMAIN pending : pending[k] \in Rec
  BY <1>1, <1>2, ElementOfSeq
<1>5. QED
  BY <1>1, <1>2, <1>3, <1>4

\* An access appends to both sequences: what has been handled stays as it is.
LEMMA AccessAppends ==
    ASSUME TypeInv, OrderInv, NEW events \in Seq(Event), Emit(events)
    PROVE  /\ Handled' = Handled /\ Handled \in 0 .. Len(said)
           /\ Len(said') = Len(said) + Len(events) /\ Len(events) \in Nat
           /\ DOMAIN said' = 1 .. Len(said')
           /\ \A i \in DOMAIN said : i \in DOMAIN said' /\ said'[i] = said[i]
           /\ \A k \in 1 .. Len(events) : said'[Len(said) + k] = events[k]
           /\ \A j \in DOMAIN ring' : ring'[j] = said'[Handled + j]
<1>1. PICK s, r, a, b, n :
          s = said' /\ r = ring' /\ a = Len(said) /\ b = Len(ring) /\ n = Len(events)
  OBVIOUS
<1>2. /\ a \in Nat /\ b \in Nat /\ n \in Nat
      /\ DOMAIN said = 1 .. a /\ DOMAIN ring = 1 .. b
  BY <1>1, SeqTypes
<1>3. s = said \o events /\ r = ring \o events
  BY <1>1 DEF Emit
<1>4. /\ DOMAIN s = 1 .. (a + n) /\ Len(s) = a + n
      /\ \A i \in 1 .. a : s[i] = said[i]
      /\ \A k \in 1 .. n : s[a + k] = events[k]
  BY <1>1, <1>3 DEF TypeInv
<1>5. /\ DOMAIN r = 1 .. (b + n) /\ Len(r) = b + n
      /\ \A i \in 1 .. b : r[i] = ring[i]
      /\ \A k \in 1 .. n : r[b + k] = events[k]
  BY <1>1, <1>3 DEF TypeInv
<1>6. PICK h : h = Handled
  OBVIOUS
<1>7. h = a - b /\ h \in Nat /\ h \in 0 .. a
  BY <1>1, <1>2, <1>6 DEF Handled, OrderInv
<1>8. Handled' = (a + n) - (b + n)
  BY <1>1, <1>4, <1>5 DEF Handled
<1>9. Handled' = h
  BY <1>2, <1>7, <1>8
<1>10. ASSUME NEW j \in DOMAIN r PROVE r[j] = s[h + j]
  <2>1. CASE j \in 1 .. b
    <3>1. h + j \in 1 .. a
      BY <1>2, <1>7, <2>1
    <3>2. ring[j] = said[h + j]
      BY <1>2, <1>6, <2>1 DEF OrderInv
    <3>3. QED
      BY <1>4, <1>5, <2>1, <3>1, <3>2
  <2>2. CASE j \notin 1 .. b
    <3>1. PICK k \in 1 .. n : j = b + k
      <4>1. j - b \in 1 .. n /\ j = b + (j - b)
        BY <1>2, <1>5, <2>2
      <4>2. QED
        BY <4>1
    <3>2. h + j = a + k
      BY <1>2, <1>7, <3>1
    <3>3. QED
      BY <1>4, <1>5, <3>1, <3>2
  <2>3. QED
    BY <2>1, <2>2
<1>11. \A i \in DOMAIN said : i \in DOMAIN s /\ s[i] = said[i]
  BY <1>2, <1>4
<1>12. QED
  BY <1>1, <1>4, <1>6, <1>7, <1>9, <1>10, <1>11

\* A handler takes the first event of the ring buffer, which is the next.
LEMMA HandlerTakes ==
    ASSUME TypeInv, OrderInv, ring # <<>>, ring' = Tail(ring), UNCHANGED said
    PROVE  /\ Handled \in Nat /\ Handled' = Handled + 1
           /\ Handled + 1 \in DOMAIN said /\ Head(ring) = said[Handled + 1]
           /\ \A j \in DOMAIN ring' : ring'[j] = said[Handled + 1 + j]
<1>1. PICK r, a, b, h : r = ring' /\ a = Len(said) /\ b = Len(ring) /\ h = Handled
  OBVIOUS
<1>2. a \in Nat /\ b \in Nat /\ DOMAIN said = 1 .. a /\ DOMAIN ring = 1 .. b
  BY <1>1, SeqTypes
<1>3. ring \in Seq(Event) /\ b # 0
  BY <1>1 DEF TypeInv
<1>4. /\ r = Tail(ring) /\ Len(r) = b - 1 /\ DOMAIN r = 1 .. (b - 1)
      /\ \A j \in 1 .. (b - 1) : r[j] = ring[j + 1]
      /\ Head(ring) = ring[1]
  BY <1>1, <1>2, <1>3
<1>5. h = a - b /\ h \in Nat
  BY <1>1 DEF Handled, OrderInv
<1>6. Handled' = a - (b - 1)
  BY <1>1, <1>4 DEF Handled
<1>7. Handled' = h + 1 /\ h + 1 \in 1 .. a /\ 1 \in 1 .. b
  BY <1>2, <1>3, <1>5, <1>6
<1>8. \A j \in 1 .. b : ring[j] = said[h + j]
  BY <1>1, <1>2 DEF OrderInv
<1>9. ASSUME NEW j \in DOMAIN r PROVE r[j] = said[h + 1 + j]
  <2>1. j \in 1 .. (b - 1) /\ j + 1 \in 1 .. b /\ h + (j + 1) = h + 1 + j
    BY <1>2, <1>4, <1>5
  <2>2. QED
    BY <1>4, <1>8, <2>1
<1>10. QED
  BY <1>1, <1>2, <1>4, <1>5, <1>7, <1>8, <1>9

LEMMA OrderInit == Init => OrderInv
BY DEF Init, OrderInv, Handled

LEMMA OrderStep ==
    ASSUME TypeInv, OrderInv, [Next]_vars
    PROVE  OrderInv'
<1>t. now \in Nat /\ now' \in Nat /\ \A k \in DOMAIN pending : pending[k] \in Rec
  BY TypeStep, SeqTypes DEF TypeInv
<1>a. \A k \in DOMAIN pending : pending[k].at \in Nat
  BY <1>t DEF Rec
<1>1. CASE UNCHANGED <<said, ring, pending>> /\ now' \in {now, now + 1}
  <2>1. \A k \in DOMAIN pending : pending[k].at =< now'
    <3>1. SUFFICES ASSUME NEW k \in DOMAIN pending PROVE pending[k].at =< now'
      OBVIOUS
    <3>2. PICK t : t = pending[k].at
      OBVIOUS
    <3>3. t \in Nat /\ t =< now
      BY <1>a, <3>2 DEF OrderInv
    <3>4. t =< now'
      BY <1>1, <1>t, <3>3
    <3>5. QED
      BY <3>2, <3>4
  <2>2. Handled' = Handled
    BY <1>1 DEF Handled
  <2>3. QED
    BY <1>1, <2>1, <2>2 DEF OrderInv
<1>2. CASE Process
  <2>1. PICK events \in Seq(Event) : Emit(events)
    BY <1>2, ProcessSays
  <2>2. UNCHANGED <<pending, now>>
    BY <2>1 DEF Emit
  <2>3. pending # <<>> => Handled \in DOMAIN said' /\ said'[Handled] = said[Handled]
    BY <2>1, AccessAppends DEF OrderInv
  <2>4. \A k \in DOMAIN pending : pending # <<>>
    BY SeqTypes
  <2>5. Handled' = Handled /\ Handled \in Nat /\ \A j \in DOMAIN ring' : ring'[j] = said'[Handled + j]
    BY <2>1, AccessAppends DEF OrderInv
  <2>6. QED
    BY <2>2, <2>3, <2>4, <2>5 DEF OrderInv
<1>3. CASE Handle
  <2>1. ring # <<>> /\ ring' = Tail(ring) /\ UNCHANGED <<said, now>> /\ Head(ring).kind # "mmap"
    BY <1>3 DEF Handle
  <2>2. PICK h, e : h = Handled + 1 /\ e = said[h]
    OBVIOUS
  <2>3. /\ Handled' = h /\ h \in Nat /\ h \in DOMAIN said /\ Head(ring) = e
        /\ \A j \in DOMAIN ring' : ring'[j] = said[h + j]
    BY <2>1, <2>2, HandlerTakes
  <2>4. e \in Event
    BY <2>2, <2>3, SeqTypes
  <2>5. PICK rs : rs = pending' /\ rs = Records(e)
    BY <1>3, <2>3 DEF Handle
  <2>6. /\ {rs[k].path : k \in DOMAIN rs} = Kepts(e)
        /\ \A k \in DOMAIN rs : rs[k].modes \ {"s"} = Keeps(e) /\ rs[k].at = now
        /\ \A k, l \in DOMAIN rs : rs[k].path = rs[l].path => k = l
    BY <1>t, <2>1, <2>3, <2>4, <2>5, RecordsMade
  <2>7. \A k \in DOMAIN rs : rs[k].at =< now
    BY <1>t, <2>6
  <2>8. QED
    BY <2>1, <2>2, <2>3, <2>5, <2>6, <2>7 DEF OrderInv
<1>4. CASE HandleMmap
  <2>1. ring # <<>> /\ ring' = Tail(ring) /\ UNCHANGED <<said, pending, now>> /\ pending = <<>>
    BY <1>4 DEF HandleMmap
  <2>2. PICK h : h = Handled + 1
    OBVIOUS
  <2>3. Handled' = h /\ h \in Nat /\ \A j \in DOMAIN ring' : ring'[j] = said[h + j]
    BY <2>1, <2>2, HandlerTakes
  <2>4. DOMAIN pending = {}
    BY <2>1
  <2>5. QED
    BY <2>1, <2>3, <2>4 DEF OrderInv
<1>5. CASE Record
  <2>1. /\ pending # <<>> /\ pending' = Tail(pending) /\ UNCHANGED <<said, ring, now>>
        /\ Handled' = Handled
    BY <1>5 DEF Record, Handled
  <2>2. PICK q, n : q = pending' /\ n = Len(pending)
    OBVIOUS
  <2>3. pending \in Seq(Rec) /\ n \in Nat /\ n # 0 /\ DOMAIN pending = 1 .. n
    BY <2>1, <2>2 DEF TypeInv
  <2>4. DOMAIN q = 1 .. (n - 1) /\ \A k \in 1 .. (n - 1) : q[k] = pending[k + 1]
    BY <2>1, <2>2, <2>3
  <2>5. \A k \in DOMAIN q : k + 1 \in DOMAIN pending /\ q[k] = pending[k + 1] /\ k \in Nat
    BY <2>3, <2>4
  <2>6. \A k, l \in DOMAIN q : q[k].path = q[l].path => k = l
    <3>1. SUFFICES ASSUME NEW k \in DOMAIN q, NEW l \in DOMAIN q, q[k].path = q[l].path
                   PROVE  k = l
      OBVIOUS
    <3>2. k + 1 = l + 1
      BY <2>5, <3>1 DEF OrderInv
    <3>3. QED
      BY <2>5, <3>2
  <2>7. QED
    BY <2>1, <2>2, <2>5, <2>6 DEF OrderInv
<1>6. (UNCHANGED <<said, ring, pending>> /\ now' \in {now, now + 1})
      \/ Process \/ Handle \/ HandleMmap \/ Record
  BY DEF Next, vars, Tick, Pass
<1>7. QED
  BY <1>1, <1>2, <1>3, <1>4, <1>5, <1>6

-----------------------------------------------------------------------------
\* Time and later accesses leave an entry right.
LEMMA EntryLasts ==
    ASSUME NEW a, NEW b, NEW done, NEW fs \in Files, NEW p, NEW t \in Nat, NEW u \in Nat, t =< u,
           \A i \in done : a[i] = b[i], EntryOK(a, done, fs, p, t)
    PROVE  EntryOK(b, done, fs, p, u)
<1>1. {Keeps(a[i]) : i \in done} = {Keeps(b[i]) : i \in done}
  OBVIOUS
<1>2. ASSUME p \in DOMAIN fs PROVE fs[p].last =< u
  <2>1. PICK l : l = fs[p].last
    OBVIOUS
  <2>2. l \in Nat
    BY <1>2, <2>1, FilesType DEF Entry
  <2>3. l =< t
    BY <1>2, <2>1 DEF EntryOK
  <2>4. l =< u
    BY <2>2, <2>3
  <2>5. QED
    BY <2>1, <2>4
<1>3. QED
  BY <1>1, <1>2 DEF EntryOK

\* So does the map of a file: "m" is apart from what accesses ask for.
LEMMA EntryMerged ==
    ASSUME NEW a, NEW done, NEW fs \in Files, NEW p, NEW name, NEW t \in Nat,
           EntryOK(a, done, fs, p, t)
    PROVE  EntryOK(a, done, MergeAccessModeByBasename(fs, name, "m", t), p, t)
<1>1. PICK new : new = MergeAccessModeByBasename(fs, name, "m", t)
  OBVIOUS
<1>2. new \in Files /\ DOMAIN new = DOMAIN fs
  BY <1>1, Merged
<1>3. ASSUME p \in DOMAIN fs
      PROVE  /\ new[p].modes \ {"m"} = fs[p].modes \ {"m"}
             /\ new[p].count = fs[p].count
             /\ new[p].first =< new[p].last /\ new[p].last =< t
  <2>1. /\ new[p].first = fs[p].first /\ new[p].count = fs[p].count
        /\ new[p].last \in {fs[p].last, t} /\ fs[p].last =< new[p].last
        /\ new[p].modes \in {fs[p].modes, fs[p].modes \cup {"m"}}
    BY <1>1, <1>3, Merged
  <2>2. PICK f, l, m : f = fs[p].first /\ l = fs[p].last /\ m = new[p].last
    OBVIOUS
  <2>3. f \in Nat /\ l \in Nat
    BY <1>3, <2>2, FilesType DEF Entry
  <2>4. f =< l /\ l =< t
    BY <1>3, <2>2 DEF EntryOK
  <2>5. f =< m /\ m =< t
    BY <2>1, <2>2, <2>3, <2>4
  <2>6. new[p].modes \ {"m"} = fs[p].modes \ {"m"}
    BY <2>1
  <2>7. QED
    BY <2>1, <2>2, <2>5, <2>6
<1>4. EntryOK(a, done, new, p, t)
  BY <1>2, <1>3 DEF EntryOK
<1>5. QED
  BY <1>1, <1>4

\* A record brings its entry up to its event.
LEMMA EntryRecorded ==
    ASSUME NEW a, NEW done, IsFiniteSet(done), NEW h, h \notin done,
           NEW fs \in Files, NEW p \in Paths, NEW modes \in SUBSET {"r", "w", "x", "s"},
           NEW at \in Nat, NEW t \in Nat, at =< t, modes \ {"s"} = Keeps(a[h]),
           NEW new, OneRecorded(fs, p, modes, at, new), EntryOK(a, done, fs, p, t)
    PROVE  EntryOK(a, done \cup {h}, new, p, t)
<1>1. p \in DOMAIN new /\ done \cup {h} # {}
  BY DEF OneRecorded
<1>2. Cardinality(done \cup {h}) = Cardinality(done) + 1
  BY FS_AddElement
<1>3. UNION {Keeps(a[i]) : i \in done \cup {h}} = (UNION {Keeps(a[i]) : i \in done}) \cup (modes \ {"s"})
  OBVIOUS
<1>4. "m" \notin modes
  OBVIOUS
<1>5. CASE p \in DOMAIN fs
  <2>1. /\ new[p].modes = fs[p].modes \cup (modes \ {"s"})
        /\ new[p].first = fs[p].first
        /\ new[p].last = IF at > fs[p].last THEN at ELSE fs[p].last
        /\ new[p].count = fs[p].count + 1
    BY <1>5 DEF OneRecorded
  <2>2. /\ fs[p].modes \ {"m"} = UNION {Keeps(a[i]) : i \in done}
        /\ fs[p].count = Cardinality(done)
        /\ fs[p].first =< fs[p].last /\ fs[p].last =< t
    BY <1>5 DEF EntryOK
  <2>3. new[p].modes \ {"m"} = UNION {Keeps(a[i]) : i \in done \cup {h}}
    BY <1>3, <1>4, <2>1, <2>2
  <2>4. new[p].count = Cardinality(done \cup {h})
    BY <1>2, <2>1, <2>2
  <2>5. PICK f, l, m : f = fs[p].first /\ l = fs[p].last /\ m = new[p].last
    OBVIOUS
  <2>6. f \in Nat /\ l \in Nat
    BY <1>5, <2>5, FilesType DEF Entry
  <2>7. f =< l /\ l =< t /\ m = IF at > l THEN at ELSE l
    BY <2>1, <2>2, <2>5
  <2>8. f =< m /\ m =< t
    BY <2>6, <2>7
  <2>9. new[p].first =< new[p].last /\ new[p].last =< t
    BY <2>1, <2>5, <2>8
  <2>10. QED
    BY <1>1, <2>3, <2>4, <2>9 DEF EntryOK
<1>6. CASE p \notin DOMAIN fs
  <2>1. new[p].modes = modes \ {"s"} /\ new[p].first = at /\ new[p].last = at /\ new[p].count = 1
    BY <1>6 DEF OneRecorded
  <2>2. done = {}
    BY <1>6 DEF EntryOK
  <2>3. Cardinality(done) = 0
    BY <2>2, FS_EmptySet
  <2>4. new[p].count = Cardinality(done \cup {h})
    BY <1>2, <2>1, <2>3
  <2>5. new[p].modes \ {"m"} = UNION {Keeps(a[i]) : i \in done \cup {h}}
    <3>1. UNION {Keeps(a[i]) : i \in done} = {}
      BY <2>2
    <3>2. QED
      BY <1>3, <1>4, <2>1, <3>1
  <2>6. new[p].first =< new[p].last /\ new[p].last =< t
    BY <2>1
  <2>7. QED
    BY <1>1, <2>4, <2>5, <2>6 DEF EntryOK
<1>7. QED
  BY <1>5, <1>6

LEMMA EntryInit == Init => EntryInv
<1>1. SUFFICES ASSUME Init, NEW p \in Paths PROVE EntryOK(said, Done(p), files, p, now)
  BY DEF EntryInv
<1>2. Handled = 0 /\ DOMAIN files = {}
  BY <1>1 DEF Init, Handled
<1>3. Done(p) = {}
  BY <1>2 DEF Done, DoneOf
<1>4. QED
  BY <1>2, <1>3 DEF EntryOK

LEMMA EntryStep ==
    ASSUME TypeInv, OrderInv, EntryInv, [Next]_vars
    PROVE  EntryInv'
<1>t. /\ now \in Nat /\ now' \in Nat /\ files \in Files /\ files' \in Files
  BY TypeStep DEF TypeInv
<1>h. Handled \in Nat
  BY DEF OrderInv
<1>n. now =< now /\ now =< now + 1
  BY <1>t
<1>s. SUFFICES ASSUME NEW p \in Paths
               PROVE  EntryOK(said', Done(p)', files', p, now')
  BY DEF EntryInv
<1>0. EntryOK(said, Done(p), files, p, now)
  BY DEF EntryInv
<1>1. CASE UNCHANGED <<said, ring, pending, files>> /\ now' \in {now, now + 1}
  <2>1. Done(p)' = Done(p)
    BY <1>1 DEF Done, DoneOf, Handled, Waiting
  <2>2. \A i \in Done(p) : said[i] = said'[i]
    BY <1>1
  <2>3. now =< now'
    BY <1>1, <1>n
  <2>4. EntryOK(said', Done(p), files, p, now')
    BY <1>t, <1>0, <2>2, <2>3, EntryLasts
  <2>5. QED
    BY <1>1, <2>1, <2>4
<1>2. CASE Process
  <2>1. PICK events \in Seq(Event) : Emit(events)
    BY <1>2, ProcessSays
  <2>2. UNCHANGED <<pending, files, now>>
    BY <2>1 DEF Emit
  <2>3. PICK h, b : h = Handled /\ b = said'
    OBVIOUS
  <2>4. /\ Handled' = h /\ h \in 0 .. Len(said)
        /\ \A i \in DOMAIN said : i \in DOMAIN b /\ b[i] = said[i]
    BY <2>1, <2>3, AccessAppends
  <2>5. \A i \in 1 .. h : i \in DOMAIN said
    BY <2>4, SeqTypes
  <2>6. \A i \in 1 .. h : b[i] = said[i]
    BY <2>4, <2>5
  <2>7. Waiting' = Waiting
    BY <2>2 DEF Waiting
  <2>8. Done(p) = DoneOf(said, h, Waiting, p) /\ Done(p)' = DoneOf(b, h, Waiting, p)
    BY <2>3, <2>4, <2>7 DEF Done
  <2>9. DoneOf(b, h, Waiting, p) = DoneOf(said, h, Waiting, p)
    BY <2>6 DEF DoneOf
  <2>10. \A i \in Done(p) : said[i] = b[i]
    BY <2>6, <2>8 DEF DoneOf
  <2>11. EntryOK(b, Done(p), files, p, now)
    BY <1>t, <1>n, <1>0, <2>10, EntryLasts
  <2>12. QED
    BY <2>2, <2>3, <2>8, <2>9, <2>11
<1>3. CASE Handle
  <2>1. /\ pending = <<>> /\ ring # <<>> /\ ring' = Tail(ring) /\ Head(ring).kind # "mmap"
        /\ pending' = Records(Head(ring)) /\ UNCHANGED <<said, files, now>>
    BY <1>3 DEF Handle
  <2>2. PICK h, e : h = Handled /\ e = said[h + 1]
    OBVIOUS
  <2>3. h \in Nat /\ Handled' = h + 1 /\ h + 1 \in DOMAIN said /\ Head(ring) = e
    BY <2>1, <2>2, HandlerTakes
  <2>4. e \in Event
    BY <2>2, <2>3, SeqTypes
  <2>5. PICK rs : rs = pending' /\ rs = Records(e)
    BY <2>1, <2>3
  <2>6. {rs[k].path : k \in DOMAIN rs} = Kepts(e)
    BY <1>t, <2>1, <2>3, <2>4, <2>5, RecordsMade
  <2>7. Waiting' = Kepts(e) /\ Waiting = {}
    BY <2>1, <2>5, <2>6 DEF Waiting
  <2>8. Done(p) = DoneOf(said, h, {}, p) /\ Done(p)' = DoneOf(said, h + 1, Kepts(e), p)
    BY <2>1, <2>2, <2>3, <2>7 DEF Done
  <2>9. \A i : i \in 1 .. (h + 1) <=> i \in 1 .. h \/ i = h + 1
    BY <2>3
  <2>10. \A i \in 1 .. h : i # h + 1
    BY <2>3
  <2>11. DoneOf(said, h + 1, Kepts(e), p) = DoneOf(said, h, {}, p)
    BY <2>2, <2>9, <2>10 DEF DoneOf
  <2>12. QED
    BY <1>0, <2>1, <2>8, <2>11
<1>4. CASE HandleMmap
  <2>1. /\ pending = <<>> /\ ring # <<>> /\ ring' = Tail(ring) /\ Head(ring).kind = "mmap"
        /\ UNCHANGED <<said, pending, now>>
    BY <1>4 DEF HandleMmap
  <2>2. PICK h, e : h = Handled /\ e = said[h + 1]
    OBVIOUS
  <2>3. h \in Nat /\ Handled' = h + 1 /\ Head(ring) = e
    BY <2>1, <2>2, HandlerTakes
  <2>4. Kepts(e) = {}
    BY <2>1, <2>3 DEF Kepts, Names
  <2>5. Waiting' = {} /\ Waiting = {}
    BY <2>1 DEF Waiting
  <2>6. Done(p) = DoneOf(said, h, {}, p) /\ Done(p)' = DoneOf(said, h + 1, {}, p)
    BY <2>1, <2>2, <2>3, <2>5 DEF Done
  <2>7. \A i : i \in 1 .. (h + 1) <=> i \in 1 .. h \/ i = h + 1
    BY <2>3
  <2>8. DoneOf(said, h + 1, {}, p) = DoneOf(said, h, {}, p)
    BY <2>2, <2>4, <2>7 DEF DoneOf
  <2>9. files' = MergeAccessModeByBasename(files, e.name, "m", now)
    BY <1>4, <2>3 DEF HandleMmap
  <2>10. EntryOK(said, Done(p), MergeAccessModeByBasename(files, e.name, "m", now), p, now)
    BY <1>t, <1>0, EntryMerged
  <2>11. QED
    BY <2>1, <2>6, <2>8, <2>9, <2>10
<1>5. CASE Record
  <2>1. /\ pending # <<>> /\ pending' = Tail(pending) /\ UNCHANGED <<said, ring, now>>
        /\ Handled' = Handled
    BY <1>5 DEF Record, Handled
  <2>2. PICK q, n, h, r : q = pending' /\ n = Len(pending) /\ h = Handled /\ r = pending[1]
    OBVIOUS
  <2>3. pending \in Seq(Rec) /\ n \in Nat /\ n # 0 /\ DOMAIN pending = 1 .. n
    BY <2>1, <2>2 DEF TypeInv
  <2>4. /\ DOMAIN q = 1 .. (n - 1) /\ \A k \in 1 .. (n - 1) : q[k] = pending[k + 1]
        /\ r = Head(pending) /\ 1 \in DOMAIN pending /\ r \in Rec
    BY <2>1, <2>2, <2>3, ElementOfSeq
  <2>5. /\ h \in DOMAIN said /\ r.path \in Kepts(said[h])
        /\ r.modes \ {"s"} = Keeps(said[h]) /\ r.at =< now
    BY <2>1, <2>2, <2>4 DEF OrderInv
  <2>6. h \in Nat /\ h \in 1 .. h
    BY <1>h, <2>2, <2>5, SeqTypes
  <2>7. \A k \in DOMAIN pending : k # 1 <=> pending[k].path # r.path
    BY <2>2, <2>4 DEF OrderInv
  <2>8. Waiting' = Waiting \ {r.path}
    <3>1. \A k \in DOMAIN q : k + 1 \in DOMAIN pending /\ k + 1 # 1 /\ q[k] = pending[k + 1]
      BY <2>3, <2>4
    <3>2. \A k \in DOMAIN pending : k # 1 => k - 1 \in DOMAIN q /\ q[k - 1] = pending[k]
      <4>1. SUFFICES ASSUME NEW k \in 1 .. n, k # 1 PROVE k - 1 \in 1 .. (n - 1) /\ (k - 1) + 1 = k
        BY <2>3, <2>4
      <4>2. QED
        BY <2>3, <4>1
    <3>3. {q[k].path : k \in DOMAIN q} = {pending[k].path : k \in DOMAIN pending} \ {r.path}
      <4>1. ASSUME NEW k \in DOMAIN q
            PROVE  q[k].path \in {pending[l].path : l \in DOMAIN pending} \ {r.path}
        BY <2>7, <3>1
      <4>2. ASSUME NEW k \in DOMAIN pending, pending[k].path # r.path
            PROVE  pending[k].path \in {q[l].path : l \in DOMAIN q}
        BY <2>7, <3>2, <4>2
      <4>3. QED
        BY <4>1, <4>2
    <3>4. QED
      BY <2>2, <3>3 DEF Waiting
  <2>9. r.path \in Waiting
    BY <2>2, <2>4 DEF Waiting
  <2>10. PICK w : w = Waiting
    OBVIOUS
  <2>11. Done(p) = DoneOf(said, h, w, p) /\ Done(p)' = DoneOf(said, h, w \ {r.path}, p)
    BY <2>1, <2>2, <2>8, <2>10 DEF Done
  <2>12. /\ r.path \in Paths /\ r.modes \in SUBSET {"r", "w", "x", "s"} /\ r.at \in Nat
    BY <2>4 DEF Rec
  <2>13. PICK rp, rm, ra, new : rp = r.path /\ rm = r.modes /\ ra = r.at /\ new = files'
    OBVIOUS
  <2>14. new = RecordFile(files, rp, rm, ra)
    BY <1>5, <2>4, <2>13 DEF Record
  <2>15. OneRecorded(files, rp, rm, ra, new)
    BY <1>t, <2>12, <2>13, <2>14, Recorded
  <2>16. CASE p # r.path
    <3>1. DoneOf(said, h, w \ {r.path}, p) = DoneOf(said, h, w, p)
      BY <2>16 DEF DoneOf
    <3>2. (p \in DOMAIN new <=> p \in DOMAIN files) /\ (p \in DOMAIN files => new[p] = files[p])
      BY <2>13, <2>15, <2>16 DEF OneRecorded
    <3>3. EntryOK(said, Done(p), new, p, now)
      BY <1>0, <3>2 DEF EntryOK
    <3>4. QED
      BY <2>1, <2>11, <2>13, <3>1, <3>3
  <2>17. CASE p = r.path
    <3>1. DoneOf(said, h, w \ {r.path}, p) = DoneOf(said, h, w, p) \cup {h}
      BY <2>5, <2>6, <2>17 DEF DoneOf
    <3>2. h \notin DoneOf(said, h, w, p)
      BY <2>9, <2>10, <2>17 DEF DoneOf
    <3>3. DoneOf(said, h, w, p) \subseteq 1 .. h /\ IsFiniteSet(1 .. h)
      BY <2>6, FS_Interval DEF DoneOf
    <3>4. IsFiniteSet(Done(p)) /\ h \notin Done(p)
      BY <2>11, <3>2, <3>3, FS_Subset
    <3>5. PICK done : done = Done(p)
      OBVIOUS
    <3>6. EntryOK(said, done, files, rp, now) /\ IsFiniteSet(done) /\ h \notin done
      BY <1>0, <2>13, <2>17, <3>4, <3>5
    <3>7. /\ rp \in Paths /\ rm \in SUBSET {"r", "w", "x", "s"} /\ ra \in Nat /\ ra =< now
          /\ rm \ {"s"} = Keeps(said[h])
      BY <2>5, <2>12, <2>13
    <3>8. EntryOK(said, done \cup {h}, new, rp, now)
      BY <1>t, <2>15, <3>6, <3>7, EntryRecorded
    <3>9. QED
      BY <2>1, <2>11, <2>13, <2>17, <3>1, <3>5, <3>8
  <2>18. QED
    BY <2>16, <2>17
<1>6. (UNCHANGED <<said, ring, pending, files>> /\ now' \in {now, now + 1})
      \/ Process \/ Handle \/ HandleMmap \/ Record
  BY DEF Next, vars, Tick, Pass
<1>7. QED
  BY <1>1, <1>2, <1>3, <1>4, <1>5, <1>6

LEMMA MapInit == Init => MapInv
<1>1. SUFFICES ASSUME Init PROVE MapInv
  OBVIOUS
<1>2. DOMAIN said = {} /\ Handled = 0
  BY <1>1 DEF Init, Handled
<1>3. 1 .. Handled = {}
  BY <1>2
<1>4. QED
  BY <1>2, <1>3 DEF MapInv

\* What is recorded stays, and so do the marks.
LEMMA MarkedLasts ==
    ASSUME NEW e, NEW a, NEW b, Grown(a, b), Marked(e, a)
    PROVE  Marked(e, b)
BY DEF Marked, Grown

\* With the entries right and no record waiting, a file that was opened or
\* executed before under an allowed path is there when its map is handled.
LEMMA MappedIsThere ==
    ASSUME TypeInv, OrderInv, EntryInv, MapInv, pending = <<>>,
           NEW e, Handled + 1 \in DOMAIN said, e = said[Handled + 1],
           e.kind = "mmap", Kept(e.of)
    PROVE  Clean(e.of) \in DOMAIN files
<1>1. PICK h, p : h = Handled /\ p = Clean(e.of)
  OBVIOUS
<1>2. h \in Nat
  BY <1>1 DEF OrderInv
<1>3. PICK j \in 1 .. h : said[j].kind \in {"open", "exec"} /\ said[j].path = e.of
  <2>1. PICK j \in 1 .. ((h + 1) - 1) : said[j].kind \in {"open", "exec"} /\ said[j].path = e.of
    <3>1. PICK i : i = h + 1
      OBVIOUS
    <3>2. i \in DOMAIN said /\ said[i].kind = "mmap" /\ said[i].of = e.of
      BY <1>1, <3>1
    <3>3. \E j \in 1 .. (i - 1) : said[j].kind \in {"open", "exec"} /\ said[j].path = said[i].of
      BY <3>2 DEF MapInv
    <3>4. QED
      BY <3>1, <3>2, <3>3
  <2>2. QED
    BY <1>2, <2>1
<1>4. j \in DOMAIN said
  <2>1. h + 1 \in 1 .. Len(said) /\ Len(said) \in Nat /\ DOMAIN said = 1 .. Len(said)
    BY <1>1, SeqTypes
  <2>2. QED
    BY <1>2, <2>1
<1>5. said[j] \in Event
  BY <1>4, SeqTypes
<1>6. e.of \in Names(said[j])
  BY <1>3 DEF Names
<1>7. p \in Kepts(said[j])
  BY <1>1, <1>6 DEF Kepts
<1>8. said[j].path \in Raw
  BY <1>3, <1>5 DEF Event
<1>9. p \in Paths
  BY <1>1, <1>3, <1>8 DEF Paths, Named
<1>10. Waiting = {}
  BY DEF Waiting
<1>11. j \in Done(p)
  BY <1>1, <1>7, <1>10 DEF Done, DoneOf
<1>12. QED
  BY <1>1, <1>9, <1>11 DEF EntryInv, EntryOK

LEMMA MapStep ==
    ASSUME TypeInv, OrderInv, EntryInv, MapInv, [Next]_vars
    PROVE  MapInv'
<1>t. files \in Files /\ now \in Nat /\ Handled \in Nat
  BY DEF TypeInv, OrderInv
<1>g. Grown(files, files')
  BY FilesGrow
<1>a. ASSUME UNCHANGED said
      PROVE  \A i \in DOMAIN said' :
                said'[i].kind = "mmap" =>
                    \E j \in 1 .. (i - 1) : said'[j].kind \in {"open", "exec"} /\ said'[j].path = said'[i].of
  BY <1>a DEF MapInv
<1>m. \A i \in 1 .. Handled : Marked(said[i], files')
  BY <1>g, MarkedLasts DEF MapInv
<1>1. CASE UNCHANGED said /\ Handled' = Handled
  BY <1>1, <1>a, <1>m DEF MapInv
<1>2. CASE Process
  <2>1. PICK events \in Seq(Event) : Emit(events) /\ Grounded(events)
    BY <1>2, ProcessSays
  <2>2. PICK h, b, a, n : h = Handled /\ b = said' /\ a = Len(said) /\ n = Len(events)
    OBVIOUS
  <2>3. /\ Handled' = h /\ h \in 0 .. a /\ n \in Nat
        /\ DOMAIN b = 1 .. (a + n)
        /\ \A i \in DOMAIN said : i \in DOMAIN b /\ b[i] = said[i]
        /\ \A k \in 1 .. n : b[a + k] = events[k]
    BY <2>1, <2>2, AccessAppends
  <2>4. a \in Nat /\ DOMAIN said = 1 .. a /\ DOMAIN events = 1 .. n
    BY <2>1, <2>2, SeqTypes
  <2>5. ASSUME NEW i \in DOMAIN b, b[i].kind = "mmap"
        PROVE  \E j \in 1 .. (i - 1) : b[j].kind \in {"open", "exec"} /\ b[j].path = b[i].of
    <3>1. CASE i \in 1 .. a
      <4>1. said[i] = b[i]
        BY <2>3, <2>4, <3>1
      <4>2. PICK j \in 1 .. (i - 1) : said[j].kind \in {"open", "exec"} /\ said[j].path = said[i].of
        BY <2>4, <2>5, <3>1, <4>1 DEF MapInv
      <4>3. j \in 1 .. a
        BY <2>4, <3>1, <4>2
      <4>4. b[j] = said[j]
        BY <2>3, <2>4, <4>3
      <4>5. QED
        BY <4>1, <4>2, <4>4
    <3>2. CASE i \notin 1 .. a
      <4>1. i - a \in 1 .. n /\ i = a + (i - a)
        BY <2>3, <2>4, <3>2
      <4>2. PICK k \in 1 .. n : i = a + k
        BY <4>1
      <4>3. b[i] = events[k]
        BY <2>3, <4>2
      <4>4. PICK j \in DOMAIN said : said[j].kind \in {"open", "exec"} /\ said[j].path = b[i].of
        BY <2>1, <2>4, <2>5, <4>3 DEF Grounded
      <4>5. j \in 1 .. (i - 1) /\ b[j] = said[j]
        BY <2>3, <2>4, <4>2, <4>4
      <4>6. QED
        BY <4>4, <4>5
    <3>3. QED
      BY <3>1, <3>2
  <2>6. ASSUME NEW i \in 1 .. h PROVE Marked(b[i], files')
    <3>1. i \in 1 .. a
      BY <2>3, <2>4
    <3>2. b[i] = said[i]
      BY <2>3, <2>4, <3>1
    <3>3. QED
      BY <1>m, <2>2, <3>2
  <2>7. QED
    BY <2>2, <2>3, <2>5, <2>6 DEF MapInv
<1>3. CASE Handle
  <2>1. ring # <<>> /\ ring' = Tail(ring) /\ Head(ring).kind # "mmap" /\ UNCHANGED said
    BY <1>3 DEF Handle
  <2>2. PICK h, e : h = Handled /\ e = said[h + 1]
    OBVIOUS
  <2>3. h \in Nat /\ Handled' = h + 1 /\ Head(ring) = e
    BY <2>1, <2>2, HandlerTakes
  <2>4. Marked(e, files')
    BY <2>1, <2>3 DEF Marked
  <2>5. \A i \in 1 .. (h + 1) : i \in 1 .. h \/ i = h + 1
    BY <2>3
  <2>6. \A i \in 1 .. (h + 1) : Marked(said[i], files')
    BY <1>m, <2>2, <2>4, <2>5
  <2>7. QED
    BY <1>a, <2>1, <2>3, <2>6 DEF MapInv
<1>4. CASE HandleMmap
  <2>1. /\ ring # <<>> /\ ring' = Tail(ring) /\ Head(ring).kind = "mmap" /\ UNCHANGED said
        /\ pending = <<>>
    BY <1>4 DEF HandleMmap
  <2>2. PICK h, e : h = Handled /\ e = said[h + 1]
    OBVIOUS
  <2>3. h \in Nat /\ Handled' = h + 1 /\ Head(ring) = e /\ h + 1 \in DOMAIN said
    BY <2>1, <2>2, HandlerTakes
  <2>4. PICK name, new : name = e.name /\ new = files'
    OBVIOUS
  <2>5. new = MergeAccessModeByBasename(files, name, "m", now)
    BY <1>4, <2>3, <2>4 DEF HandleMmap
  <2>6. DOMAIN new = DOMAIN files /\ \A q \in DOMAIN files : Last(q) = name => "m" \in new[q].modes
    BY <1>t, <2>5, Merged
  <2>7. Kept(e.of) => Clean(e.of) \in DOMAIN files
    BY <2>1, <2>2, <2>3, MappedIsThere
  <2>8. Marked(e, new)
    BY <2>4, <2>6, <2>7 DEF Marked
  <2>9. \A i \in 1 .. (h + 1) : i \in 1 .. h \/ i = h + 1
    BY <2>3
  <2>10. \A i \in 1 .. (h + 1) : Marked(said[i], files')
    BY <1>m, <2>2, <2>4, <2>8, <2>9
  <2>11. QED
    BY <1>a, <2>1, <2>3, <2>10 DEF MapInv
<1>5. (UNCHANGED said /\ Handled' = Handled) \/ Process \/ Handle \/ HandleMmap
  BY DEF Next, vars, Tick, Record, Pass, Handled
<1>6. QED
  BY <1>1, <1>2, <1>3, <1>4, <1>5

\* When nothing is on its way, what has been recorded is what was named.
LEMMA AllDone ==
    ASSUME TypeInv, OrderInv, ring = <<>>, pending = <<>>, NEW p, p # <<>>, Allow(p)
    PROVE  Done(p) = Naming(p)
<1>1. Handled = Len(said) /\ Waiting = {}
  BY SeqTypes DEF Handled, Waiting
<1>2. DOMAIN said = 1 .. Len(said)
  BY SeqTypes
<1>3. \A i \in DOMAIN said : p \in Kepts(said[i]) <=> \E r \in Names(said[i]) : Clean(r) = p
  BY DEF Kepts, Kept
<1>4. QED
  BY <1>1, <1>2, <1>3 DEF Done, DoneOf, Naming

\* RecordsWhatWasDone: however the events of processes interleave, the profile
\* has the allowed paths they named, with the modes they asked for and how often.
THEOREM RecordsWhatWasDoneHolds == Spec => []RecordsWhatWasDone
<1>1. Init => OrderInv /\ EntryInv /\ MapInv
  BY OrderInit, EntryInit, MapInit
<1>2. TypeInv /\ OrderInv /\ EntryInv /\ MapInv /\ [Next]_vars
          => TypeInv' /\ OrderInv' /\ EntryInv' /\ MapInv'
  BY TypeStep, OrderStep, EntryStep, MapStep
<1>3. TypeInv /\ OrderInv /\ EntryInv /\ MapInv => RecordsWhatWasDone
  <2>1. SUFFICES ASSUME TypeInv, OrderInv, EntryInv, MapInv, ring = <<>>, pending = <<>>
                 PROVE  /\ DOMAIN files = {Clean(r) : r \in {q \in UNION {Names(e) : e \in Range(said)} : Kept(q)}}
                        /\ \A p \in DOMAIN files :
                               /\ files[p].modes \ {"m", "s"} = (UNION {Asks(said[i]) : i \in Naming(p)}) \ {"s"}
                               /\ files[p].count = Cardinality(Naming(p))
                               /\ files[p].first =< files[p].last /\ files[p].last =< now
                        /\ \A e \in Range(said) :
                               e.kind = "mmap" /\ Kept(e.of) /\ Last(Clean(e.of)) = e.name
                                   => "m" \in files[Clean(e.of)].modes
    BY DEF RecordsWhatWasDone
  <2>2. Handled = Len(said) /\ Waiting = {} /\ DOMAIN said = 1 .. Len(said)
    BY <2>1, SeqTypes DEF Handled, Waiting
  <2>3. \A i \in DOMAIN said : said[i] \in Event
    BY <2>1, SeqTypes
  <2>4. DOMAIN files \subseteq Paths
    BY <2>1, FilesType DEF TypeInv
  <2>5. \A p \in Paths : p \in DOMAIN files <=> Done(p) # {}
    BY <2>1 DEF EntryInv, EntryOK
  <2>6. \A p : Done(p) = {i \in DOMAIN said : p \in Kepts(said[i])}
    BY <2>2 DEF Done, DoneOf
  <2>7. ASSUME NEW i \in DOMAIN said, NEW r \in Names(said[i]) PROVE Clean(r) \in Paths
    <3>1. said[i] \in Event
      BY <2>3
    <3>2. r \in Named
      BY <2>7, <3>1 DEF Names, Event, Named
    <3>3. QED
      BY <3>2 DEF Paths
  <2>8. Range(said) = {said[i] : i \in DOMAIN said}
    BY DEF Range
  <2>9. ASSUME NEW p
        PROVE  p \in DOMAIN files <=> \E i \in DOMAIN said : p \in Kepts(said[i])
    <3>1. \A i \in DOMAIN said : p \in Kepts(said[i]) => p \in Paths
      BY <2>7 DEF Kepts
    <3>2. QED
      BY <2>4, <2>5, <2>6, <3>1
  <2>10. DOMAIN files = {Clean(r) : r \in {q \in UNION {Names(e) : e \in Range(said)} : Kept(q)}}
    BY <2>8, <2>9 DEF Kepts
  <2>11. ASSUME NEW p \in DOMAIN files
         PROVE  /\ files[p].modes \ {"m", "s"} = (UNION {Asks(said[i]) : i \in Naming(p)}) \ {"s"}
                /\ files[p].count = Cardinality(Naming(p))
                /\ files[p].first =< files[p].last /\ files[p].last =< now
    <3>1. p # <<>> /\ Allow(p)
      BY <2>9 DEF Kepts, Kept
    <3>2. Done(p) = Naming(p)
      BY <2>1, <3>1, AllDone
    <3>3. EntryOK(said, Naming(p), files, p, now)
      BY <2>1, <2>4, <3>2 DEF EntryInv
    <3>4. files[p].modes \ {"m"} = UNION {Keeps(said[i]) : i \in Naming(p)}
      BY <3>3 DEF EntryOK
    <3>5. UNION {Keeps(said[i]) : i \in Naming(p)} = (UNION {Asks(said[i]) : i \in Naming(p)}) \ {"s"}
      <4> DEFINE named == Naming(p)
      <4>1. \A i \in named : Keeps(said[i]) = Asks(said[i]) \ {"s"}
        BY DEF Keeps
      <4> HIDE DEF named
      <4>2. UNION {Keeps(said[i]) : i \in named} = (UNION {Asks(said[i]) : i \in named}) \ {"s"}
        BY <4>1
      <4>3. QED
        BY <4>2 DEF named
    <3>6. files[p].modes \ {"m", "s"} = (UNION {Asks(said[i]) : i \in Naming(p)}) \ {"s"}
      BY <3>4, <3>5
    <3>7. QED
      BY <3>3, <3>6 DEF EntryOK
  <2>12. \A i \in DOMAIN said : Marked(said[i], files)
    BY <2>1, <2>2 DEF MapInv
  <2>13. \A e \in Range(said) :
             e.kind = "mmap" /\ Kept(e.of) /\ Last(Clean(e.of)) = e.name
                 => "m" \in files[Clean(e.of)].modes
    BY <2>8, <2>12 DEF Marked
  <2>14. QED
    BY <2>10, <2>11, <2>13
<1>4. QED
  BY TypeInit, <1>1, <1>2, <1>3, PTL DEF Spec

\* TypeOK: times are of the past, and an entry counts at least one access.
THEOREM TypeCorrect == Spec => []TypeOK
<1>1. Init => now =< MaxTime
  BY Times DEF Init
<1>2. TypeInv /\ now =< MaxTime /\ [Next]_vars => (now =< MaxTime)'
  <2>1. SUFFICES ASSUME TypeInv, now =< MaxTime, [Next]_vars PROVE now' =< MaxTime
    OBVIOUS
  <2>2. now \in Nat /\ MaxTime \in Nat
    BY <2>1, Times DEF TypeInv
  <2>3. ASSUME Process PROVE UNCHANGED now
    BY <2>1, <2>3, ProcessSays DEF Emit
  <2>4. CASE Tick
    BY <2>2, <2>4 DEF Tick
  <2>5. CASE UNCHANGED now
    BY <2>1, <2>5
  <2>6. QED
    BY <2>1, <2>3, <2>4, <2>5 DEF Next, vars, Handle, HandleMmap, Record, Pass
<1>3. TypeInv /\ OrderInv /\ EntryInv /\ now =< MaxTime => TypeOK
  <2>1. SUFFICES ASSUME TypeInv, EntryInv, now =< MaxTime PROVE TypeOK
    OBVIOUS
  <2>2. now \in 0 .. MaxTime /\ nextSnapshotAt \in Nat
    BY <2>1, Times DEF TypeInv
  <2>3. ASSUME NEW p \in DOMAIN files
        PROVE  /\ files[p].modes \subseteq {"r", "w", "x", "s", "m"}
               /\ {files[p].first, files[p].last} \subseteq 0 .. now
               /\ files[p].count \in Nat \ {0}
    <3>1. PICK f, l : f = files[p].first /\ l = files[p].last
      OBVIOUS
    <3>2. p \in Paths /\ files[p] \in Entry
      BY <2>1, FilesType DEF TypeInv
    <3>3. f \in Nat /\ l \in Nat /\ files[p].modes \subseteq {"r", "w", "x", "m"}
          /\ files[p].count \in Nat \ {0}
      BY <3>1, <3>2 DEF Entry
    <3>4. f =< l /\ l =< now
      BY <2>1, <3>1, <3>2 DEF EntryInv, EntryOK
    <3>5. f \in 0 .. now /\ l \in 0 .. now
      BY <2>2, <3>3, <3>4
    <3>6. QED
      BY <3>1, <3>3, <3>5
  <2>4. QED
    BY <2>2, <2>3 DEF TypeOK
<1>4. TypeInv /\ OrderInv /\ EntryInv /\ [Next]_vars => TypeInv' /\ OrderInv' /\ EntryInv'
  BY TypeStep, OrderStep, EntryStep
<1>5. QED
  BY TypeInit, OrderInit, EntryInit, <1>1, <1>2, <1>3, <1>4, PTL DEF Spec
=============================================================================
