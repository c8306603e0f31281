---------------------------- MODULE Observation ----------------------------
(***************************************************************************)
(* What one container's aggregator makes of the events it receives         *)
(* (cmd/sensor/main.go's handlers, manifest/aggregator.go,                 *)
(* manifest/denylist.go) and when the interim loop snapshots it            *)
(* (cmd/sensor/snapshot.go).  Nothing is lost on the way here: EventPath is*)
(* about loss.                                                             *)
(*                                                                         *)
(* A path is a sequence of components and a component the sequence of its  *)
(* dot-separated parts, so that the deny list's rules keep their meaning.  *)
(***************************************************************************)
EXTENDS Integers, Sequences, FiniteSets, SequencesExt, Confidence

CONSTANTS
    OpenFlags,    \* flags processes open with
    Raw,          \* paths as processes spell them, with ".." in them
    Scripts,      \* Raw ones that are scripts, with their interpreters
    NameOf,       \* the file name each Raw one has once its symlinks are followed
    Interval,     \* --snapshot-interval, in units of time
    MinWindow,    \* minimum length of a profile
    MaxTime, MaxAccesses \* bounds

Up == <<"", "", "">>

ASSUME ObservationAssumption ==
    /\ OpenFlags \subseteq [acc : 0..3, append : BOOLEAN]
    /\ DOMAIN Scripts \subseteq Raw
    /\ DOMAIN NameOf = Raw
    /\ Interval \in Nat \ {0}
    /\ {MinWindow, MaxTime, MaxAccesses} \subseteq Nat

VARIABLES
    now,            \* the clock
    ring,           \* events on their way
    pending,        \* records the handler at work has yet to make
    files,          \* Aggregator.files
    said,           \* every event there has been
    nextSnapshotAt,
    snaps           \* the interim snapshots

loopVars == <<nextSnapshotAt, snaps>>
vars == <<now, ring, pending, files, said, loopVars>>

-----------------------------------------------------------------------------
(* DefaultDenyList's rules, and Allow: a path below one of the directories,*)
(* one that ends in ".log", one with ".log." inside its name.              *)
DeniedDirs == {<<<<"proc">>>>, <<<<"sys">>>>, <<<<"dev">>>>, <<<<"run">>>>,
               <<<<"var">>, <<"run">>>>, <<<<"tmp">>>>}

Allow(p) ==
    LET name == Last(p)
    IN /\ \A d \in DeniedDirs : ~IsStrictPrefix(d, p)
       /\ ~(Len(name) > 1 /\ Last(name) = "log")
       /\ \A i \in 2..Len(name) - 1 : name[i] # "log"

\* filepath.Clean of an absolute path
Clean(raw) ==
    FoldLeft(LAMBDA p, c : IF c = Up THEN (IF p = <<>> THEN p ELSE Front(p))
                                     ELSE Append(p, c), <<>>, raw)

Kept(raw) == Clean(raw) # <<>> /\ Allow(Clean(raw))

AccessModesFromFlags(f) ==
    (IF f.acc \in {0, 2} THEN {"r"} ELSE {})
    \cup (IF f.acc \in {1, 2} \/ f.append THEN {"w"} ELSE {})

\* dedupeAccessModes emits these five
DedupeAccessModes(old, new) == (old \cup new) \cap {"r", "w", "x", "l", "m"}

-----------------------------------------------------------------------------
Init ==
    /\ now = 0
    /\ ring = <<>>
    /\ pending = <<>>
    /\ files = <<>>
    /\ said = <<>>
    /\ nextSnapshotAt \in 0..Interval - 1
    /\ snaps = <<>>

Tick ==
    /\ now < MaxTime
    /\ now' = now + 1
    /\ UNCHANGED <<ring, pending, files, said, loopVars>>

-----------------------------------------------------------------------------
(* The container's processes and what the kprobes say of them.             *)

Emit(events) ==
    /\ Len(said) < MaxAccesses
    /\ said' = said \o events
    /\ ring' = ring \o events
    /\ UNCHANGED <<now, pending, files, loopVars>>

Open(raw, f) == Emit(<<[kind |-> "open", path |-> raw, flags |-> f]>>)

Stat(raw) == Emit(<<[kind |-> "stat", path |-> raw]>>)

\* security_bprm_check runs once for a binary, and once more for a script when
\* its interpreter has been found
Exec(raw) ==
    LET Check(interp) == <<[kind |-> "exec", path |-> raw, interp |-> interp]>>
    IN Emit(Check(raw) \o (IF raw \in DOMAIN Scripts THEN Check(Scripts[raw]) ELSE <<>>))

\* A file some process has opened or executed is mapped executable; the event
\* has the name of the file itself.  (of: which path that was)
MapExec(raw) ==
    /\ \E e \in Range(said) : e.kind \in {"open", "exec"} /\ e.path = raw
    /\ Emit(<<[kind |-> "mmap", name |-> NameOf[raw], of |-> raw]>>)

-----------------------------------------------------------------------------
(* The handlers.                                                           *)

\* Mutant: the latest modes replace the earlier ones
RecordFileReplaces(fs, p, modes, t) ==
    [q \in DOMAIN fs \cup {p} |->
        IF q # p THEN fs[q]
        ELSE IF p \in DOMAIN fs
        THEN [modes |-> DedupeAccessModes({}, modes),
              first |-> fs[p].first, last |-> t, count |-> fs[p].count + 1]
        ELSE [modes |-> DedupeAccessModes({}, modes),
              first |-> t, last |-> t, count |-> 1]]

RecordFile(fs, p, modes, t) ==
    [q \in DOMAIN fs \cup {p} |->
        IF q # p THEN fs[q]
        ELSE IF p \in DOMAIN fs
        THEN [modes |-> DedupeAccessModes(fs[p].modes, modes),
              first |-> fs[p].first,
              last  |-> IF t > fs[p].last THEN t ELSE fs[p].last,
              count |-> fs[p].count + 1]
        ELSE [modes |-> DedupeAccessModes({}, modes),
              first |-> t, last |-> t, count |-> 1]]

MergeAccessModeByBasename(fs, name, mode, t) ==
    [p \in DOMAIN fs |->
        IF Last(p) = name
        THEN [fs[p] EXCEPT !.modes = DedupeAccessModes(@, {mode}),
                           !.last = IF t > @ THEN t ELSE @]
        ELSE fs[p]]

\* What a handler is to record: nothing for a path that is not kept.  A script
\* comes before its interpreter, and without it the interpreter does not either.
Records(e) ==
    LET One(raw, modes) == IF Kept(raw) THEN <<[path |-> Clean(raw), modes |-> modes, at |-> now]>>
                                        ELSE <<>>
    IN CASE e.kind = "open" -> One(e.path, AccessModesFromFlags(e.flags))
         [] e.kind = "stat" -> One(e.path, {"s"})
         [] e.kind = "exec" -> IF Kept(e.path) /\ Clean(e.interp) # Clean(e.path)
                               THEN One(e.path, {"x"}) \o One(e.interp, {"x"})
                               ELSE One(e.path, {"x"})

Handle ==
    /\ pending = <<>>
    /\ ring # <<>>
    /\ Head(ring).kind # "mmap"
    /\ ring' = Tail(ring)
    /\ pending' = Records(Head(ring))
    /\ UNCHANGED <<now, files, said, loopVars>>

HandleMmap ==
    /\ pending = <<>>
    /\ ring # <<>>
    /\ Head(ring).kind = "mmap"
    /\ ring' = Tail(ring)
    /\ files' = MergeAccessModeByBasename(files, Head(ring).name, "m", now)
    /\ UNCHANGED <<now, pending, said, loopVars>>

Record ==
    /\ pending # <<>>
    /\ pending' = Tail(pending)
    /\ LET r == Head(pending) IN files' = RecordFile(files, r.path, r.modes, r.at)
    /\ UNCHANGED <<now, ring, said, loopVars>>

-----------------------------------------------------------------------------
(* The interim loop.                                                       *)

\* Mutant: every time that was missed is made up for
NextDueCatchingUp == nextSnapshotAt + Interval

NextDue ==
    IF nextSnapshotAt + Interval > now THEN nextSnapshotAt + Interval ELSE now + Interval

(* A tick finds the container due, as late as the posts before it made it; *)
(* its snapshot is taken.  (The waits between the two are in ProfilePost.) *)
Pass ==
    /\ now >= nextSnapshotAt
    /\ nextSnapshotAt' = NextDue
    /\ snaps' = Append(snaps, [at |-> now, files |-> files])
    /\ UNCHANGED <<now, ring, pending, files, said>>

-----------------------------------------------------------------------------
Process ==
    \E raw \in Raw :
        \/ \E f \in OpenFlags : Open(raw, f)
        \/ Stat(raw)
        \/ Exec(raw)
        \/ MapExec(raw)

Next == Tick \/ Process \/ Handle \/ HandleMmap \/ Record \/ Pass

Spec == Init /\ [][Next]_vars

-----------------------------------------------------------------------------
TypeOK ==
    /\ now \in 0..MaxTime
    /\ nextSnapshotAt \in Nat
    /\ \A p \in DOMAIN files :
           /\ files[p].modes \subseteq {"r", "w", "x", "s", "m"}
           /\ {files[p].first, files[p].last} \subseteq 0..now
           /\ files[p].count \in Nat \ {0}

\* The paths an event names, and the modes it asks of them.
Names(e) ==
    CASE e.kind = "mmap" -> {}
      [] e.kind = "exec" -> IF Kept(e.path) THEN {e.path, e.interp} ELSE {}
      [] OTHER           -> {e.path}

Asks(e) ==
    CASE e.kind = "open" -> AccessModesFromFlags(e.flags)
      [] e.kind = "exec" -> {"x"}
      [] e.kind = "stat" -> {"s"}
      [] OTHER           -> {}

Naming(p) == {i \in DOMAIN said : \E r \in Names(said[i]) : Clean(r) = p}

(* Once every event has been handled, the aggregator holds exactly the     *)
(* allowed paths that were named (an interpreter's only when its script's  *)
(* is allowed), each with every mode some open or exec asked for and no    *)
(* other but "m", as often as it was named, however the events of processes*)
(* interleaved; and a file mapped under the name it was opened by has "m". *)
(* It says nothing of the mode "s" of a stat: that is StatRecorded.        *)
(* RecordFile, MergeAccessModeByBasename, dedupeAccessModes.               *)
RecordsWhatWasDone ==
    (ring = <<>> /\ pending = <<>>) =>
        /\ DOMAIN files = {Clean(r) : r \in {q \in UNION {Names(e) : e \in Range(said)} : Kept(q)}}
        /\ \A p \in DOMAIN files :
               /\ files[p].modes \ {"m", "s"} = (UNION {Asks(said[i]) : i \in Naming(p)}) \ {"s"}
               /\ files[p].count = Cardinality(Naming(p))
               /\ files[p].first =< files[p].last /\ files[p].last =< now
        /\ \A e \in Range(said) :
               e.kind = "mmap" /\ Kept(e.of) /\ Last(Clean(e.of)) = e.name
                   => "m" \in files[Clean(e.of)].modes

(* Once every event has been handled, the entry of a file that was stat'ed *)
(* says so.  docs/profile-schema/README.md:325 "The `s` access mode records*)
(* stat-family existence checks", and handleStat records it.  It does not  *)
(* hold: dedupeAccessModes has no place for the mode in what it returns.   *)
StatRecorded ==
    (ring = <<>> /\ pending = <<>>) =>
        \A p \in DOMAIN files :
            (\E i \in Naming(p) : said[i].kind = "stat") => "s" \in files[p].modes

(* A later snapshot has every entry of an earlier one, with its modes and  *)
(* its first time and no fewer accesses, and is scored no lower: an interim*)
(* POST that is lost is superseded by the next (snapshot.go:104-105), and  *)
(* the confidence of a profile only grows with its window.                 *)
SnapshotsGrow ==
    \A i, j \in DOMAIN snaps : i < j =>
        LET old == snaps[i].files  new == snaps[j].files
            ScoreOf(s) == Score([p \in DOMAIN s.files |-> "direct"], s.at, MinWindow)
        IN /\ \A p \in DOMAIN old :
                  /\ p \in DOMAIN new
                  /\ old[p].modes \subseteq new[p].modes
                  /\ old[p].first = new[p].first
                  /\ old[p].count =< new[p].count
           /\ ScoreOf(snaps[i]) =< ScoreOf(snaps[j])

(* The schedule neither bursts nor drifts: however late the passes, two    *)
(* after one another are more than an interval from the one before them,   *)
(* and the next is always due within an interval of the clock              *)
(* (snapshot.go:121 "never burst to catch up").                            *)
SnapshotPace ==
    /\ \A i \in DOMAIN snaps :
           i + 2 \in DOMAIN snaps => snaps[i + 2].at - snaps[i].at > Interval
    /\ nextSnapshotAt =< now + Interval
=============================================================================
