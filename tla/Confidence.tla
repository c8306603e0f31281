----------------------------- MODULE Confidence -----------------------------
(***************************************************************************)
(* manifest/confidence.go: the score of a profile.  A profile is a function*)
(* from paths to where the entry comes from: a source, or for an entry     *)
(* whose source is "manual" why it is there -- "scratch-compat" and        *)
(* "symlink-target" are the hardener's own, "startup-race", "documented"   *)
(* and "undocumented" the user's.                                          *)
(***************************************************************************)
EXTENDS Integers, FiniteSets

Manual == {"scratch-compat", "symlink-target", "startup-race", "documented", "undocumented"}

\* mutant: every manual entry is the user's
UserManualAll(fs) == {p \in DOMAIN fs : fs[p] \in Manual}

UserManual(fs) == {p \in DOMAIN fs : fs[p] \in Manual \ {"scratch-compat"}}

(* The points a profile loses that is shorter than the minimum, in the     *)
(* bands of the ratio; one that ends before it starts is in the first.     *)
\* mutant: the bands from the other end
WindowPenaltyReversed(actual, least) ==
    CASE actual = 0                             -> 20
      [] actual # 0 /\ actual >= least          -> 0
      [] actual # 0 /\ 4 * actual < least       -> 4
      [] actual # 0 /\ actual < least /\ 4 * actual >= least -> 14

WindowPenalty(actual, least) ==
    CASE actual = 0 \/ (actual < least /\ 4 * actual < least)   -> 20
      [] actual < least /\ 4 * actual >= least /\ 2 * actual < least     -> 14
      [] actual < least /\ 2 * actual >= least /\ 4 * actual < 3 * least -> 8
      [] actual < least /\ 4 * actual >= 3 * least -> 4
      [] actual # 0 /\ actual >= least -> 0

Capped(ps, each, cap) ==
    IF Cardinality(ps) * each < cap THEN Cardinality(ps) * each ELSE cap

(* ComputeConfidence, its Score.                                           *)
Score(fs, actual, least) ==
    LET manual == UserManual(fs)
        points == 100
            - (IF \E p \in DOMAIN fs : fs[p] = "direct" THEN 0 ELSE 60)
            - WindowPenalty(actual, least)
            - Capped(manual, 5, 25)
            - Capped({p \in manual : fs[p] = "startup-race"}, 3, 12)
            - Capped({p \in manual : fs[p] = "undocumented"}, 3, 9)
    IN IF points < 0 THEN 0 ELSE points
=============================================================================
