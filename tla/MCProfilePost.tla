---------------------------- MODULE MCProfilePost ----------------------------
(***************************************************************************)
(* Instances of ProfilePost for TLC.  The values a configuration chooses   *)
(* from are model values; the containers are interchangeable wherever they *)
(* are all in Pods and none or all are in UnownedNS.                       *)
(***************************************************************************)
EXTENDS ProfilePost, TLC

CONSTANTS c1, c2, f1, f2, d1, d2

AnyContainer == Permutations(Containers)
=============================================================================
