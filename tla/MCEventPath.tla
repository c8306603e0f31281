----------------------------- MODULE MCEventPath -----------------------------
(***************************************************************************)
(* Instances of EventPath for TLC.                                         *)
(***************************************************************************)
EXTENDS EventPath, TLC

CONSTANTS c1, c2, etc, app, proc, conf, bin

\* The entrypoint and the other paths a container may access.
AppBin == <<app, bin>>
=============================================================================
