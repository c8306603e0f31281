---------------------------- MODULE MCRepairLoop ----------------------------
(***************************************************************************)
(* The images of MCLayerBuild with, in addition, an empty directory in an  *)
(* empty directory of its name; the workload opens a script with a sibling *)
(* of the same stem, a link, a library, the empty directories, or some.    *)
(***************************************************************************)
EXTENDS RepairLoop, MCLayerBuild

tmpd == <<"app", "tmp">>     sub == <<"app", "tmp", "tmp">>     cfg == <<"etc", "m.cfg">>

MCLoopImages ==
    {[tree |-> i.tree @@ Dirs({tmpd, sub}) @@ Files({cfg}),
      elf |-> {}, owned |-> [py |-> {py}], unresolved |-> i.elf # {}] : i \in MCImages}

MCWorkloads ==
    {[needs |-> w, quoted |-> TRUE, provider |-> "none"] : w \in {{sub}, {tmpd, sub}, {cur, x1}, {py, tmpd}}}
    \cup {[needs |-> {pyc, cfg}, quoted |-> FALSE, provider |-> p] : p \in {"none", "auto"}}

MCNoOptions == {[includes |-> {}, ensures |-> {}]}
MCLoopObservations == {run :> "direct", run :> "undocumented"}
MCStemOf == ("m.py" :> "m") @@ ("m.pyc" :> "m") @@ ("m.cfg" :> "m")
MCLoopOrder ==
    SubSeq(MCOrder, 1, 10) \o <<tmpd, sub, <<"etc">>, <<"etc", "group">>, cfg>> \o SubSeq(MCOrder, 13, Len(MCOrder))
=============================================================================
