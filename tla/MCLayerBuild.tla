---------------------------- MODULE MCLayerBuild ----------------------------
(***************************************************************************)
(* Images of a few paths: /lib a directory or a link to /usr/lib, in it a  *)
(* versioned library behind a link and a link that climbs out to           *)
(* /usr/share, an absolute link to the library, a script that is probed    *)
(* from below, a compiled Python module with two transient names, and what *)
(* FROM scratch needs.                                                     *)
(***************************************************************************)
EXTENDS LayerBuild

x  == <<"lib", "x">>           x1 == <<"lib", "x1">>        l == <<"lib", "l">>
ux == <<"usr", "lib", "x">>    ux1 == <<"usr", "lib", "x1">>
app == <<"app">>               run == <<"app", "run">>      probe == <<"app", "run", "ht">>
cur == <<"app", "cur">>        py == <<"app", "m.py">>      cache == <<"app", "__pycache__">>
pyc == Append(cache, "m.pyc")  tmp == Append(cache, "m.pyc.7")
old == Append(cache, "m.pyc.8")
var == <<"var", "c">>          passwd == <<"etc", "passwd">>
crt == <<"etc", "ssl", "c">>   bundle == <<"etc", "ssl", "bundle">>
ld1 == <<"lib", "ld1">>        ld2 == <<"lib", "ld2">>      leak == <<"staging">>

Dirs(ps) == [p \in ps |-> Dir]
Files(ps) == [p \in ps |-> File(p)]

Common ==
    Dirs({<<>>, <<"usr">>, <<"usr", "share">>, app, cache, <<"etc">>, <<"etc", "ssl">>})
    @@ Files({<<"usr", "share", "s">>, run, py, pyc, crt, passwd})
    @@ (cur :> Link(x, TRUE))

InLib(at) ==
    Dirs({at}) @@ Files({Append(at, "x1"), Append(at, "ld2")})
    @@ (Append(at, "x") :> Link(<<"x1">>, FALSE))
    @@ (Append(at, "l") :> Link(<<"..", "share", "s">>, FALSE))

MCOwned ==
    [libx |-> {<<"lib">>, x, x1}, usrx |-> {ux, ux1}, base |-> {<<"lib">>}, py |-> {app, py},
     none |-> {<<"usr">>}]

MCImages ==
    {[tree |-> Common @@ InLib(<<"lib">>), elf |-> {x1}, owned |-> MCOwned],
     [tree |-> Common @@ (<<"lib">> :> Link(<<"usr", "lib">>, FALSE)) @@ InLib(<<"usr", "lib">>),
      elf |-> {}, owned |-> MCOwned]}

MCObservations ==
    {[p \in ps |-> CASE p = l   -> "startup-race"
                     [] p = var -> "undocumented"
                     [] p = old -> "directory-inclusion"
                     [] OTHER   -> "direct"] :
        ps \in {UNION s : s \in
                   SUBSET {{<<"lib">>}, {x}, {ux1}, {l}, {probe}, {cur}, {var}, {tmp, old}}}}

MCOptions ==
    {[includes |-> i, ensures |-> e] :
        i \in {{}, {app, <<"opt">>}},
        e \in {{}, {<<var, TRUE>>, <<var, FALSE>>}, {<<var, FALSE>>, <<Append(var, "d"), TRUE>>},
               {<<probe, TRUE>>}, {<<passwd, FALSE>>, <<<<"opt", "d">>, FALSE>>}}}

MCFinalOf == (tmp :> pyc) @@ (old :> pyc)
MCSourceOf == (pyc :> py)
MCLinkers == <<ld1, ld2>>
MCOrder ==
    <<app, cache, pyc, tmp, old, cur, py, run, Append(run, "d"), probe,
      <<"etc">>, <<"etc", "group">>, passwd, <<"etc", "ssl">>, bundle, crt,
      <<"lib">>, l, ld1, ld2, x, x1, <<"opt">>, <<"opt", "d">>, <<"share", "s">>, leak,
      <<"usr">>, <<"usr", "lib">>, <<"usr", "lib", "l">>, <<"usr", "lib", "ld2">>, ux, ux1,
      <<"usr", "share">>, <<"usr", "share", "s">>, <<"var">>, var, Append(var, "d")>>
MCEssentials == {passwd, <<"etc", "group">>}
MCCertDir == <<"etc", "ssl">>
MCHostPaths == {leak}
=============================================================================
