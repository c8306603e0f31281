---------------------------- MODULE MCElfClosure ----------------------------
(***************************************************************************)
(* Images for ElfClosure: an executable, its interpreter behind a link, a  *)
(* library behind a link, one library in two directories, and every choice *)
(* of who needs whom, cycles included, within the sets below.              *)
(***************************************************************************)
EXTENDS ElfClosure

CONSTANTS app, ldLink, ld, laLink, la, lbSys, lbOwn, script, nowhere,
          libA, libB, libM, sys, own, main, inc1, inc2

MCPaths == {app, ldLink, ld, laLink, la, lbSys, lbOwn, script, nowhere}
MCElfs == {app, ld, la, lbSys, lbOwn}
MCDirs == {sys, own}
MCLibs == {libA, libB, libM}

MCStandard == <<sys>>

\* main includes inc1, inc2 and itself; inc1 includes main.
MCConf(d) ==
    [c \in {main, inc1, inc2} |->
        IF c = main THEN <<[kind |-> "include", confs |-> <<inc1, inc2, main>>]>>
        ELSE IF c = inc1 THEN <<[kind |-> "include", confs |-> <<main>>]>>
        ELSE <<[kind |-> "dir", dir |-> d]>>]

MCReal == [p \in MCPaths |-> IF p = ldLink THEN ld
                             ELSE IF p = laLink THEN la
                             ELSE IF p = nowhere THEN NoPath ELSE p]

MCAt == [x \in MCDirs \X MCLibs |->
            IF x = <<sys, libA>> THEN laLink
            ELSE IF x = <<sys, libB>> THEN lbSys
            ELSE IF x = <<own, libB>> THEN lbOwn ELSE nowhere]

OnPaths(some, default) ==
    [p \in MCPaths |-> IF p \in DOMAIN some THEN some[p] ELSE default]

NeededOf(a, b, c, d) ==
    [p \in MCElfs |-> CASE p = app -> a [] p = la -> b [] p = lbSys -> c
                        [] p = ld -> d [] p = lbOwn -> <<libA>>]

MCImages ==
    {[observed |-> obs, conf |-> MCConf(d),
      interp |-> [p \in MCPaths |-> IF p \in hasInterp THEN ldLink ELSE NoPath],
      needed |-> OnPaths(NeededOf(a, b, c, l), <<>>),
      unreadable |-> bad,
      rpath |-> [p \in MCPaths |-> IF p = app THEN rp ELSE <<>>],
      runpath |-> [p \in MCPaths |-> IF p = app THEN run ELSE <<>>]] :
        obs \in {{app}, {app, laLink, script}},
        d \in {sys, own},
        hasInterp \in {{app}, {app, la}},
        a \in {<<libB, libM>>, <<libA, libB>>},
        b \in {<<libB>>, <<libM>>, <<libA, libB>>},
        c \in {<<>>, <<libM, libA>>},
        l \in {<<>>, <<libB>>},
        bad \in {{}, {ld}, {lbSys}},
        rp \in {<<>>, <<own>>},
        run \in {<<>>, <<sys>>}}
=============================================================================
