--------------------------- MODULE MCObservation ---------------------------
EXTENDS Observation

Lib == <<"lib">>
Tmp == <<"tmp">>
Libc == <<"libc", "so", "6">>

\* A library, by a link of another name and by its own; an interpreter; a script
\* in a denied directory and one beside the library, reached with "..".
Link   == <<Lib, <<"libc", "so">>>>
Own    == <<Lib, Libc>>
Dash   == <<Lib, <<"sh">>>>
InTmp  == <<Tmp, <<"run">>>>
Around == <<Tmp, Up, Up, Lib, <<"run">>>>

MCRaw == {Link, Own, InTmp, Around}
\* O_RDONLY, and O_WRONLY|O_RDWR|O_APPEND
MCOpenFlags == {[acc |-> 0, append |-> FALSE], [acc |-> 3, append |-> TRUE]}
MCScripts == (InTmp :> Dash) @@ (Around :> Dash)
MCNameOf == [r \in MCRaw |-> IF r = Link THEN Libc ELSE Last(r)]
=============================================================================
