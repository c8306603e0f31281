--------------------------- MODULE MCLayerExtract ---------------------------
(***************************************************************************)
(* Entries over a directory /a, a file /a/x in it, a second name /b that   *)
(* may be a directory or a link to /a, relative or absolute, and the       *)
(* manifests that look at them under both names.                           *)
(***************************************************************************)
EXTENDS LayerExtract

Entry(k, p, d, t) == [kind |-> k, path |-> p, data |-> d, target |-> t, abs |-> FALSE]

MCEntries ==
    {Entry(k, p, "none", <<>>) : k \in {"dir", "whiteout"}, p \in {<<"a">>, <<"b">>}}
    \cup {Entry("opaque", <<"a">>, "none", <<>>),
          Entry("file", <<"a">>, "one", <<>>),
          Entry("file", <<"a", "x">>, "one", <<>>),
          Entry("file", <<"b", "x">>, "two", <<>>),
          Entry("link", <<"b">>, "none", <<"a">>),
          [Entry("link", <<"b">>, "none", <<"a">>) EXCEPT !.abs = TRUE],
          Entry("link", <<"a", "x">>, "none", <<"..", "b", "x">>),
          Entry("hard", <<"b", "y">>, "none", <<"a", "x">>),
          Entry("whiteout", <<"a", "x">>, "none", <<>>),
          Entry("whiteout", <<"b", "x">>, "none", <<>>)}

MCManifests == {{<<"a", "x">>, <<"b">>, <<"b", "x">>}, {<<"a">>, <<"b", "y">>, <<"a", "x">>}}
=============================================================================
