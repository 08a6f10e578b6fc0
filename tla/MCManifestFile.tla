--------------------------- MODULE MCManifestFile ---------------------------
(* Values for ManifestFile: names that are equal but for their case, below one   *)
(* another, written with either separator, in need of escapes, and refused.      *)
EXTENDS ManifestFile

MCPaths == {
    <<"a">>, <<"A">>, <<"A", "/", "a">>, <<"a", "\\", "\\", "a">>, <<"a", "\\", "A", "/", "a">>, <<"a", " ", "a">>,
    <<"a", "%", "2", "5">>, <<"a", "%", "2", "0", ".", "a">>, <<"e9", ".", "gz">>, <<".", "a">>,
    <<>>, <<"\\", "a">>, <<"a", ":">>, <<"a", "/">>, <<".", ".", "/", "a">>, <<"a", ".", "/", "a">>, <<" ", "a">>,
    <<"a", "ctrl">>, <<"nul", " ", ".", "a">>, <<"a", "\\", "nul", ".", "a">>, <<"nul", "a">> }
=============================================================================
