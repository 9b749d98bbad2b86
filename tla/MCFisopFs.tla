----------------------------- MODULE MCFisopFs -----------------------------
(***************************************************************************)
(* fisopfs on small tables.                                                *)
(***************************************************************************)
EXTENDS FisopFs

\* Paths with different last names: a file, a directory and a file in it.
PlainFiles == {<<"a">>, <<"d", "c">>}
PlainDirs == {<<"d">>}

\* Two paths with the same last name.
TwinFiles == {<<"a">>, <<"d", "a">>}

\* A directory in a directory.
NestedDirs == {<<"d">>, <<"d", "e">>}

ShortBuffers == {<<"x">>, <<"y", "x">>}
BinaryBuffers == {<<"x">>, <<NUL>>}
=============================================================================
