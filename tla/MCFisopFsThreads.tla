-------------------------- MODULE MCFisopFsThreads --------------------------
(***************************************************************************)
(* Two threads on a small table.                                           *)
(***************************************************************************)
EXTENDS FisopFsThreads

\* Everything in one directory ...
OneDir == {<<"a">>, <<"b">>}

\* ... and in two.
TwoDirs == {<<"a">>, <<"d", "c">>}
TheDir == {<<"d">>}

OneBuffer == {<<"x">>}
=============================================================================
