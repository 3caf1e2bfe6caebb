---------------------------- MODULE MCKeyStorage ----------------------------
(* Keys that fork at the first and at the second name, one part of another *)
(* key, and patterns of each kind, for TLC.                                *)
EXTENDS KeyStorage

MCKeys == {<<"a", "b">>, <<"a", "c">>, <<"d", "b">>, <<"a", "b", "c">>}

MCPatterns == {<<"a", "*">>, <<"*", "b">>, <<"a", "b">>, <<"*">>}

ClientSymmetry == Permutations(Clients)
=============================================================================
