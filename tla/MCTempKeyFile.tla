---------------------------- MODULE MCTempKeyFile ----------------------------
(***************************************************************************)
(* TempKeyFile with two concurrent sessions.                               *)
(***************************************************************************)
EXTENDS TempKeyFile, TLC

CONSTANTS s1, s2

MCSession == {s1, s2}
Perms == Permutations(MCSession)
=============================================================================
