----------------------------- MODULE MCSshAgent -----------------------------
(***************************************************************************)
(* SshAgent with two concurrent sessions.                                  *)
(***************************************************************************)
EXTENDS SshAgent, TLC

CONSTANTS s1, s2

MCSession == {s1, s2}
Perms == Permutations(MCSession)
=============================================================================
