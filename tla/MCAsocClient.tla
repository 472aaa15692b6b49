---------------------------- MODULE MCAsocClient ----------------------------
(* Two calls on one client, as the service gathers several lists at once. *)
EXTENDS AsocClient, TLC

MCSymmetry == Permutations(Calls) \cup Permutations(Tokens)
=============================================================================
