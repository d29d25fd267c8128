----------------------------- MODULE MCTossClient -----------------------------
(***************************************************************************)
(* TossClient for TLC: clients are interchangeable.                        *)
(***************************************************************************)
EXTENDS TossClient, TLC

Symmetry == Permutations(Client)
=============================================================================
