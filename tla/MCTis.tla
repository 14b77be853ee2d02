------------------------------- MODULE MCTis -------------------------------
(***************************************************************************)
(* Three commands with responses of two lengths.                           *)
(***************************************************************************)
EXTENDS Tis

MCLens == {2, 3, 4}
=============================================================================
