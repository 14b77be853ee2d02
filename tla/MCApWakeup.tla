----------------------------- MODULE MCApWakeup -----------------------------
(***************************************************************************)
(* Worlds for ApWakeup: APs that set up VMX one after the other, APs that  *)
(* do not, late ones and ones that fail.                                   *)
(***************************************************************************)
EXTENDS ApWakeup

World(late, apart, fails, stacks) ==
  [late |-> late, apart |-> apart, fails |-> fails, stacks |-> stacks]

AllWorlds ==
  {World(FALSE, TRUE, FALSE, 4), World(FALSE, FALSE, FALSE, 3),
   World(TRUE, TRUE, FALSE, 3), World(FALSE, TRUE, TRUE, 3)}
NotApart == {World(FALSE, FALSE, FALSE, 3)}
=============================================================================
