------------------------------- MODULE MCE820 -------------------------------
(***************************************************************************)
(* A scaled-down address space for MemoryMap; the configurations give the  *)
(* sizes.                                                                  *)
(***************************************************************************)
EXTENDS MemoryMap

MCTxtRegions ==
  {<<Region(3, 1, RESERVED), Region(2, 1, RESERVED), Region(5, 0, RESERVED)>>,
   <<Region(2, 2, RESERVED), Region(4, 1, RESERVED), Region(3, 2, RESERVED)>>}
MCTboot == Region(1, 1, RESERVED)
=============================================================================
