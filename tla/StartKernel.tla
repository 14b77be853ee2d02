---------------------------- MODULE StartKernel ----------------------------
(***************************************************************************)
(* The two ways in which SABLE hands over: launch_kernel() on Intel, from  *)
(* the memory map that the launch has left (Linux), and start_module() on  *)
(* AMD, which knows no memory map (Elf).                                   *)
(***************************************************************************)
EXTENDS Linux, Elf

StartInit == LinuxInit /\ ElfInit

StartNext ==
  \/ started = NoModule /\ MapNext /\ UNCHANGED <<kernel, boot, holds, elfVars>>
  \/ \E k \in Kernels : expand_linux_image(k) /\ UNCHANGED elfVars
  \/ jump_linux_image /\ UNCHANGED elfVars
  \/ /\ started = NoModule /\ phase = "copy" /\ count = 0
     /\ \E m \in Modules : start_module(m)
     /\ UNCHANGED linuxVars
  \/ ElfNext /\ UNCHANGED linuxVars

StartSpec == StartInit /\ [][StartNext]_<<linuxVars, elfVars>>

\* What is jumped to is a whole kernel.  After expand_linux_image() the protected-mode
\* part, the initrd and the real-mode part are where the header says they are, and
\* intact; the code that start_module() has written puts every segment in its place
\* and survives doing so, although the segments may cover the module that they come from.
KernelWhole == LinuxWhole /\ ModuleWhole
=============================================================================
