------------------------------ MODULE ApWakeup ------------------------------
(***************************************************************************)
(* The processors of an Intel platform after SENTER: the BSP runs          *)
(* intel_post_launch(), wakes the APs, starts the kernel and, when the     *)
(* kernel is done, shutdown(); every AP runs txt_cpu_wakeup(), sets up VMX *)
(* and waits in a mini guest for the kernel's SIPI.  They share the TSS    *)
(* descriptor, host_vmcs and init_done of vmcs.c, the counter ap_wfs_count *)
(* and the page _tboot_shared, which the kernel reads as well.             *)
(*                                                                         *)
(* use_mwait() is false in every build: the g_cpuid_ext_feat_info that it  *)
(* tests (verify.c:60) is never assigned.  So ap_wait() is not reached.    *)
(* ap_lock is initialised and left but never entered; world.apart says     *)
(* whether the delay loop that stands in for it keeps the APs apart.       *)
(***************************************************************************)
EXTENDS Integers, FiniteSets

CONSTANTS
  Aps,        \* the APIC ids of the APs
  Word,       \* the counters are unsigned and wrap at Word
  Worlds      \* the worlds that are looked at

ASSUME ApWakeupAssumption ==
  /\ Aps \subseteq Nat \ {0} /\ IsFiniteSet(Aps)
  /\ Word \in Nat /\ Word > 2 * Cardinality(Aps) + 1
  /\ Worlds \subseteq [late : BOOLEAN, apart : BOOLEAN, fails : BOOLEAN, stacks : Nat]

VARIABLES
  world,           \* late: may an AP outlast the BSP's waits?  apart: do the APs
                   \* set up VMX one at a time?  fails: may an AP fail to?
                   \* stacks: NR_CPUS of asm.S, the first id without a stack
  bsp, ap,         \* where the processors are
  dying,           \* the APs that came to handle_init_sipi_sipi() from shutdown()
  ap_wfs_count,    \* txt.c
  num_in_wfs, shutdown_type,  \* fields of _tboot_shared
  aps_exit_guest, init_done,  \* vmcs.c
  copy,            \* the value of ap_wfs_count that the BSP has read
  tssBusy,         \* the busy flag of TSS descriptor 3
  hostVmcs,        \* does host_vmcs hold the revision id?
  restored         \* history: the APs that have restored their MTRRs

shared == <<ap_wfs_count, num_in_wfs, shutdown_type, aps_exit_guest>>
vmx == <<init_done, tssBusy, hostVmcs>>
vars == <<world, bsp, ap, dying, shared, vmx, copy, restored>>

Init ==
  /\ world \in Worlds
  /\ bsp = "start" /\ ap = [a \in Aps |-> "asleep"] /\ dying = {}
  /\ ap_wfs_count = 0 /\ num_in_wfs = 0 /\ shutdown_type = "REBOOT"
  /\ aps_exit_guest = 0 /\ init_done = FALSE /\ copy = 0
  /\ tssBusy = FALSE /\ hostVmcs = FALSE /\ restored = {}

inc(n) == (n + 1) % Word
dec(n) == (n + Word - 1) % Word

\* Where an AP does nothing more by itself, or nothing before the others do.
AtRest == {"stopped", "lost", "guest", "stray", "kernel", "waitReady", "drain"}

-----------------------------------------------------------------------------
(* The BSP up to the kernel.                                                 *)

BspGoto(label) == bsp' = label
BspAt(label, next) == bsp = label /\ BspGoto(next)

intel_post_launch ==
  /\ BspAt("start", "wake")
  /\ num_in_wfs' = 0
  /\ UNCHANGED <<world, ap, dying, ap_wfs_count, shutdown_type, aps_exit_guest, vmx, copy, restored>>

txt_wakeup_cpus ==
  /\ BspAt("wake", "waitAps")
  /\ ap_wfs_count' = 0
  /\ ap' = [a \in Aps |-> "woken"]
  /\ UNCHANGED <<world, dying, num_in_wfs, shutdown_type, aps_exit_guest, vmx, copy, restored>>

\* num_logical_procs - 1, which is below the NR_CPUS of config.h.
ap_wakeup_count == Cardinality(Aps)

\* The counter of a wait runs out: only after the APs are done, if none is late.
TimesOut ==
  \/ world.late
  \/ \A a \in Aps : /\ ap[a] \in AtRest
                    /\ ap[a] \in {"guest", "stray"} => aps_exit_guest = 0

WaitForAllButOne ==
  /\ BspAt("waitAps", "restoreMtrrs")
  /\ ap_wfs_count >= ap_wakeup_count - 1 \/ TimesOut
  /\ UNCHANGED <<world, ap, dying, shared, vmx, copy, restored>>

WaitForAps ==
  /\ BspAt("waitAps", "restoreMtrrs")
  /\ ap_wfs_count >= ap_wakeup_count \/ TimesOut
  /\ UNCHANGED <<world, ap, dying, shared, vmx, copy, restored>>

txt_post_launch ==
  /\ BspAt("restoreMtrrs", "clearShared")
  /\ UNCHANGED <<world, ap, dying, shared, vmx, copy, restored>>

\* memset(&_tboot_shared, 0, PAGE_SIZE); 0 is TB_SHUTDOWN_REBOOT.
ClearShared ==
  /\ BspAt("clearShared", "readCount")
  /\ num_in_wfs' = 0 /\ shutdown_type' = "REBOOT"
  /\ UNCHANGED <<world, ap, dying, ap_wfs_count, aps_exit_guest, vmx, copy, restored>>

ReadCount ==
  /\ BspAt("readCount", "writeNum")
  /\ copy' = ap_wfs_count
  /\ UNCHANGED <<world, ap, dying, shared, vmx, restored>>

WriteNum ==
  /\ BspAt("writeNum", "kernel")
  /\ num_in_wfs' = copy
  /\ UNCHANGED <<world, ap, dying, ap_wfs_count, shutdown_type, aps_exit_guest, vmx, copy, restored>>

-----------------------------------------------------------------------------
(* The kernel: external.  It starts APs, takes them down one after the other *)
(* and calls shutdown_entry once it runs on none of them.                    *)

KernelStarts(a) ==
  /\ bsp = "kernel" /\ ap[a] = "guest" /\ aps_exit_guest = 0
  /\ ap' = [ap EXCEPT ![a] = "sipi"]
  /\ UNCHANGED <<world, bsp, dying, shared, vmx, copy, restored>>

KernelStops(a) ==
  /\ bsp = "kernel" /\ ap[a] = "kernel"
  /\ \A b \in Aps : ap[b] = "shutdown" \/ b \in dying => ap[b] \in AtRest
  /\ shutdown_type' = "WFS"
  /\ ap' = [ap EXCEPT ![a] = "shutdown"]
  /\ UNCHANGED <<world, bsp, dying, ap_wfs_count, num_in_wfs, aps_exit_guest, vmx, copy, restored>>

KernelShutsDown ==
  /\ bsp = "kernel"
  /\ \A a \in Aps : ap[a] \notin {"sipi", "sipiNum", "kernel", "shutdown"}
  /\ shutdown_type' = "S5" /\ BspGoto("waitReady")
  /\ UNCHANGED <<world, ap, dying, ap_wfs_count, num_in_wfs, aps_exit_guest, vmx, copy, restored>>

KernelSteps == (\E a \in Aps : KernelStarts(a) \/ KernelStops(a)) \/ KernelShutsDown

-----------------------------------------------------------------------------
(* An AP.                                                                    *)

Goto(a, label) == ap' = [ap EXCEPT ![a] = label]
At(a, label, next) == ap[a] = label /\ Goto(a, next)

\* _txt_wakeup halts an AP that has no stack.
NoStack(a) ==
  /\ a >= world.stacks /\ At(a, "woken", "stopped")
  /\ UNCHANGED <<world, bsp, dying, shared, vmx, copy, restored>>

\* txt_cpu_wakeup() returns if there is no APIC base in the MADT, and _txt_wakeup
\* has no code behind its call.
NoMadt(a) ==
  /\ a < world.stacks /\ world.fails /\ At(a, "woken", "lost")
  /\ UNCHANGED <<world, bsp, dying, shared, vmx, copy, restored>>

txt_cpu_wakeup(a) ==
  /\ a < world.stacks /\ At(a, "woken", "count")
  /\ restored' = restored \cup {a}
  /\ UNCHANGED <<world, bsp, dying, shared, vmx, copy>>

CountMe(a) ==
  /\ At(a, "count", "load_TR")
  /\ ap_wfs_count' = inc(ap_wfs_count)
  /\ UNCHANGED <<world, bsp, dying, num_in_wfs, shutdown_type, aps_exit_guest, vmx, copy, restored>>

\* From here to mtx_leave(&ap_lock) an AP uses what all APs share.
Section == {"resetTss", "startVmx", "initVmx", "vmxon", "vmcs"}

\* LTR raises an exception if the descriptor is busy.
load_TR(a) ==
  /\ ap[a] = "load_TR"
  /\ world.apart => \A b \in Aps : ap[b] \notin Section
  /\ Goto(a, IF tssBusy THEN "fault" ELSE "resetTss")
  /\ tssBusy' = TRUE
  /\ UNCHANGED <<world, bsp, dying, shared, init_done, hostVmcs, copy, restored>>

RESET_TSS_DESC(a) ==
  /\ At(a, "resetTss", "startVmx")
  /\ tssBusy' = FALSE
  /\ UNCHANGED <<world, bsp, dying, shared, init_done, hostVmcs, copy, restored>>

start_vmx(a) ==
  /\ ap[a] = "startVmx"
  /\ Goto(a, IF init_done THEN "vmxon" ELSE "initVmx")
  /\ hostVmcs' = (hostVmcs /\ init_done)
  /\ UNCHANGED <<world, bsp, dying, shared, init_done, tssBusy, copy, restored>>

InitVmxEveryTime(a) ==
  /\ At(a, "initVmx", "vmxon")
  /\ hostVmcs' = TRUE
  /\ UNCHANGED <<world, bsp, dying, shared, init_done, tssBusy, copy, restored>>

InitVmx(a) ==
  /\ At(a, "initVmx", "vmxon")
  /\ hostVmcs' = TRUE /\ init_done' = TRUE
  /\ UNCHANGED <<world, bsp, dying, shared, tssBusy, copy, restored>>

\* Where handle_init_sipi_sipi() returns to: shutdown() runs on into the part for
\* the BSP, txt_cpu_wakeup() returns to _txt_wakeup.
ReturnTo(a) == IF a \in dying THEN "waitReady" ELSE "lost"

\* VMXON fails without a valid revision id.
vmxon(a) ==
  /\ ap[a] = "vmxon"
  /\ \/ hostVmcs /\ Goto(a, "vmcs")
     \/ (~hostVmcs \/ world.fails) /\ Goto(a, ReturnTo(a))
  /\ UNCHANGED <<world, bsp, dying, shared, vmx, copy, restored>>

\* vmx_create_vmcs() on a page of the AP's own, and mtx_leave(&ap_lock).
vmx_create_vmcs(a) ==
  /\ At(a, "vmcs", "launch")
  /\ UNCHANGED <<world, bsp, dying, shared, vmx, copy, restored>>

NotInWfs(a) ==
  /\ At(a, "launch", "vmlaunch")
  /\ UNCHANGED <<world, bsp, dying, shared, vmx, copy, restored>>

launch_mini_guest(a) ==
  /\ At(a, "launch", "vmlaunch")
  /\ num_in_wfs' = inc(num_in_wfs)
  /\ UNCHANGED <<world, bsp, dying, ap_wfs_count, shutdown_type, aps_exit_guest, vmx, copy, restored>>

\* VMLAUNCH enters the guest, fails, or exits at once with a failed entry.
vmlaunch(a) ==
  /\ ap[a] = "vmlaunch"
  /\ \/ Goto(a, "guest")
     \/ world.fails /\ (Goto(a, "noLaunch") \/ Goto(a, "noEntry"))
  /\ UNCHANGED <<world, bsp, dying, shared, vmx, copy, restored>>

\* The mini guest sees the flag and calls its host.
MiniGuestExits(a) ==
  /\ aps_exit_guest # 0 /\ At(a, "guest", "vmcall")
  /\ UNCHANGED <<world, bsp, dying, shared, vmx, copy, restored>>

\* Four ways out of wait-for-sipi take both counters down.  After a failed entry
\* vmx_vmexit_handler() returns into the code of the mini guest, outside of VMX.
Leave ==
  [sipi |-> "sipiNum", vmcall |-> "vmcallNum", noEntry |-> "noEntryNum",
   noLaunch |-> "noLaunchNum"]

Left(a) ==
  [sipiNum |-> "kernel", vmcallNum |-> "stopped", noEntryNum |-> "stray",
   noLaunchNum |-> ReturnTo(a)]

LeaveCount(a) ==
  /\ ap[a] \in DOMAIN Leave /\ Goto(a, Leave[ap[a]])
  /\ ap_wfs_count' = dec(ap_wfs_count)
  /\ UNCHANGED <<world, bsp, dying, num_in_wfs, shutdown_type, aps_exit_guest, vmx, copy, restored>>

LeaveNum(a) ==
  /\ ap[a] \in DOMAIN Left(a) /\ Goto(a, Left(a)[ap[a]])
  /\ num_in_wfs' = dec(num_in_wfs)
  /\ UNCHANGED <<world, bsp, dying, ap_wfs_count, shutdown_type, aps_exit_guest, vmx, copy, restored>>

\* VMCALL outside of VMX is an invalid opcode.
StrayVmcall(a) ==
  /\ aps_exit_guest # 0 /\ At(a, "stray", "fault")
  /\ UNCHANGED <<world, bsp, dying, shared, vmx, copy, restored>>

handle_exception(a) ==
  /\ At(a, "fault", "shutdown")
  /\ shutdown_type' = "REBOOT"
  /\ UNCHANGED <<world, bsp, dying, ap_wfs_count, num_in_wfs, aps_exit_guest, vmx, copy, restored>>

-----------------------------------------------------------------------------
(* shutdown().                                                               *)

\* An AP that is taken down counts itself and goes back to wait-for-sipi.
shutdown(a) ==
  /\ ap[a] = "shutdown"
  /\ IF shutdown_type = "WFS"
     THEN Goto(a, "load_TR") /\ dying' = dying \cup {a} /\ ap_wfs_count' = inc(ap_wfs_count)
     ELSE Goto(a, "waitReady") /\ UNCHANGED <<dying, ap_wfs_count>>
  /\ UNCHANGED <<world, bsp, num_in_wfs, shutdown_type, aps_exit_guest, vmx, copy, restored>>

AllReady == num_in_wfs >= ap_wfs_count
Drained == ap_wfs_count = 0 \/ TimesOut

\* The rest is for the BSP, but an AP may get here; txt_shutdown() halts it.
ApWaitReady(a) ==
  /\ AllReady /\ At(a, "waitReady", "drain")
  /\ aps_exit_guest' = 1
  /\ UNCHANGED <<world, bsp, dying, ap_wfs_count, num_in_wfs, shutdown_type, vmx, copy, restored>>

ApDrain(a) ==
  /\ Drained /\ At(a, "drain", "stopped")
  /\ UNCHANGED <<world, bsp, dying, shared, vmx, copy, restored>>

\* force_aps_exit() follows.
BspWaitReady ==
  /\ AllReady /\ BspAt("waitReady", "drain")
  /\ aps_exit_guest' = 1
  /\ UNCHANGED <<world, ap, dying, ap_wfs_count, num_in_wfs, shutdown_type, vmx, copy, restored>>

BspDrain ==
  /\ Drained /\ BspAt("drain", "txt_shutdown")
  /\ UNCHANGED <<world, ap, dying, shared, vmx, copy, restored>>

CloseAnyway ==
  /\ BspAt("txt_shutdown", "close")
  /\ UNCHANGED <<world, ap, dying, shared, vmx, copy, restored>>

\* With an AP in wait-for-sipi the platform is told to reset (TXTCR_CMD_RESET).
txt_shutdown ==
  /\ bsp = "txt_shutdown"
  /\ BspGoto(IF ap_wfs_count > 0 THEN "resetting" ELSE "close")
  /\ UNCHANGED <<world, ap, dying, shared, vmx, copy, restored>>

\* Private space is closed and SEXIT executed in both cases, for as long as the
\* reset does not come.
__getsec_sexit ==
  /\ BspAt("close", "sexit") \/ BspAt("resetting", "sexitResetting")
  /\ UNCHANGED <<world, ap, dying, shared, vmx, copy, restored>>

\* External: the reset comes when it comes, and stops every processor.
PlatformResets ==
  /\ BspAt("resetting", "reset") \/ BspAt("sexitResetting", "reset")
  /\ UNCHANGED <<world, ap, dying, shared, vmx, copy, restored>>

-----------------------------------------------------------------------------
BspStep ==
  \/ intel_post_launch \/ txt_wakeup_cpus \/ WaitForAps \/ txt_post_launch
  \/ ClearShared \/ ReadCount \/ WriteNum
  \/ BspWaitReady \/ BspDrain \/ txt_shutdown \/ __getsec_sexit

ApStep(a) ==
  /\ bsp # "reset"
  /\ \/ NoStack(a) \/ NoMadt(a) \/ txt_cpu_wakeup(a) \/ CountMe(a)
     \/ load_TR(a) \/ RESET_TSS_DESC(a) \/ start_vmx(a) \/ InitVmx(a) \/ vmxon(a)
     \/ vmx_create_vmcs(a) \/ launch_mini_guest(a) \/ vmlaunch(a)
     \/ MiniGuestExits(a) \/ LeaveCount(a) \/ LeaveNum(a) \/ StrayVmcall(a)
     \/ handle_exception(a) \/ shutdown(a) \/ ApWaitReady(a) \/ ApDrain(a)

Next == BspStep \/ PlatformResets \/ KernelSteps \/ \E a \in Aps : ApStep(a)

Spec == Init /\ [][Next]_vars

\* Every processor keeps running; nothing is assumed of the kernel or of the reset.
FairSpec == Spec /\ WF_vars(BspStep) /\ \A a \in Aps : WF_vars(ApStep(a))

-----------------------------------------------------------------------------
(* Properties.                                                               *)

InVmx == {a \in Aps : ap[a] \in {"vmcs", "launch", "vmlaunch", "guest"}}

\* txt_wakeup_cpus() waits for all APs: when the BSP restores its own MTRRs, and
\* later starts the kernel, each AP that has a stack has restored its MTRRs.
ApsBeforeMtrrs ==
  ~world.late /\ ~world.fails /\ bsp \notin {"start", "wake", "waitAps"} =>
    {a \in Aps : a < world.stacks} \subseteq restored

\* The TSS descriptor is free whenever an AP loads it: no AP takes an exception.
TssFree == \A a \in Aps : ap[a] # "fault"

\* If the APs set up VMX one after the other, nobody clears host_vmcs under an AP
\* in VMX operation, although it is initialised only once, by whichever AP comes
\* first, and no AP takes an exception, although all use one TSS descriptor.
HostVmcsIntact ==
  world.apart => (InVmx # {} => hostVmcs) /\ (~world.fails => TssFree)

\* In wait-for-sipi or on the way there.
InWfs == {a \in Aps : ap[a] \in Section \cup {"load_TR", "launch", "vmlaunch", "guest"}}

\* SEXIT hangs if an AP is in wait-for-sipi.  Whatever was late or failed before, the
\* test of txt_shutdown() passes only when no AP is or has begun to set it up; and if no
\* AP is late, none has by the time SEXIT is executed without a reset being asked for.
SexitAlone ==
  [][/\ bsp = "txt_shutdown" /\ bsp' = "close" => InWfs = {}
     /\ bsp = "close" /\ bsp' = "sexit" /\ ~world.late => InWfs = {}]_vars

\* shutdown() does not wait forever for APs to be ready or to leave their guests.
ShutdownEnds ==
  ~world.late /\ ~world.fails /\ world.apart /\ bsp = "waitReady"
    ~> bsp \in {"sexit", "sexitResetting", "reset"}
=============================================================================
