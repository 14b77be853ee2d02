--------------------------- MODULE ApWakeupProofs ---------------------------
(***************************************************************************)
(* The processors after SENTER, for any number of them and in every world: *)
(* late, failing, side by side or one after the other.                     *)
(***************************************************************************)
EXTENDS ApWakeup, FiniteSetTheorems, TLAPS

\* Where an AP is counted in ap_wfs_count and may still take itself out of it.
Waiting ==
  Section \cup {"load_TR", "launch", "vmlaunch", "guest", "sipi", "vmcall", "noEntry", "noLaunch"}

Sure == {a \in Aps : ap[a] \in Waiting}

\* Where an AP may have been counted: an AP that the kernel takes down has taken itself
\* out before, while one that comes to shutdown() from an exception has not.
Counted ==
  {a \in restored : /\ ap[a] \notin {"count", "sipiNum", "kernel"}
                    /\ ap[a] = "shutdown" => shutdown_type # "WFS"}

\* The APs that have not restored their MTRRs.
Behind(a) ==
  \/ ap[a] \in {"asleep", "woken"}
  \/ ap[a] = "stopped" /\ a >= world.stacks
  \/ ap[a] = "lost" /\ world.fails

Base ==
  /\ DOMAIN ap = Aps /\ restored \subseteq Aps
  /\ world.stacks \in Nat
  /\ \A a \in Aps \ restored : Behind(a)
  /\ \A a \in restored : ap[a] \notin {"asleep", "woken"}
  /\ bsp \in {"start", "wake"} =>
       restored = {} /\ ap_wfs_count = 0 /\ \A a \in Aps : ap[a] = "asleep"

\* ap_wfs_count, which APs change in two different files and never under a lock, is
\* between the APs that are sure to be counted and those that may be.
Bounds ==
  /\ ap_wfs_count \in Nat
  /\ Cardinality(Sure) <= ap_wfs_count /\ ap_wfs_count <= Cardinality(Counted)

CountInv == Base /\ Bounds

LEMMA Parts ==
  ASSUME NEW T, T \subseteq Aps
  PROVE  IsFiniteSet(T) /\ Cardinality(T) \in Nat /\ Cardinality(T) <= Cardinality(Aps)
BY ApWakeupAssumption, FS_Subset, FS_CardinalityType, Zenon

LEMMA Sizes ==
  ASSUME restored \subseteq Aps
  PROVE  /\ IsFiniteSet(Sure) /\ IsFiniteSet(Counted) /\ Sure \subseteq Aps /\ Counted \subseteq Aps
         /\ Cardinality(Sure) \in Nat /\ Cardinality(Counted) \in Nat /\ Cardinality(Aps) \in Nat
         /\ Cardinality(Counted) <= Cardinality(Aps)
<1>1. Sure \subseteq Aps /\ Counted \subseteq Aps /\ Aps \subseteq Aps
  BY DEF Sure, Counted
<1>2. QED
  BY <1>1, Parts

LEMMA InitCount == Init => CountInv
<1> SUFFICES ASSUME Init PROVE CountInv
  OBVIOUS
<1>1. Base
  BY ApWakeupAssumption DEF Init, Base, Behind
<1>2. Sure = {} /\ Counted = {}
  BY DEF Init, Sure, Counted, Waiting, Section
<1>3. QED
  BY <1>1, <1>2, FS_EmptySet DEF CountInv, Bounds, Init

\* A step that leaves the counter alone may take APs from Sure and add some to Counted.
LEMMA CountKept ==
  ASSUME Base, Bounds, Base', ap_wfs_count' = ap_wfs_count, Sure' \subseteq Sure, Counted \subseteq Counted'
  PROVE  Bounds'
<1>1. /\ IsFiniteSet(Sure) /\ IsFiniteSet(Counted') /\ Cardinality(Sure) \in Nat
      /\ Cardinality(Counted) \in Nat /\ Cardinality(Counted') \in Nat /\ Cardinality(Sure') \in Nat
  <2>1. Sure' \subseteq Aps /\ Counted' \subseteq Aps
    BY DEF Base, Sure, Counted
  <2>2. QED
    BY <2>1, Sizes, Parts DEF Base
<1>2. Cardinality(Sure') <= Cardinality(Sure) /\ Cardinality(Counted) <= Cardinality(Counted')
  BY <1>1, FS_Subset
<1>3. QED
  BY <1>1, <1>2 DEF Bounds

LEMMA CountUp ==
  ASSUME Base, Bounds, Base', ap_wfs_count' = inc(ap_wfs_count), NEW a \in Aps,
         a \notin Sure, a \notin Counted, Sure' = Sure \cup {a}, Counted' = Counted \cup {a}
  PROVE  Bounds'
<1>1. /\ IsFiniteSet(Sure) /\ IsFiniteSet(Counted) /\ Cardinality(Sure) \in Nat
      /\ Cardinality(Counted) \in Nat /\ Cardinality(Aps) \in Nat /\ Cardinality(Counted) <= Cardinality(Aps)
  BY Sizes DEF Base
<1>2. /\ Cardinality(Sure') = Cardinality(Sure) + 1
      /\ Cardinality(Counted') = Cardinality(Counted) + 1
  BY <1>1, FS_AddElement, Zenon
<1>3. ap_wfs_count' = ap_wfs_count + 1
  BY <1>1, ApWakeupAssumption DEF Bounds, inc
<1>4. QED
  BY <1>1, <1>2, <1>3 DEF Bounds

LEMMA CountDown ==
  ASSUME Base, Bounds, Base', ap_wfs_count' = dec(ap_wfs_count), NEW a \in Sure,
         Sure' = Sure \ {a}, Counted \ {a} \subseteq Counted'
  PROVE  Bounds'
<1>1. /\ IsFiniteSet(Sure) /\ IsFiniteSet(Counted) /\ Cardinality(Sure) \in Nat
      /\ Cardinality(Counted) \in Nat /\ Cardinality(Aps) \in Nat /\ Cardinality(Counted) <= Cardinality(Aps)
  BY Sizes DEF Base
<1>2. Cardinality(Sure') = Cardinality(Sure) - 1
  BY <1>1, FS_RemoveElement, Zenon
<1>3. Cardinality(Counted') \in Nat /\ Cardinality(Counted) - 1 <= Cardinality(Counted')
  <2>1. IsFiniteSet(Counted') /\ Cardinality(Counted') \in Nat
    <3>1. Counted' \subseteq Aps
      BY DEF Base, Counted
    <3>2. QED
      BY <3>1, Parts
  <2>2. /\ Cardinality(Counted \ {a}) \in Nat /\ Cardinality(Counted) - 1 <= Cardinality(Counted \ {a})
    <3>1. CASE a \in Counted
      <4>1. Cardinality(Counted \ {a}) = Cardinality(Counted) - 1 /\ IsFiniteSet(Counted \ {a})
        BY <1>1, <3>1, FS_RemoveElement
      <4>2. Cardinality(Counted \ {a}) \in Nat
        BY <4>1, FS_CardinalityType
      <4>3. QED
        BY <1>1, <4>1, <4>2
    <3>2. CASE a \notin Counted
      <4>1. Counted \ {a} = Counted
        BY <3>2
      <4>2. QED
        BY <1>1, <4>1
    <3>3. QED
      BY <3>1, <3>2
  <2>3. Cardinality(Counted \ {a}) <= Cardinality(Counted')
    BY <2>1, FS_Subset
  <2>4. QED
    BY <1>1, <2>1, <2>2, <2>3
<1>4. Cardinality(Sure) >= 1
  BY <1>1, FS_EmptySet
<1>5. ap_wfs_count \in Nat /\ ap_wfs_count >= 1 /\ ap_wfs_count < Word /\ Word \in Nat
  BY <1>1, <1>4, ApWakeupAssumption DEF Bounds
<1>6. ap_wfs_count' = ap_wfs_count - 1
  <2>1. ap_wfs_count + Word - 1 = (ap_wfs_count - 1) + Word
    BY <1>5
  <2>2. \A x, w \in Nat : x < w => (x + w) % w = x
    OBVIOUS
  <2>3. ap_wfs_count - 1 \in Nat /\ ap_wfs_count - 1 < Word
    BY <1>5
  <2>4. ((ap_wfs_count - 1) + Word) % Word = ap_wfs_count - 1
    BY <1>5, <2>2, <2>3
  <2>5. QED
    BY <2>1, <2>4 DEF dec
<1>7. QED
  BY <1>1, <1>2, <1>3, <1>5, <1>6 DEF Bounds

\* Each step, by what it does to the APs and to the counter.
LEMMA StepBase == Base /\ [Next]_vars => Base'
<1> SUFFICES ASSUME Base, [Next]_vars PROVE Base'
  OBVIOUS
<1> USE DEF Base, Behind, Goto, At, BspAt, BspGoto, vmx, shared
<1>1. CASE UNCHANGED vars
  BY <1>1 DEF vars
<1>2. CASE BspStep
  <2>1. CASE intel_post_launch \/ txt_wakeup_cpus
    BY <2>1 DEF intel_post_launch, txt_wakeup_cpus
  <2>2. CASE WaitForAps \/ txt_post_launch \/ ClearShared \/ ReadCount \/ WriteNum
    BY <2>2 DEF WaitForAps, txt_post_launch, ClearShared, ReadCount, WriteNum
  <2>3. CASE BspWaitReady \/ BspDrain \/ txt_shutdown \/ __getsec_sexit
    BY <2>3 DEF BspWaitReady, BspDrain, txt_shutdown, __getsec_sexit
  <2>4. QED
    BY <1>2, <2>1, <2>2, <2>3 DEF BspStep
<1>3. CASE KernelSteps
  BY <1>3 DEF KernelSteps, KernelStarts, KernelStops, KernelShutsDown
<1>4. ASSUME NEW a \in Aps, ApStep(a) PROVE Base'
  <2>0. ap[a] # "asleep" => bsp \notin {"start", "wake"}
    OBVIOUS
  <2>1. CASE NoStack(a) \/ NoMadt(a) \/ txt_cpu_wakeup(a) \/ CountMe(a)
    BY <2>0, <2>1 DEF NoStack, NoMadt, txt_cpu_wakeup, CountMe
  <2>2. CASE load_TR(a) \/ RESET_TSS_DESC(a) \/ start_vmx(a) \/ InitVmx(a) \/ vmxon(a)
    BY <2>0, <2>2 DEF load_TR, RESET_TSS_DESC, start_vmx, InitVmx, vmxon, ReturnTo
  <2>3. CASE vmx_create_vmcs(a) \/ launch_mini_guest(a) \/ vmlaunch(a) \/ MiniGuestExits(a)
    BY <2>0, <2>3 DEF vmx_create_vmcs, launch_mini_guest, vmlaunch, MiniGuestExits
  <2>4. CASE LeaveCount(a)
    BY <2>0, <2>4 DEF LeaveCount, Leave
  <2>5. CASE LeaveNum(a)
    BY <2>0, <2>5 DEF LeaveNum, Left, ReturnTo
  <2>6. CASE StrayVmcall(a) \/ handle_exception(a) \/ shutdown(a)
    BY <2>0, <2>6 DEF StrayVmcall, handle_exception, shutdown
  <2>7. CASE ApWaitReady(a) \/ ApDrain(a)
    BY <2>0, <2>7 DEF ApWaitReady, ApDrain
  <2>8. QED
    BY <1>4, <2>1, <2>2, <2>3, <2>4, <2>5, <2>6, <2>7 DEF ApStep
<1>5. CASE PlatformResets
  BY <1>5 DEF PlatformResets
<1>6. QED
  BY <1>1, <1>2, <1>3, <1>4, <1>5 DEF Next

LEMMA StepCount == CountInv /\ [Next]_vars => CountInv'
<1> SUFFICES ASSUME CountInv, [Next]_vars PROVE Bounds'
  BY StepBase DEF CountInv
<1>0. Base /\ Bounds /\ Base'
  BY StepBase DEF CountInv
<1> USE DEF Goto, At, BspAt, BspGoto, vmx, shared, Sure, Counted, Waiting, Section
<1>1. CASE UNCHANGED vars
  BY <1>0, <1>1, CountKept DEF vars
<1>2. CASE BspStep
  <2>1. CASE intel_post_launch
    <3>1. ap_wfs_count' = ap_wfs_count /\ Sure' \subseteq Sure /\ Counted \subseteq Counted'
      BY <2>1 DEF intel_post_launch
    <3>2. QED
      BY <1>0, <3>1, CountKept
  <2>2. CASE txt_wakeup_cpus
    <3>1. ap_wfs_count' = ap_wfs_count /\ Sure' \subseteq Sure /\ Counted \subseteq Counted'
      BY <1>0, <2>2 DEF txt_wakeup_cpus, Base
    <3>2. QED
      BY <1>0, <3>1, CountKept
  <2>3. CASE WaitForAps \/ txt_post_launch \/ ClearShared \/ ReadCount \/ WriteNum
    <3>1. ap_wfs_count' = ap_wfs_count /\ Sure' \subseteq Sure /\ Counted \subseteq Counted'
      BY <2>3 DEF WaitForAps, txt_post_launch, ClearShared, ReadCount, WriteNum
    <3>2. QED
      BY <1>0, <3>1, CountKept
  <2>4. CASE BspWaitReady \/ BspDrain \/ txt_shutdown \/ __getsec_sexit
    <3>1. ap_wfs_count' = ap_wfs_count /\ Sure' \subseteq Sure /\ Counted \subseteq Counted'
      BY <2>4 DEF BspWaitReady, BspDrain, txt_shutdown, __getsec_sexit
    <3>2. QED
      BY <1>0, <3>1, CountKept
  <2>5. QED
    BY <1>2, <2>1, <2>2, <2>3, <2>4 DEF BspStep
<1>3. CASE KernelSteps
  <2>1. ap_wfs_count' = ap_wfs_count /\ Sure' \subseteq Sure /\ Counted \subseteq Counted'
    <3>1. CASE KernelShutsDown
      BY <3>1 DEF KernelShutsDown
    <3>2. ASSUME NEW a \in Aps, KernelStarts(a)
          PROVE  ap_wfs_count' = ap_wfs_count /\ Sure' \subseteq Sure /\ Counted \subseteq Counted'
      BY <1>0, <3>2 DEF KernelStarts, Base
    <3>3. ASSUME NEW a \in Aps, KernelStops(a)
          PROVE  ap_wfs_count' = ap_wfs_count /\ Sure' \subseteq Sure /\ Counted \subseteq Counted'
      BY <1>0, <3>3 DEF KernelStops, Base, AtRest
    <3>4. QED
      BY <1>3, <3>1, <3>2, <3>3 DEF KernelSteps
  <2>2. QED
    BY <1>0, <2>1, CountKept
<1>4. ASSUME NEW a \in Aps, ApStep(a) PROVE Bounds'
  <2>0. DOMAIN ap = Aps /\ restored \subseteq Aps /\ (ap[a] \in {"count", "shutdown"} => a \in restored)
        /\ (ap[a] = "woken" => a \notin restored)
    BY <1>0 DEF Base, Behind
  <2> DEFINE Kept == ap_wfs_count' = ap_wfs_count /\ Sure' \subseteq Sure /\ Counted \subseteq Counted'
  <2>1. CASE CountMe(a)
    <3>1. /\ ap_wfs_count' = inc(ap_wfs_count) /\ a \notin Sure /\ a \notin Counted
          /\ Sure' = Sure \cup {a} /\ Counted' = Counted \cup {a}
      BY <2>0, <2>1 DEF CountMe
    <3>2. QED
      BY <1>0, <3>1, CountUp
  <2>2. CASE LeaveCount(a)
    <3>1. /\ ap_wfs_count' = dec(ap_wfs_count) /\ a \in Sure
          /\ Sure' = Sure \ {a} /\ Counted \ {a} \subseteq Counted'
      BY <2>0, <2>2 DEF LeaveCount, Leave
    <3>2. QED
      BY <1>0, <3>1, CountDown
  <2>3. CASE shutdown(a)
    <3>1. CASE shutdown_type = "WFS"
      <4>1. /\ ap_wfs_count' = inc(ap_wfs_count) /\ a \notin Sure /\ a \notin Counted
            /\ Sure' = Sure \cup {a} /\ Counted' = Counted \cup {a}
        BY <2>0, <2>3, <3>1 DEF shutdown
      <4>2. QED
        BY <1>0, <4>1, CountUp
    <3>2. CASE shutdown_type # "WFS"
      <4>1. Kept
        BY <2>0, <2>3, <3>2 DEF shutdown
      <4>2. QED
        BY <1>0, <4>1, CountKept
    <3>3. QED
      BY <3>1, <3>2
  <2>4. CASE NoStack(a) \/ NoMadt(a) \/ txt_cpu_wakeup(a)
    <3>1. Kept
      BY <2>0, <2>4 DEF NoStack, NoMadt, txt_cpu_wakeup
    <3>2. QED
      BY <1>0, <3>1, CountKept
  <2>5. CASE load_TR(a) \/ RESET_TSS_DESC(a) \/ start_vmx(a) \/ InitVmx(a) \/ vmxon(a)
    <3>1. Kept
      BY <2>0, <2>5 DEF load_TR, RESET_TSS_DESC, start_vmx, InitVmx, vmxon, ReturnTo
    <3>2. QED
      BY <1>0, <3>1, CountKept
  <2>6. CASE vmx_create_vmcs(a) \/ launch_mini_guest(a) \/ vmlaunch(a) \/ MiniGuestExits(a)
    <3>1. Kept
      BY <2>0, <2>6 DEF vmx_create_vmcs, launch_mini_guest, vmlaunch, MiniGuestExits
    <3>2. QED
      BY <1>0, <3>1, CountKept
  <2>7. CASE LeaveNum(a)
    <3>1. Kept
      BY <2>0, <2>7 DEF LeaveNum, Left, ReturnTo
    <3>2. QED
      BY <1>0, <3>1, CountKept
  <2>8. CASE StrayVmcall(a) \/ handle_exception(a)
    <3>1. Kept
      BY <2>0, <2>8 DEF StrayVmcall, handle_exception
    <3>2. QED
      BY <1>0, <3>1, CountKept
  <2>9. CASE ApWaitReady(a) \/ ApDrain(a)
    <3>1. Kept
      BY <2>0, <2>9 DEF ApWaitReady, ApDrain
    <3>2. QED
      BY <1>0, <3>1, CountKept
  <2>10. QED
    BY <1>4, <2>1, <2>2, <2>3, <2>4, <2>5, <2>6, <2>7, <2>8, <2>9 DEF ApStep
<1>5. CASE PlatformResets
  <2>1. ap_wfs_count' = ap_wfs_count /\ Sure' \subseteq Sure /\ Counted \subseteq Counted'
    BY <1>5 DEF PlatformResets
  <2>2. QED
    BY <1>0, <2>1, CountKept
<1>6. QED
  BY <1>1, <1>2, <1>3, <1>4, <1>5 DEF Next

LEMMA StepRestored ==
  ASSUME CountInv, ApsBeforeMtrrs, [Next]_vars PROVE ApsBeforeMtrrs'
<1> USE DEF Goto, At, BspAt, BspGoto, vmx, shared
<1>1. world' = world /\ restored \subseteq restored'
  <2>1. CASE BspStep
    BY <2>1 DEF BspStep, intel_post_launch, txt_wakeup_cpus, WaitForAps, txt_post_launch, ClearShared,
                ReadCount, WriteNum, BspWaitReady, BspDrain, txt_shutdown, __getsec_sexit
  <2>2. CASE KernelSteps
    BY <2>2, SMTT(30) DEF KernelSteps, KernelStarts, KernelStops, KernelShutsDown
  <2>3. ASSUME NEW a \in Aps, ApStep(a) PROVE world' = world /\ restored \subseteq restored'
    BY <2>3 DEF ApStep, NoStack, NoMadt, txt_cpu_wakeup, CountMe, load_TR, RESET_TSS_DESC, start_vmx,
                InitVmx, vmxon, vmx_create_vmcs, launch_mini_guest, vmlaunch, MiniGuestExits,
                LeaveCount, LeaveNum, StrayVmcall, handle_exception, shutdown, ApWaitReady, ApDrain
  <2>4. CASE UNCHANGED vars
    BY <2>4 DEF vars
  <2>5. CASE PlatformResets
    BY <2>5 DEF PlatformResets
  <2>6. QED
    BY <2>1, <2>2, <2>3, <2>4, <2>5 DEF Next
<1>2. CASE WaitForAps
  <2>1. SUFFICES ASSUME ~world.late, ~world.fails, NEW a \in Aps, a < world.stacks PROVE a \in restored
    BY <1>1, <1>2 DEF ApsBeforeMtrrs, WaitForAps
  <2>2. CASE ap_wfs_count >= ap_wakeup_count
    <3>1. /\ IsFiniteSet(Aps) /\ Counted \subseteq Aps /\ Cardinality(Aps) \in Nat
          /\ Cardinality(Counted) \in Nat /\ Cardinality(Counted) <= Cardinality(Aps)
      BY Sizes, ApWakeupAssumption DEF CountInv, Base
    <3>2. Cardinality(Counted) = Cardinality(Aps)
      BY <2>2, <3>1 DEF CountInv, Bounds, ap_wakeup_count
    <3>3. Counted = Aps
      BY <3>1, <3>2, FS_Subset
    <3>4. QED
      BY <3>3 DEF Counted
  <2>3. CASE TimesOut
    <3>1. ap[a] \in AtRest
      BY <2>1, <2>3 DEF TimesOut
    <3>2. a \in Nat /\ world.stacks \in Nat
      BY ApWakeupAssumption DEF CountInv, Base
    <3>3. QED
      BY <2>1, <3>1, <3>2 DEF CountInv, Base, Behind, AtRest
  <2>4. QED
    BY <1>2, <2>2, <2>3 DEF WaitForAps
<1>3. ASSUME bsp \in {"start", "wake", "waitAps"} => bsp' \in {"start", "wake", "waitAps"}
      PROVE  ApsBeforeMtrrs'
  BY <1>1, <1>3 DEF ApsBeforeMtrrs
<1>4. CASE BspStep
  BY <1>2, <1>3, <1>4 DEF BspStep, intel_post_launch, txt_wakeup_cpus, txt_post_launch, ClearShared,
                ReadCount, WriteNum, BspWaitReady, BspDrain, txt_shutdown, __getsec_sexit
<1>5. CASE KernelSteps
  BY <1>3, <1>5, SMTT(30) DEF KernelSteps, KernelStarts, KernelStops, KernelShutsDown
<1>6. ASSUME NEW a \in Aps, ApStep(a) PROVE bsp' = bsp
  BY <1>6 DEF ApStep, NoStack, NoMadt, txt_cpu_wakeup, CountMe, load_TR, RESET_TSS_DESC, start_vmx,
              InitVmx, vmxon, vmx_create_vmcs, launch_mini_guest, vmlaunch, MiniGuestExits,
              LeaveCount, LeaveNum, StrayVmcall, handle_exception, shutdown, ApWaitReady, ApDrain
<1>7. CASE UNCHANGED vars
  BY <1>3, <1>7 DEF vars
<1>8. CASE PlatformResets
  BY <1>3, <1>8 DEF PlatformResets
<1>9. QED
  BY <1>3, <1>4, <1>5, <1>6, <1>7, <1>8 DEF Next

\* txt_wakeup_cpus() waits for every AP that has a stack, however many there are.
THEOREM ApsAlwaysBeforeMtrrs == Spec => []ApsBeforeMtrrs
<1>1. Init => ApsBeforeMtrrs
  BY DEF Init, ApsBeforeMtrrs
<1>2. CountInv /\ ApsBeforeMtrrs /\ [Next]_vars => ApsBeforeMtrrs'
  BY StepRestored
<1>3. QED
  BY InitCount, StepCount, <1>1, <1>2, PTL DEF Spec

\* A count of zero, and nobody is sure to be counted.
LEMMA NobodyWaits ==
  ASSUME CountInv, ap_wfs_count = 0
  PROVE  Sure = {}
<1>1. IsFiniteSet(Sure) /\ Cardinality(Sure) \in Nat
  BY Sizes DEF CountInv, Base
<1>2. Cardinality(Sure) = 0
  BY <1>1 DEF CountInv, Bounds
<1>3. QED
  BY <1>1, <1>2, FS_EmptySet, SMTT(30)

\* If no AP is late, every AP has counted itself, or never will, when the BSP stops
\* waiting; the kernel sends no AP back once it has called shutdown_entry; so nobody
\* comes to wait-for-sipi between the test of txt_shutdown() and SEXIT.
OnTimeInv ==
  ~world.late =>
    /\ bsp \notin {"start", "wake", "waitAps"} => \A a \in Aps : ap[a] \notin {"asleep", "woken", "count"}
    /\ bsp \in {"waitReady", "drain", "txt_shutdown", "close"} => shutdown_type # "WFS"
    /\ bsp = "close" => Sure = {}

LEMMA StepOnTime ==
  ASSUME CountInv, OnTimeInv, [Next]_vars PROVE OnTimeInv'
<1> USE DEF Goto, At, BspAt, BspGoto, vmx, shared
<1>0. DOMAIN ap = Aps /\ ap_wfs_count \in Nat
  BY DEF CountInv, Base, Bounds
<1>1. CASE WaitForAps
  <2>1. SUFFICES ASSUME ~world.late, NEW a \in Aps PROVE ap[a] \notin {"asleep", "woken", "count"}
    BY <1>1 DEF OnTimeInv, WaitForAps
  <2>2. CASE ap_wfs_count >= ap_wakeup_count
    <3>1. /\ IsFiniteSet(Aps) /\ Counted \subseteq Aps /\ Cardinality(Aps) \in Nat
          /\ Cardinality(Counted) \in Nat /\ Cardinality(Counted) <= Cardinality(Aps)
      BY Sizes, ApWakeupAssumption DEF CountInv, Base
    <3>2. Cardinality(Counted) = Cardinality(Aps)
      BY <2>2, <3>1 DEF CountInv, Bounds, ap_wakeup_count
    <3>3. Counted = Aps
      BY <3>1, <3>2, FS_Subset
    <3>4. QED
      BY <3>3 DEF Counted, CountInv, Base
  <2>3. CASE TimesOut
    BY <2>1, <2>3 DEF TimesOut, AtRest
  <2>4. QED
    BY <1>1, <2>2, <2>3 DEF WaitForAps
<1>2. CASE txt_shutdown
  <2>1. UNCHANGED <<world, ap, shutdown_type>> /\ bsp = "txt_shutdown" /\ bsp' \in {"resetting", "close"}
    BY <1>2 DEF txt_shutdown
  <2>2. bsp' = "close" => Sure = {}
    <3>1. bsp' = "close" => ap_wfs_count = 0
      BY <1>0, <1>2 DEF txt_shutdown
    <3>2. QED
      BY <3>1, NobodyWaits
  <2>3. Sure' = Sure
    BY <2>1 DEF Sure
  <2>4. QED
    BY <2>1, <2>2, <2>3 DEF OnTimeInv
<1>3. CASE txt_wakeup_cpus \/ intel_post_launch
  BY <1>3 DEF txt_wakeup_cpus, intel_post_launch, OnTimeInv
<1>4. CASE txt_post_launch \/ ClearShared \/ ReadCount \/ WriteNum
  BY <1>4 DEF txt_post_launch, ClearShared, ReadCount, WriteNum, OnTimeInv
<1>5. CASE BspWaitReady \/ BspDrain \/ __getsec_sexit \/ PlatformResets
  BY <1>5 DEF BspWaitReady, BspDrain, __getsec_sexit, PlatformResets, OnTimeInv
<1>6. CASE KernelSteps
  <2>1. CASE KernelShutsDown
    BY <2>1 DEF KernelShutsDown, OnTimeInv
  <2>2. ASSUME NEW a \in Aps, KernelStarts(a) \/ KernelStops(a) PROVE OnTimeInv'
    BY <1>0, <2>2 DEF KernelStarts, KernelStops, OnTimeInv
  <2>3. QED
    BY <1>6, <2>1, <2>2 DEF KernelSteps
<1>7. ASSUME NEW a \in Aps, ApStep(a) PROVE OnTimeInv'
  <2>1. /\ UNCHANGED <<world, bsp>>
        /\ shutdown_type' \in {shutdown_type, "REBOOT"}
        /\ ap' = [ap EXCEPT ![a] = ap'[a]]
        /\ ap[a] # "asleep"
        /\ ap[a] \notin {"asleep", "woken", "count"} => ap'[a] \notin {"asleep", "woken", "count"}
        /\ /\ ap[a] \notin Waiting \cup {"woken", "count"}
           /\ ap[a] = "shutdown" => shutdown_type # "WFS"
           => ap'[a] \notin Waiting
    <3> USE <1>0 DEF Waiting, Section
    <3>1. CASE NoStack(a) \/ NoMadt(a) \/ txt_cpu_wakeup(a) \/ CountMe(a)
      BY <3>1 DEF NoStack, NoMadt, txt_cpu_wakeup, CountMe
    <3>2. CASE load_TR(a) \/ RESET_TSS_DESC(a) \/ start_vmx(a) \/ InitVmx(a) \/ vmxon(a)
      BY <3>2 DEF load_TR, RESET_TSS_DESC, start_vmx, InitVmx, vmxon, ReturnTo
    <3>3. CASE vmx_create_vmcs(a) \/ launch_mini_guest(a) \/ vmlaunch(a) \/ MiniGuestExits(a)
      BY <3>3 DEF vmx_create_vmcs, launch_mini_guest, vmlaunch, MiniGuestExits
    <3>4. CASE LeaveCount(a)
      BY <3>4 DEF LeaveCount, Leave
    <3>5. CASE LeaveNum(a)
      BY <3>5 DEF LeaveNum, Left, ReturnTo
    <3>6. CASE StrayVmcall(a) \/ handle_exception(a) \/ shutdown(a)
      BY <3>6 DEF StrayVmcall, handle_exception, shutdown
    <3>7. CASE ApWaitReady(a) \/ ApDrain(a)
      BY <3>7 DEF ApWaitReady, ApDrain
    <3>8. QED
      BY <1>7, <3>1, <3>2, <3>3, <3>4, <3>5, <3>6, <3>7 DEF ApStep
  <2>2. SUFFICES ASSUME ~world.late PROVE OnTimeInv'
    BY <2>1 DEF OnTimeInv
  <2>3. ASSUME bsp \notin {"start", "wake", "waitAps"}, NEW b \in Aps
        PROVE  ap'[b] \notin {"asleep", "woken", "count"}
    BY <1>0, <2>1, <2>2, <2>3 DEF OnTimeInv
  <2>4. ASSUME bsp = "close" PROVE Sure' = {}
    <3>1. Sure = {} /\ shutdown_type # "WFS" /\ ap[a] \notin {"woken", "count"}
      BY <2>2, <2>4 DEF OnTimeInv
    <3>2. \A b \in Aps : ap[b] \notin Waiting
      BY <3>1 DEF Sure
    <3>3. ap'[a] \notin Waiting
      BY <2>1, <3>1, <3>2
    <3>4. \A b \in Aps : ap'[b] \notin Waiting
      BY <1>0, <2>1, <3>2, <3>3
    <3>5. QED
      BY <3>4 DEF Sure
  <2>5. QED
    BY <2>1, <2>2, <2>3, <2>4 DEF OnTimeInv
<1>8. CASE UNCHANGED vars
  BY <1>8 DEF vars, OnTimeInv, Sure
<1>9. QED
  BY <1>1, <1>2, <1>3, <1>4, <1>5, <1>6, <1>7, <1>8 DEF Next, BspStep

\* In every world the test of txt_shutdown() passes only when no AP is in wait-for-sipi
\* or on its way there; if no AP is late this is still so when SEXIT is executed.
THEOREM SexitAlwaysAlone == Spec => SexitAlone
<1> DEFINE A == /\ bsp = "txt_shutdown" /\ bsp' = "close" => InWfs = {}
                /\ bsp = "close" /\ bsp' = "sexit" /\ ~world.late => InWfs = {}
<1>1. Init => OnTimeInv
  BY DEF Init, OnTimeInv
<1>2. ASSUME CountInv, OnTimeInv, [Next]_vars PROVE [A]_vars
  <2> USE DEF Goto, At, BspAt, BspGoto, vmx, shared
  <2>1. InWfs \subseteq Sure
    BY DEF InWfs, Sure, Waiting
  <2>2. ASSUME bsp = "txt_shutdown", bsp' = "close" PROVE ap_wfs_count = 0
    <3>1. ASSUME NEW a \in Aps, ApStep(a) PROVE bsp' = bsp
      BY <3>1 DEF ApStep, NoStack, NoMadt, txt_cpu_wakeup, CountMe, load_TR, RESET_TSS_DESC, start_vmx,
                  InitVmx, vmxon, vmx_create_vmcs, launch_mini_guest, vmlaunch, MiniGuestExits,
                  LeaveCount, LeaveNum, StrayVmcall, handle_exception, shutdown, ApWaitReady, ApDrain
    <3>2. ~KernelSteps /\ ~UNCHANGED vars /\ ~PlatformResets
      BY <2>2 DEF KernelSteps, KernelStarts, KernelStops, KernelShutsDown, PlatformResets, vars
    <3>3. BspStep
      BY <1>2, <2>2, <3>1, <3>2 DEF Next
    <3>4. txt_shutdown
      BY <2>2, <3>3 DEF BspStep, intel_post_launch, txt_wakeup_cpus, WaitForAps, txt_post_launch,
                ClearShared, ReadCount, WriteNum, BspWaitReady, BspDrain, __getsec_sexit
    <3>5. QED
      BY <1>2, <2>2, <3>4 DEF txt_shutdown, CountInv, Bounds
  <2>3. bsp = "txt_shutdown" /\ bsp' = "close" => InWfs = {}
    BY <1>2, <2>1, <2>2, NobodyWaits
  <2>4. bsp = "close" /\ bsp' = "sexit" /\ ~world.late => InWfs = {}
    BY <1>2, <2>1 DEF OnTimeInv
  <2>5. QED
    BY <2>3, <2>4
<1>3. CountInv /\ OnTimeInv /\ [Next]_vars => OnTimeInv'
  BY StepOnTime
<1>4. QED
  BY InitCount, StepCount, <1>1, <1>2, <1>3, PTL DEF Spec, SexitAlone

-----------------------------------------------------------------------------
(* What the APs share while they set up VMX.                                 *)

\* One AP at a time is in the part that ap_lock should guard; whoever is past it
\* found host_vmcs initialised, and nobody clears it after that.
ApartInv ==
  /\ DOMAIN ap = Aps
  /\ world.apart =>
       /\ \A a, b \in Aps : ap[a] \in Section /\ ap[b] \in Section => a = b
       /\ tssBusy => \E a \in Aps : ap[a] = "resetTss"
       /\ init_done => hostVmcs
       /\ \A a \in Aps : ap[a] \in {"vmxon", "vmcs", "launch", "vmlaunch", "guest"} => init_done
       /\ ~world.fails => \A a \in Aps : ap[a] \notin
            {"fault", "stray", "noEntry", "noEntryNum", "noLaunch", "noLaunchNum"}

LEMMA StepApart == Base /\ ApartInv /\ [Next]_vars => ApartInv'
<1> SUFFICES ASSUME Base, ApartInv, [Next]_vars PROVE ApartInv'
  BY SMTT(30)
<1> USE DEF ApartInv, Section, Goto, At, BspAt, BspGoto, vmx, shared
<1>1. CASE BspStep
  <2>1. CASE txt_wakeup_cpus
    BY <2>1 DEF txt_wakeup_cpus, Base
  <2>2. CASE UNCHANGED <<world, ap, vmx>>
    BY <2>2
  <2>3. QED
    BY <1>1, <2>1, <2>2 DEF BspStep, intel_post_launch, WaitForAps, txt_post_launch, ClearShared,
                ReadCount, WriteNum, BspWaitReady, BspDrain, txt_shutdown, __getsec_sexit
<1>2. CASE KernelSteps
  BY <1>2, SMTT(30) DEF KernelSteps, KernelStarts, KernelStops, KernelShutsDown
<1>3. ASSUME NEW a \in Aps, ApStep(a) PROVE ApartInv'
  <2>1. CASE NoStack(a) \/ NoMadt(a) \/ txt_cpu_wakeup(a) \/ CountMe(a)
    BY <2>1 DEF NoStack, NoMadt, txt_cpu_wakeup, CountMe
  <2>2. CASE load_TR(a)
    BY <2>2 DEF load_TR
  <2>3. CASE RESET_TSS_DESC(a)
    BY <2>3 DEF RESET_TSS_DESC
  <2>4. CASE start_vmx(a)
    <3>1. world.apart /\ init_done => hostVmcs'
      <4>1. hostVmcs' = (hostVmcs /\ init_done)
        BY <2>4 DEF start_vmx
      <4>2. world.apart /\ init_done => hostVmcs
        OBVIOUS
      <4>3. QED
        BY <4>1, <4>2, Zenon
    <3>2. /\ ap[a] = "startVmx" /\ ap' = [ap EXCEPT ![a] = IF init_done THEN "vmxon" ELSE "initVmx"]
          /\ UNCHANGED <<world, init_done, tssBusy>>
      BY <2>4 DEF start_vmx
    <3>3. QED
      BY <3>1, <3>2
  <2>5. CASE InitVmx(a)
    BY <2>5 DEF InitVmx
  <2>6. CASE vmxon(a)
    BY <2>6 DEF vmxon, ReturnTo
  <2>7. CASE vmx_create_vmcs(a) \/ launch_mini_guest(a)
    BY <2>7 DEF vmx_create_vmcs, launch_mini_guest
  <2>8. CASE vmlaunch(a) \/ MiniGuestExits(a)
    BY <2>8, SMTT(30) DEF vmlaunch, MiniGuestExits
  <2>9. CASE LeaveCount(a)
    BY <2>9, SMTT(30) DEF LeaveCount, Leave
  <2>10. CASE LeaveNum(a)
    BY <2>10, SMTT(30) DEF LeaveNum, Left, ReturnTo
  <2>11. CASE StrayVmcall(a) \/ handle_exception(a) \/ shutdown(a)
    BY <2>11 DEF StrayVmcall, handle_exception, shutdown
  <2>12. CASE ApWaitReady(a) \/ ApDrain(a)
    BY <2>12 DEF ApWaitReady, ApDrain
  <2>13. QED
    BY <1>3, <2>1, <2>2, <2>3, <2>4, <2>5, <2>6, <2>7, <2>8, <2>9, <2>10, <2>11, <2>12, ZenonT(60) DEF ApStep
<1>4. CASE UNCHANGED vars
  BY <1>4 DEF vars
<1>5. CASE PlatformResets
  BY <1>5 DEF PlatformResets
<1>6. QED
  BY <1>1, <1>2, <1>3, <1>4, <1>5 DEF Next

\* If the APs set up VMX one after the other, host_vmcs stays intact under every AP
\* that is in VMX operation and the shared TSS descriptor is free when it is loaded.
THEOREM HostVmcsAlwaysIntact == Spec => []HostVmcsIntact
<1>1. Init => ApartInv
  BY DEF Init, ApartInv, Section
<1>2. ApartInv => HostVmcsIntact
  BY DEF ApartInv, HostVmcsIntact, InVmx, TssFree
<1>3. QED
  BY InitCount, StepBase, StepApart, <1>1, <1>2, PTL DEF Spec, CountInv
=============================================================================
