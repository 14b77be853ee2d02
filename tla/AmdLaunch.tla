------------------------------ MODULE AmdLaunch ------------------------------
(***************************************************************************)
(* The late launch of the AMD build, between the two times that SABLE uses *)
(* the TPM (Tis): pre_launch() stops the application processors (APs) and  *)
(* executes SKINIT; post_launch() first undoes what SKINIT did to the      *)
(* machine (revert_skinit() of src/arch-amd/dev.c).  The APs take          *)
(* interrupts and run smp_init on their own.                               *)
(*                                                                         *)
(* The PCI bus is a sequence of slots with their functions; a function has *)
(* an id and, if it is capable, a list of capabilities.                    *)
(***************************************************************************)
EXTENDS Tis

CONSTANTS
  APs,       \* the application processors
  Machines   \* the machines and builds that SABLE may run on

BSP == "bsp"
DevIds == <<"OLD", "K10", "BLD", "LEN">>   \* DEV_PCI_DEVICE_ID_*
DEV_PCI_CAP_ID == 15

ASSUME AmdLaunchAssumption ==
  /\ BSP \notin APs
  /\ \A m \in Machines :
       /\ m.svm \in BOOLEAN /\ m.svmdis \in BOOLEAN /\ m.qemu \in BOOLEAN
       /\ \A f \in {"enable", "bsp", "high", "busy"} : m.apic[f] \in BOOLEAN
       /\ \A s \in DOMAIN m.pci :
            /\ m.pci[s].multi \in BOOLEAN /\ m.pci[s].funcs # <<>>
            /\ m.pci[s].funcs \in Seq([id : STRING, capable : BOOLEAN, caps : Seq([id : Nat, type : Nat])])

VARIABLES
  machine,  \* the machine
  step,     \* where pre_launch() or revert_skinit() is
  cpu,      \* of each processor: what it does, is SVM enabled, is GIF set
  icr,      \* the interrupt being delivered: its kind and who has not accepted it
  inbox,    \* the interrupt that each AP has accepted and not yet acted on
  dev       \* the control register of each function's DEV

amdVars == <<machine, step, cpu, icr, inbox, dev>>

NoMachine == [qemu |-> FALSE]
NotSent == [kind |-> "none", to |-> {}]

\* Firmware leaves the APs running or halted; either way they take an INIT.
AmdInit ==
  /\ Init
  /\ machine = NoMachine /\ step = "off"
  /\ cpu = [c \in APs \cup {BSP} |-> [at |-> "run", svm |-> FALSE, gif |-> TRUE]]
  /\ icr = NotSent /\ inbox = [a \in APs |-> "none"]
  /\ dev = <<>>

\* An exception reaches _pre_launch() or _post_launch().
Throw(err) == Fail(err) /\ UNCHANGED <<chipVars, tis_locality, cmd, readVars>>

On(label) == step' = label /\ UNCHANGED vars

-----------------------------------------------------------------------------
(* Processors and their APIC: external.                                      *)

Accept(a) ==
  /\ a \in icr.to
  /\ icr' = [icr EXCEPT !.to = @ \ {a}]
  /\ inbox' = [inbox EXCEPT ![a] = icr.kind]
  /\ UNCHANGED <<vars, machine, step, cpu, dev>>

TakeInit(a) ==
  /\ inbox[a] = "INIT"
  /\ inbox' = [inbox EXCEPT ![a] = "none"]
  /\ cpu' = [cpu EXCEPT ![a] = [at |-> "init", svm |-> FALSE, gif |-> FALSE]]
  /\ UNCHANGED <<vars, machine, step, icr, dev>>

\* A processor that waits for a SIPI executes smp_init_start; another ignores it.
smp_init(a) ==
  /\ inbox[a] = "SIPI"
  /\ inbox' = [inbox EXCEPT ![a] = "none"]
  /\ cpu' = IF cpu[a].at = "init"
            THEN [cpu EXCEPT ![a] = [at |-> "halted", svm |-> TRUE, gif |-> TRUE]]
            ELSE cpu
  /\ UNCHANGED <<vars, machine, step, icr, dev>>

-----------------------------------------------------------------------------
(* mp.c and amd.c.                                                           *)

\* One of the two bits is enough for send_ipi(); a disabled APIC sends nothing.
IpiRefused ==
  \/ ~machine.apic.enable /\ ~machine.apic.bsp
  \/ machine.apic.high
  \/ machine.apic.busy

send_ipi(kind, label) ==
  IF IpiRefused THEN Throw("ERROR_APIC") /\ UNCHANGED <<step, icr>>
  ELSE /\ icr' = [kind |-> kind, to |-> IF machine.apic.enable THEN APs ELSE {}]
       /\ On(label)

\* The bit does not stick where the firmware has locked SVM off.
enable_svm(label) ==
  IF machine.svmdis THEN Throw("ERROR_SVM_ENABLE") /\ UNCHANGED <<step, cpu>>
  ELSE cpu' = [cpu EXCEPT ![BSP].svm = TRUE] /\ On(label)

-----------------------------------------------------------------------------
(* dev.c: the search for the Device Exclusion Vector (DEV).                  *)

\* Functions other than the first are looked at if a header says multifunction.
Visible ==
  {f \in (DOMAIN machine.pci) \X (1 .. 8) :
     f[2] <= IF machine.pci[f[1]].multi THEN Len(machine.pci[f[1]].funcs) ELSE 1}

Function(f) == machine.pci[f[1]].funcs[f[2]]

\* The last function with the id.
pci_find_device(id) ==
  LET found == {f \in Visible : Function(f).id = id}
  IN  {f \in found : \A g \in found : g[1] < f[1] \/ (g[1] = f[1] /\ g[2] <= f[2])}

HeaderUnchecked ==
  LET ids == {n \in DOMAIN DevIds : pci_find_device(DevIds[n]) # {}}
      first == CHOOSE n \in ids : \A k \in ids : n <= k
  IN  IF ids = {} THEN [error |-> "ERROR_DEV"]
      ELSE [error |-> "NONE", at |-> CHOOSE g \in pci_find_device(DevIds[first]) : TRUE]

\* The place of the first capability with the id, or 0.
pci_dev_find_cap(f, id) ==
  LET caps == Function(f).caps
      at == {k \in DOMAIN caps : caps[k].id = id}
  IN  IF at = {} THEN 0 ELSE CHOOSE k \in at : \A j \in at : k <= j

\* The first of the ids that some function has decides.  Place 0 is the function's
\* own header, which is no header of a DEV.
dev_get_addr ==
  LET ids == {n \in DOMAIN DevIds : pci_find_device(DevIds[n]) # {}}
      first == CHOOSE n \in ids : \A k \in ids : n <= k
      f == CHOOSE g \in pci_find_device(DevIds[first]) : TRUE
      k == pci_dev_find_cap(f, DEV_PCI_CAP_ID)
  IN  CASE ids = {} -> [error |-> "ERROR_DEV"]
        [] ids # {} /\ ~Function(f).capable -> [error |-> "ERROR_PCI"]
        [] ids # {} /\ Function(f).capable /\ (k = 0 \/ Function(f).caps[k].type # 0) ->
             [error |-> "ERROR_DEV"]
        [] OTHER -> [error |-> "NONE", at |-> f]

-----------------------------------------------------------------------------
(* pre_launch().                                                             *)

\* The three checks of check_cpuid() end the boot alike.
check_cpuid(m) ==
  /\ pc = "launch" /\ step = "off"
  /\ machine' = m
  /\ dev' = [f \in (DOMAIN m.pci) \X (1 .. 8) |-> [en |-> FALSE, sldev |-> FALSE]]
  /\ IF m.svm THEN On("enable") ELSE Throw("ERROR_NO_SVM") /\ UNCHANGED step
  /\ UNCHANGED <<cpu, icr, inbox>>

EnableSvm ==
  /\ step = "enable" /\ pc = "launch"
  /\ enable_svm("stop")
  /\ UNCHANGED <<machine, icr, inbox, dev>>

stop_processors ==
  /\ step = "stop" /\ pc = "launch"
  /\ send_ipi("INIT", "stopping")
  /\ UNCHANGED <<machine, cpu, inbox, dev>>

SkinitAtOnce ==
  /\ step = "stopping" /\ icr.to = {}
  /\ LateLaunch
  /\ step' = "revert"
  /\ cpu' = [cpu EXCEPT ![BSP].gif = FALSE]
  /\ dev' = [f \in DOMAIN dev |-> [dev[f] EXCEPT !.sldev = TRUE]]
  /\ UNCHANGED <<machine, icr, inbox>>

\* The interrupt is delivered, and wait(1000) is longer than any AP takes to act on
\* it.  SKINIT (external) clears GIF and has every DEV protect the loader block;
\* _skinit clears VM_CR again.
do_skinit ==
  /\ step = "stopping" /\ icr.to = {}
  /\ \A a \in APs : inbox[a] = "none"
  /\ LateLaunch
  /\ step' = "revert"
  /\ cpu' = [cpu EXCEPT ![BSP].gif = FALSE]
  /\ dev' = [f \in DOMAIN dev |-> [dev[f] EXCEPT !.sldev = TRUE]]
  /\ UNCHANGED <<machine, icr, inbox>>

-----------------------------------------------------------------------------
(* revert_skinit(), from post_launch().                                      *)

\* The TARGET_QEMU build catches ERROR_DEV, and goes on without the fixup.
disable_dev_protection ==
  /\ step = "revert" /\ pc # "halt"
  /\ LET addr == dev_get_addr
     IN  IF addr.error = "NONE"
         THEN /\ dev' = [dev EXCEPT ![addr.at] = [en |-> FALSE, sldev |-> FALSE]]
              /\ On("fixup")
         ELSE /\ UNCHANGED dev
              /\ IF machine.qemu /\ addr.error = "ERROR_DEV" THEN On("done")
                 ELSE Throw(addr.error) /\ UNCHANGED step
  /\ UNCHANGED <<machine, cpu, icr, inbox>>

start_processors ==
  /\ step = "fixup" /\ pc # "halt"
  /\ send_ipi("SIPI", "starting")
  /\ UNCHANGED <<machine, cpu, inbox, dev>>

\* enable_svm() succeeds as it did before, and stgi.
FixupDone ==
  /\ step = "starting" /\ icr.to = {}
  /\ cpu' = [cpu EXCEPT ![BSP].svm = TRUE, ![BSP].gif = TRUE]
  /\ On("done")
  /\ UNCHANGED <<machine, icr, inbox, dev>>

-----------------------------------------------------------------------------
Launching == pc = "launch" \/ step \in {"revert", "fixup", "starting"}

Launch ==
  \/ \E m \in Machines : check_cpuid(m)
  \/ EnableSvm \/ stop_processors \/ do_skinit
  \/ disable_dev_protection \/ start_processors \/ FixupDone

UseTpm == ~Launching /\ (Driver \/ \E len \in Lens : tis_transmit(len)) /\ UNCHANGED amdVars
ChipRuns == Chip /\ UNCHANGED amdVars
Processor(a) == Accept(a) \/ TakeInit(a) \/ smp_init(a)

AmdNext == UseTpm \/ ChipRuns \/ Launch \/ \E a \in APs : Processor(a)

\* As in Tis.
AmdSpec ==
  /\ AmdInit /\ [][AmdNext]_<<vars, amdVars>>
  /\ WF_<<vars, amdVars>>(~Launching /\ Driver /\ UNCHANGED amdVars)
  /\ WF_<<vars, amdVars>>(~Slow /\ ChipRuns)

-----------------------------------------------------------------------------
(* Properties.                                                               *)

\* From SKINIT until start_processors() no AP executes anything, and after it none
\* but the fixup code: pre_launch() waits until the INIT has taken effect.  A BSP
\* whose APIC is disabled passes send_ipi() and is left out.
ApsStopped ==
  step \in {"revert", "fixup", "starting", "done"} /\ machine.apic.enable =>
    \A a \in APs : cpu[a].at # "run" /\ inbox[a] # "INIT"

\* The functions with a DEV as dev_get_addr() knows them.
Devs ==
  {f \in Visible :
     /\ \E n \in DOMAIN DevIds : Function(f).id = DevIds[n]
     /\ Function(f).capable
     /\ [id |-> DEV_PCI_CAP_ID, type |-> 0] \in {Function(f).caps[k] : k \in DOMAIN Function(f).caps}}

\* When revert_skinit() returns to post_launch() interrupts can reach the BSP and every
\* AP that has run smp_init, a DEV has been switched off, so none protects the loader
\* block any more where there is a single one, and no register was written but to switch
\* a DEV off.  Of several DEVs the code leaves all but one on; the property takes no side.
SkinitReverted ==
  step = "done" /\ ~machine.qemu =>
    /\ cpu[BSP] = [at |-> "run", svm |-> TRUE, gif |-> TRUE]
    /\ \E f \in Devs : ~dev[f].sldev
    /\ \A g \in DOMAIN dev : ~dev[g].sldev => g \in Devs /\ ~dev[g].en
    /\ \A a \in APs : cpu[a].at = "halted" => cpu[a].svm /\ cpu[a].gif

=============================================================================
