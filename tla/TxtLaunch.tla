------------------------------ MODULE TxtLaunch ------------------------------
(***************************************************************************)
(* The measured launch of an Intel machine (sable.c, platform_checks.c,    *)
(* txt.c): choose SINIT, check the platform, map the MLE, fill the TXT     *)
(* heap, set the MTRRs and enter SINIT, which starts the boot again;       *)
(* verify the heap and the MTRRs, wake up the APs and put everything back. *)
(* The MTRRs are those of module Mtrr, whose steps are taken as they are.  *)
(* machine.txt names the platform, which is as it is found:                *)
(*   mods, region, bios_sinit_size, fsbif, qpiif, device, revision, fms,   *)
(*   platform_id              for the choice of SINIT (module SinitAcm)    *)
(*   acpi                     the ACPI tables (module Acpi)                *)
(*   heap, mem                TXT.HEAP.BASE and SIZE, and the memory there *)
(*   cpu                      features and state of the processor          *)
(*   params                   what GETSEC[PARAMETERS] returns, in order    *)
(*   misc                     IA32_MISC_ENABLE of each processor           *)
(*   mle                      [start, size] of the measured image          *)
(*   given                    size and version of what SINIT leaves        *)
(***************************************************************************)
EXTENDS Mtrr, SinitAcm, TxtHeap, Acpi

CONSTANTS
  DEF_ACM_MAX_SIZE,   \* the ACM size when the processor does not tell
  PtEntries,          \* entries of a page table: 512
  MiscWord,           \* values of the lower half of IA32_MISC_ENABLE
  PlatformNames(_),   \* the platforms that a machine may have, by name
  Platform(_)         \* the platform of a name

VARIABLES
  g_sinit,    \* the module in the SINIT region that is entered, or NoModule
  rsdp,       \* the root pointer of the ACPI tables, or NoRsdp
  cr,         \* CR4.SMXE and CR0.CD, NW and NE of the BSP
  ptes,       \* the page table of the MLE, entry by entry
  mem,        \* the TXT heap
  checked,    \* txt_post_launch() has verified the heap
  misc,       \* IA32_MISC_ENABLE of each processor
  secrets     \* TXT.CMD.SECRETS, and TPM locality 1 is open

platform == Platform(machine.txt)

launchVars == <<g_sinit, rsdp, cr, ptes, mem, checked, misc, secrets>>

\* The SINIT region and the image lie below 4 GB, what the BIOS has put into the
\* region is in it, and there is memory behind the heap.
IsPlatform(p) ==
  /\ Len(p.mods) \in Nat \ {0} /\ \A i \in 1 .. Len(p.mods) : IsAcm(p.mods[i])
  /\ IsAcm(p.region.holds) /\ p.bios_sinit_size \in 0 .. p.region.size
  /\ p.region.base \in U32Values /\ p.region.base + p.region.size <= U32Size
  /\ {p.region.size, p.mle.start, p.heap.size, p.given.size, p.given.version} \subseteq Nat
  /\ p.mle.size \in Nat \ {0} /\ p.mle.start + p.mle.size <= U32Size
  /\ p.mem \in [Cells -> Nat] /\ p.misc \in [Cpus -> Nat]
  /\ p.heap.size + OsMleFixed + calc_os_sinit_data_size(MAX_OS_SINIT_DATA_VER) + 3 * SizeField <= HeapCells

ASSUME LaunchAssumption ==
  /\ DEF_ACM_MAX_SIZE \in Nat /\ PtEntries \in Nat \ {0} /\ MiscWord \in Nat \ {0}
  /\ Pages4G * AcmPage = U32Size
  /\ \A m \in Machines : \A n \in PlatformNames(m) :
       IsPlatform(Platform(n)) /\ get_acpi_ioapic_table(Platform(n).acpi, NoRsdp) # "loops"

LaunchInit ==
  /\ \E m \in Machines : \E n \in PlatformNames(m) :
       machine = [found |-> m.found, ap |-> m.ap, acmod |-> m.acmod, txt |-> n,
                  ioapic |-> get_acpi_ioapic_table(Platform(n).acpi, NoRsdp) = "found",
                  mcfg |-> get_acpi_mcfg_table(Platform(n).acpi, NoRsdp)]
  /\ mtrr = [c \in Cpus |-> IF c = Bsp THEN machine.found ELSE machine.ap]
  /\ saved = [num |-> 0]
  /\ pc = [c \in Cpus |-> IF c = Bsp THEN "sinit" ELSE "asleep"]
  /\ ndx = [c \in Cpus |-> 0]
  /\ left = machine.acmod
  /\ cacheOn = ~platform.cpu.cd
  /\ g_sinit = NoModule
  /\ rsdp = NoRsdp
  /\ cr = [smxe |-> FALSE, cd |-> platform.cpu.cd, nw |-> platform.cpu.nw, ne |-> platform.cpu.ne]
  /\ ptes = <<>>
  /\ mem = platform.mem
  /\ checked = FALSE
  /\ misc = platform.misc
  /\ secrets = FALSE

-----------------------------------------------------------------------------
(* The choice of SINIT.                                                      *)

\* GETSEC[PARAMETERS]: a sequence of [type, value] that ends with type 0 or with
\* a type that is not known; later values replace earlier ones.
Params(t) ==
  LET P == platform.params
      stop == {i \in DOMAIN P : P[i].type \notin 1 .. 5}
      told == {i \in DOMAIN P : P[i].type = t /\ \A j \in stop : i < j}
  IN  {P[i].value : i \in {i \in told : \A j \in told : j <= i}}

\* The low five bits of the size are other things.
acm_max_size ==
  IF Params(2) = {} THEN DEF_ACM_MAX_SIZE
  ELSE LET v == CHOOSE v \in Params(2) : TRUE IN v - (v % 32)

preserve_mce == Params(5) = {TRUE}

\* The pages that n bytes take.
PageUp(n) == (n + AcmPage - 1) \div AcmPage

\* get_parameters() turns SMX on, before anything has been said about the processor.
prepare_sinit_acm ==
  LET s == copy_sinit(FoundSinit(platform.mods, platform), platform)
  IN  /\ pc[Bsp] = "sinit"
      /\ g_sinit' = s
      /\ IF s # NoModule /\ verify_acmod(s, acm_max_size)
         THEN /\ Go(Bsp, "platform")
              /\ machine' = [machine EXCEPT !.acmod = [base |-> s.at \div AcmPage, pages |-> PageUp(Bytes(s))]]
              /\ left' = machine'.acmod
         ELSE Go(Bsp, "hang") /\ UNCHANGED <<machine, left>>
      /\ cr' = [cr EXCEPT !.smxe = @ \/ (s # NoModule /\ AcmodAligned(s))]
      /\ UNCHANGED <<mtrr, saved, ndx, cacheOn, rsdp, ptes, mem, checked, misc, secrets>>

-----------------------------------------------------------------------------
(* The platform.                                                             *)

read_processor_info(f) == {"cpuid", "intel"} \subseteq f

\* One of the two bits for SENTER is enough.
supports_smx(f) == "smx" \in f /\ "lock" \in f /\ f \cap {"senter_enabled", "senter_params"} # {}
supports_vmx(f) == "vmx" \in f /\ "vmx_in_smx" \in f
GetsecCapabilities == {"senter", "sexit", "parameters", "smctrl", "wakeup"}

\* GETSEC[CAPABILITIES] is only asked of a processor that has SMX and VMX, with
\* SMX turned on, and SMX is turned off where it does not suffice.
HasSmxAndVmx(f) == read_processor_info(f) /\ supports_smx(f) /\ supports_vmx(f)
supports_txt(f) == HasSmxAndVmx(f) /\ "chipset" \in f /\ GetsecCapabilities \subseteq f
Smxe(f) == IF HasSmxAndVmx(f) THEN supports_txt(f) ELSE cr.smxe

txt_verify_platform ==
  /\ vtd_bios_enabled(platform.acpi, rsdp)
  /\ ~platform.cpu.reset_sts
  /\ verify_bios_data(mem, platform.heap)

\* What txt_prepare_cpu() cannot put right itself.
CpuReady(cpu) ==
  /\ cpu.pe
  /\ ~cpu.mcip
  /\ cpu.mc_valid => preserve_mce

\* CR0 afterwards: the caches on, and native FPU errors.
Cr0Prepared(c) == [c EXCEPT !.cd = FALSE, !.nw = FALSE, !.ne = TRUE]

platform_pre_checks ==
  LET f == platform.cpu.features
      verified == supports_txt(f) /\ txt_verify_platform
  IN  /\ pc[Bsp] = "platform"
      /\ rsdp' = IF supports_txt(f) THEN find_rsdp(platform.acpi, rsdp) ELSE rsdp
      /\ LET c == [cr EXCEPT !.smxe = Smxe(f)]
         IN  cr' = IF verified /\ platform.cpu.pe THEN Cr0Prepared(c) ELSE c
      /\ cacheOn' = ~cr'.cd
      /\ Go(Bsp, IF verified /\ CpuReady(platform.cpu) THEN "environment" ELSE "hang")
      /\ UNCHANGED <<machine, mtrr, saved, ndx, left, g_sinit, ptes, mem, checked, misc, secrets>>

-----------------------------------------------------------------------------
(* The launch.                                                               *)

\* The loop fills an entry before it looks at the size.
PagesMapped(mle) ==
  LET n == (mle.size + AcmPage - 1) \div AcmPage
  IN  [i \in 1 .. IF n = 0 THEN 1 ELSE n |-> mle.start + (i - 1) * AcmPage]

\* A size or a start that cannot be mapped is refused.
Mappable(mle) == mle.size <= PtEntries * AcmPage /\ mle.start % AcmPage = 0

WakeByDefault(caps) == {"monitor"}

\* MONITOR is preferred; {} is an error.
WakeChosen(caps) == IF "monitor" \in caps THEN {"monitor"} ELSE caps \cap {"getsec"}

\* pcr_map_no_legacy and pcr_map_da, or "none".
PcrMap(caps) ==
  CASE "no_legacy" \notin caps -> "legacy"
    [] "no_legacy" \in caps /\ "da" \in caps -> "da"
    [] OTHER -> "none"

WakeCode(w) == IF w = {"monitor"} THEN 2 ELSE 1
PtabBase == 1
RsdtCode == 3
G_RSDP == 4

\* sinit's version of the data, as far as this code knows it.
DataVersion(version) == IF version > MAX_OS_SINIT_DATA_VER THEN MAX_OS_SINIT_DATA_VER ELSE version

MiscSaved(value) == value % MiscWord

\* The error returns of build_mle_pagetable() and init_txt_heap(), and the loop
\* without an end where no root pointer was found.
LaunchPossible ==
  LET caps == get_sinit_capabilities(g_sinit)
  IN  /\ Mappable(platform.mle)
      /\ verify_bios_data(mem, platform.heap)
      /\ get_supported_os_sinit_data_ver(g_sinit) >= MIN_OS_SINIT_DATA_VER
      /\ WakeChosen(caps) # {} /\ PcrMap(caps) # "none"
      /\ rsdp # NoRsdp

init_txt_heap ==
  LET caps == get_sinit_capabilities(g_sinit)
      version == DataVersion(get_supported_os_sinit_data_ver(g_sinit))
  IN  mem' = OsSinitData(OsMleData(mem, MiscSaved(misc[Bsp])), version, PtabBase,
                         WakeCode(WakeChosen(caps)), IF PcrMap(caps) = "da" THEN 1 ELSE 0,
                         IF version < 6 THEN RsdtCode ELSE G_RSDP)

txt_launch_environment ==
  /\ pc[Bsp] = "environment"
  /\ \/ /\ LaunchPossible /\ Go(Bsp, "save")
        /\ ptes' = PagesMapped(platform.mle)
        /\ init_txt_heap
     \/ /\ ~LaunchPossible /\ Go(Bsp, "hang")
        /\ UNCHANGED <<ptes, mem>>
  /\ UNCHANGED <<machine, mtrr, saved, ndx, left, cacheOn, g_sinit, rsdp, cr, checked, misc, secrets>>

\* SINIT writes its own part behind the others, and starts the MLE; it leaves
\* IA32_MISC_ENABLE as it likes.
Senter ==
  /\ __getsec_senter
  /\ mem' = Put(mem, SinitMleSizeAt(mem), <<platform.given.size, platform.given.version>>)
  /\ misc' = [c \in Cpus |-> 0]
  /\ UNCHANGED <<g_sinit, rsdp, cr, ptes, checked, secrets>>

-----------------------------------------------------------------------------
(* After the launch.                                                         *)

\* txt_post_launch_verify_platform(), the heap; txt_post_launch() stops where it
\* fails.
verify_heap ==
  /\ pc[Bsp] = "verify" /\ ~checked
  /\ IF verify_txt_heap(mem, platform.heap)
     THEN checked' = TRUE /\ UNCHANGED pc
     ELSE Go(Bsp, "heap refused") /\ UNCHANGED checked
  /\ UNCHANGED <<machine, mtrr, saved, ndx, left, cacheOn, g_sinit, rsdp, cr, ptes, mem, misc, secrets>>

\* The MTRRs are verified after the heap, which has them.
verify_platform == checked /\ verify_saved_mtrrs /\ UNCHANGED launchVars

\* os_mle_data->saved_misc_enable_msr, as the heap has it now.
SavedMisc == mem[get_os_mle_data_start(mem) + 1]

\* The BSP restores IA32_MISC_ENABLE before its MTRRs, an AP after them.
WakeAndRestoreMisc ==
  /\ txt_wakeup_cpus
  /\ misc' = [misc EXCEPT ![Bsp] = SavedMisc]
  /\ UNCHANGED <<g_sinit, rsdp, cr, ptes, mem, checked, secrets>>

RestoreLast(c) ==
  /\ RestoreDefType(c)
  /\ misc' = IF c = Bsp THEN misc ELSE [misc EXCEPT ![c] = SavedMisc]
  /\ secrets' = (secrets \/ c = Bsp)
  /\ UNCHANGED <<g_sinit, rsdp, cr, ptes, mem, checked>>

-----------------------------------------------------------------------------
MtrrBefore ==
  /\ save_mtrrs \/ set_mtrrs_for_acmod \/ ClearAll \/ MapRange \/ Mapped
  /\ UNCHANGED launchVars

RestoreMtrr(c) == (restore_mtrrs(c) \/ RestoreVar(c)) /\ UNCHANGED launchVars

LaunchNext ==
  \/ prepare_sinit_acm \/ platform_pre_checks \/ txt_launch_environment
  \/ MtrrBefore \/ Senter
  \/ verify_heap \/ verify_platform \/ WakeAndRestoreMisc
  \/ \E c \in Cpus : RestoreMtrr(c) \/ RestoreLast(c)

LaunchSpec == LaunchInit /\ [][LaunchNext]_<<vars, launchVars>>

-----------------------------------------------------------------------------
(* Properties.                                                               *)

Loaded == {platform.mods[i] : i \in {i \in 2 .. Len(platform.mods) : Suits(platform.mods[i], platform)}}
BiosSinit == get_bios_sinit(platform)
Entered == pc[Bsp] = "senter"

\* What is entered as SINIT lies in the region that is reserved for it, write-back up to
\* its end and with the table that SINIT is asked about, and is not older than the one
\* that the BIOS had there.  It is for this platform, and came from the boot loader or the
\* BIOS; except that prepare_sinit_acm(), when the loader brought modules of which none
\* is for this platform, offers copy_sinit() the one after the kernel.
SinitSuits ==
  Entered =>
    /\ BiosSinit # NoModule => g_sinit.date >= BiosSinit.date
    /\ get_acmod_info_table(g_sinit) + InfoSize <= platform.region.size
    /\ machine.acmod.pages * AcmPage >= g_sinit.size * 4
    /\ \/ /\ g_sinit \in {[m EXCEPT !.at = platform.region.base] : m \in Loaded \cup ({BiosSinit} \ {NoModule})}
          /\ does_acmod_match_platform(g_sinit, platform)
       \/ /\ Loaded = {} /\ Len(platform.mods) > 1
          /\ g_sinit = [platform.mods[2] EXCEPT !.at = platform.region.base]

\* At SENTER the processor is as it must be, the page table maps the pages of the
\* MLE and no other, and the data for SINIT is of a version it knows and asks for a
\* wake-up and a PCR mapping that it can do.
LaunchReady ==
  Entered =>
    LET data == get_os_sinit_data_start(mem)
        caps == g_sinit.info.caps
        mle == platform.mle
    IN  /\ cr.smxe /\ ~cr.cd /\ ~cr.nw /\ cr.ne
        /\ {ptes[i] : i \in DOMAIN ptes} =
             {p \in {q * AcmPage : q \in 0 .. U32Size \div AcmPage} : p >= mle.start /\ p < mle.start + mle.size}
        /\ \A i, j \in DOMAIN ptes : i < j => ptes[i] < ptes[j]
        /\ mem[data] <= g_sinit.info.os_sinit_data_ver
        /\ mem[data + 2] = (IF "monitor" \in caps THEN 2 ELSE 1)
        /\ caps \cap {"monitor", "getsec"} # {}
        /\ mem[data + 3] = 1 => "da" \in caps

\* What is written into the TXT heap before the launch is what is accepted after it,
\* for each version of the data: the boot only stops if SINIT's own data is not as
\* expected, or the four parts do not fit.  If it goes on, they lie in the heap, one
\* behind the other, the event log in the part of the boot, and the saved settings
\* are those of before the launch.
HeapAgrees ==
  LET bios == platform.mem[0]
      given == platform.given
      version == mem[get_os_sinit_data_start(mem)]
      room == bios + OsMleFixed + SizeField + calc_os_sinit_data_size(version) + given.size
      data == get_os_sinit_data_start(mem) + OsSinitFixed
  IN  /\ pc[Bsp] = "heap refused" =>
           given.version < 6 \/ given.size = 0 \/ room > platform.heap.size
      /\ checked =>
           /\ room <= platform.heap.size
           /\ get_sinit_mle_data_start(mem) = room - given.size + SizeField
           /\ SavedMisc = platform.misc[Bsp] % MiscWord
           /\ version >= 6 =>
                mem[data + EltHead] \in get_os_mle_data_start(mem) .. OsSinitSizeAt(mem) - LogHead

=============================================================================
