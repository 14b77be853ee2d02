-------------------------------- MODULE Mtrr --------------------------------
(***************************************************************************)
(* The memory type range registers of arch-intel/mtrrs.c around a measured *)
(* launch: the BSP saves them, sets them for the SINIT module and enters   *)
(* it; afterwards it validates what it saved, and then the APs and the BSP *)
(* restore it.  Memory is counted in pages.  The base and the mask of an   *)
(* MTRR are sets of bits, so that & is intersection.  The fixed MTRRs,     *)
(* which only matter below 1 MB, are left out.                             *)
(***************************************************************************)
EXTENDS Naturals

CONSTANTS
  PhysBits,           \* bits in a page number: MAXPHYADDR - 12
  SinitBits,          \* bits in SINIT_MTRR_MASK
  Vcnt,               \* variable MTRRs of the processors
  MAX_VARIABLE_MTRRS, \* variable MTRRs that mtrr_state_t has room for
  Pages4G,            \* pages below 4 GB
  Aps,                \* the application processors
  MmioRegions,        \* TXT, TPM and APIC registers, as [base, pages]
  Ioapic, Mcfg,       \* likewise, where the ACPI tables say
  Machines            \* the machines: MTRRs, SINIT module and ACPI tables

\* Powers of two.
Pow2[b \in 0 .. PhysBits] == IF b = 0 THEN 1 ELSE 2 * Pow2[b - 1]

Bsp == "bsp"
Cpus == Aps \cup {Bsp}
AllBits == 0 .. PhysBits - 1
AllPages == 0 .. Pow2[PhysBits] - 1
Types == {"UC", "WC", "WT", "WP", "WB"}

\* An MTRR, and what a processor has of them: the default type, whether they are
\* enabled (e), and the variable ones.
Vars == [v : BOOLEAN, mask : SUBSET AllBits, base : SUBSET AllBits, type : Types]
Ndxs == 0 .. Vcnt - 1
MtrrStates == [e : BOOLEAN, type : Types, var : [Ndxs -> Vars]]

ASSUME MtrrAssumption ==
  /\ PhysBits \in Nat /\ SinitBits \in 1 .. PhysBits
  /\ Vcnt \in Nat \ {0} /\ MAX_VARIABLE_MTRRS \in Nat
  /\ Pages4G \in 0 .. Pow2[SinitBits]
  /\ \A r \in MmioRegions \cup {Ioapic, Mcfg} : r.base \in Nat /\ r.pages \in Nat \ {0} /\ r.base + r.pages <= Pow2[PhysBits]
  /\ Bsp \notin Aps
  /\ \A m \in Machines :
       /\ {m.found, m.ap} \subseteq MtrrStates
       /\ m.acmod.base \in AllPages \ {0} /\ m.acmod.pages \in Nat \ {0}
       /\ m.acmod.base + m.acmod.pages <= Pages4G
       /\ m.ioapic \in BOOLEAN /\ m.mcfg \in BOOLEAN

VARIABLES
  machine,   \* the machine, which stays the same
  mtrr,      \* the MTRRs of each processor
  saved,     \* os_mle_data->saved_mtrr_state, with num_var_mtrrs as num
  pc,        \* where each processor is
  ndx,       \* the MTRR that each processor is at
  left,      \* in set_mem_type(): what is still to be mapped, as [base, pages]
  cacheOn    \* CR0.CD of the BSP is clear

vars == <<machine, mtrr, saved, pc, ndx, left, cacheOn>>

Init ==
  /\ machine \in Machines
  /\ mtrr = [c \in Cpus |-> IF c = Bsp THEN machine.found ELSE machine.ap]
  /\ saved = [num |-> 0]
  /\ pc = [c \in Cpus |-> IF c = Bsp THEN "save" ELSE "asleep"]
  /\ ndx = [c \in Cpus |-> 0]
  /\ left = machine.acmod
  /\ cacheOn = TRUE

-----------------------------------------------------------------------------
(* Reading the registers.                                                    *)

Bits(page) == {b \in AllBits : (page \div Pow2[b]) % 2 = 1}

Matches(m, page) == m.v /\ Bits(page) \cap m.mask = m.base \cap m.mask

Matching(s, page) == {i \in DOMAIN s.var : Matches(s.var[i], page)}

\* The loop ends at the first uncacheable one; otherwise write-through wins, and
\* then the last.
get_page_type(s, page) ==
  LET M == Matching(s, page)
      has(t) == \E i \in M : s.var[i].type = t
  IN  CASE has("UC") -> "UC"
        [] ~has("UC") /\ has("WT") -> "WT"
        [] M = {} -> s.type
        [] OTHER -> s.var[CHOOSE i \in M : \A j \in M : j <= i].type

Single(T) == \E t \in T : T = {t}

\* A region that ends at 4 GB counts as one that wraps.
get_region_type(s, r) ==
  LET found == {get_page_type(s, p) : p \in r.base .. r.base + r.pages - 1}
  IN  CASE r.pages = 0 \/ r.base + r.pages >= Pages4G -> "MIXED"
        [] r.pages > 0 /\ r.base + r.pages < Pages4G /\ ~s.e -> "UC"
        [] OTHER -> IF Single(found) THEN CHOOSE t \in found : TRUE ELSE "MIXED"

\* An ACPI without an IOAPIC is refused, one without an MCFG accepted.
validate_mmio_regions(s) ==
  /\ \A r \in MmioRegions : get_region_type(s, r) = "UC"
  /\ machine.ioapic /\ get_region_type(s, Ioapic) = "UC"
  /\ machine.mcfg => get_region_type(s, Mcfg) = "UC"

\* The set bits of a mask are the upper ones.
Contiguous(m) == \A b \in m.mask : \A c \in AllBits : c >= b => c \in m.mask

Overlap(m, n) ==
  \/ m.base \cap m.mask \cap n.mask = n.base \cap n.mask
  \/ n.base \cap n.mask \cap m.mask = m.base \cap m.mask

Compatible(t, u) == t = u \/ "UC" \in {t, u} \/ {t, u} = {"WT", "WB"}

\* u contains m.
Contains(u, m) == m.base \cap m.mask \cap u.mask = u.base \cap u.mask /\ u.mask \subseteq m.mask

AnyOverlap(valid) == TRUE

OverlapsAllowed(valid) ==
  \A m, n \in valid :
    Overlap(m, n) /\ ~Compatible(m.type, n.type) =>
      \E u \in valid : u.type = "UC" /\ (Contains(u, m) \/ Contains(u, n))

\* MTRRs that are disabled are not looked at.
validate_mtrrs(s) ==
  LET valid == {s.var[i] : i \in {i \in DOMAIN s.var : s.var[i].v}}
  IN  \/ ~s.e
      \/ /\ Vcnt >= s.num
         /\ \A m \in valid : Contiguous(m)
         /\ OverlapsAllowed(valid)
         /\ validate_mmio_regions(s)

-----------------------------------------------------------------------------
(* Before the launch.                                                        *)

Go(c, label) == pc' = [pc EXCEPT ![c] = label]

set_all_mtrrs(c, enable) == mtrr' = [mtrr EXCEPT ![c].e = enable]

save_mtrrs ==
  /\ pc[Bsp] = "save" /\ Go(Bsp, "disable")
  /\ LET num == IF Vcnt > MAX_VARIABLE_MTRRS THEN MAX_VARIABLE_MTRRS ELSE Vcnt
         s == mtrr[Bsp]
     IN  saved' = [num |-> num, e |-> s.e, type |-> s.type, var |-> [i \in 0 .. num - 1 |-> s.var[i]]]
  /\ UNCHANGED <<machine, mtrr, ndx, left, cacheOn>>

set_mtrrs_for_acmod ==
  /\ pc[Bsp] = "disable" /\ Go(Bsp, "clear")
  /\ cacheOn' = FALSE
  /\ set_all_mtrrs(Bsp, FALSE)
  /\ UNCHANGED <<machine, saved, ndx, left>>

\* set_mem_type() up to its loops.
ClearAll ==
  /\ pc[Bsp] = "clear" /\ Go(Bsp, "map")
  /\ mtrr' = [mtrr EXCEPT ![Bsp].type = "UC",
                          ![Bsp].var = [i \in Ndxs |-> [@[i] EXCEPT !.v = FALSE]]]
  /\ UNCHANGED <<machine, saved, ndx, left, cacheOn>>

FloorPower(n) == CHOOSE p \in {Pow2[b] : b \in 0 .. PhysBits} : p <= n /\ n < 2 * p

AnyAlignment(base) == Pow2[PhysBits]

\* The largest range that may start where the module does.
mtrr_s(base) == CHOOSE p \in {Pow2[b] : b \in AllBits} : base % p = 0 /\ base % (2 * p) # 0

\* Both loops: ranges of size mtrr_s, then what is left in falling powers of two.
pages_in_range ==
  LET s == mtrr_s(machine.acmod.base)
  IN  IF left.pages >= s THEN s ELSE FloorPower(left.pages)

RangeMtrr(n) ==
  [v |-> TRUE, type |-> "WB",
   base |-> {b \in Bits(left.base) : b < SinitBits},
   mask |-> {b \in 0 .. SinitBits - 1 : Pow2[b] >= n}]

\* Running out of MTRRs is noticed after the last one, even if it was enough:
\* set_mem_type() fails, and txt_launch_environment() stops.
MapRange ==
  /\ pc[Bsp] = "map" /\ left.pages > 0
  /\ LET n == pages_in_range
     IN  /\ mtrr' = [mtrr EXCEPT ![Bsp].var[ndx[Bsp]] = RangeMtrr(n)]
         /\ left' = [base |-> left.base + n, pages |-> left.pages - n]
  /\ ndx' = [ndx EXCEPT ![Bsp] = @ + 1]
  /\ Go(Bsp, IF ndx[Bsp] + 1 = Vcnt THEN "hang" ELSE "map")
  /\ UNCHANGED <<machine, saved, cacheOn>>

Mapped ==
  /\ pc[Bsp] = "map" /\ left.pages = 0 /\ Go(Bsp, "senter")
  /\ set_all_mtrrs(Bsp, TRUE)
  /\ cacheOn' = TRUE
  /\ UNCHANGED <<machine, saved, ndx, left>>

-----------------------------------------------------------------------------
(* After the launch.                                                         *)

__getsec_senter ==
  /\ pc[Bsp] = "senter" /\ Go(Bsp, "verify")
  /\ UNCHANGED <<machine, mtrr, saved, ndx, left, cacheOn>>

\* txt_post_launch() stops when the saved MTRRs are not valid, otherwise it wakes
\* the APs up.
verify_saved_mtrrs ==
  /\ pc[Bsp] = "verify"
  /\ \/ ~validate_mtrrs(saved) /\ Go(Bsp, "refused")
     \/ /\ validate_mtrrs(saved)
        /\ pc' = [c \in Cpus |-> IF c = Bsp THEN "wakeup" ELSE "restore"]
  /\ UNCHANGED <<machine, mtrr, saved, ndx, left, cacheOn>>

\* The BSP waits for the APs, or until its patience is at an end.
txt_wakeup_cpus ==
  /\ pc[Bsp] = "wakeup" /\ Go(Bsp, "restore")
  /\ UNCHANGED <<machine, mtrr, saved, ndx, left, cacheOn>>

RestoreEnabled(c) ==
  /\ pc[c] = "restore" /\ Go(c, "vars")
  /\ ndx' = [ndx EXCEPT ![c] = 0]
  /\ UNCHANGED <<machine, mtrr, saved, left, cacheOn>>

restore_mtrrs(c) ==
  /\ pc[c] = "restore" /\ Go(c, "vars")
  /\ set_all_mtrrs(c, FALSE)
  /\ ndx' = [ndx EXCEPT ![c] = 0]
  /\ UNCHANGED <<machine, saved, left, cacheOn>>

RestoreVar(c) ==
  /\ pc[c] = "vars" /\ ndx[c] < saved.num
  /\ mtrr' = [mtrr EXCEPT ![c].var[ndx[c]] = saved.var[ndx[c]]]
  /\ ndx' = [ndx EXCEPT ![c] = @ + 1]
  /\ UNCHANGED <<machine, saved, pc, left, cacheOn>>

RestoreDefType(c) ==
  /\ pc[c] = "vars" /\ ndx[c] = saved.num /\ Go(c, "done")
  /\ mtrr' = [mtrr EXCEPT ![c].e = saved.e, ![c].type = saved.type]
  /\ UNCHANGED <<machine, saved, ndx, left, cacheOn>>

-----------------------------------------------------------------------------
BspStep ==
  \/ save_mtrrs \/ set_mtrrs_for_acmod \/ ClearAll \/ MapRange \/ Mapped
  \/ __getsec_senter \/ verify_saved_mtrrs \/ txt_wakeup_cpus

Restore(c) == restore_mtrrs(c) \/ RestoreVar(c) \/ RestoreDefType(c)

Next == BspStep \/ \E c \in Cpus : Restore(c)

Spec == Init /\ [][Next]_vars

-----------------------------------------------------------------------------
(* Properties.                                                               *)

\* What the processor makes of its MTRRs, by the architecture: uncacheable wins,
\* write-through wins over write-back, and other mixtures are undefined.
MemoryType(s, page) ==
  LET T == {s.var[i].type : i \in {i \in DOMAIN s.var : Matches(s.var[i], page)}}
  IN  CASE ~s.e \/ "UC" \in T -> "UC"
        [] s.e /\ T = {} -> s.type
        [] s.e /\ T = {"WT", "WB"} -> "WT"
        [] OTHER -> IF Single(T) THEN CHOOSE t \in T : TRUE ELSE "undefined"

MemoryTypes(s) == [p \in AllPages |-> MemoryType(s, p)]

ForAcmod ==
  LET a == machine.acmod
  IN  [p \in AllPages |-> IF p \in a.base .. a.base + a.pages - 1 THEN "WB" ELSE "UC"]

\* SINIT is entered with its own pages write-back, every other page uncacheable,
\* and the caches on: set_mem_type()'s ranges cover the module exactly, wherever
\* it starts and however many pages it has.
AcmodTyped ==
  pc[Bsp] \in {"senter", "verify", "wakeup"} => MemoryTypes(mtrr[Bsp]) = ForAcmod /\ cacheOn

\* At no moment does a processor run with a mixture of old and new MTRRs: they are
\* either off, or those it was found with, or those for SINIT, or the restored ones.
NeverHalfSet ==
  \A c \in Cpus :
    mtrr[c].e =>
      MemoryTypes(mtrr[c]) \in
        {MemoryTypes(machine.found), MemoryTypes(machine.ap), ForAcmod}

\* A processor that restore_mtrrs() is done with gives every page the type that
\* the BSP's MTRRs gave it before the launch, whatever its own were; the types are
\* defined, and the device registers are uncacheable.
RestoredTypes ==
  \A c \in Cpus :
    pc[c] = "done" =>
      LET T == MemoryTypes(mtrr[c])
      IN  /\ T = MemoryTypes(machine.found)
          /\ \A p \in AllPages : T[p] # "undefined"
          /\ \A r \in MmioRegions \cup {Ioapic} \cup (IF machine.mcfg THEN {Mcfg} ELSE {}) :
               \A p \in r.base .. r.base + r.pages - 1 : T[p] = "UC"

\* validate_mtrrs() stops a boot only for a cause: an MTRR whose pages are not one
\* range, two that give pages they share types that do not go together (one UC
\* MTRR around either of them excuses that), or a device that is not uncacheable
\* or reaches 4 GB, or no IOAPIC.
PagesOf(m) == {p \in AllPages : Matches(m, p)}
RefusedForCause ==
  pc[Bsp] = "refused" =>
    LET f == machine.found
        valid == {f.var[i] : i \in {i \in Ndxs : f.var[i].v}}
        uc == {PagesOf(m) : m \in {m \in valid : m.type = "UC"}}
        devices == MmioRegions \cup {Ioapic} \cup (IF machine.mcfg THEN {Mcfg} ELSE {})
        gap(P) == \E p, q \in P : \E x \in p .. q : x \notin P
    IN  \/ \E m \in valid : gap(PagesOf(m))
        \/ \E m, n \in valid :
             /\ PagesOf(m) \cap PagesOf(n) # {} /\ ~Compatible(m.type, n.type)
             /\ ~ \E P \in uc : PagesOf(m) \subseteq P \/ PagesOf(n) \subseteq P
        \/ \E r \in devices :
             \/ r.base + r.pages >= Pages4G
             \/ \E p \in r.base .. r.base + r.pages - 1 : MemoryType(f, p) # "UC"
        \/ ~machine.ioapic

\* What save_mtrrs() has saved is put back only if it is sound, and validate_mtrrs()
\* stops no boot whose MTRRs are.
RestoredSound == RestoredTypes /\ RefusedForCause

=============================================================================
