------------------------------ MODULE SinitAcm ------------------------------
(***************************************************************************)
(* Authenticated code modules (ACMs) and the choice of the one that the    *)
(* measured launch enters, SINIT, in arch-intel/sinit_acm.c.  A module is  *)
(* the record of the header fields that are found at its first byte,       *)
(* whether it really is an ACM or a kernel or a file:                      *)
(*   at, len            where the boot loader put it, and its bytes        *)
(*   size               bytes that the header claims, in units of four     *)
(*   chipset            type and vendor are those of a chipset ACM         *)
(*   header_len, scratch_size   where the information table is             *)
(*   info               the information table found there                  *)
(*   debug, date, entry_point, seg_sel, gdt_limit                          *)
(* Sets of bits stand for the masked identifiers.                          *)
(***************************************************************************)
EXTENDS Integers, Sequences

CONSTANTS
  U32Size,       \* values of a uint32_t: 2^32
  AcmPage,       \* bytes in a page
  AcmUnit        \* the size of an ACM is a multiple of this: 64

HdrSize == 1216          \* sizeof(acm_hdr_t)
InfoSize == 48           \* sizeof(acm_info_table_t)
ChipsetIdSize == 16      \* sizeof(acm_chipset_id_t)
ProcessorIdSize == 24    \* sizeof(acm_processor_id_t)
CountSize == 4           \* the count in front of a list
MIN_OS_SINIT_DATA_VER == 4
MAX_OS_SINIT_DATA_VER == 7

ASSUME SinitAcmAssumption ==
  /\ U32Size \in Nat /\ U32Size > HdrSize
  /\ AcmPage \in Nat \ {0} /\ AcmUnit \in Nat \ {0}

U32Values == 0 .. U32Size - 1

\* What there is in memory at a module.  A list of identifiers has count entries, of
\* which ids are the different ones.
IsAcm(h) ==
  /\ DOMAIN h = {"at", "len", "size", "chipset", "header_len", "scratch_size", "debug", "date",
                 "entry_point", "seg_sel", "gdt_limit", "info"}
  /\ {h.at, h.len, h.size, h.header_len, h.scratch_size, h.entry_point, h.seg_sel, h.gdt_limit} \subseteq U32Values
  /\ {h.chipset, h.debug, h.info.uuid} \subseteq BOOLEAN
  /\ {h.date, h.info.version, h.info.os_sinit_data_ver, h.info.min_mle_hdr_ver} \subseteq Nat
  /\ \A list \in {h.info.chipset_id_list, h.info.processor_id_list} :
       list.off \in U32Values /\ list.count \in U32Values
  /\ h.info.type \in {"SINIT", "BIOS"}
  /\ h.info.caps \subseteq {"getsec", "monitor", "ecx_pgtbl", "no_legacy", "da"}

plus_overflow_u32(x, y) == x + y >= U32Size
multiply_overflow_u32(x, y) == x * y >= U32Size

\* Bytes by the header: hdr->size * 4 in 32 bits.
Bytes(h) == (h.size * 4) % U32Size

NULL == -1

-----------------------------------------------------------------------------
(* Finding one's way in a module.                                            *)

\* The offset of the information table, or NULL.
get_acmod_info_table(h) ==
  LET off == (h.header_len + h.scratch_size) * 4
  IN  IF \/ plus_overflow_u32(h.header_len, h.scratch_size)
         \/ multiply_overflow_u32(h.header_len + h.scratch_size, 4)
         \/ plus_overflow_u32(off, InfoSize)
         \/ off + InfoSize > Bytes(h)
         \/ plus_overflow_u32(h.at, off)
      THEN NULL ELSE off

is_acmod(h, acmod_size) ==
  /\ acmod_size >= HdrSize
  /\ ~multiply_overflow_u32(h.size, 4)
  /\ acmod_size = Bytes(h)
  /\ h.chipset
  /\ get_acmod_info_table(h) # NULL
  /\ h.info.uuid
  /\ h.info.version >= 3

is_sinit_acmod(h, acmod_size) == is_acmod(h, acmod_size) /\ h.info.type = "SINIT"

\* get_acmod_chipset_list() and get_acmod_processor_list() return the list: it is
\* in the module with all its entries.
ListFound(h, list, idSize) ==
  /\ get_acmod_info_table(h) # NULL
  /\ ~plus_overflow_u32(list.off, idSize)
  /\ list.off + idSize <= Bytes(h)
  /\ ~plus_overflow_u32(h.at, list.off)
  /\ ~multiply_overflow_u32(list.count, idSize)
  /\ ~plus_overflow_u32(list.off + idSize, list.count * idSize)
  /\ list.off + idSize + list.count * idSize <= Bytes(h)

get_acmod_chipset_list(h) == ListFound(h, h.info.chipset_id_list, ChipsetIdSize)
get_acmod_processor_list(h) == ListFound(h, h.info.processor_id_list, ProcessorIdSize)

-----------------------------------------------------------------------------
(* Whether a module is one for this platform p.                              *)

\* VER.FSBIF is all zeros or all ones where VER.QPIIF is the register to use.
ProdFused(p) == IF p.fsbif = {} THEN p.qpiif ELSE p.fsbif = {TRUE}

\* Bit 0 of the flags makes the revision a mask.
ChipsetMatches(id, p) ==
  /\ id.device = p.device
  /\ IF id.masked THEN id.revision \cap p.revision # {} ELSE id.revision = p.revision

ProcessorMatches(id, p) ==
  id.fms = p.fms \cap id.fms_mask /\ id.platform_id = p.platform_id \cap id.platform_mask

does_acmod_match_platform(h, p) ==
  /\ ProdFused(p) = ~h.debug
  /\ get_acmod_chipset_list(h)
  /\ \E id \in h.info.chipset_id_list.ids : ChipsetMatches(id, p)
  /\ h.info.version >= 4 =>
       /\ get_acmod_processor_list(h)
       /\ \E id \in h.info.processor_id_list.ids : ProcessorMatches(id, p)

-----------------------------------------------------------------------------
(* The choice.                                                               *)

NoModule == [none |-> TRUE]

\* The module that the BIOS left in the SINIT region.
get_bios_sinit(p) ==
  LET h == [p.region.holds EXCEPT !.at = p.region.base]
  IN  IF /\ p.region.base # 0 /\ p.bios_sinit_size # 0
         /\ is_sinit_acmod(h, p.bios_sinit_size)
         /\ does_acmod_match_platform(h, p)
      THEN h ELSE NoModule

BiosIfOlder(sinit, p) ==
  LET bios == get_bios_sinit(p)
      moved == [sinit EXCEPT !.at = p.region.base]
  IN  CASE bios # NoModule /\ (sinit = NoModule \/ bios.date < sinit.date) -> bios
        [] sinit = NoModule -> NoModule
        [] OTHER -> IF multiply_overflow_u32(sinit.size, 4) \/ Bytes(sinit) > p.region.size \/ p.region.base = 0
                    THEN NoModule ELSE moved

\* What is in the SINIT region afterwards and is used, or NoModule.
copy_sinit(sinit, p) ==
  LET bios == get_bios_sinit(p)
      moved == [sinit EXCEPT !.at = p.region.base]
  IN  CASE bios # NoModule /\ (sinit = NoModule \/ bios.date >= sinit.date) -> bios
        [] bios = NoModule /\ sinit = NoModule -> NoModule
        [] OTHER -> IF multiply_overflow_u32(sinit.size, 4) \/ Bytes(sinit) > p.region.size \/ p.region.base = 0
                    THEN NoModule ELSE moved

\* Bits in a selector below the index.
SelectorBits(sel) == sel % 8

\* The checks before get_parameters() is asked for the largest size.
AcmodAligned(h) == h.at % AcmPage = 0 /\ Bytes(h) # 0 /\ Bytes(h) % AcmUnit = 0

verify_acmod(h, acm_max_size) ==
  /\ AcmodAligned(h)
  /\ Bytes(h) <= acm_max_size
  /\ h.entry_point < Bytes(h)
  /\ ~plus_overflow_u32(h.seg_sel, 8)
  /\ h.seg_sel # 0 /\ SelectorBits(h.seg_sel) = 0 /\ h.seg_sel + 8 <= h.gdt_limit
  /\ get_acmod_info_table(h) # NULL
  /\ h.info.min_mle_hdr_ver <= 1                \* MLE_HDR_VER
  /\ h.info.caps \cap {"getsec", "monitor"} # {}
  /\ h.info.os_sinit_data_ver >= MIN_OS_SINIT_DATA_VER

Suits(h, p) == is_sinit_acmod(h, h.len) /\ does_acmod_match_platform(h, p)

\* The search of prepare_sinit_acm(): from the last module down, never the first
\* (the kernel).  When none is suitable, the pointer stays at the last one that
\* was looked at.  With no module at all the counter starts below zero.
FoundSinit(mods, p) ==
  LET cand == 2 .. Len(mods)
      good == {i \in cand : Suits(mods[i], p)}
  IN  IF cand = {} THEN NoModule
      ELSE mods[IF good = {} THEN 2 ELSE CHOOSE i \in good : \A j \in good : j <= i]

get_supported_os_sinit_data_ver(h) ==
  IF get_acmod_info_table(h) = NULL THEN 0 ELSE h.info.os_sinit_data_ver

get_sinit_capabilities(h) ==
  IF get_acmod_info_table(h) = NULL \/ h.info.version < 3 THEN {} ELSE h.info.caps

=============================================================================
