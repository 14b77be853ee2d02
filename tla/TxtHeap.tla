------------------------------- MODULE TxtHeap -------------------------------
(***************************************************************************)
(* The TXT heap (arch-intel/heap.c and include/arch-intel/heap.h): memory  *)
(* in which the BIOS, the boot before the launch, SINIT and the boot after *)
(* the launch leave each other data.  It is four parts, each behind its    *)
(* own size, and a part is only found by adding up the sizes of those      *)
(* before it.  The heap is a function from cells to integers; a structure  *)
(* has a cell for every field that is looked at.                           *)
(***************************************************************************)
EXTENDS Integers, Sequences

CONSTANTS
  HeapCells,    \* cells of memory from the start of the heap, more than the heap has
  NR_CPUS,      \* processors that there is room for
  Addr4G        \* the first address above 4 GB

ASSUME TxtHeapAssumption == HeapCells \in Nat \ {0} /\ NR_CPUS \in Nat \ {0} /\ Addr4G \in Nat

Cells == 0 .. HeapCells - 1

SizeField == 1       \* the uint64_t in front of a part
\* bios_data_t: version, bios_sinit_size, num_logical_procs
BiosFixed == 3
\* os_mle_data_t: version, saved_misc_enable_msr, event_log_buffer
OsMleFixed == 6
LogAt == 2           \* event_log_buffer: signature, size, pcr_events_offset, next_event_offset
LogHead == 4         \* sizeof(event_log_container_t)
LogSize == 4         \* MAX_EVENT_LOG_SIZE, of which the model has no events
EVTLOG_SIGNATURE == 77
\* os_sinit_data_t: version, mle_ptab, wake-up capability, pcr_map_da, efi_rsdt_ptr
OsSinitFixed == 5
RsdtAt == 4          \* offsetof(efi_rsdt_ptr)
EltHead == 2         \* heap_ext_data_element_t: type, size
LogPtr == 1          \* heap_event_log_ptr_elt_t

\* Types of elements.
END == 0
BIOS_SPEC_VER == 1
ACM == 2
CUSTOM == 4
LOG_PTR == 5
LOG_PTR_2 == 7

-----------------------------------------------------------------------------
(* Where the parts are.                                                      *)

get_bios_data_size(mem) == mem[0]
get_bios_data_start == SizeField
get_os_mle_data_size(mem) == mem[get_bios_data_size(mem)]
get_os_mle_data_start(mem) == get_bios_data_size(mem) + SizeField
OsSinitSizeAt(mem) == get_bios_data_size(mem) + get_os_mle_data_size(mem)
get_os_sinit_data_size(mem) == mem[OsSinitSizeAt(mem)]
get_os_sinit_data_start(mem) == OsSinitSizeAt(mem) + SizeField
SinitMleSizeAt(mem) == OsSinitSizeAt(mem) + get_os_sinit_data_size(mem)
get_sinit_mle_data_size(mem) == mem[SinitMleSizeAt(mem)]
get_sinit_mle_data_start(mem) == SinitMleSizeAt(mem) + SizeField

\* The cells at `at' and after hold the sequence s.
Put(mem, at, s) == [c \in DOMAIN mem |-> IF c \in at .. at + Len(s) - 1 THEN s[c - at + 1] ELSE mem[c]]
Zeros(n) == [i \in 1 .. n |-> 0]

-----------------------------------------------------------------------------
(* Verification.                                                             *)

verify_bios_spec_ver_elt(mem, at) == mem[at + 1] = EltHead + 1
verify_custom_elt(mem, at) == mem[at + 1] >= EltHead + 1

verify_acm_elt(mem, at) ==
  LET num == mem[at + EltHead]
  IN  /\ mem[at + 1] = EltHead + 1 + num
      /\ \A i \in 1 .. num : mem[at + EltHead + i] \in 1 .. Addr4G - 1

verify_evt_log(mem, at) ==
  /\ at # 0
  /\ mem[at] = EVTLOG_SIGNATURE
  /\ mem[at + 1] = LogSize
  /\ mem[at + 2] >= LogHead
  /\ mem[at + 3] >= mem[at + 2] /\ mem[at + 3] <= mem[at + 1]

verify_evt_log_ptr_elt(mem, at) ==
  mem[at + 1] = EltHead + LogPtr /\ verify_evt_log(mem, mem[at + EltHead])

\* An element of a type that is not known is skipped, and LOG_PTR_2 always passes.
VerifyElt(mem, at) ==
  CASE mem[at] = BIOS_SPEC_VER -> verify_bios_spec_ver_elt(mem, at)
    [] mem[at] = ACM -> verify_acm_elt(mem, at)
    [] mem[at] = CUSTOM -> verify_custom_elt(mem, at)
    [] mem[at] = LOG_PTR -> verify_evt_log_ptr_elt(mem, at)
    [] OTHER -> TRUE

\* From the element at `at', with `size' cells to go; END ends the elements.
verify_ext_data_elts(mem, at, size) ==
  LET ok[x \in Cells \X Int] ==
        LET a == x[1]
            n == x[2]
        IN  /\ n >= EltHead
            /\ n >= mem[a + 1] /\ mem[a + 1] # 0
            /\ \/ mem[a] = END
               \/ VerifyElt(mem, a) /\ ok[<<a + mem[a + 1], n - mem[a + 1]>>]
  IN  ok[<<at, size>>]

verify_bios_data(mem, heap) ==
  LET size == get_bios_data_size(mem)
      bios == get_bios_data_start
  IN  /\ heap.base # 0 /\ heap.size # 0
      /\ size # 0 /\ size <= heap.size
      /\ mem[bios] >= 2
      /\ mem[bios + 2] \in 1 .. NR_CPUS
      /\ mem[bios] >= 4 /\ size > BiosFixed + SizeField =>
           verify_ext_data_elts(mem, bios + BiosFixed, size - BiosFixed - SizeField)

verify_os_mle_data(mem, heap) ==
  LET size == get_os_mle_data_size(mem)
  IN  /\ size # 0 /\ size <= heap.size /\ size = OsMleFixed + SizeField
      /\ mem[get_os_mle_data_start(mem)] = 3

\* Version 4 ends before efi_rsdt_ptr, and version 6 and later has two elements.
SizeOfVersion5(version) == OsSinitFixed + SizeField

calc_os_sinit_data_size(version) ==
  CASE version >= 6 -> OsSinitFixed + SizeField + 2 * EltHead + LogPtr
    [] version = 5 -> OsSinitFixed + SizeField
    [] OTHER -> RsdtAt + SizeField

verify_os_sinit_data(mem, heap) ==
  LET size == get_os_sinit_data_size(mem)
      data == get_os_sinit_data_start(mem)
  IN  /\ size # 0 /\ size <= heap.size
      /\ mem[data] \in 4 .. 7
      /\ size = calc_os_sinit_data_size(mem[data])
      /\ mem[data] >= 6 => verify_ext_data_elts(mem, data + OsSinitFixed, size - OsSinitFixed - SizeField)

verify_sinit_mle_data(mem, heap) ==
  LET size == get_sinit_mle_data_size(mem)
  IN  size # 0 /\ size <= heap.size /\ mem[get_sinit_mle_data_start(mem)] >= 6

TotalFits(mem, heap) ==
  get_bios_data_size(mem) + get_os_mle_data_size(mem) + get_os_sinit_data_size(mem)
    + get_sinit_mle_data_size(mem) <= heap.size

\* After the launch, that is, with bios_data_only = 0.
verify_txt_heap(mem, heap) ==
  /\ verify_bios_data(mem, heap)
  /\ TotalFits(mem, heap)
  /\ verify_os_mle_data(mem, heap)
  /\ verify_os_sinit_data(mem, heap)
  /\ verify_sinit_mle_data(mem, heap)

-----------------------------------------------------------------------------
(* What init_txt_heap() puts into it.                                        *)

OsMleData(mem, misc) ==
  Put(mem, get_bios_data_size(mem), <<OsMleFixed + SizeField, 3, misc>> \o Zeros(OsMleFixed - 2))

init_event_log(mem) ==
  Put(mem, get_os_mle_data_start(mem) + LogAt, <<EVTLOG_SIGNATURE, LogSize, LogHead, LogHead>>)

init_os_sinit_ext_data(mem, at) ==
  Put(init_event_log(mem), at,
      <<LOG_PTR, EltHead + LogPtr, get_os_mle_data_start(mem) + LogAt, END, EltHead>>)

\* The memset() after the size is as long as the part with its size, and so
\* reaches into the size of the next part; so does efi_rsdt_ptr in version 4.
OsSinitData(mem, version, ptab, wake, da, rsdt) ==
  LET size == calc_os_sinit_data_size(version)
      sized == Put(mem, OsSinitSizeAt(mem), <<size>>)
      data == get_os_sinit_data_start(mem)
      fields == Put(Put(sized, data, Zeros(size)), data, <<version, ptab, wake, da, rsdt>>)
  IN  IF version >= 6 THEN init_os_sinit_ext_data(fields, data + OsSinitFixed) ELSE fields

=============================================================================
