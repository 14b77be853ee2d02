------------------------------ MODULE MCLinux ------------------------------
(***************************************************************************)
(* Linux for TLC: every place of a small kernel image and of an initrd,    *)
(* and the other fields of the header and of the loader's information one  *)
(* after the other.                                                        *)
(***************************************************************************)
EXTENDS StartKernel

MCTxtRegions == {<<Region(6, 1, RESERVED), Region(5, 1, RESERVED), Region(9, 0, RESERVED)>>}
MCTboot == Region(1, 1, RESERVED)

Blank == <<"a", " ", "s", "=", "1">>  \* no option that SABLE knows
Plain == [at |-> 4, size |-> 2, head |-> 0, initrd |-> [at |-> 2, size |-> 2],
          addr_max |-> 7, cmdline |-> Blank, setup_sects |-> 30, limits |-> TRUE, lower |-> 639,
          upper |-> 7, relocatable |-> TRUE, load_high |-> TRUE, header |-> TRUE,
          alignment |-> 2, code32_start |-> 1, mbi |-> {Region(0, 1, RESERVED)}]

\* Modules lie apart and below 4 GB.
Loaded(k) ==
  /\ k.at + k.size < FourGB /\ k.initrd.at + k.initrd.size <= FourGB
  /\ k.at + k.size <= k.initrd.at \/ k.initrd.at + k.initrd.size <= k.at

MCKernels ==
  {k \in {[Plain EXCEPT !.at = a, !.size = s, !.head = h, !.initrd = [at |-> b, size |-> n]] :
            a \in 2 .. 5, s \in {2, 3}, h \in {0, 1}, b \in {2, 5, 6}, n \in 0 .. 3} : Loaded(k)}
  \cup {[Plain EXCEPT !.at = a, !.initrd = [at |-> 6, size |-> n], !.addr_max = m] :
          a \in {2, 4}, n \in {1, 2}, m \in 1 .. 6}
  \cup {[Plain EXCEPT !.size = 1, !.head = 2, !.relocatable = r] : r \in BOOLEAN}
  \cup {[Plain EXCEPT !.setup_sects = s, !.lower = l] : s \in {0, 61, 65}, l \in {0, 36, 440, 512, 640}}
  \cup {[Plain EXCEPT !.relocatable = r, !.load_high = h, !.limits = l, !.upper = u] :
          r, h, l \in BOOLEAN, u \in {1, 7}}
  \cup {[Plain EXCEPT !.alignment = n, !.mbi = {Region(0, 1, RESERVED), p}] :
          n \in {1, 4, 8}, p \in {Region(2, 1, RESERVED), Region(5, 2, RESERVED)}}
  \cup {[Plain EXCEPT !.header = FALSE], [Plain EXCEPT !.size = 0],
        [Plain EXCEPT !.cmdline = <<"v", "g", "a", "=", "0">>]}

-----------------------------------------------------------------------------
(* Modules of four cells for start_module(): two segments anywhere, or a     *)
(* multiboot header; and ones with something wrong.                          *)

NoMbh == [off |-> MbhSearch + 1, kludge |-> FALSE, header_addr |-> 0, load_addr |-> 0,
          load_end_addr |-> 0, bss_end_addr |-> 0, entry_addr |-> 0]
Ph(p, o, f, z) == [type |-> 1, paddr |-> p, offset |-> o, filesz |-> f, memsz |-> f + z]
Note == [Ph(0, 0, 4, 0) EXCEPT !.type = 4]
ElfModule(at, ph) ==
  [at |-> at, end |-> at + 4, mbh |-> NoMbh,
   elf |-> [ident |-> TRUE, type |-> TRUE, phentsize |-> TRUE, entry |-> 9, ph |-> ph]]
Plain2 == ElfModule(10, <<Ph(8, 1, 1, 1), Ph(10, 2, 2, 0)>>)
MCModules ==
  {ElfModule(10, <<Ph(p, o, f, z), Ph(q, 2, 2, y)>>) :
     p \in 3 .. 15, o \in {0, 1}, f \in {1, 2}, z \in {-1, 0, 2}, q \in {0, 9, 12}, y \in {0, 1}}
  \cup {ElfModule(11, <<Note, Ph(p, 0, f, 0)>>) : p \in 6 .. 15, f \in {1, 3, 4}}
  \cup {[ElfModule(9, <<>>) EXCEPT !.mbh =
           [off |-> o, kludge |-> k, header_addr |-> l + o, load_addr |-> l, load_end_addr |-> n,
            bss_end_addr |-> b, entry_addr |-> l]] :
           o \in {0, 1, 2}, k \in BOOLEAN, l \in {5, 7, 9, 10}, n \in {0, 8, 11}, b \in {0, 8, 13}}
  \cup {[Plain2 EXCEPT !.elf.ident = FALSE], [Plain2 EXCEPT !.elf.type = FALSE],
        [Plain2 EXCEPT !.elf.phentsize = FALSE]}
=============================================================================
