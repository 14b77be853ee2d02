-------------------------------- MODULE Elf --------------------------------
(***************************************************************************)
(* start_module() of src/elf.c, the end of the boot on AMD: it writes code *)
(* to the trampoline that copies the segments of the first module, ELF or  *)
(* multiboot, to where they belong, over whatever is there, and jumps.     *)
(* Which module is the first, and that there is one, is in Sable.          *)
(*                                                                         *)
(* Memory is cells of twelve bytes.  A segment takes two of them on the    *)
(* trampoline, REP MOVSB and REP STOSB, and the jump takes one.            *)
(* A module is a record of what its headers say:                           *)
(*   at, end           where the boot loader put it                        *)
(*   mbh               [off, kludge, header_addr, load_addr, load_end_addr,*)
(*                     bss_end_addr, entry_addr] with the cell of its      *)
(*                     multiboot header, or one beyond where it is sought  *)
(*   elf               [ident, type, phentsize, entry, ph] with ph a       *)
(*                     sequence of [type, paddr, offset, filesz, memsz]    *)
(***************************************************************************)
EXTENDS Integers, Sequences, FiniteSetsExt

CONSTANTS
  Cells32,     \* 2^32 in cells
  TRAMPOLINE_ADDRESS,
  MbhSearch,   \* 8192 words in cells
  Modules

\* Modules are above 1 MB, and the trampoline does not reach that far.
ASSUME ElfAssumption ==
  \A m \in Modules : TRAMPOLINE_ADDRESS + 2 * Len(m.elf.ph) + 2 < m.at /\ m.at <= m.end /\ m.end < Cells32

VARIABLES
  started,  \* the module that is started, or NoModule
  code,     \* the instructions that were written
  cells,    \* what each cell of memory holds
  run       \* [at, ip, i]: the instruction and how often it was repeated

elfVars == <<started, code, cells, run>>

NoModule == [at |-> -1]
LowBits(x) == x % Cells32

-----------------------------------------------------------------------------
(* Generating the code.                                                      *)

movsb(target, src, len) == [op |-> "movsb", to |-> LowBits(target), from |-> LowBits(src), n |-> LowBits(len)]
\* EDI is where movsb has left it, and EAX is zero.
stosb(target, len, fill) == [op |-> "stosb", to |-> LowBits(target + len), from |-> 0, n |-> LowBits(fill)]
gen_jmp_edx(entry) == [op |-> "jmp", to |-> entry, from |-> 0, n |-> 0]

Segment(target, src, len, fill) == [target |-> target, src |-> src, len |-> len, fill |-> fill]
gen_elf_segment(s) == <<movsb(s.target, s.src, s.len), stosb(s.target, s.len, s.fill)>>

IsMultiboot(m) == m.mbh.off <= MbhSearch /\ m.mbh.kludge

MultibootSegment(m, load_end) ==
  Segment(m.mbh.load_addr, m.at + m.mbh.off - (m.mbh.header_addr - m.mbh.load_addr),
          load_end - m.mbh.load_addr,
          IF m.mbh.bss_end_addr = 0 THEN 0 ELSE m.mbh.bss_end_addr - load_end)

ElfSegment(m, ph) == Segment(ph.paddr, m.at + ph.offset, ph.filesz, ph.memsz - ph.filesz)

Segments(m) ==
  IF IsMultiboot(m)
  THEN <<MultibootSegment(m, IF m.mbh.load_end_addr = 0 THEN m.end ELSE m.mbh.load_end_addr)>>
  ELSE LET load == SelectSeq(m.elf.ph, LAMBDA ph : ph.type = 1)
       IN  [k \in 1 .. Len(load) |-> ElfSegment(m, load[k])]

Trampoline(m) ==
  LET s == Segments(m)
  IN  [k \in 1 .. 2 * Len(s) |-> gen_elf_segment(s[(k + 1) \div 2])[2 - (k % 2)]]
        \o <<gen_jmp_edx(IF IsMultiboot(m) THEN m.mbh.entry_addr ELSE m.elf.entry)>>

CodeCells(m) == TRAMPOLINE_ADDRESS .. TRAMPOLINE_ADDRESS + Len(Trampoline(m)) - 1

LoadedAs(m) ==
  [a \in 0 .. Cells32 - 1 |->
     IF a \in m.at .. m.end - 1 THEN <<"module", a - m.at>> ELSE <<"other", a>>]

WithCode(m) ==
  [a \in 0 .. Cells32 - 1 |->
     IF a \in CodeCells(m) THEN <<"code", a - TRAMPOLINE_ADDRESS>> ELSE LoadedAs(m)[a]]

start_module(m) ==
  /\ started' = m
  /\ IF ~IsMultiboot(m) /\ ~(m.elf.ident /\ m.elf.type /\ m.elf.phentsize)
     THEN code' = <<>> /\ cells' = LoadedAs(m) /\ run' = [at |-> "throw", ip |-> 0, i |-> 0]
     ELSE code' = Trampoline(m) /\ cells' = WithCode(m) /\ run' = [at |-> "fetch", ip |-> 0, i |-> 0]

-----------------------------------------------------------------------------
(* The trampoline.                                                           *)

Instruction == code[run.ip + 1]

\* A segment may have been put on the trampoline.
Fetch ==
  /\ run.at = "fetch"
  /\ run' = [run EXCEPT !.at =
       IF cells[TRAMPOLINE_ADDRESS + run.ip] # <<"code", run.ip>> THEN "lost"
       ELSE IF Instruction.op = "jmp" THEN "jump" ELSE "rep"]
  /\ UNCHANGED <<started, code, cells>>

Repeat ==
  /\ run.at = "rep" /\ run.i < Instruction.n
  /\ cells' = [cells EXCEPT ![LowBits(Instruction.to + run.i)] =
       IF Instruction.op = "movsb" THEN cells[LowBits(Instruction.from + run.i)] ELSE <<"zero", 0>>]
  /\ run' = [run EXCEPT !.i = @ + 1]
  /\ UNCHANGED <<started, code>>

EndRepeat ==
  /\ run.at = "rep" /\ run.i = Instruction.n
  /\ run' = [at |-> "fetch", ip |-> run.ip + 1, i |-> 0]
  /\ UNCHANGED <<started, code, cells>>

ElfInit == started = NoModule /\ code = <<>> /\ cells = <<>> /\ run = [at |-> "none", ip |-> 0, i |-> 0]
ElfNext == Fetch \/ Repeat \/ EndRepeat

-----------------------------------------------------------------------------
(* What the headers ask for: source, place in memory, and how much of it is  *)
(* from the file.                                                            *)

Asked(m) ==
  IF IsMultiboot(m)
  THEN LET b == m.mbh
           file == b.load_addr .. b.load_end_addr - 1
           bss == b.load_end_addr .. b.bss_end_addr - 1
       IN  <<[file |-> file, zero |-> bss, move |-> m.at + b.off - b.header_addr]>>
  ELSE LET load == SelectSeq(m.elf.ph, LAMBDA ph : ph.type = 1)
       IN  [k \in DOMAIN load |->
              [file |-> load[k].paddr .. load[k].paddr + load[k].filesz - 1,
               zero |-> load[k].paddr + load[k].filesz .. load[k].paddr + load[k].memsz - 1,
               move |-> m.at + load[k].offset - load[k].paddr]]
Target(q) == q.file \cup q.zero
Source(q) == {a + q.move : a \in q.file}

\* A module that can be put in place from front to back: no segment lands on the
\* trampoline or on what is still to be copied, its own rest included, and the sizes
\* in the headers are right.
InOrder(m) ==
  LET s == Asked(m)
  IN  /\ IsMultiboot(m) => /\ m.mbh.load_end_addr >= m.mbh.load_addr
                           /\ m.mbh.bss_end_addr \in {0} \cup m.mbh.load_end_addr .. Cells32
      /\ ~IsMultiboot(m) => \A k \in DOMAIN m.elf.ph : m.elf.ph[k].memsz >= m.elf.ph[k].filesz
      /\ \A k \in DOMAIN s :
           /\ Source(s[k]) \subseteq m.at .. m.end - 1
           /\ Target(s[k]) \subseteq (0 .. Cells32 - 1) \ CodeCells(m)
           /\ \A l \in k + 1 .. Len(s) : Target(s[k]) \cap Source(s[l]) = {}
           /\ s[k].move >= 0 \/ s[k].file \cap Source(s[k]) = {}

\* Such a module is in place when it is entered: each cell is what the last segment
\* that claims it has there, from the file or zero, and no other cell has changed.
ModuleWhole ==
  run.at \in {"lost", "jump"} /\ InOrder(started) =>
    /\ run.at # "lost"
    /\ run.at = "jump" =>
         LET s == Asked(started)
             Claims(a) == {k \in DOMAIN s : a \in Target(s[k])}
         IN  \A a \in DOMAIN cells :
               cells[a] = IF Claims(a) = {} THEN WithCode(started)[a]
                          ELSE LET q == s[Max(Claims(a))]
                               IN  IF a \in q.file THEN LoadedAs(started)[a + q.move] ELSE <<"zero", 0>>
=============================================================================
