------------------------------- MODULE Linux -------------------------------
(***************************************************************************)
(* expand_linux_image() of src/arch-intel/linux.c: where the parts of the  *)
(* Linux kernel and its initrd are put, from the memory map of MemoryMap,  *)
(* and the copies in the order they are made.                              *)
(*                                                                         *)
(* Addresses of the map are scaled down, and FourGB stands for 2^32; the   *)
(* real-mode area below 640 KB is laid out in true units of 256 bytes.     *)
(***************************************************************************)
EXTENDS MemoryMap, Util

CONSTANTS
  Page,         \* PAGE_SIZE
  CmdlineSize,  \* characters of the kernel's command line area
  Kernels       \* the kernels, initrds and command lines that may come

VARIABLES
  kernel,  \* the one that came
  boot,    \* where its parts are put
  holds    \* the piece of the kernel image or the initrd at each address

linuxVars == <<mapVars, kernel, boot, holds>>

U32(x) == x % FourGB
Overflows(x, y) == (FourGB - 1) - x < y
PageDown(x) == x - (x % Page)
RoundUp(x, n) == ((x + n - 1) \div n) * n
None == -1

-----------------------------------------------------------------------------
(* The initrd.                                                               *)

RamBelow(k, mem_limit) ==
  get_highest_sized_ram(k.initrd.size,
                        IF mem_limit = 0 \/ mem_limit > FourGB THEN FourGB ELSE mem_limit)
RamForInitrd(k) == RamBelow(k, linux_parse_cmdline(k.cmdline).mem)

\* As high as the RAM goes, then below initrd_addr_max.
BelowMax(k, high) ==
  IF U32(high + k.initrd.size) <= k.addr_max THEN high
  ELSE IF k.addr_max < k.initrd.size THEN None ELSE PageDown(k.addr_max - k.initrd.size)
HighInitrd(k, ram) == BelowMax(k, PageDown(U32(ram.base + ram.length - k.initrd.size)))

\* Does an initrd at a meet the kernel image?
MeetsImage(k, a) == a < U32(k.at + k.size) /\ k.at < U32(a + k.initrd.size)

InitrdBelowImage(k) == PageDown(U32(k.at - k.initrd.size))

MovedUnchecked(k, ram, high) ==
  IF high # None /\ MeetsImage(k, high) THEN InitrdBelowImage(k) ELSE high

\* Moved out of the kernel image's way, if there is room.
ClearOfImage(k, ram, high) ==
  IF high = None \/ ~MeetsImage(k, high) THEN high
  ELSE IF InitrdBelowImage(k) < ram.base THEN None ELSE InitrdBelowImage(k)

InitrdIn(k, ram) ==
  IF ram.length = 0 \/ Overflows(ram.base, ram.length - k.initrd.size) THEN None
  ELSE ClearOfImage(k, ram, HighInitrd(k, ram))

initrd_base(k) == IF k.initrd.size = 0 THEN k.initrd.at ELSE InitrdIn(k, RamForInitrd(k))

-----------------------------------------------------------------------------
(* The real-mode area.                                                       *)

KB == 4
E820Copy == [base |-> 1664, end |-> 1688]     \* TBOOT_E820_COPY_ADDR, 0x1800 bytes
TBOOT_KERNEL_CMDLINE_END == 1692
LEGACY_REAL_START == 2304
KERNEL_CMDLINE_OFFSET == 141
REAL_MODE_SIZE == 145
SECTOR_SIZE == 2
BOOT_PARAMS_SIZE == 16
DEFAULT_SECTOR_NUM == 4
MAX_SECTOR_NUM == 64

\* mem_lower * 1024 - REAL_MODE_SIZE is a 32-bit number.
real_mode_base(k) ==
  LET base == IF k.limits THEN (k.lower * KB - REAL_MODE_SIZE) % 2^24 ELSE LEGACY_REAL_START
  IN  Smaller(Larger(base, TBOOT_KERNEL_CMDLINE_END), LEGACY_REAL_START)

real_mode_size(k) ==
  ((IF k.setup_sects = 0 THEN DEFAULT_SECTOR_NUM ELSE k.setup_sects) + 1) * SECTOR_SIZE

-----------------------------------------------------------------------------
(* The protected-mode part.                                                  *)

\* An unsigned difference: that of an image cut off in its real-mode part wraps.
protected_mode_size(k) == U32(k.size - k.head)
Truncated(k) == k.size < k.head

EndOfSable(k) == RoundUp(limit(TbootRegion), Page)

\* get_mbi_mem_end_mb1() over the parts of the loader's information, and _end.
EndOfTboot(k) ==
  Larger(RoundUp(limit(TbootRegion), Page), RoundUp(Max({limit(p) : p \in k.mbi}), Page))

protected_mode_base(k) ==
  LET above == EndOfTboot(k)
      n == protected_mode_size(k)
  IN  IF k.relocatable
      THEN IF Overflows(above, k.alignment - 1) THEN None ELSE RoundUp(above, k.alignment)
      ELSE IF k.load_high /\ ~Overflows(OneMB, n) /\ (~k.limits \/ n <= k.upper)
      THEN OneMB ELSE None

-----------------------------------------------------------------------------
(* The copies.                                                               *)

\* memcpy(): the Intel one copies overlapping areas as if they did not overlap.
Copied(h, to, from, n) ==
  [a \in DOMAIN h |->
     IF a \in to .. to + n - 1 /\ from + (a - to) \in DOMAIN h THEN h[from + (a - to)] ELSE h[a]]

AsLoaded(k) ==
  [a \in 0 .. FourGB - 1 |->
     CASE a \in k.at .. k.at + k.size - 1 -> <<"kernel", a - k.at>>
       [] a \in k.initrd.at .. k.initrd.at + k.initrd.size - 1 -> <<"initrd", a - k.initrd.at>>
       [] OTHER -> <<"other", 0>>]

NotPut == [status |-> "none", initrd |-> None, real |-> None, protected |-> None]

\* The real-mode part is copied after the protected-mode part, from the image as that
\* copy left it; only the header was saved before.
RealModePart(k, h) == [j \in 0 .. k.head - 1 |-> h[k.at + j]]

\* The kernel's command line area holds CmdlineSize characters, the last of them NUL.
KernelCmdline(k) == SubSeq(k.cmdline, 1, Smaller(Len(k.cmdline), CmdlineSize - 1))

\* boot_params, behind the real-mode part, for a loader without EFI, and what is next to it.
BootParams(k, initrd, protected, h) ==
  [status |-> "put", initrd |-> initrd, real |-> real_mode_base(k), protected |-> protected,
   setup |-> RealModePart(k, h), cmdline |-> KernelCmdline(k), e820 |-> loader,
   entry |-> IF k.relocatable THEN protected ELSE k.code32_start]

Ends(status, h) == boot' = [NotPut EXCEPT !.status = status] /\ holds' = h

\* The protected-mode part, then the rest, over the memory h with the initrd in place.
PutKernel(k, initrd, protected, h) ==
  IF real_mode_size(k) + BOOT_PARAMS_SIZE > KERNEL_CMDLINE_OFFSET \/ protected = None
  THEN Ends("failed", h)
  ELSE IF Truncated(k) THEN Ends("lost", <<>>)
  ELSE /\ holds' = Copied(h, protected, k.at + k.head, protected_mode_size(k))
       /\ boot' = BootParams(k, initrd, protected, holds')

PutInitrd(k, initrd) ==
  IF initrd = None THEN Ends("failed", AsLoaded(k))
  ELSE PutKernel(k, initrd, protected_mode_base(k),
                 Copied(AsLoaded(k), initrd, k.initrd.at, k.initrd.size))

\* sizeof(linux_kernel_header_t), in cells of the map rounded up.
HeaderSize == 1

\* A copy of an option's value that leaves its array sweeps over the memory, SABLE
\* included, as does that of a wrapped size.  launch_kernel() hangs when expand_linux_image() fails.
expand_linux_image(k) ==
  /\ stage = "kernel" /\ stage' = "linux"
  /\ kernel' = k
  /\ IF k.size < HeaderSize \/ k.setup_sects > MAX_SECTOR_NUM THEN Ends("failed", AsLoaded(k))
     ELSE IF linux_parse_cmdline(k.cmdline).lost THEN Ends("lost", <<>>)
     ELSE IF ~k.header THEN Ends("failed", AsLoaded(k))
     ELSE PutInitrd(k, initrd_base(k))
  /\ UNCHANGED <<e, mem, phase, count, ranges, loader, pmr>>

jump_linux_image ==
  /\ boot.status = "put"
  /\ boot' = [boot EXCEPT !.status = "jump"]
  /\ UNCHANGED <<mapVars, kernel, holds>>

LinuxInit ==
  /\ MapInit
  /\ kernel = None /\ boot = NotPut /\ holds = <<>>

LinuxNext ==
  \/ MapNext /\ UNCHANGED <<kernel, boot, holds>>
  \/ \E k \in Kernels : expand_linux_image(k)
  \/ jump_linux_image

LinuxSpec == LinuxInit /\ [][LinuxNext]_linuxVars

-----------------------------------------------------------------------------
(* Properties.                                                               *)

InitrdSpan == boot.initrd .. boot.initrd + kernel.initrd.size - 1
KernelSpan == boot.protected .. boot.protected + protected_mode_size(kernel) - 1
Jumped == boot.status = "jump"

\* expand_linux_image() goes on with an address that has wrapped when RAM ends at 4 GB
\* exactly, or when the initrd is in the way of an image that lies below its size.
Wraps ==
  LET ram == RamForInitrd(kernel)
  IN  \/ limit(ram) = FourGB
      \/ kernel.at < kernel.initrd.size /\ MeetsImage(kernel, HighInitrd(kernel, ram))

\* The range of RAM that was found has room for the initrd, at the start of a page, below
\* initrd_addr_max as well as below its own end; the code does not look.
Roomy ==
  LET ram == RamForInitrd(kernel)
  IN  ram.base <= PageDown(Smaller(limit(ram), kernel.addr_max) - kernel.initrd.size)

\* The initrd ends below initrd_addr_max, clear of the kernel image, whether its place is
\* the end of the RAM found, below that limit or below the image; and when that RAM is
\* roomy it is in RAM of the map that the kernel gets.
InitrdPlaced ==
  Jumped /\ kernel.initrd.size > 0 /\ ~Wraps =>
    /\ Max(InitrdSpan) < kernel.addr_max
    /\ InitrdSpan \cap (kernel.at .. kernel.at + kernel.size - 1) = {}
    /\ Roomy /\ phase # "failed" => \A a \in InitrdSpan : mem[a] = RAM

\* The copies do not destroy what is still to be copied: at the jump the kernel's
\* protected-mode part is whole, with its first byte at the entry, and above SABLE and
\* the loader's information when it was relocated; so is the real-mode part, and the
\* initrd, unless the protected-mode part was put on top of it.
PartsWhole ==
  Jumped /\ (kernel.initrd.size > 0 => ~Wraps) =>
    /\ \A a \in KernelSpan \cap (0 .. FourGB - 1) :
         holds[a] = <<"kernel", kernel.head + a - boot.protected>>
    /\ kernel.relocatable =>
         \A p \in kernel.mbi \cup {TbootRegion} : boot.protected >= limit(p)
    /\ kernel.relocatable \/ kernel.code32_start = OneMB => boot.entry = Min(KernelSpan)
    /\ KernelSpan \cap (kernel.at .. kernel.at + kernel.head - 1) = {} =>
         \A j \in DOMAIN boot.setup : boot.setup[j] = <<"kernel", j>>
    /\ InitrdSpan \cap KernelSpan = {} =>
         \A a \in InitrdSpan : holds[a] = <<"initrd", a - boot.initrd>>

\* Whatever amount of low memory the loader reports, setup code, boot_params and
\* command line lie apart, below 640 KB and behind the table that is read after
\* they have been written.
LowAreaApart ==
  Jumped =>
    LET params == boot.real + real_mode_size(kernel)
        cmdline == boot.real + KERNEL_CMDLINE_OFFSET
    IN  /\ E820Copy.end <= boot.real
        /\ boot.real < params /\ params + BOOT_PARAMS_SIZE <= cmdline
        /\ cmdline < boot.real + REAL_MODE_SIZE
        /\ boot.real + REAL_MODE_SIZE <= 640 * KB

LinuxWhole == PartsWhole /\ LowAreaApart

=============================================================================
