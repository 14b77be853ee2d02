# SABLE in TLA+

A verification project for SABLE, a trusted boot loader. SABLE is started by a
multiboot loader, performs a late launch (AMD SKINIT or Intel TXT), measures its
command line and all modules into PCR 19 of a TPM 1.2, and then either *configures*
(seals a passphrase to the measured configuration and stores the blob in the TPM's
nonvolatile memory) or *boots* (reads the blob, unseals it, shows the passphrase and
starts the kernel once the user has confirmed it).

The modules model the code under `src/`; `PROJECT.json` maps each definition to the
lines it stands for, and lists the runs, the mutants, the hazards and the theorems.
Paths below are relative to the repository's `src/` directory.

## The system and its parts

```
 multiboot loader
      |  pre_launch() ---- prepare_tpm() ---- tis.c --+
      |                                               |  TPM 1.2
  SKINIT (arch-amd)  or                               |
  SENTER <--- sinit_acm.c, platform_checks.c,         |
      |       heap.c, mtrrs.c, e820.c, acpi.c         |
      |                                               |
      |  post_launch() --- intel_post_launch() --- txt.c, e820.c, APs (vmcs.c)
      |       |----------- mbi_calc_hash() ---- tpm.c + tpm_struct.c + tis.c
      |       |----------- configure() / trusted_boot() --- tpm.c, keyboard.c
      |  launch_kernel() (linux.c) / start_module() (elf.c)
   kernel ------ shutdown_entry ----> post_launch.c: shutdown()
```

| part | code | state | modules | status |
|---|---|---|---|---|
| boot flow | `sable.c`, `exception.h` | nonvolatile area, PCRs, sessions, answers | `Sable`, `TrustedBoot`, `SableProofs` | modelled |
| TPM commands and structures | `tpm.c`, `tpm_struct.c` | sessions; pack and unpack contexts | `Sable`, `TpmCommand`, `HelpersProofs` | modelled |
| TPM interface driver | `tis.c` | locality, status, transmit buffers | `Tis`, `AmdLaunchProofs` | modelled |
| AMD launch, device exclusion | `arch-amd/` | APIC, processors, DEV registers | `AmdLaunch`, `AmdLaunchProofs` | modelled |
| heap | `alloc.c` | list of nodes | `Alloc`, `BumpHeap`, `HelpersProofs` | modelled |
| hashing | `sha.c`, `hmac.c`, `mgf1.c` | block buffer, counter | `Hash` | modelled |
| memory and text helpers | `util.c`, `cmdline.c` | - | `Util`, `Helpers` | partly |
| keyboard | `keyboard.c` | scan codes, shift state, line, screen | `Keyboard`, `KeyboardProofs` | modelled |
| memory map | `e820.c`, `verify.c`, parts of `txt.c` | table of regions, VT-d regions | `E820`, `MemoryMap` | modelled |
| Linux loader | `linux.c`, parts of `loader.c` | where kernel and initrd lie | `Linux` | modelled |
| SINIT module | `sinit_acm.c` | module list, region of SINIT | `SinitAcm`, `TxtLaunchProofs` | modelled |
| TXT heap | `heap.c` | the cells of the heap | `TxtHeap`, `TxtLaunchProofs` | modelled |
| ACPI tables | `acpi.c` | - | `Acpi` | partly |
| TXT launch, platform checks | `txt.c`, `platform_checks.c` | all of the above, page table | `TxtLaunch`, `TxtLaunchProofs` | modelled |
| memory types | `mtrrs.c` | MTRRs of each processor, saved copy | `Mtrr`, `MtrrProofs` | modelled |
| AP wake-up, mini guest, shutdown | `vmcs.c`, parts of `txt.c`, `post_launch.c`, `asm.S` | shared counters, TSS, `host_vmcs` | `ApWakeup`, `ApWakeupProofs` | partly |
| module start | `elf.c` | module list, trampoline, memory | `Sable`, `Elf` | modelled |

How they interact, and where the project composes them:

* `AmdLaunch` extends `Tis`: the AMD launch lies between the two uses of the TPM, and one
  behaviour is `prepare_tpm()`, the launch, its reversal, and the commands after it.
* `TxtLaunch` extends `Mtrr`, `SinitAcm`, `TxtHeap` and `Acpi`: one behaviour is an Intel
  launch from the choice of SINIT through SENTER to the restored MTRRs.
* `MemoryMap` extends `E820`, and `Linux` extends `MemoryMap`: the kernel is placed in the
  map that the launch has left. `StartKernel` puts it beside `Elf`, the hand-over on AMD.
* `Helpers` puts the library together: `Alloc`, `Hash`, `TpmCommand` and `Util`.
* `Sable` abstracts a TPM command to one step that succeeds, is refused or throws.
  `TpmCommand` is what such a command marshals, `Tis` how it reaches the chip, `Keyboard`
  is one prompt in detail, and the launch modules are its `pre_launch` and `post_launch`.
* `ApWakeup` has the order in which APs and BSP restore their MTRRs, `Mtrr` what restoring
  does.

What makes the code hard to test: power may fail and the TPM may fail or answer late at
any point; blobs outlive boots and configurations; the user types ahead; APs run through
code whose lock is commented out; tables are split and cut in place; sizes are sums of 32
bits; copies overlap; data is written before the launch and read by other code after it.

## Module by module

### `Sable` - the boot flow

`pc` is the place in `pre_launch()`, `post_launch()` and what they call; an action is one
TPM command, one prompt, or the code between two. `nv` is the blob in the TPM's
nonvolatile area, the only state that survives `Reboot`, `TpmFault`, `PowerLoss`. A
configuration (constant `Configs`) is what the multiboot loader hands over; `mbi.mods` is
the list of modules as the code cuts it: `remove_txt_modules()` takes the SINIT modules out
before the measurement and again in `launch_kernel()`, which takes the first module as the
kernel and the next as its initrd; `start_module()` (AMD) hands all of them on. PCR 19 is
the sequence of the items extended, so that equal PCRs mean equal sequences (SHA-1 is
taken to be free of collisions). The authdata checks, the PCR check of unsealing and the
sessions are those of the TPM specification. Exceptions are steps to a reboot; the one
that `unseal_passphrase()` drops is dropped here too.

`TrustedBoot` says what all this is for: a secret stored together with a configuration,
revealed only while that configuration runs, and a kernel that starts after confirmation
or in a boot that reveals nothing. `Sable` implements it under `secret <- nv` and a phase
read off `pc` (`TrustedBootSpec`).

Run `boot`: eleven configurations (two images, two command lines, two orders, other
contents, other strings, with a SINIT module, only a SINIT module, no modules, a bad
module, no `--nv-size`), two passphrases, three authdata, any number of boots. The order of
modules and the presence of strings only matter pairwise, so two modules suffice; a blob
of one configuration meeting a boot of another needs two boots, and boots are not bounded.

* `KernelConfirmed`: a kernel runs only after confirmation, without a TPM (`tis_init()`
  finds none after the launch), or skipped in a debug build.
* `StartedMeasured`: the kernel that is started after a confirmation, and the modules it is
  given, are those the passphrase was sealed under, from the first one on.
* `ShownWhenRight`: the passphrase is shown only, and (faults aside) always, under the
  sealed configuration (SINIT modules aside, which are not measured on Intel) with the
  right authdata.
* `SessionsHeld`: right kind, open, different slots, none left behind.
* `WrittenByOwner`: the area changes only in an authorised `configure()`, to a blob bound
  to this configuration, whatever fails.
* `BootEnds`: each boot ends. Fairness: `WF(Step)`; SABLE runs alone and the user answers.

### `Tis` and `AmdLaunch` - the TPM interface and the AMD launch

Driver and chip are two processes: the chip grants localities, finishes commands and
updates status bits between any two register accesses. Response cells carry the number
of their command, so that a stale cell in `tis_buffers.out` can be told from a fresh one.
A *slow* chip is one that may exceed the driver's waits.

`AmdLaunch` adds the processors: `stop_processors()` sends INIT, each AP takes it when it
likes, SKINIT changes the BSP, and `revert_skinit()` scans the PCI bus for the device
exclusion vector (DEV), switches it off, and starts the APs on `smp_init`. A machine is
an APIC state and a PCI bus of slots with functions and capability lists.

Run `tis`: three commands, responses of header size to header plus two cells, chips in
time and slow, with and without the id work-around; two APs; thirteen machines (no SVM, an APIC
that is disabled, high, busy or not the BSP's, northbridges of three ids with and without
the capability, two of them, one behind a slot that is not multi-function, QEMU).
`OwnResponseInTime`: a chip in time gets every command answered by its own response.
`OneResponse`: with any timing what is returned is one whole response. `HoldsLocality`: the
driver talks through the locality it holds, and none is active at the launch.
`ApsStopped`: while SKINIT is in force no AP runs. `SkinitReverted`: when `post_launch()`
goes on, the BSP is enabled again, a DEV has been switched off, only functions that are
DEVs have been written to, and halted APs have what SKINIT needs. `TransmitReturns`: every call returns. Three commands
are enough for a response to meet the leftover of an earlier one and for the next to
follow; two APs are enough for one to be late. Fairness: the driver always, the chip only
while it is in time - a slow one may have died.

Run `tis_stale` shows that a slow chip breaks "wait for the response" (`tis.c:233`): the
call returns an older response without an exception.

### `Alloc`, `Hash`, `TpmCommand`, `Util` - the library

Run `alloc` has one behaviour for each job of each (`Helpers`).

`Alloc`: `node` holds the `struct mem_node` headers by cell (eight bytes); the loop of
`alloc()` is a step per iteration. Twelve cells and requests on both sides of each block
border, any sequence of calls, also before `init_heap()`. Headers and payloads tile the
heap (`Tiling`); allocations are exclusive (`Exclusive`); no node that fits is passed
(`FirstFit`); and the whole implements `BumpHeap`, which only moves a boundary up
(`BumpSpec`).

`Hash`: `sha1()`, `hmac()` and `mgf1()` as the calls they make on one context, with the
compression function left abstract: the hash is the sequence of blocks it was given, and a
byte says where it comes from. `HashRight` compares with the definitions of the standards
for every split of a message into calls. Blocks of five bytes with three for the
length keep both kinds of padding; messages reach up to eight blocks, on both sides of
every border, and beyond the counter's limit.

`TpmCommand`: a command is the sequence of its `marshal_*()` calls, a response that of its
`unmarshal_*()` calls, one per step, with true sizes and sums modulo 2^32 (2^16 in the run).
`RequestSound`: the size in the header is the size packed, and the digests cover each
parameter once and in order. `UnpackInside`: no call reads behind its buffer, whatever
size is named. The heap is a number of blocks left, empty or full at the start.

`Util`: `memcpy()` word by word, upwards and downwards (`CopyExact`, all alignments
and overlaps in twenty bytes); `indexOf()`, `cmdlineArgVal()`, `aToI()`, `strtoul()`
(`TextRead`, lines of up to five pieces, numbers up to and beyond the largest).

### `Keyboard` - the prompts

User and driver are two processes with a queue of scan codes between them. History
variables hold the lines the user typed; a key means what stands on it (`Legend`) under
the shift key at its release, which is when the driver takes it. `Shifted` is the driver's
own table. Run `keys`: a careful user (no line that fills its string, no two keys at once
but one shift key, only characters, Return, Backspace and Tab, and with a shift key neither
3, 4 nor =) has every line delivered (`CarefulLinesDelivered`); the screen shows what the string holds, through echo and
backspace, until the line is full (`EchoShown`); for all users every completed line ends a
call (`LinesReturned`). Strings are scaled down, keeping the distance between size and
buffer of each caller, and the screen to four columns so that lines overflow. Fairness:
SABLE polls.

Run `keys_full`: 64 characters of authdata, as `sable.c:236` offers, put the null character
behind `auth_str`.

### `E820`, `MemoryMap`, `Linux`, `Elf`, `StartKernel` - memory and hand-over

The table is an array, as in the code, with `insert_after_region()`, `remove_region()` and
`protect_region()` index by index; `mem` is the reference: the type of each address.
`MemoryMap` is the boot's use of it: VT-d protected regions computed before the launch,
the map copied again after it, what the regions leave out and the TXT regions reserved.
`Linux` is `expand_linux_image()`: initrd, real-mode part and protected-mode part are placed
and copied in the order of the code, and memory says what each address holds. `Elf` is
`start_module()`: it reads a multiboot or ELF header, writes code to the trampoline, and that
code copies segment by segment, forwards, and may overwrite its source and itself. Memory is
cells of twelve bytes there, because a segment takes 24 bytes of code and the jump twelve.

Run `e820` (six addresses, 4 GB at four, up to three regions handed over and two changes, a
table of five entries so that it overflows in the middle of a split): table and reference
agree (`TableAgrees`), the queries that later code relies on are exact (`QueriesExact`), and
no RAM that VT-d leaves open is given to the kernel (`VtdProtected`). The run excludes
insertions in front of the first entry (`AtFirst = FALSE`); run `e820_first` shows that
those overwrite entry 0, against the comment at `e820.c:290`.

Run `linux` (ten addresses, every place of a kernel of two or three and an initrd of up to
three, truncated images, limits `initrd_addr_max` on both sides of the RAM found; other
header fields one after the other): `InitrdPlaced`, the initrd ends below its limit and is
clear of the kernel image, and where the RAM found has room below the limit (`Roomy`) it is
in RAM of the map that the kernel gets; `KernelWhole`, what is jumped to is intact. Both
leave out addresses that have wrapped (`Wraps`); the observations below say what happens
then, and in a RAM range without room. `MdrLengths` are the lengths of the regions that
SINIT reports: one so short that almost nothing is left to the kernel, one that leaves it
most of the memory.
The same run starts ELF modules of four cells, with two segments anywhere in a memory of
sixteen, and multiboot modules: when no segment lands on the trampoline or on what is still
to be copied, all are in place at the jump, bss cleared, nothing else changed.

### `Mtrr`, `SinitAcm`, `TxtHeap`, `Acpi`, `TxtLaunch` - the Intel launch

`Mtrr`: masks and bases are sets of bits and memory is counted in pages. The BSP saves,
clears, maps SINIT range by range, enters it, validates what it saved, and then BSP and
APs restore register by register. `SinitAcm`: headers and tables of authenticated code
modules, the match with the platform, the choice, the copy. `TxtHeap`: the heap as cells,
its four parts found only by adding sizes up. `Acpi`: the search for root pointer and
tables. `TxtLaunch` runs them in the order of `sable.c`, `platform_checks.c` and `txt.c`; SINIT
itself and the BIOS are external.

Run `mtrr`: eight pages and three MTRRs; every position and size of SINIT; every pair out
of ranges of 1 to 8 pages, one with a hole, and four types, in both orders, beside an
uncacheable third; and on one machine every platform that differs from a plain one in one
part (modules and BIOS, headers, heap sizes and versions, features, ACPI, MLE).

* `AcmodTyped`: SINIT is entered with exactly its pages write-back.
* `NeverHalfSet`: no processor runs with old and new MTRRs mixed.
* `RestoredSound`: all processors end with the types of before the launch, all defined,
  device registers uncacheable; a boot is stopped only for a reason stated on pages.
* `SinitSuits`: in every boot that gets to SENTER, the SINIT entered is for this platform, in
  its region, and not older than the BIOS's - or none of the loader's modules matched, and
  the last one looked at, the second, was copied in spite of that.
* `LaunchReady`: at SENTER processor, page table and data are as they must be.
* `HeapAgrees`: what is written before the launch is what is accepted after it.

Eight pages give ranges one inside another three deep, which is what the overlap rules
distinguish; sizes of the heap lie on both sides of those that just fit. The processors
stop when they are done, so deadlock is not checked. Assumed: no more than 16 variable
MTRRs, and MAXPHYADDR of 36 (`SINIT_MTRR_MASK`); beyond either, `RestoredSound` and
`AcmodTyped` fail. In the proofs these are hypotheses of the theorems that need them.

### `ApWakeup` - application processors

BSP, APs and (external) kernel interleave at each access to shared memory: `ap_wfs_count`,
`num_in_wfs`, `aps_exit_guest`, the TSS descriptor, `host_vmcs`. A *world* says whether the
delay loops keep the APs apart, whether APs may be late, whether VMX may fail, and how
many have a stack. Run `aps` (three APs, four worlds, any number of starts and stops by
the kernel): `ApsBeforeMtrrs`, the BSP goes on only when the APs have restored their MTRRs;
`HostVmcsIntact`, `host_vmcs` and the TSS are safe while APs keep apart; `SexitAlone`, the
test of `txt_shutdown()` goes on to SEXIT without a reset only when no AP waits for SIPI, and
where no AP is late none waits at SEXIT itself either; `ShutdownEnds`, with SEXIT or with the
reset of the platform (`PlatformResets`, external), which may take effect before or after
the SEXIT that follows its request. Each holds in the worlds its text names. Two APs make every race there is; the third is there so that one can be
beyond the stacks. Fairness: every processor keeps running; nothing is assumed of the
kernel. Run `aps_lock` shows that APs that are not kept apart find the TSS busy, against
what `vmcs.c:78` says of the lock.

### Deadlock

Deadlock is checked in `boot`. The other programs come to an end (a response, a line, a
jump, a halted processor), so their runs do not check it.

## What is proved

For every value of the constants that satisfies the named assumptions, with TLAPS:

* `HelpersProofs`, the heap - `HeapTiled` (`Spec => [](TypeOK /\ Tiling)`), `AllocationsExclusive`
  (`[]Exclusive`), `SearchIsFirstFit` (`[]FirstFit`), for every heap size of at least one block
  and below 2^31 (`init_heap()` asserts that) and positive requests (`alloc()` asserts that).
  `Exclusive` is not inductive: it needs that each pointer handed out is the cell behind an
  occupied header of that size (`Handed`), that headers and payloads tile the heap
  (`Tiling`), that the cursor has missed no node (`FirstFit`), and what the heap is before
  `init_heap()` (`Untouched`). Their conjunction with the types, `IInv`, is the invariant;
  there is one lemma per action. `HeapBumps` (`Spec => BumpSpec`) is the refinement: `LastFree`
  adds that the only free node, if any, is the last, so the boundary of `BumpHeap` is that
  node; then each return of a block is a step of `BumpHeap` and each other step a stutter.
* `AmdLaunchProofs` - of `AmdSpec`, for any number of APs, PCI buses, response lengths and
  commands. `LocalityAlwaysHeld`: `LocalityInv` says which locality is held or pending at
  each label. `ResponseAlwaysOne`: `ResponseInv` says that what has been read is a prefix of
  one response and where the driver is in it; responses are taken
  to fit into the buffer (`TIS_BUFFER_SIZE`). `ResponseAlwaysOwn`: `InTimeInv`
  adds that without a slow chip the response in the chip is that of the running command.
  `ApsAlwaysStopped`: `StopInv` says where an AP can be while an INIT is on its way.
  `SkinitAlwaysReverted`: `RevertInv` says what of SKINIT is still in force at each step,
  that the DEV switched off is one that the scan found, and that no other was written to; that a scan finds one if there is
  one needs a least slot and function (`LeastOf`).
* `ApWakeupProofs` - for any number of APs that the counter can count twice and every
  interleaving. `ApsAlwaysBeforeMtrrs` rests on counting: `ap_wfs_count` is at most the
  number of APs that have counted themselves and at least that of those that cannot be
  counted down any more (`Bounds`), so that when it equals the number expected, all are in.
  `SexitAlwaysAlone` uses the same bounds at the test of `txt_shutdown()`, and `OnTimeInv` from
  there to SEXIT: APs that are not late stay where they are. `HostVmcsAlwaysIntact`: `ApartInv`
  says that at most one AP is in the section that sets VMX up, and what it has done there.
* `HelpersProofs`, the TPM's responses - `UnpackAlwaysInside` (`CmdSpec => []UnpackInside`),
  for every width of `UINT32`, every heap and buffer that together are smaller than it, and
  every size that a response names. The check of the code is a sum that could wrap.
  `InsideInv` says why it does not: a fixed field is short, a pointer's size has passed
  `alloc()`, and the size of the one array has been compared with the caller's (`Left`
  follows that through the calls of `TPM_GetRandom()`).
* `SableProofs` - for all configurations with module lists of any length, all passphrases
  and authdata and any number of boots, crashes and faults. The invariants say what holds at
  each label. `Flow` follows the passphrase from the prompt through the blob and the area to
  the screen and the confirmation: `KernelAlwaysConfirmed`. `Held` says which sessions are
  open where: `SessionsAlwaysHeld`. `Listed` says what is left of the module list, `Measuring`
  that PCR 19 holds the items of the modules in front of the one that `mbi_calc_hash()` is at,
  `Sealed` what a blob is bound to and `Showing` what is on the screen and why:
  `StartedAlwaysMeasured`, `AlwaysWrittenByOwner`, and `ShownUnderSameItems` (while a
  passphrase is shown, the image and the items measured are those of the boot that sealed
  it). `AlwaysShownWhenRight` and the refinement, `SableRefinesTrustedBoot`
  (`Spec => TrustedBootSpec`), need that configurations with equal items are equal up to
  SINIT modules (`Separable`, which the run evaluates for its configurations). The code does
  not see to that: `mbi_calc_hash()` extends strings and contents one after the other,
  without lengths.
* `KeyboardProofs` - for every width of the screen, every session of prompts and every
  sequence of keys. `EchoAlwaysShown`: `Echoing` says where the column is while a line is
  read. `CarefulLinesAlwaysDelivered` is about a user who types ahead: `Ahead` follows the
  driver through the scan codes that wait, one state after each, to a state in which it has
  read all that was typed; a step of the driver takes the first of these states away, a key
  adds one at the end. Key codes are any numbers; `ModifiedLegend` compares the driver's table
  with what stands on the keys.
* `TxtLaunchProofs` - for all platforms (modules and SINIT regions of any number and size,
  heaps, images) that `IsPlatform` describes. `SinitAlwaysSuits`: `SinitInv` says that past
  `prepare_sinit_acm()` what is in the region is what `copy_sinit()` chose, with its tables,
  and `FoundLast` which module the search ends at, also when none matches.
  `LaunchAlwaysReady`: `HeapInv` says what the heap holds cell by cell once `init_txt_heap()`
  has filled it (`HeapFilled` follows the sizes through its parts) and which pages are mapped
  (`PagesExact`); `FlowInv` says where the processors can be.
* `MtrrProofs` - of the same specification, for every width of addresses, number of MTRRs
  and APs, region of SINIT and MTRRs found. `LaunchInv` is the invariant: while the BSP maps
  SINIT, the ranges so far cover exactly the pages up to the next one, which is a multiple of
  the size of the next range, so that a range that is as large as possible is aligned;
  and a processor that restores has its MTRRs off and those below its index back.
  `AcmodAlwaysTyped` needs that addresses have the width that `SINIT_MTRR_MASK` covers (36
  bits); without that the same is proved of the pages it covers (`AcmodAlwaysTypedBelow`).
  `AlwaysRestoredSound` needs that `saved_mtrr_state_t` has room for all MTRRs, because
  `save_mtrrs()` only warns otherwise. `AlwaysNeverHalfSet` needs both.

Operators that walk through a list are recursive functions in these modules. What they
compute is proved with `Induction`, which derives induction over the naturals and the
existence of recursive functions from the library's `WFMin` (a theorem about sets, so that no
operator has to be instantiated).

Only model-checked:

* liveness under fairness: `TransmitReturns`, `BootEnds`, `LinesReturned`, `ShutdownEnds`;
* `HashRight`, `RequestSound`, `CopyExact` and `TextRead`, which compare a computation over data
  of any length with a definition that is itself a fold, a filter or a sum;
* `HeapAgrees`;
* `E820`, `MemoryMap` and `Linux`, whose operators are declared `RECURSIVE` because the code
  changes the table while it walks through it, and `Elf`, which is checked with them.

## Observations that no run shows

Met while modelling. Where the model follows the code the module is named.

Boot flow, TPM and prompts:

* `unseal_passphrase()` sets no `nonceOdd` for its OSAP session (`sable.c:285`), and the memory
  of OIAP and OSAP sessions is not checked for NULL.
* `unmarshal_UINT16()` without a digest context converts with `htonl()`; the exceptions of
  `sha1()` are ignored in `marshal_*()`.
* `kybrd_key_to_ascii()` takes a key code cut to a byte (`keyboard.c:340`): Alt and Caps Lock
  yield characters. `Keyboard` models it, and `Careful` leaves these keys out.
* Its table for the shift key gives `!` for 3 (`keyboard.c:364`) and `#` for 4
  (`keyboard.c:367`), so that `$` cannot be typed; `=` stays `=`, because the case is that
  of `KEY_PLUS` (`keyboard.c:424`), a key that the scan code table does not have. `Keyboard`
  models it, and `Careful` leaves these three out with a shift key.
* A character is taken at the release of its key (`keyboard.c:468`): with the shift key
  released first it is the lower one. `Keyboard` takes that for what the user means.
* An answer that fills its string (the one character of "Configure now?") leaves part of a
  Return behind, which ends the next prompt at once, in spite of the `getchar()` that drops
  one character (`keyboard.c:496`). `Keyboard` models it.
* `out_char()` handles a backspace in column 0 by going to the line above. `Keyboard`.
* With `mods_count` 0 the count wraps when a module is removed; `remove_module()` never finds
  `m` NULL; `verify_modules()` only prints.

Helpers and command lines:

* `strncpy()` wraps its count when the text fills it (`util.c:165`), as the value of any
  recognised `vga=` or `mem=` option does, and then goes on storing zeros. `Linux` ends such
  a boot as lost.
* `indexOf()` can run behind the end of a text that is cut off within a partial match.
* `cmdline_parse()` accepts a prefix of an option's name; `get_linux_mem()` sets `*max_mem`
  also when it returns false; `get_linux_vga("")` sets mode 0.
* `tboot_parse_cmdline()` and the `get_tboot_*()` functions have no caller.

AMD launch:

* `send_ipi()` accepts a BSP whose APIC is disabled (`mp.c:44`), so the APs are not stopped;
  `ApsStopped` leaves that out.
* With several northbridges only the DEV of the last one is switched off, although
  `dev.c:299` says "Disable all dev protection." `AmdLaunch` models it, and `SkinitReverted`
  asks for one DEV only. Bus 255 is not scanned; the
  check for a capability that was not found cannot be reached. `enable_dev_bitmap()`, which
  has no caller, writes the high base register twice.

Intel launch:

* `prepare_sinit_acm()` leaves the base at the last module looked at when none matches, and
  that module is copied and entered, unless the BIOS has a newer SINIT. `TxtLaunch` models it, and
  `SinitSuits` names the case.
* After the write to `TXTCR_CMD_RESET` `txt_shutdown()` goes on to SEXIT (`txt.c:1265`), while
  the comment at `txt.c:1261` says "so TXT reset the platform instead"; and an AP that is late
  can count itself (`txt.c:1159`) between the test and SEXIT. `ApWakeup` models both, and
  `SexitAlone` says of late APs only what the test saw.
* `saved_misc_enable_msr` is a `uint32_t` and loses the upper half of the register.
* `init_txt_heap()` clears, and for version 4 `efi_rsdt_ptr` is stored in, eight bytes behind
  the part that was measured out. `TxtHeap` models the cells.
* `supports_smx()` accepts either of the SENTER bits; the test of EFLAGS.VM is `eflags | ~VM`,
  which is never 0; the walk of the APIC table does not end at an entry of length 0.
* More than 16 variable MTRRs are only a warning (`mtrrs.c:161`).
* `MAX_E820_ENTRIES` is 256 while the kernel's table (`E820MAX`) has 128.
* A kernel image smaller than its real-mode part wraps `protected_mode_size`, and nearly 4 GB
  are copied; `Linux` ends such a boot as lost. The real-mode part is copied after the
  protected-mode part, which may have overwritten it. RAM that ends at 4 GB exactly, or an
  image below the size of an initrd that is in its way, wraps the address of the initrd
  (`Wraps`). And when `initrd_addr_max` is so low that the initrd has no room in the RAM found,
  it is put below that RAM without a look at the map (`Roomy`). `Linux` models these;
  `KernelWhole` and `InitrdPlaced` exclude them.
* With `load_end_addr` 0 `start_module()` takes the end of the module in memory for the end of
  the load area (`elf.c:111`); a segment may land on the trampoline, or on the source of a
  later one, and `p_memsz` below `p_filesz` wraps. `Elf` models these; `KernelWhole` excludes
  them (`InOrder`).
* `use_mwait()` is always false (`verify.c:60` is never assigned), so `ap_wait()` is dead code.
* `asm.S` has stacks for 16 processors, `config.h:72` counts 512.

## Not modelled

* `tools/makeheaders` (a third-party build tool), message tables (`tpm_error.c`, `errors.c`),
  printing, the serial line, register access: no state that a property could be about.
* The cleanup image (`cleanup/`): straight-line code that overwrites memory.
* The contents of a VMCS (`vmcs.c`), mode switches and stack set-up in `asm.S` and
  `wakeup.S`: one value per field, whose meaning is the processor's.
* Hiding and copying ACPI tables, and the ACPI sleep states of `shutdown()`; resuming from
  S3.
* Multiboot 2 and EFI branches of `loader.c` and `linux.c`: the loader context is always of
  multiboot 1.
* Code without a caller: the force branch of `tis_access()`, `enable_dev_protection()` and the
  other PCI helpers, `mtx_enter()`, `ap_wait()`, the `min_ram` and `tboot` options.
* The fixed MTRRs, the scan code table with its numeric keypad, and the loss of scan codes
  when the keyboard controller overflows.
