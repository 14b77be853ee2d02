------------------------------- MODULE MCTxtLaunch ----------------------------
(***************************************************************************)
(* Eight pages and three MTRRs.  Either the platform is plain, and the     *)
(* SINIT module is anywhere or the first two MTRRs are any two, in either  *)
(* order, beside a third that is off or uncacheable; or the MTRRs are      *)
(* plain, and one part of the platform after the other is varied: the      *)
(* modules and what the BIOS left, their tables and headers, the versions  *)
(* and sizes of the heap, the processor and its parameters, ACPI, the MLE. *)
(***************************************************************************)
EXTENDS TxtLaunch

\* The range of 2^k pages that holds page p.
Range2(k, p, t) == [v |-> TRUE, mask |-> {b \in AllBits : b >= k}, base |-> Bits(p), type |-> t]
Off == [v |-> FALSE, mask |-> {}, base |-> {}, type |-> "UC"]
Holey(t) == [v |-> TRUE, mask |-> {0, 2}, base |-> {2}, type |-> t]

Ranges(T) ==
  {Range2(k, p, t) : k \in {3}, p \in {0}, t \in T} \cup
  {Range2(2, p, t) : p \in {0, 4}, t \in T} \cup
  {Range2(1, p, t) : p \in {2, 4}, t \in T} \cup
  {Range2(0, p, t) : p \in {3, 5}, t \in T} \cup
  {Off} \cup {Holey(t) : t \in T}
Thirds == {Off, Range2(2, 4, "UC"), Range2(1, 2, "UC"), Range2(0, 5, "UC")}

State(e, t, m, n, o) ==
  [e |-> e, type |-> t, var |-> [i \in Ndxs |-> CASE i = 0 -> m [] i = 1 -> n [] OTHER -> o]]
Plain == State(TRUE, "WB", Range2(2, 4, "UC"), Off, Off)
Disabled == [Plain EXCEPT !.e = FALSE]
At(b, n) == [base |-> b, pages |-> n]

-----------------------------------------------------------------------------
(* Platforms.                                                                *)

Id(masked, rev) == [device |-> "dev", masked |-> masked, revision |-> rev]
Proc(fms, plat) == [fms |-> fms, fms_mask |-> {1, 2}, platform_id |-> plat, platform_mask |-> {0}]

\* A SINIT module of n pages for this platform.
Sinit(n) ==
  [at |-> 2 * AcmPage, len |-> n * AcmPage, size |-> (n * AcmPage) \div 4, chipset |-> TRUE,
   header_len |-> 161, scratch_size |-> 143, debug |-> FALSE, date |-> 5, entry_point |-> 1300,
   seg_sel |-> 8, gdt_limit |-> 31,
   info |-> [uuid |-> TRUE, type |-> "SINIT", version |-> 5,
             chipset_id_list |-> [off |-> 1264, count |-> 2, ids |-> {Id(FALSE, {0}), Id(TRUE, {0, 2})}],
             processor_id_list |-> [off |-> 1312, count |-> 1, ids |-> {Proc({1}, {0})}],
             os_sinit_data_ver |-> 6, min_mle_hdr_ver |-> 1,
             caps |-> {"getsec", "monitor", "da"}]]
Kernel == [Sinit(3) EXCEPT !.chipset = FALSE, !.at = 0]
Other == [Sinit(1) EXCEPT !.date = 9, !.info.chipset_id_list.ids = {[Id(FALSE, {0}) EXCEPT !.device = "other"]}]
Dated(d) == [Sinit(1) EXCEPT !.date = d, !.entry_point = 1300 + d]

Rsdp(rev, low, xsdt, rsdt) ==
  [sig |-> TRUE, sum |-> TRUE, revision |-> rev, xsdt |-> xsdt, xsdtLow |-> low, rsdt |-> rsdt]
AllTables == <<"APIC", "DMAR", "MCFG">>
NoSlot == [Rsdp(2, TRUE, AllTables, AllTables) EXCEPT !.sig = FALSE]
BadSum == [Rsdp(2, TRUE, AllTables, AllTables) EXCEPT !.sum = FALSE]
IoapicEntries == <<[ioapic |-> FALSE, length |-> 8], [ioapic |-> TRUE, length |-> 12]>>
Acpi(rsdps) == [scopes |-> <<<<NoSlot>>, rsdps>>, madt |-> IoapicEntries]

Features ==
  {"cpuid", "intel", "smx", "lock", "senter_enabled", "senter_params", "vmx", "vmx_in_smx", "chipset"}
    \cup GetsecCapabilities

\* The heap as the BIOS leaves it: its part, and old data behind.
Heap(bios) == [c \in Cells |-> IF c < Len(bios) THEN bios[c + 1] ELSE 9]
BiosData(version, procs, elts) == <<Len(elts) + 4, version, 0, procs>> \o elts

PlainPlatform ==
  [mods |-> <<Kernel, Sinit(1)>>, region |-> [base |-> 2 * AcmPage, size |-> 6 * AcmPage, holds |-> Kernel],
   bios_sinit_size |-> 0, fsbif |-> {}, qpiif |-> TRUE, device |-> "dev", revision |-> {0, 1},
   fms |-> {0, 1}, platform_id |-> {0, 3},
   acpi |-> Acpi(<<Rsdp(2, TRUE, AllTables, NoTables)>>),
   heap |-> [base |-> 1, size |-> 40], mem |-> Heap(BiosData(3, 2, <<>>)),
   cpu |-> [features |-> Features, reset_sts |-> FALSE, pe |-> TRUE, cd |-> FALSE, nw |-> FALSE, ne |-> TRUE,
            mcip |-> FALSE, mc_valid |-> FALSE],
   params |-> <<[type |-> 2, value |-> 6 * AcmPage + 7], [type |-> 0, value |-> 0]>>,
   misc |-> [c \in Cpus |-> 1], mle |-> [start |-> AcmPage, size |-> 2 * AcmPage],
   given |-> [size |-> 3, version |-> 8]]

\* With n in place of the SINIT module, with or without tables, with other ACPI.
WithModule(n) == [PlainPlatform EXCEPT !.mods[2] = n]
With(i, c) ==
  [PlainPlatform EXCEPT
     !.acpi = Acpi(<<Rsdp(2, TRUE, <<"DMAR">> \o (IF i THEN <<"APIC">> ELSE <<>>) \o (IF c THEN <<"MCFG">> ELSE <<>>), NoTables)>>)]

\* What the boot loader and the BIOS may have brought.
Brought == [other |-> Other, kernel |-> Kernel, s1 |-> Dated(1), s3 |-> Dated(3), s6 |-> Dated(6), s7 |-> Dated(7)]
ModuleNames ==
  {[kind |-> "modules", mods |-> l, bios |-> b, base |-> r, size |-> z] :
     l \in {<<>>} \cup {<<m>> : m \in {"other", "s3", "kernel"}} \cup {<<m, n>> : m, n \in {"other", "s3", "s6", "kernel"}},
     b \in {"kernel", "s1", "s3", "s7", "other"}, r \in {0, 2 * AcmPage}, z \in {AcmPage \div 2, AcmPage}}
FittingNames == {x \in ModuleNames : x.bios = "kernel" \/ x.size = AcmPage}
ModulePlatform(x) ==
  [PlainPlatform EXCEPT !.mods = <<Kernel>> \o [i \in DOMAIN x.mods |-> Brought[x.mods[i]]],
     !.bios_sinit_size = IF x.bios = "kernel" THEN 0 ELSE AcmPage,
     !.region = [base |-> x.base, size |-> x.size, holds |-> Brought[x.bios]]]

\* One module with one thing in it different.
Headers ==
  LET s == Sinit(1)
      lists == {[off |-> o, count |-> c, ids |-> {Id(TRUE, {1})}] :
                  o \in {1264, AcmPage - 16, U32Size - 8}, c \in {1, 177, U32Size \div 16, U32Size - 1}}
  IN  {[s EXCEPT !.len = l] : l \in {100, AcmPage + 4}}
      \cup {[s EXCEPT !.size = z, !.len = n] : z \in {0, 310, (AcmPage + U32Size) \div 4}, n \in {1240, AcmPage}}
      \cup {[s EXCEPT !.header_len = h, !.scratch_size = c] : h \in {161, 980, U32Size \div 4}, c \in {0, 143, U32Size - 1}}
      \cup {[s EXCEPT !.info.chipset_id_list = l] : l \in lists}
      \cup {[s EXCEPT !.info.processor_id_list = [l EXCEPT !.ids = {Proc({1}, {0})}]] : l \in lists}
      \cup {[s EXCEPT !.info.processor_id_list.ids = {p}] : p \in {Proc({1, 2}, {0}), Proc({1}, {})}}
      \cup {[s EXCEPT !.info.version = v, !.info.type = t, !.info.uuid = u] : v \in {2, 3, 6}, t \in {"SINIT", "BIOS"}, u \in BOOLEAN}
      \cup {[s EXCEPT !.seg_sel = x, !.gdt_limit = l] : x \in {0, 4, 8, 24, U32Size - 8}, l \in {15, 16, 31, 32}}
      \cup {[s EXCEPT !.entry_point = AcmPage], [s EXCEPT !.debug = TRUE], [s EXCEPT !.info.min_mle_hdr_ver = 2]}
      \cup {[s EXCEPT !.info.caps = c, !.info.os_sinit_data_ver = v] :
               c \in SUBSET {"getsec", "monitor", "no_legacy", "da"}, v \in 3 .. 8}
Parameters ==
  {<<[type |-> 0, value |-> 0]>>, <<[type |-> 6, value |-> 0], [type |-> 2, value |-> 64]>>,
   <<[type |-> 2, value |-> 64], [type |-> 0, value |-> 0]>>}

\* Sizes of the heap and of SINIT's data around those that just fit, and the BIOS's
\* data with all kinds of elements, good and bad.
HeapNames ==
  {[kind |-> "heap", version |-> s, size |-> n, given |-> [size |-> z, version |-> v], misc |-> x] :
     s \in 4 .. 8, n \in {14, 20, 21, 24, 26, 27, 40}, z \in {0, 3, 30}, v \in {5, 6}, x \in {1, 3, 6}}
HeapPlatform(x) ==
  [WithModule([Sinit(1) EXCEPT !.info.os_sinit_data_ver = x.version]) EXCEPT
     !.heap.size = x.size, !.given = x.given, !.misc[Bsp] = x.misc]
Elements ==
  {<<>>, <<END, 2>>, <<BIOS_SPEC_VER, 3, 1, END, 2>>, <<BIOS_SPEC_VER, 4, 1, 1, END, 2>>,
   <<ACM, 5, 2, 7, 9, END, 2>>, <<ACM, 4, 1, 0, END, 2>>, <<ACM, 4, 1, Addr4G, END, 2>>, <<ACM, 4, 2, 7, END, 2>>,
   <<CUSTOM, 3, 0, END, 2>>, <<CUSTOM, 2, END, 2>>, <<LOG_PTR_2, 2, END, 2>>, <<9, 0>>, <<9, 1>>, <<9, 2, END, 3>>,
   <<9, 2>>, <<LOG_PTR, 3, 5, END, 2>>}

CpuPlatform(x) ==
  [PlainPlatform EXCEPT
     !.cpu = [@ EXCEPT !.cd = x.cd, !.nw = x.nw, !.ne = x.ne, !.mc_valid = x.mc_valid, !.mcip = x.mcip],
     !.params = <<[type |-> 5, value |-> x.preserve], [type |-> 0, value |-> 0]>>]

Only == {<<"DMAR">>, <<"APIC", "DMAR">>, AllTables, <<"APIC">>}
Good == Rsdp(2, TRUE, AllTables, NoTables)
Acpis ==
  {Acpi(<<r>>) : r \in {Rsdp(v, l, x, y) : v \in {0, 2}, l \in BOOLEAN, x \in Only, y \in Only \cup {NoTables}}}
    \cup {Acpi(r) : r \in {<<>>, <<BadSum>>, <<BadSum, NoSlot>>, <<NoSlot, Good>>}}
    \cup {[Acpi(<<NoSlot>>) EXCEPT !.scopes = <<<<r>>, <<s>>>>] : r, s \in {BadSum, NoSlot, Good}}
    \cup {[Acpi(<<Good>>) EXCEPT !.madt = e] : e \in {<<>>, <<[ioapic |-> TRUE, length |-> 8]>>}}

\* The names carry what is varied.
VariedNames ==
  UNION {FittingNames, HeapNames, [kind : {"header"}, module : Headers],
     [kind : {"params"}, params : Parameters],
     [kind : {"fused"}, fsbif : {{TRUE}, {FALSE}}, qpiif : BOOLEAN],
     [kind : {"bios"}, version : {1, 3, 4, 5}, procs : {0, 1, NR_CPUS + 1}, elts : Elements],
     [kind : {"bare"}, base : {0, 1}, size : {0, 4, 40}, first : {0, 4, 5}],
     [kind : {"without"}, feature : Features \cup {"pe", "reset_sts"}],
     [kind : {"cpu"}, cd : BOOLEAN, nw : BOOLEAN, ne : BOOLEAN, mc_valid : BOOLEAN, mcip : BOOLEAN, preserve : BOOLEAN],
     [kind : {"mle"}, start : {0, AcmPage, AcmPage + 1}, size : {1, AcmPage, AcmPage + 1, 4 * AcmPage, 4 * AcmPage + 1}],
     [kind : {"acpi"}, acpi : Acpis]}

MCPlatform(x) ==
  CASE x.kind = "plain" ->
         [With(x.ioapic, x.mcfg) EXCEPT !.mods[2] = Sinit(x.pages),
            !.region = [@ EXCEPT !.base = x.base * AcmPage, !.size = (Pages4G - x.base) * AcmPage]]
    [] x.kind = "modules" -> ModulePlatform(x)
    [] x.kind = "header" -> WithModule(x.module)
    [] x.kind = "params" -> [PlainPlatform EXCEPT !.params = x.params]
    [] x.kind = "fused" -> [PlainPlatform EXCEPT !.fsbif = x.fsbif, !.qpiif = x.qpiif]
    [] x.kind = "heap" -> HeapPlatform(x)
    [] x.kind = "bios" -> [PlainPlatform EXCEPT !.mem = Heap(BiosData(x.version, x.procs, x.elts))]
    [] x.kind = "bare" -> [PlainPlatform EXCEPT !.heap = [base |-> x.base, size |-> x.size], !.mem[0] = x.first]
    [] x.kind = "without" ->
         [PlainPlatform EXCEPT !.cpu.features = @ \ {x.feature}, !.cpu.pe = x.feature # "pe",
                               !.cpu.reset_sts = (x.feature = "reset_sts")]
    [] x.kind = "cpu" -> CpuPlatform(x)
    [] x.kind = "mle" -> [PlainPlatform EXCEPT !.mle = [start |-> x.start, size |-> x.size]]
    [] OTHER -> [PlainPlatform EXCEPT !.acpi = x.acpi]

-----------------------------------------------------------------------------
(* Machines.                                                                 *)

MCMachines ==
  {[found |-> Plain, ap |-> Disabled, acmod |-> At(b, n), ioapic |-> i, mcfg |-> TRUE] :
     <<b, n>> \in {x \in (1 .. 7) \X (1 .. 6) : x[1] + x[2] <= 8}, i \in BOOLEAN} \cup
  {[found |-> State(TRUE, t, m, n, o), ap |-> Plain, acmod |-> At(2, 1), ioapic |-> TRUE, mcfg |-> c] :
     t \in {"UC", "WB"}, m \in Ranges({"UC", "WT", "WB", "WC"}),
     n \in Ranges({"UC", "WB", "WC"}), o \in Thirds, c \in BOOLEAN} \cup
  {[found |-> Disabled, ap |-> Plain, acmod |-> At(2, 1), ioapic |-> TRUE, mcfg |-> TRUE]}

\* The platform is the one that the machine needs; one machine meets all of them.
MCPlatformNames(m) ==
  {[kind |-> "plain", base |-> m.acmod.base, pages |-> m.acmod.pages, ioapic |-> m.ioapic, mcfg |-> m.mcfg]}
    \cup (IF m.found = Disabled THEN VariedNames ELSE {})

MCMmio == {At(5, 1)}
MCIoapic == At(4, 2)
MCMcfg == At(6, 1)
=============================================================================
