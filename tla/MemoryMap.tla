----------------------------- MODULE MemoryMap -----------------------------
(***************************************************************************)
(* What a boot does with the memory map of E820, in the order of sable.c,  *)
(* txt.c and post_launch.c: before the launch the VT-d protected regions   *)
(* are computed from it; after the launch it is copied again, the regions  *)
(* are checked against it, and RAM that they leave out, the TXT regions    *)
(* and SABLE itself are reserved in it before the kernel gets it.          *)
(***************************************************************************)
EXTENDS E820, Sequences, SequencesExt

CONSTANTS
  TwoMB,       \* VT-d protected regions begin and end at multiples of it
  TxtRegions,  \* the TXT heap, SINIT and private spaces, in sequences of three
  TbootRegion  \* SABLE's image with its page table and the shared page

ASSUME MemoryMapAssumption == TwoMB \in Nat \ {0} /\ FourGB % TwoMB = 0

VARIABLES
  loader,  \* the loader's map, in its order
  pmr,     \* vtd_pmr_lo/hi_base and _size of the TXT heap's OsSinitData
  stage    \* how far the boot is

mapVars == <<e, mem, phase, count, ranges, loader, pmr, stage>>

RoundDown(x) == x - (x % TwoMB)

\* Bases and sizes are rounded down.
set_vtd_pmrs(g) ==
  LET lo == RoundDown(g.min_lo)
      hi == RoundDown(g.min_hi)
  IN  [lo_base |-> lo, lo_size |-> RoundDown(g.max_lo - lo),
       hi_base |-> hi, hi_size |-> RoundDown(g.max_hi - hi)]

NoPmrs == [lo_base |-> 0, lo_size |-> 0, hi_base |-> 0, hi_size |-> 0]

\* The RAM between the end of a protected region and the top of the range.
Delta(base, max) == Region(base, max - base, RESERVED)
NothingLow(p, g) == Delta(g.max_lo, g.max_lo)
LowDelta(p, g) == Delta(p.lo_base + p.lo_size, g.max_lo)
HighDelta(p, g) == Delta(p.hi_base + p.hi_size, g.max_hi)

reserve_vtd_delta_mem(t, p, g) ==
  LET low == reserve_ram(t, LowDelta(p, g))
  IN  IF low.ok THEN reserve_ram(low, HighDelta(p, g)) ELSE low

MapInit ==
  /\ Init
  /\ loader = <<>> /\ pmr = NoPmrs /\ stage = "before"

\* Calls in any order; a boot does not go on from a map that they have changed.
AnyChange ==
  /\ stage = "before"
  /\ \/ \E r \in Regions : CopyEntry(r) /\ loader' = Append(loader, r)
     \/ CopyDone /\ UNCHANGED loader
     \/ /\ \/ \E r \in Regions : r.type = RESERVED /\ e820_protect_region(r)
           \/ \E r \in Regions : r.type = RESERVED /\ limit(r) < Top /\ e820_reserve_ram(r)
           \/ \E S \in Mdrs : verify_e820_map(S)
           \/ get_ram_ranges
        /\ loader' = <<>>
  /\ UNCHANGED <<pmr, stage>>

\* The part of init_txt_heap() that reads the map; the launch stops if it fails.
init_txt_heap ==
  /\ stage = "before" /\ phase = "use" /\ count = 0
  /\ LET got == ram_ranges(e)
     IN  /\ Result(got.table, WithoutLowRamAbove(mem))
         /\ ranges' = got.ranges
         /\ IF got.table.ok THEN pmr' = set_vtd_pmrs(got.ranges) /\ stage' = "launch"
                            ELSE pmr' = pmr /\ stage' = "stopped"
  /\ UNCHANGED <<count, loader>>

\* post_launch() copies the loader's map anew, over what is in the table, and does
\* not look at the result.
post_launch ==
  /\ stage = "launch" /\ stage' = "verify"
  /\ e' = FoldLeft(LAMBDA t, r : IF t.ok /\ t.nr < MaxEntries THEN protect_region(t, r) ELSE t,
                   [e EXCEPT !.nr = 0, !.ok = TRUE], loader)
  /\ mem' = FoldLeft(Laid, [a \in Addresses |-> GAP], loader)
  /\ ranges' = NoRanges
  /\ UNCHANGED <<phase, count, loader, pmr>>

\* The regions are compared with what the ranges of before the reservation give;
\* txt_post_launch() stops if anything fails.
verify_vtd_pmrs ==
  /\ stage = "verify"
  /\ LET got == ram_ranges(e)
         g == got.ranges
         t == reserve_vtd_delta_mem(got.table, pmr, g)
     IN  IF ~got.table.ok
         THEN Result(got.table, mem) /\ stage' = "stopped"
         ELSE /\ Result(t, WithoutRam(WithoutRam(WithoutLowRamAbove(mem), LowDelta(pmr, g)), HighDelta(pmr, g)))
              /\ stage' = IF ~t.ok THEN "stopped"
                          ELSE IF set_vtd_pmrs(g) # pmr THEN "mismatch" ELSE "protect"
  /\ UNCHANGED <<count, ranges, loader, pmr>>

\* txt_protect_mem_regions(): it returns at the first call that fails.
txt_protect_mem_regions(t, regions, mdrs) ==
  LET u == FoldLeft(LAMBDA v, r : IF v.ok THEN protect_region(v, r) ELSE v, t, regions)
  IN  IF u.ok THEN ReserveGaps(u, mdrs, 0) ELSE u

\* replace_e820_map()
TableAsMap(t) == [i \in 1 .. t.nr |-> t.map[i - 1]]

\* intel_post_launch() goes on when a call fails; in the end the table takes the
\* place of the loader's map.
intel_post_launch(regions, mdrs) ==
  /\ stage = "protect" /\ stage' = "kernel"
  /\ \A r \in ToSet(regions) \cup {TbootRegion} : BehindFirst(r)
  /\ AtFirst \/ \E d \in mdrs : Covers(d, e.map[0].base)
  /\ LET t == txt_protect_mem_regions([e EXCEPT !.ok = TRUE], regions, mdrs)
         u == protect_region(t, TbootRegion)
     IN  /\ Result([u EXCEPT !.ok = t.ok /\ u.ok],
                   Laid(OnlyRamOf(FoldLeft(Laid, mem, regions), mdrs), TbootRegion))
         /\ loader' = TableAsMap(u)
  /\ UNCHANGED <<count, ranges, pmr>>

MapNext ==
  \/ AnyChange
  \/ init_txt_heap \/ post_launch \/ verify_vtd_pmrs
  \/ \E rs \in TxtRegions, S \in Mdrs : intel_post_launch(rs, S)

MapSpec == MapInit /\ [][MapNext]_mapVars

-----------------------------------------------------------------------------
(* Properties.                                                               *)

InPmr(a) ==
  \/ pmr.lo_base <= a /\ a < pmr.lo_base + pmr.lo_size
  \/ pmr.hi_base <= a /\ a < pmr.hi_base + pmr.hi_size

\* The kernel is given no RAM that VT-d leaves open to devices, and no boot stops
\* because the regions set before the launch differ from those the map gives after
\* it: set_vtd_pmrs() rounds down, reserve_vtd_delta_mem() takes the rest out of the
\* map, and no later change of the table, complete or failed, brings RAM back.
VtdProtected ==
  /\ stage # "mismatch"
  /\ stage \in {"protect", "kernel"} =>
       \A r \in Entries : r.type = RAM => \A a \in r.base .. limit(r) - 1 : InPmr(a)

=============================================================================
