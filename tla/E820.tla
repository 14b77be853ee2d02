-------------------------------- MODULE E820 --------------------------------
(***************************************************************************)
(* The working copy of the memory map of src/arch-intel/e820.c: a table of *)
(* regions that copy_e820_map() builds from the loader's map, and that     *)
(* e820_protect_region(), e820_reserve_ram() and get_ram_ranges() change.  *)
(* Each function is one step: the map belongs to the boot processor.       *)
(*                                                                         *)
(* Addresses are 0 .. Top - 1; FourGB and OneMB are two of them.  The      *)
(* history variable mem says what each address is meant to be: the type    *)
(* of the last region laid over it, or GAP.                                *)
(***************************************************************************)
EXTENDS Integers, FiniteSets, FiniteSetsExt

CONSTANTS
  Top,          \* 2^64, scaled down
  FourGB, OneMB,
  MaxEntries,   \* MAX_E820_ENTRIES
  Types,        \* the types of the loader's regions
  MaxRegions,   \* bound on the regions in the loader's map
  MaxChanges,   \* bound on the changes made to the map afterwards
  MdrLengths,   \* the lengths of the memory ranges that SINIT reports
  AtFirst       \* may a region begin at or before the first one of the map?

RAM == 1
RESERVED == 2
GAP == 100
MIXED == 99

ASSUME E820Assumption ==
  /\ {Top, FourGB, OneMB, MaxEntries, MaxRegions} \subseteq Nat \ {0} /\ MaxChanges \in Nat
  /\ OneMB < FourGB /\ FourGB < Top
  /\ RAM \in Types /\ Types \subseteq 1 .. 5
  /\ AtFirst \in BOOLEAN

Addresses == 0 .. Top - 1

VARIABLES
  e,       \* g_copy_e820_map, g_nr_map, and whether the last call succeeded
  mem,     \* history: the type of each address
  phase,   \* "copy" while copy_e820_map() runs, "use", or "failed"
  count,   \* regions copied, and then changes made
  ranges   \* what get_ram_ranges() has last returned

vars == <<e, mem, phase, count, ranges>>

Region(b, l, t) == [base |-> b, length |-> l, type |-> t]
limit(r) == r.base + r.length
NoRanges == [min_lo |-> Top, max_lo |-> 0, min_hi |-> Top, max_hi |-> 0, valid |-> FALSE]

\* The table lies at a fixed address and is not cleared.
Init ==
  /\ \E junk \in {Region(0, 0, 0), Region(0, 1, RAM)} :
       e = [map |-> [i \in 0 .. MaxEntries |-> junk], nr |-> 0, ok |-> TRUE]
  /\ mem = [a \in Addresses |-> GAP]
  /\ phase = "copy" /\ count = 0
  /\ ranges = NoRanges

-----------------------------------------------------------------------------
(* The table.                                                                *)

Failed(t) == [t EXCEPT !.ok = FALSE]

InsertDropsLast(t, pos, r) ==
  IF t.nr + 1 > MaxEntries THEN Failed(t)
  ELSE [map |-> [i \in DOMAIN t.map |->
                  CASE i = pos + 1 -> r
                    [] pos # -1 /\ i \in pos + 2 .. t.nr - 1 -> t.map[i - 1]
                    [] OTHER -> t.map[i]],
        nr |-> t.nr + 1, ok |-> TRUE]

\* pos is unsigned: with -1 no entry is moved up, and entry 0 is overwritten.
insert_after_region(t, pos, r) ==
  IF t.nr + 1 > MaxEntries THEN Failed(t)
  ELSE [map |-> [i \in DOMAIN t.map |->
                  CASE i = pos + 1 -> r
                    [] pos # -1 /\ i \in pos + 2 .. t.nr -> t.map[i - 1]
                    [] OTHER -> t.map[i]],
        nr |-> t.nr + 1, ok |-> TRUE]

\* remove_region() for n entries in a row.
remove_regions(t, pos, n) ==
  [t EXCEPT !.map = [i \in DOMAIN t.map |->
                      IF i \in pos .. t.nr - n - 1 THEN t.map[i + n] ELSE t.map[i]],
            !.nr = t.nr - n]

SetLength(t, i, l) == [t EXCEPT !.map[i].length = l]

\* Entry i begins where region r ends.
CutBelow(t, i, r) ==
  [t EXCEPT !.map[i] = Region(limit(r), limit(t.map[i]) - limit(r), t.map[i].type)]

\* From entry i on: drop what region r covers, and cut what it overlaps.
Overlay(t, i, r) ==
  LET covered == {k \in i .. t.nr - 1 : \A j \in i .. k : limit(r) >= limit(t.map[j])}
      u == remove_regions(t, i, Cardinality(covered))
  IN  IF i < u.nr /\ limit(r) > u.map[i].base THEN CutBelow(u, i, r) ELSE u

protect_region(t, r) ==
  LET before(i) == t.map[i].base < r.base
      inside(i) == before(i) /\ r.base < limit(t.map[i])
      found == {i \in 0 .. t.nr - 1 : inside(i) \/ ~before(i)}
      i == Min(found)
      split == insert_after_region(t, i, r)
      both == insert_after_region(SetLength(split, i, r.base - t.map[i].base), i + 1, t.map[i])
      put == insert_after_region(t, i - 1, r)
  IN  CASE r.length = 0 -> [t EXCEPT !.ok = TRUE]
        [] r.length # 0 /\ limit(r) >= Top -> Failed(t)
        [] r.length # 0 /\ limit(r) < Top /\ found = {} -> insert_after_region(t, t.nr - 1, r)
        [] OTHER ->
             IF inside(i)
             THEN IF ~split.ok THEN split
                  ELSE IF ~both.ok THEN both
                  ELSE IF limit(r) < limit(both.map[i + 2])
                       THEN CutBelow(both, i + 2, r)
                       ELSE Overlay(both, i + 2, r)
             ELSE IF ~put.ok THEN put
                  ELSE IF r.base >= put.map[i + 1].base /\ limit(r) < limit(put.map[i + 1])
                       THEN CutBelow(put, i + 1, r)
                       ELSE Overlay(put, i + 1, r)

\* e820_reserve_ram(): the entries from i on, against the range of region r.
RECURSIVE ReserveFrom(_, _, _)
ReserveFrom(t, i, r) ==
  LET m == t.map[i]
      head == Region(m.base, limit(r) - m.base, RESERVED)
      middle == Region(r.base, r.length, RESERVED)
      tail == Region(r.base, limit(m) - r.base, RESERVED)
      rest == Region(limit(r), limit(m) - limit(r), m.type)
      short == SetLength(t, i, r.base - m.base)
  IN  IF i >= t.nr THEN t
      ELSE IF m.type # RAM \/ limit(r) <= m.base \/ r.base >= limit(m)
      THEN ReserveFrom(t, i + 1, r)
      ELSE IF r.base <= m.base /\ limit(m) <= limit(r)
      THEN ReserveFrom([t EXCEPT !.map[i].type = RESERVED], i + 1, r)
      ELSE IF r.base <= m.base
      THEN LET u == insert_after_region(t, i - 1, head)
           IN  IF u.ok THEN [u EXCEPT !.map[i + 1].base = limit(r),
                                      !.map[i + 1].length = limit(m) - limit(r)]
                       ELSE u
      ELSE IF limit(r) >= limit(m)
      THEN LET u == insert_after_region(short, i, tail)
           IN  IF u.ok THEN ReserveFrom(u, i + 2, r) ELSE u
      ELSE LET u == insert_after_region(short, i, middle)
           IN  IF u.ok THEN insert_after_region(u, i + 1, rest) ELSE u

reserve_ram(t, r) ==
  IF r.length = 0 THEN [t EXCEPT !.ok = TRUE] ELSE ReserveFrom([t EXCEPT !.ok = TRUE], 0, r)

\* verify_e820_map(): reserve what lies between the good MDRs, in order of base.
RECURSIVE ReserveGaps(_, _, _)
ReserveGaps(t, mdrs, base) ==
  IF mdrs = {} THEN reserve_ram(t, Region(base, Top - 1 - base, RESERVED))
  ELSE LET d == CHOOSE d \in mdrs : \A other \in mdrs : d.base <= other.base
           u == reserve_ram(t, Region(base, d.base - base, RESERVED))
       IN  IF u.ok THEN ReserveGaps(u, mdrs \ {d}, limit(d)) ELSE u

\* Reserved regions below 1 MB are ignored.
AboveOneMB(m) == limit(m) > OneMB

\* get_ram_ranges(): the entries from i on; found is found_reserved_region.
RECURSIVE RangesFrom(_, _, _, _)
RangesFrom(t, i, found, g) ==
  LET m == t.map[i]
      low == m.base < FourGB
      keep == ~found \/ m.base = 0
      u == IF ~keep /\ low THEN reserve_ram(t, Region(m.base, m.length, RESERVED)) ELSE t
      lo == IF keep THEN [g EXCEPT !.min_lo = IF low /\ m.base < @ THEN m.base ELSE @,
                                   !.max_lo = IF limit(m) <= FourGB /\ limit(m) > @
                                              THEN limit(m) ELSE @]
                    ELSE g
      hi == [lo EXCEPT !.min_hi = IF ~low /\ m.base < @ THEN m.base ELSE @,
                       !.max_hi = IF limit(m) > FourGB /\ limit(m) > @ THEN limit(m) ELSE @]
  IN  IF i >= t.nr THEN <<t, g>>
      ELSE IF m.type # RAM
      THEN RangesFrom(t, i + 1, found \/ (g.min_lo # Top /\ AboveOneMB(m)), g)
      ELSE IF (low /\ limit(m) > FourGB) \/ ~u.ok
      THEN <<Failed(u), g>>
      ELSE RangesFrom(u, i + 1, found, hi)

-----------------------------------------------------------------------------
(* What is read from the table.                                              *)

Smaller(x, y) == IF x < y THEN x ELSE y
Larger(x, y) == IF x < y THEN y ELSE x

OverlapOrTouch(base, end, e820_base, e820_end) ==
  Larger(end, e820_end) - Smaller(base, e820_base) <= (end - base) + (e820_end - e820_base)

is_overlapped(base, end, e820_base, e820_end) ==
  LET length == end - base
      e820_length == e820_end - e820_base
      span == Larger(end, e820_end) - Smaller(base, e820_base)
  IN  \/ span < length + e820_length
      \/ /\ span = length + e820_length
         /\ \/ length = 0 /\ base > e820_base /\ base < e820_end
            \/ e820_length = 0 /\ e820_base > base /\ e820_base < end

\* The types that a range meets, and how they are merged.
Merge(types) ==
  CASE types = {} -> 0
    [] GAP \in types -> GAP
    [] Cardinality(types) = 1 -> CHOOSE t \in types : TRUE
    [] OTHER -> MIXED

e820_check_region(base, length) ==
  LET end == base + length
      last(i) == IF i = 0 THEN 0 ELSE limit(e.map[i - 1])
      items == {i \in 0 .. e.nr - 1 :
                  e.map[i].length # 0 /\ is_overlapped(base, end, e.map[i].base, limit(e.map[i]))}
      gaps == {i \in 0 .. e.nr - 1 :
                 e.map[i].base # last(i) /\ is_overlapped(base, end, last(i), e.map[i].base)}
  IN  IF is_overlapped(base, end, last(e.nr), Top - 1) THEN GAP
      ELSE Merge({e.map[i].type : i \in items} \cup {GAP : i \in gaps})

\* The loop stops at the first RAM that reaches beyond lim.
get_highest_sized_ram(size, lim) ==
  LET ram == {i \in 0 .. e.nr - 1 : e.map[i].type = RAM}
      fits == {i \in ram : /\ size <= e.map[i].length
                           /\ \A k \in ram : k <= i => limit(e.map[k]) <= lim}
  IN  IF fits = {} THEN Region(0, 0, RAM) ELSE e.map[Max(fits)]

-----------------------------------------------------------------------------
(* The operations.                                                           *)

Covers(r, a) == r.base <= a /\ a < limit(r)
Laid(m, r) == [a \in Addresses |-> IF Covers(r, a) THEN r.type ELSE m[a]]
Lay(r) == Laid(mem, r)
WithoutRam(m, r) == [a \in Addresses |-> IF Covers(r, a) /\ m[a] = RAM THEN RESERVED ELSE m[a]]
OnlyRamOf(m, mdrs) ==
  [a \in Addresses |-> IF a # Top - 1 /\ m[a] = RAM /\ ~\E d \in mdrs : Covers(d, a)
                       THEN RESERVED ELSE m[a]]

BehindFirst(r) == AtFirst \/ e.nr = 0 \/ r.base > e.map[0].base

\* The result t of a call, after which addresses are meant to be as in m.
Result(t, m) ==
  /\ e' = t
  /\ mem' = IF t.ok THEN m ELSE mem
  /\ phase' = IF t.ok THEN phase ELSE "failed"

\* One turn of the loop of copy_e820_map().
CopyEntry(r) ==
  /\ phase = "copy" /\ count < MaxRegions /\ e.nr < MaxEntries
  /\ BehindFirst(r)
  /\ Result(protect_region(e, r), Lay(r))
  /\ count' = count + 1
  /\ UNCHANGED ranges

CopyDone ==
  /\ phase = "copy"
  /\ phase' = IF e.nr = MaxEntries THEN "failed" ELSE "use"
  /\ count' = 0
  /\ UNCHANGED <<e, mem, ranges>>

Change ==
  /\ phase = "use" /\ count < MaxChanges /\ count' = count + 1
  /\ ranges' = NoRanges

e820_protect_region(r) ==
  /\ Change /\ BehindFirst(r)
  /\ Result(protect_region(e, r), Lay(r))

\* The rest of a first entry that is reserved in part is what BehindFirst is
\* about; one that is reserved as a whole only changes its type.
e820_reserve_ram(r) ==
  /\ Change /\ (BehindFirst(r) \/ limit(r) >= limit(e.map[0]))
  /\ Result(reserve_ram(e, r), WithoutRam(mem, r))

verify_e820_map(mdrs) ==
  /\ Change /\ (AtFirst \/ \E d \in mdrs : Covers(d, e.map[0].base))
  /\ Result(ReserveGaps(e, mdrs, 0), OnlyRamOf(mem, mdrs))

\* The call of get_ram_ranges() on table t: the table it leaves, with whether it
\* succeeded, and the ranges.
ram_ranges(t) ==
  LET out == RangesFrom([t EXCEPT !.ok = TRUE], 0, FALSE, [NoRanges EXCEPT !.valid = TRUE])
      g == out[2]
      good == out[1].ok /\ g.min_lo < g.max_lo
      high == IF g.min_hi >= g.max_hi THEN [g EXCEPT !.min_hi = 0, !.max_hi = 0] ELSE g
  IN  [table |-> [out[1] EXCEPT !.ok = good], ranges |-> IF good THEN high ELSE NoRanges]

\* Low RAM above a region that is not RAM is given up.
WithoutLowRamAbove(m) ==
  LET above(a) == \E d \in OneMB .. a : /\ m[d] \notin {RAM, GAP}
                                        /\ \E b \in 0 .. d : m[b] = RAM
  IN  [a \in Addresses |-> IF m[a] = RAM /\ a < FourGB /\ above(a) THEN RESERVED ELSE m[a]]

get_ram_ranges ==
  /\ phase = "use" /\ count < MaxChanges /\ count' = count + 1
  /\ LET got == ram_ranges(e)
     IN  /\ Result(got.table, WithoutLowRamAbove(mem))
         /\ ranges' = got.ranges

Regions == {r \in [base : Addresses, length : 1 .. Top, type : Types] : limit(r) <= Top}
Mdrs == {S \in SUBSET {Region(b, l, RAM) : b \in {0, OneMB, FourGB}, l \in MdrLengths} :
           /\ S # {} /\ \A c, d \in S : c # d => limit(c) <= d.base \/ limit(d) <= c.base
           /\ \A d \in S : limit(d) < Top}

Next ==
  \/ \E r \in Regions : CopyEntry(r)
  \/ CopyDone
  \/ \E r \in Regions : r.type = RESERVED /\ e820_protect_region(r)
  \/ \E r \in Regions : r.type = RESERVED /\ limit(r) < Top /\ e820_reserve_ram(r)
  \/ \E S \in Mdrs : verify_e820_map(S)
  \/ get_ram_ranges

Spec == Init /\ [][Next]_vars

-----------------------------------------------------------------------------
(* Properties.                                                               *)

Entries == {e.map[i] : i \in 0 .. e.nr - 1}

\* As long as no call has failed, the table is sorted, its regions are disjoint,
\* and it gives every address the type of the last region laid over it: nothing
\* is lost when regions are split, cut, covered and removed.
TableAgrees ==
  phase # "failed" =>
    /\ \A i \in 1 .. e.nr - 1 : limit(e.map[i - 1]) <= e.map[i].base
    /\ \A a \in Addresses :
         LET over == {r \in Entries : Covers(r, a)}
         IN  IF over = {} THEN mem[a] = GAP ELSE \A r \in over : r.type = mem[a]

\* What the boot asks the table for is what is there: e820_check_region() sees every
\* gap and every type in a range, on both sides of every boundary;
\* get_highest_sized_ram() finds the highest region below a limit that is large enough,
\* although its loop stops early; and the ranges that get_ram_ranges() has VT-d protect
\* hold all RAM that is left, and no region above 1 MB that the firmware reserved.
QueriesExact ==
  /\ phase = "use" =>
       /\ \A base \in Addresses : \A length \in 1 .. Top - 1 - base :
            e820_check_region(base, length) = Merge({mem[a] : a \in base .. base + length - 1})
       /\ \A size \in 1 .. Top, lim \in Addresses :
            LET fits == {r \in Entries : r.type = RAM /\ r.length >= size /\ limit(r) <= lim}
                found == get_highest_sized_ram(size, lim)
            IN  IF fits = {} THEN found.length = 0
                ELSE found \in fits /\ \A r \in fits : found.base >= r.base
  /\ ranges.valid =>
       /\ \A a \in Addresses : mem[a] = RAM =>
            \/ a < FourGB /\ ranges.min_lo <= a /\ a < ranges.max_lo
            \/ a >= FourGB /\ ranges.min_hi <= a /\ a < ranges.max_hi
       /\ \A a \in ranges.min_lo .. ranges.max_lo - 1 : a >= OneMB => mem[a] \in {RAM, GAP}

==============================================================================
