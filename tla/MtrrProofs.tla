----------------------------- MODULE MtrrProofs -----------------------------
(***************************************************************************)
(* The memory types across an Intel launch, for every width of addresses,  *)
(* number of MTRRs and processors, region of SINIT, and MTRRs found.       *)
(*                                                                         *)
(* The invariant (LaunchInv) says what the MTRRs of each processor are by  *)
(* where it is.  While the BSP maps SINIT, the ranges so far cover exactly *)
(* the pages from its start up to the next one, and that one is a multiple *)
(* of the size of the next range, which is why a range that is as large    *)
(* as it can be is aligned (MappedTo, Remaining).  From save_mtrrs() on    *)
(* the copy is what was found, and a processor that restores has put back  *)
(* the MTRRs below its index and has MTRRs turned off.                     *)
(***************************************************************************)
EXTENDS TxtLaunchProofs

\* The types of what the MTRR code works on.
LaunchType ==
  /\ IsMachine(machine)
  /\ mtrr \in [Cpus -> MtrrStates]
  /\ pc \in [Cpus -> Labels] /\ \A c \in Aps : pc[c] \in {"asleep", "restore", "vars", "done"}
  /\ ndx \in [Cpus -> Nat]

\* What save_mtrrs() saves of s.
NumSaved == IF Vcnt > MAX_VARIABLE_MTRRS THEN MAX_VARIABLE_MTRRS ELSE Vcnt

Saved(s) == [num |-> NumSaved, e |-> s.e, type |-> s.type, var |-> [i \in 0 .. NumSaved - 1 |-> s.var[i]]]

\* The pages that SINIT_MTRR_MASK covers, and the regions of SINIT that verify_acmod()
\* accepts.
Pages36 == 0 .. Pow2[SinitBits] - 1

IsRegion(a) == a.base \in Nat \ {0} /\ a.pages \in Nat \ {0} /\ a.base + a.pages <= Pages4G

\* set_mem_type() has given the pages from the start of a up to p the type
\* write-back with the first n MTRRs.
MappedTo(s, n, a, p) ==
  /\ s.type = "UC"
  /\ \A i \in Ndxs : (s.var[i].v <=> i < n) /\ (i < n => s.var[i].type = "WB")
  /\ \A x \in Pages36 : (\E i \in Ndxs : Matches(s.var[i], x)) <=> x \in a.base .. p - 1

\* The size of the next range.
RangeSize(a, l) ==
  IF l.pages >= mtrr_s(a.base) THEN mtrr_s(a.base) ELSE FloorPower(l.pages)

\* The pages that set_mem_type() has not yet mapped: the rest of a, which begins at a
\* multiple of the size of the next range.
Remaining(a, l) ==
  /\ l.base \in Nat /\ l.pages \in Nat
  /\ a.base <= l.base /\ l.base + l.pages = a.base + a.pages
  /\ l.pages > 0 => l.base % RangeSize(a, l) = 0

\* The MTRRs of the BSP by where it is.
BspMtrrs ==
  LET s == mtrr[Bsp]
      a == machine.acmod
  IN  /\ pc[Bsp] # "asleep"
      /\ pc[Bsp] \in {"sinit", "platform", "environment", "save", "disable"} => s = machine.found
      /\ pc[Bsp] \in {"sinit", "platform", "environment", "save", "disable", "clear"} =>
           ndx[Bsp] = 0 /\ left = a
      /\ pc[Bsp] \notin {"sinit", "hang"} => IsRegion(a)
      /\ pc[Bsp] \in {"clear", "map", "vars"} => s.e = FALSE
      /\ pc[Bsp] = "map" => ndx[Bsp] < Vcnt /\ MappedTo(s, ndx[Bsp], a, left.base) /\ Remaining(a, left)
      /\ pc[Bsp] \in {"senter", "verify", "wakeup", "refused", "heap refused", "restore"} =>
           cacheOn /\ s.e = TRUE /\ MappedTo(s, ndx[Bsp], a, a.base + a.pages)
      /\ pc[Bsp] = "hang" => s.e = FALSE \/ s = machine.found

\* What has been saved, and validated.
SavedMtrrs ==
  /\ pc[Bsp] \notin {"sinit", "platform", "environment", "save", "hang"} => saved = Saved(machine.found)
  /\ pc[Bsp] \in {"wakeup", "restore", "vars", "done"} => Valid(saved, machine)
  /\ pc[Bsp] = "refused" => ~Valid(saved, machine)

\* The processors that put back what has been saved.
RestoredMtrrs ==
  /\ \A c \in Aps :
       /\ pc[c] \in {"asleep", "restore"} => mtrr[c] = machine.ap
       /\ pc[c] # "asleep" => pc[Bsp] \in {"wakeup", "restore", "vars", "done"}
  /\ \A c \in Cpus :
       /\ pc[c] = "vars" =>
            /\ mtrr[c].e = FALSE /\ ndx[c] <= NumSaved
            /\ \A i \in Ndxs : i < ndx[c] => mtrr[c].var[i] = machine.found.var[i]
       /\ pc[c] = "done" =>
            /\ mtrr[c].e = machine.found.e /\ mtrr[c].type = machine.found.type
            /\ \A i \in Ndxs : i < NumSaved => mtrr[c].var[i] = machine.found.var[i]

\* The inductive invariant.
LaunchInv == LaunchType /\ BspMtrrs /\ SavedMtrrs /\ RestoredMtrrs

\* The pages of a module that verify_acmod() accepts.
LEMMA AcmodRegion ==
  ASSUME NEW p, IsPlatform(p), NEW s, s = copy_sinit(FoundSinit(p.mods, p), p), s # NoModule,
         AcmodAligned(s)
  PROVE  IsRegion([base |-> s.at \div AcmPage, pages |-> PageUp(Bytes(s))])
<1> DEFINE A == AcmPage
           B == Bytes(s)
           x == s.at
<1>1. /\ x \in Nat /\ x # 0 /\ x % A = 0 /\ B \in Nat /\ B # 0 /\ x + B <= U32Size
      /\ A \in Nat \ {0} /\ Pages4G \in Nat /\ Pages4G * A = U32Size
  <2>1. s.at = p.region.base /\ s.at # 0 /\ B \in Nat /\ B <= p.region.size
    BY CopiedSinit, Zenon
  <2>2. p.region.base \in Nat /\ p.region.size \in Nat /\ p.region.base + p.region.size <= U32Size
    BY Sizes DEF IsPlatform, U32Values
  <2>3. s.at % AcmPage = 0 /\ B # 0
    BY Zenon DEF AcmodAligned
  <2>4. QED
    BY <2>1, <2>2, <2>3, Sizes
<1> HIDE DEF A, B, x
<1>2. PICK q \in Nat : x = q * A
  BY <1>1, Multiple, Zenon
<1>3. x \div A = q /\ q # 0
  BY <1>1, <1>2
<1>4. PICK k \in Nat : Pages4G = q + k
  <2>1. ASSUME q > Pages4G PROVE FALSE
    <3>1. q * A >= Pages4G * A
      BY <1>1, <2>1
    <3>2. QED
      BY <1>1, <1>2, <3>1
  <2>2. Pages4G - q \in Nat
    BY <1>1, <2>1
  <2>3. QED
    BY <1>1, <2>2
<1>5. B <= k * A
  <2>1. (q + k) * A = q * A + k * A
    BY <1>1
  <2>2. QED
    BY <1>1, <1>2, <1>4, <2>1
<1> DEFINE u == B + A - 1
           v == u \div A
<1>6. u \in Nat /\ u >= A /\ u < (k + 1) * A
  <2>1. (k + 1) * A = k * A + A
    BY <1>1
  <2>2. QED
    BY <1>1, <1>5, <2>1
<1>7. v \in Nat /\ v >= 1 /\ v <= k
  <2>1. ASSUME NEW y \in Nat, NEW d \in Nat \ {0}, NEW j \in Nat, y >= d, y < (j + 1) * d
        PROVE  y \div d \in Nat /\ y \div d >= 1 /\ y \div d <= j
    BY <2>1
  <2> HIDE DEF u
  <2>2. QED
    BY <1>1, <1>6, <2>1, Zenon
<1>8. PageUp(B) = v
  BY Zenon DEF PageUp, A
<1> HIDE DEF v
<1>9. QED
  BY <1>1, <1>3, <1>4, <1>7, <1>8, SMTT(30) DEF IsRegion, A, B, x

-----------------------------------------------------------------------------
(* The ranges of set_mem_type().                                             *)
\* A power of two that is not larger divides what a larger one divides.
LEMMA DividesToo ==
  ASSUME NEW x \in Nat, NEW b \in 0 .. PhysBits, NEW c \in b .. PhysBits, x % Pow2[c] = 0
  PROVE  x % Pow2[b] = 0
<1>1. Pow2[b] \in Nat \ {0} /\ Pow2[c] \in Nat \ {0}
  BY Pow2Def, Widths
<1>2. PICK d \in Nat \ {0} : Pow2[c] = d * Pow2[b]
  BY Pow2Multiple, Zenon
<1>3. ASSUME NEW e \in Nat \ {0}, NEW f \in Nat \ {0}, e = d * f, x % e = 0 PROVE x % f = 0
  <2>1. PICK q \in Nat : x = q * e
    BY <1>3, Multiple, Zenon
  <2>2. x = (q * d) * f /\ q * d \in Nat
    BY <1>3, <2>1
  <2>3. \A r \in Nat : (r * f) % f = 0
    OBVIOUS
  <2>4. QED
    BY <2>2, <2>3, Zenon
<1>4. QED
  BY <1>1, <1>2, <1>3, Zenon

\* The next range is a power of two of pages, no more than are left, and starts at
\* a multiple of its size; what is left after it can be mapped in the same way.
LEMMA NextRange ==
  ASSUME NEW a, IsRegion(a), NEW l, Remaining(a, l), l.pages > 0
  PROVE  \E k \in 0 .. SinitBits : \E q \in Nat :
           /\ RangeSize(a, l) = Pow2[k] /\ l.base = q * Pow2[k]
           /\ Pow2[k] <= l.pages /\ l.base + Pow2[k] <= Pow2[SinitBits]
           /\ Remaining(a, [base |-> l.base + Pow2[k], pages |-> l.pages - Pow2[k]])
<1> DEFINE w == SinitBits
           s == mtrr_s(a.base)
<1>1. /\ l.base \in Nat /\ l.pages \in Nat /\ a.base <= l.base /\ l.base + l.pages = a.base + a.pages
      /\ l.base % RangeSize(a, l) = 0
  BY Zenon DEF Remaining
<1>2. /\ a.base \in Nat \ {0} /\ a.pages \in Nat \ {0} /\ a.base + a.pages <= Pow2[w] /\ Pow2[w] \in Nat
      /\ w \in 1 .. PhysBits
  <2>1. Pow2[w] \in Nat
    BY Pow2Def, Widths
  <2>2. QED
    BY <2>1, MtrrAssumption, Widths DEF IsRegion
<1>3. PICK sb \in 0 .. w - 1 : s = Pow2[sb]
  <2>1. a.base < Pow2[w]
    BY <1>2
  <2>2. QED
    BY <1>2, <2>1, MtrrSize, Zenon
<1>4. sb \in 0 .. w /\ sb \in 0 .. PhysBits /\ w \in 0 .. PhysBits
  BY <1>2, Widths
<1>5. s \in Nat \ {0} /\ s < Pow2[w]
  <2>1. sb < w
    BY <1>2, <1>3
  <2>2. QED
    BY <1>3, <1>4, <2>1, Pow2Def, Pow2Grows
<1> HIDE DEF s

\* The size of a range for fewer pages than s.
<1>6. ASSUME NEW n \in Nat \ {0}, n < s
      PROVE  \E b \in 0 .. w : FloorPower(n) = Pow2[b] /\ Pow2[b] <= n /\ n < 2 * Pow2[b] /\ b < sb
  <2>1. n < Pow2[w]
    BY <1>2, <1>5, <1>6
  <2>2. PICK b \in 0 .. w - 1 : FloorPower(n) = Pow2[b] /\ Pow2[b] <= n /\ n < 2 * Pow2[b]
    BY <1>4, <2>1, FloorPowerIs
  <2>3. b \in 0 .. w /\ b \in 0 .. PhysBits
    BY <1>2, Widths
  <2>4. Pow2[b] < Pow2[sb]
    BY <1>3, <1>4, <1>6, <2>2, <2>3, Pow2Def
  <2>5. b < sb
    BY <1>4, <2>3, <2>4, Pow2Grows, Zenon
  <2>6. QED
    BY <2>2, <2>3, <2>5, Zenon
<1>7. PICK k \in 0 .. w :
        /\ RangeSize(a, l) = Pow2[k] /\ Pow2[k] <= l.pages
        /\ \/ k = sb
           \/ k < sb /\ l.pages < 2 * Pow2[k]
  <2>1. CASE l.pages >= s
    <3>1. RangeSize(a, l) = Pow2[sb]
      BY <1>3, <2>1, Zenon DEF RangeSize, s
    <3>2. Pow2[sb] <= l.pages
      BY <1>1, <1>3, <1>5, <2>1, Zenon
    <3>3. QED
      BY <1>4, <3>1, <3>2, Zenon
  <2>2. CASE ~ (l.pages >= s)
    <3>1. l.pages \in Nat \ {0} /\ l.pages < s
      BY <1>1, <1>5, <2>2
    <3>2. PICK b \in 0 .. w : FloorPower(l.pages) = Pow2[b] /\ Pow2[b] <= l.pages /\ l.pages < 2 * Pow2[b] /\ b < sb
      BY <1>6, <3>1, Zenon
    <3>3. RangeSize(a, l) = Pow2[b]
      BY <2>2, <3>2, Zenon DEF RangeSize, s
    <3>4. QED
      BY <3>2, <3>3, Zenon
  <2>3. QED
    BY <2>1, <2>2, Zenon
<1>8. k \in 0 .. PhysBits /\ Pow2[k] \in Nat \ {0}
  BY <1>2, Pow2Def, Widths
<1>9. PICK q \in Nat : l.base = q * Pow2[k]
  <2>1. l.base % Pow2[k] = 0
    BY <1>1, <1>7, Zenon
  <2>2. QED
    BY <1>1, <1>8, <2>1, Multiple, Zenon
<1>10. l.base + Pow2[k] <= Pow2[w]
  BY <1>1, <1>2, <1>7, <1>8, SMTT(30)
<1> DEFINE r == [base |-> l.base + Pow2[k], pages |-> l.pages - Pow2[k]]
<1>11. r.base \in Nat /\ r.pages \in Nat /\ a.base <= r.base /\ r.base + r.pages = a.base + a.pages
       /\ r.base = l.base + Pow2[k] /\ r.pages = l.pages - Pow2[k]
  BY <1>1, <1>2, <1>7, <1>8
<1> HIDE DEF r
<1>12. r.base % Pow2[k] = 0
  <2>1. r.base = (q + 1) * Pow2[k] /\ q + 1 \in Nat
    BY <1>8, <1>9, <1>11
  <2>2. \A j \in Nat : (j * Pow2[k]) % Pow2[k] = 0
    BY <1>8
  <2>3. QED
    BY <2>1, <2>2, Zenon
<1>13. ASSUME r.pages > 0 PROVE r.base % RangeSize(a, r) = 0
  <2>1. CASE r.pages >= s
    <3>1. k = sb
      <4>1. ASSUME k < sb, l.pages < 2 * Pow2[k] PROVE FALSE
        <5>1. 2 * Pow2[k] <= Pow2[sb]
          BY <1>4, <1>8, <4>1, Pow2Grows
        <5>2. QED
          BY <1>1, <1>3, <1>5, <1>8, <1>11, <2>1, <4>1, <5>1, SMTT(30)
      <4>2. QED
        BY <1>7, <4>1, Zenon
    <3>2. RangeSize(a, r) = Pow2[k]
      BY <1>3, <2>1, <3>1, Zenon DEF RangeSize, s
    <3>3. QED
      BY <1>12, <3>2, Zenon
  <2>2. CASE ~ (r.pages >= s)
    <3>1. r.pages \in Nat \ {0} /\ r.pages < s
      BY <1>5, <1>11, <1>13, <2>2
    <3>2. PICK b \in 0 .. w : FloorPower(r.pages) = Pow2[b] /\ Pow2[b] <= r.pages /\ b < sb
      BY <1>6, <3>1, Zenon
    <3>3. RangeSize(a, r) = Pow2[b]
      BY <2>2, <3>2, Zenon DEF RangeSize, s
    <3>4. b \in 0 .. PhysBits /\ Pow2[b] \in Nat
      BY <1>2, Pow2Def, Widths
    <3>5. b <= k
      <4>1. CASE k = sb
        BY <1>4, <3>2, <3>4, <4>1
      <4>2. CASE l.pages < 2 * Pow2[k]
        <5>1. Pow2[b] < Pow2[k]
          BY <1>1, <1>8, <1>11, <3>2, <3>4, <4>2, SMTT(30)
        <5>2. QED
          BY <1>8, <3>4, <5>1, Pow2Grows
      <4>3. QED
        BY <1>7, <4>1, <4>2, Zenon
    <3>6. k \in b .. PhysBits
      BY <1>8, <3>4, <3>5
    <3>7. r.base % Pow2[b] = 0
      BY <1>11, <1>12, <3>4, <3>6, DividesToo
    <3>8. QED
      BY <3>3, <3>7, Zenon
  <2>3. QED
    BY <2>1, <2>2, Zenon
<1>14. Remaining(a, r)
  BY <1>11, <1>13, Zenon DEF Remaining
<1>15. QED
  BY <1>7, <1>9, <1>10, <1>14 DEF r
\* The range that starts at x and has n pages.
RangeAt(x, n) ==
  [v |-> TRUE, type |-> "WB", base |-> {b \in Bits(x) : b < SinitBits},
   mask |-> {b \in 0 .. SinitBits - 1 : Pow2[b] >= n}]

\* What MapRange writes is a legal MTRR.
LEMMA RangeIsVar ==
  ASSUME NEW x, NEW n
  PROVE  RangeAt(x, n) \in Vars
<1>1. 0 .. SinitBits - 1 \subseteq AllBits /\ Bits(x) \subseteq AllBits
  BY Widths DEF AllBits, Bits
<1>2. QED
  BY <1>1, Zenon DEF RangeAt, Vars, Types

\* Setting the next MTRR for the next range.
LEMMA MapsRange ==
  ASSUME NEW a, IsRegion(a), NEW l, Remaining(a, l), l.pages > 0,
         NEW s \in MtrrStates, NEW n \in Ndxs, MappedTo(s, n, a, l.base)
  PROVE  LET k == RangeSize(a, l)
             t == [s EXCEPT !.var[n] = RangeAt(l.base, k)]
             r == [base |-> l.base + k, pages |-> l.pages - k]
         IN  t \in MtrrStates /\ t.e = s.e /\ MappedTo(t, n + 1, a, r.base) /\ Remaining(a, r)
<1>1. PICK k \in 0 .. SinitBits, q \in Nat :
        /\ RangeSize(a, l) = Pow2[k] /\ l.base = q * Pow2[k]
        /\ Pow2[k] <= l.pages /\ l.base + Pow2[k] <= Pow2[SinitBits]
        /\ Remaining(a, [base |-> l.base + Pow2[k], pages |-> l.pages - Pow2[k]])
  BY NextRange, Zenon
<1> DEFINE d == Pow2[k]
           m == RangeAt(l.base, d)
           t == [s EXCEPT !.var[n] = m]
           p == l.base + d
           k1 == n + 1
<1>2. t \in MtrrStates /\ t.e = s.e /\ t.type = s.type /\ t.var = [s.var EXCEPT ![n] = m]
  <2>1. m \in Vars
    BY RangeIsVar, Zenon
  <2> HIDE DEF m
  <2>2. QED
    BY <2>1, Zenon DEF MtrrStates
<1>3. t.var[n] = m /\ \A i \in Ndxs : i # n => t.var[i] = s.var[i]
  <2> HIDE DEF m, t
  <2>1. QED
    BY <1>2, Zenon DEF MtrrStates
<1>4. d \in Nat \ {0} /\ l.base \in Nat /\ Pow2[SinitBits] \in Nat /\ a.base \in Nat /\ a.base <= l.base
  BY Pow2Def, Widths DEF Remaining, IsRegion
<1>5. ASSUME NEW x \in Pages36 PROVE Matches(m, x) <=> x \in l.base .. l.base + d - 1
  <2>1. q * Pow2[k] < Pow2[SinitBits]
    BY <1>1, <1>4
  <2>2. m.v = TRUE /\ m.base = {b \in Bits(q * Pow2[k]) : b < SinitBits}
        /\ m.mask = {b \in 0 .. SinitBits - 1 : Pow2[b] >= Pow2[k]}
    BY <1>1, Zenon DEF RangeAt
  <2>3. x \in 0 .. Pow2[SinitBits] - 1
    BY Zenon DEF Pages36
  <2> HIDE DEF m
  <2>4. Matches(m, x) <=> x \in q * Pow2[k] .. q * Pow2[k] + Pow2[k] - 1
    BY <2>1, <2>2, <2>3, RangeMatches, Zenon
  <2>5. QED
    BY <1>1, <2>4, Zenon
<1>6. n \in Nat /\ Vcnt \in Nat /\ s.var[n].v = FALSE
  <2>1. n \in Nat /\ Vcnt \in Nat
    BY MtrrAssumption DEF Ndxs
  <2>2. s.var[n].v <=> n < n
    BY Zenon DEF MappedTo
  <2>3. s.var[n].v \in BOOLEAN
    BY Zenon DEF MtrrStates, Vars
  <2>4. QED
    BY <2>1, <2>2, <2>3
<1>7. ASSUME NEW x \in Pages36
      PROVE  (\E i \in Ndxs : Matches(t.var[i], x)) <=> x \in a.base .. p - 1
  <2>1. (\E i \in Ndxs : Matches(s.var[i], x)) <=> x \in a.base .. l.base - 1
    BY Zenon DEF MappedTo
  <2>2. ~Matches(s.var[n], x)
    BY <1>6, Zenon DEF Matches
  <2>3. (\E i \in Ndxs : Matches(t.var[i], x)) <=> (\E i \in Ndxs : Matches(s.var[i], x)) \/ Matches(m, x)
    <3> HIDE DEF m, t
    <3>1. QED
      BY <1>3, <2>2, Zenon
  <2>4. x \in Nat
    BY <1>4 DEF Pages36
  <2>5. QED
    BY <1>4, <1>5, <2>1, <2>3, <2>4
<1>8. ASSUME NEW i \in Ndxs PROVE (t.var[i].v <=> i < k1) /\ (i < k1 => t.var[i].type = "WB")
  <2>1. (s.var[i].v <=> i < n) /\ (i < n => s.var[i].type = "WB")
    BY Zenon DEF MappedTo
  <2>2. m.v = TRUE /\ m.type = "WB"
    BY Zenon DEF RangeAt
  <2>3. i \in Nat
    BY <1>6 DEF Ndxs
  <2> HIDE DEF m, t
  <2>4. CASE i = n
    BY <1>3, <1>6, <2>2, <2>4, SMTT(30)
  <2>5. CASE i # n
    <3>1. i < n + 1 <=> i < n
      BY <1>6, <2>3, <2>5
    <3>2. t.var[i] = s.var[i]
      BY <1>3, <2>5, Zenon
    <3>3. QED
      BY <2>1, <3>1, <3>2, SMTT(30)
  <2>6. QED
    BY <2>4, <2>5, Zenon
<1>9. MappedTo(t, n + 1, a, l.base + d)
  <2>1. t.type = "UC"
    BY <1>2, Zenon DEF MappedTo
  <2> HIDE DEF t, m, d, p, k1
  <2>2. \A x \in Pages36 : (\E i \in Ndxs : Matches(t.var[i], x)) <=> x \in a.base .. p - 1
    BY <1>7, Zenon
  <2>3. \A i \in Ndxs : (t.var[i].v <=> i < k1) /\ (i < k1 => t.var[i].type = "WB")
    BY <1>8, Zenon
  <2>5. MappedTo(t, k1, a, p)
    BY <2>1, <2>2, <2>3, Zenon DEF MappedTo
  <2>6. QED
    BY <2>5, Zenon DEF p, k1
<1>10. QED
  <2> HIDE DEF t, m
  <2>1. QED
    BY <1>1, <1>2, <1>9, Zenon DEF t, m

\* The first range starts at a multiple of its size.
LEMMA FirstRange ==
  ASSUME NEW a, IsRegion(a)
  PROVE  Remaining(a, a)
<1> DEFINE w == SinitBits
           s == mtrr_s(a.base)
<1>1. /\ a.base \in Nat \ {0} /\ a.pages \in Nat \ {0} /\ a.base + a.pages <= Pow2[w] /\ Pow2[w] \in Nat
      /\ w \in 1 .. PhysBits /\ w \in 0 .. PhysBits
  <2>1. Pow2[w] \in Nat
    BY Pow2Def, Widths
  <2>2. QED
    BY <2>1, MtrrAssumption, Widths, SMTT(30) DEF IsRegion
<1>2. PICK sb \in 0 .. w - 1 : s = Pow2[sb] /\ a.base % Pow2[sb] = 0
  <2>1. a.base < Pow2[w]
    BY <1>1
  <2>2. QED
    BY <1>1, <2>1, MtrrSize, Zenon
<1>3. sb \in 0 .. PhysBits /\ Pow2[sb] \in Nat
  BY <1>1, Pow2Def, Widths
<1> HIDE DEF s
<1>4. a.base % RangeSize(a, a) = 0
  <2>1. CASE a.pages >= s
    BY <1>2, <2>1, Zenon DEF RangeSize, s
  <2>2. CASE ~ (a.pages >= s)
    <3>1. a.pages < Pow2[sb] /\ a.pages < Pow2[w]
      BY <1>1, <1>2, <1>3, <2>2, SMTT(30)
    <3>2. PICK b \in 0 .. w - 1 : FloorPower(a.pages) = Pow2[b] /\ Pow2[b] <= a.pages
      BY <1>1, <3>1, FloorPowerIs, SMTT(30)
    <3>3. b \in 0 .. PhysBits /\ Pow2[b] \in Nat
      BY <1>1, Pow2Def, Widths, SMTT(30)
    <3>4. Pow2[b] < Pow2[sb]
      BY <1>1, <1>3, <3>1, <3>2, <3>3, SMTT(30)
    <3>5. b < sb
      BY <1>3, <3>3, <3>4, Pow2Grows, Zenon
    <3>6. sb \in b .. PhysBits
      BY <1>3, <3>3, <3>5, SMTT(30)
    <3>7. a.base % Pow2[b] = 0
      BY <1>1, <1>2, <3>3, <3>6, DividesToo, SMTT(30)
    <3>8. RangeSize(a, a) = Pow2[b]
      BY <2>2, <3>2, Zenon DEF RangeSize, s
    <3>9. QED
      BY <3>7, <3>8, Zenon
  <2>3. QED
    BY <2>1, <2>2, Zenon
<1>5. QED
  BY <1>1, <1>4, SMTT(30) DEF Remaining

\* All variable MTRRs off.
LEMMA ClearedMaps ==
  ASSUME NEW s \in MtrrStates, NEW t, t.type = "UC", t.var = [i \in Ndxs |-> [s.var[i] EXCEPT !.v = FALSE]],
         NEW a, IsRegion(a)
  PROVE  t.var \in [Ndxs -> Vars] /\ MappedTo(t, 0, a, a.base)
<1>1. \A i \in Ndxs : s.var[i] \in Vars
  BY Zenon DEF MtrrStates
<1>2. ASSUME NEW i \in Ndxs PROVE t.var[i] \in Vars /\ t.var[i].v = FALSE
  <2>1. t.var[i] = [s.var[i] EXCEPT !.v = FALSE]
    BY Zenon
  <2>2. \A m \in Vars : [m EXCEPT !.v = FALSE] \in Vars /\ [m EXCEPT !.v = FALSE].v = FALSE
    BY Zenon DEF Vars
  <2>3. QED
    BY <1>1, <2>1, <2>2, ZenonT(60)
<1>3. \A x : ~ \E i \in Ndxs : Matches(t.var[i], x)
  BY <1>2, Zenon DEF Matches
<1>4. \A i \in Ndxs : ~ (i < 0)
  BY MtrrAssumption DEF Ndxs
<1>5. \A x : x \notin a.base .. a.base - 1
  BY DEF IsRegion
<1>6. QED
  BY <1>2, <1>3, <1>4, <1>5, Zenon DEF MappedTo

\* LaunchInv holds at the start.
LEMMA InitLaunchInv ==
  ASSUME LaunchInit
  PROVE  LaunchInv
<1>1. PICK m \in Machines : \E n \in PlatformNames(m) :
        machine = [found |-> m.found, ap |-> m.ap, acmod |-> m.acmod, txt |-> n,
                   ioapic |-> get_acpi_ioapic_table(Platform(n).acpi, NoRsdp) = "found",
                   mcfg |-> get_acpi_mcfg_table(Platform(n).acpi, NoRsdp)]
  BY Zenon DEF LaunchInit
<1>2. PICK n \in PlatformNames(m) :
        machine = [found |-> m.found, ap |-> m.ap, acmod |-> m.acmod, txt |-> n,
                   ioapic |-> get_acpi_ioapic_table(Platform(n).acpi, NoRsdp) = "found",
                   mcfg |-> get_acpi_mcfg_table(Platform(n).acpi, NoRsdp)]
  BY <1>1, Zenon
<1>3. machine = [found |-> m.found, ap |-> m.ap, acmod |-> machine.acmod, txt |-> n,
                 ioapic |-> machine.ioapic, mcfg |-> machine.mcfg]
  BY <1>2, Zenon
<1>4. IsMachine(machine)
  BY <1>3, Zenon DEF IsMachine
<1>5. machine.found \in MtrrStates /\ machine.ap \in MtrrStates
  BY <1>4, PlatformFacts, Zenon
<1>6. /\ mtrr = [c \in Cpus |-> IF c = Bsp THEN machine.found ELSE machine.ap]
      /\ pc = [c \in Cpus |-> IF c = Bsp THEN "sinit" ELSE "asleep"]
      /\ ndx = [c \in Cpus |-> 0] /\ left = machine.acmod
  BY Zenon DEF LaunchInit
<1>7. LaunchType
  <2>1. mtrr \in [Cpus -> MtrrStates] /\ ndx \in [Cpus -> Nat]
    BY <1>5, <1>6, Zenon
  <2>2. pc \in [Cpus -> Labels]
    BY <1>6, Zenon DEF Labels
  <2>3. \A c \in Aps : pc[c] = "asleep"
    BY <1>6, BspIsNoAp, Zenon DEF Cpus
  <2>4. QED
    BY <1>4, <2>1, <2>2, <2>3, SMTT(30) DEF LaunchType
<1>8. pc[Bsp] = "sinit" /\ mtrr[Bsp] = machine.found /\ ndx[Bsp] = 0
      /\ \A c \in Aps : pc[c] = "asleep" /\ mtrr[c] = machine.ap
  BY <1>6, BspIsNoAp, Zenon DEF Cpus
<1>9. BspMtrrs
  BY <1>6, <1>8, Zenon DEF BspMtrrs
<1>10. SavedMtrrs
  BY <1>8, Zenon DEF SavedMtrrs
<1>11. RestoredMtrrs
  BY <1>8, BspIsNoAp, Zenon DEF RestoredMtrrs
<1>12. QED
  BY <1>7, <1>9, <1>10, <1>11, Zenon DEF LaunchInv

\* What a step of the BSP that leaves the other processors alone has to show.
BspStepOnly ==
  /\ \A c \in Aps : pc'[c] = pc[c] /\ mtrr'[c] = mtrr[c] /\ ndx'[c] = ndx[c]
  /\ machine'.found = machine.found /\ machine'.ap = machine.ap

\* The labels before the APs are woken.
Early == {"sinit", "platform", "environment", "save", "disable", "clear", "map", "senter", "verify"}

\* As long as the BSP is at one of them, every AP sleeps with the MTRRs it had.
LEMMA EarlyBsp ==
  ASSUME LaunchInv, BspStepOnly, pc[Bsp] \in Early, pc'[Bsp] \in Early \cup {"hang", "heap refused", "refused"}
  PROVE  RestoredMtrrs'
<1>1. \A c \in Aps : pc[c] = "asleep" /\ mtrr[c] = machine.ap
  BY Zenon DEF LaunchInv, LaunchType, RestoredMtrrs, Early
<1>2. \A c \in Aps : pc'[c] = "asleep" /\ mtrr'[c] = machine'.ap
  BY <1>1, Zenon DEF BspStepOnly
<1>3. pc'[Bsp] # "vars" /\ pc'[Bsp] # "done"
  BY Zenon DEF Early
<1>4. QED
  BY <1>2, <1>3, BspIsNoAp, Zenon DEF RestoredMtrrs

\* The steps before the MTRRs are touched.
LEMMA PrepareInv ==
  ASSUME LaunchInv, prepare_sinit_acm
  PROVE  LaunchInv'
<1> DEFINE s == copy_sinit(FoundSinit(platform.mods, platform), platform)
           a == [base |-> s.at \div AcmPage, pages |-> PageUp(Bytes(s))]
<1>1. pc[Bsp] = "sinit" /\ UNCHANGED <<mtrr, saved, ndx>> /\ pc \in [Cpus -> Labels] /\ IsMachine(machine)
  BY Zenon DEF prepare_sinit_acm, LaunchInv, LaunchType
<1>2. IsPlatform(platform)
  BY <1>1, PlatformFacts, Zenon DEF platform
<1>3. \/ /\ s # NoModule /\ verify_acmod(s, acm_max_size) /\ pc' = [pc EXCEPT ![Bsp] = "platform"]
         /\ machine' = [machine EXCEPT !.acmod = a] /\ left' = machine'.acmod
      \/ pc' = [pc EXCEPT ![Bsp] = "hang"] /\ machine' = machine /\ left' = left
  BY Zenon DEF prepare_sinit_acm, Go
<1>4. s # NoModule /\ verify_acmod(s, acm_max_size) => IsRegion(a)
  <2>1. ASSUME s # NoModule, AcmodAligned(s) PROVE IsRegion(a)
    BY <1>2, <2>1, AcmodRegion, SMTT(30)
  <2>2. QED
    BY <2>1, Zenon DEF verify_acmod
<1> HIDE DEF s, a
<1>5. DOMAIN machine = {"found", "ap", "acmod", "txt", "ioapic", "mcfg"}
  BY <1>1, PlatformFacts
<1>6. /\ machine'.found = machine.found /\ machine'.ap = machine.ap /\ IsMachine(machine')
      /\ left' = machine'.acmod
  <2>1. CASE machine' = [machine EXCEPT !.acmod = a] /\ left' = machine'.acmod
    <3>1. PICK m \in Machines : \E n \in PlatformNames(m) :
            machine = [found |-> m.found, ap |-> m.ap, acmod |-> machine.acmod, txt |-> n,
                       ioapic |-> machine.ioapic, mcfg |-> machine.mcfg]
      BY <1>1, Zenon DEF IsMachine
    <3>2. PICK n \in PlatformNames(m) :
            machine = [found |-> m.found, ap |-> m.ap, acmod |-> machine.acmod, txt |-> n,
                       ioapic |-> machine.ioapic, mcfg |-> machine.mcfg]
      BY <3>1, Zenon
    <3>3. machine' = [found |-> m.found, ap |-> m.ap, acmod |-> machine'.acmod, txt |-> n,
                      ioapic |-> machine'.ioapic, mcfg |-> machine'.mcfg]
      BY <2>1, <3>2
    <3>4. machine'.found = machine.found /\ machine'.ap = machine.ap
      BY <1>5, <2>1, Zenon
    <3>5. QED
      BY <2>1, <3>3, <3>4 DEF IsMachine
  <2>2. CASE machine' = machine /\ left' = left
    BY <1>1, <2>2, Zenon DEF LaunchInv, BspMtrrs
  <2>3. QED
    BY <1>3, <2>1, <2>2
<1>7. pc' \in [Cpus -> Labels] /\ pc'[Bsp] \in {"platform", "hang"} /\ \A c \in Aps : pc'[c] = pc[c]
  BY <1>1, <1>3, BspIsNoAp, Zenon DEF Labels, Cpus
<1>8. LaunchType'
  BY <1>1, <1>6, <1>7 DEF LaunchInv, LaunchType
<1>9. pc'[Bsp] = "platform" => IsRegion(machine'.acmod)
  <2>1. CASE pc' = [pc EXCEPT ![Bsp] = "hang"]
    BY <1>1, <2>1, BspIsNoAp
  <2>2. CASE machine' = [machine EXCEPT !.acmod = a] /\ IsRegion(a)
    <3>1. machine'.acmod = a
      BY <1>5, <2>2, Zenon
    <3>2. QED
      BY <2>2, <3>1, Zenon
  <2>3. QED
    BY <1>3, <1>4, <2>1, <2>2, SMTT(30)
<1>10. mtrr[Bsp] = machine.found /\ ndx[Bsp] = 0
  BY <1>1, Zenon DEF LaunchInv, BspMtrrs
<1>11. BspMtrrs'
  BY <1>1, <1>6, <1>7, <1>9, <1>10, Zenon DEF BspMtrrs
<1>12. SavedMtrrs'
  BY <1>7, Zenon DEF SavedMtrrs
<1>13. RestoredMtrrs'
  <2>1. BspStepOnly
    BY <1>1, <1>6, <1>7 DEF BspStepOnly
  <2>2. QED
    BY <1>1, <1>7, <2>1, EarlyBsp, Zenon DEF Early
<1>14. QED
  BY <1>8, <1>11, <1>12, <1>13 DEF LaunchInv

\* Steps that only move the BSP on, or stop it, before it saves its MTRRs.
LEMMA BeforeSaveInv ==
  ASSUME LaunchInv, UNCHANGED <<machine, mtrr, saved, ndx, left>>,
         \/ pc[Bsp] = "platform" /\ (Go(Bsp, "environment") \/ Go(Bsp, "hang"))
         \/ pc[Bsp] = "environment" /\ (Go(Bsp, "save") \/ Go(Bsp, "hang"))
  PROVE  LaunchInv'
<1>1. pc \in [Cpus -> Labels]
  BY Zenon DEF LaunchInv, LaunchType
<1>2. pc[Bsp] \in {"platform", "environment"} /\ pc'[Bsp] \in {"environment", "save", "hang"}
      /\ pc' \in [Cpus -> Labels] /\ \A c \in Aps : pc'[c] = pc[c]
  BY <1>1, BspIsNoAp, Zenon DEF Go, Cpus, Labels
<1>3. LaunchType'
  BY <1>2, Zenon DEF LaunchInv, LaunchType
<1>4. BspMtrrs'
  BY <1>2, Zenon DEF LaunchInv, BspMtrrs
<1>5. SavedMtrrs'
  BY <1>2, Zenon DEF SavedMtrrs
<1>6. RestoredMtrrs'
  <2>1. BspStepOnly
    BY <1>2, Zenon DEF BspStepOnly
  <2>2. QED
    BY <1>2, <2>1, EarlyBsp, Zenon DEF Early
<1>7. QED
  BY <1>3, <1>4, <1>5, <1>6 DEF LaunchInv

\* save_mtrrs()
LEMMA SaveInv ==
  ASSUME LaunchInv, save_mtrrs
  PROVE  LaunchInv'
<1>1. pc \in [Cpus -> Labels]
  BY Zenon DEF LaunchInv, LaunchType
<1>2. pc[Bsp] = "save" /\ pc'[Bsp] = "disable" /\ UNCHANGED <<machine, mtrr, ndx, left>>
      /\ pc' \in [Cpus -> Labels] /\ \A c \in Aps : pc'[c] = pc[c]
  BY <1>1, BspIsNoAp, Zenon DEF save_mtrrs, Go, Cpus, Labels
<1>3. saved' = Saved(mtrr[Bsp])
  BY Zenon DEF save_mtrrs, Saved, NumSaved
<1>4. mtrr[Bsp] = machine.found
  BY <1>2, Zenon DEF LaunchInv, BspMtrrs
<1>5. LaunchType'
  BY <1>2, Zenon DEF LaunchInv, LaunchType
<1>6. BspMtrrs'
  BY <1>2, Zenon DEF LaunchInv, BspMtrrs
<1>7. SavedMtrrs'
  BY <1>2, <1>3, <1>4 DEF SavedMtrrs
<1>8. RestoredMtrrs'
  <2>1. BspStepOnly
    BY <1>2, Zenon DEF BspStepOnly
  <2>2. QED
    BY <1>2, <2>1, EarlyBsp DEF Early
<1>9. QED
  BY <1>5, <1>6, <1>7, <1>8 DEF LaunchInv

\* A step of the BSP that changes its MTRRs to t, and goes from one label to another.
LEMMA BspTakes ==
  ASSUME LaunchInv, NEW t \in MtrrStates, NEW l \in Labels,
         mtrr' = [mtrr EXCEPT ![Bsp] = t], pc' = [pc EXCEPT ![Bsp] = l], ndx' \in [Cpus -> Nat],
         \A c \in Aps : ndx'[c] = ndx[c], UNCHANGED <<machine, saved>>
  PROVE  LaunchType' /\ BspStepOnly /\ pc'[Bsp] = l /\ mtrr'[Bsp] = t
<1>1. mtrr \in [Cpus -> MtrrStates] /\ pc \in [Cpus -> Labels] /\ IsMachine(machine)
      /\ \A c \in Aps : pc[c] \in {"asleep", "restore", "vars", "done"}
  BY Zenon DEF LaunchInv, LaunchType
<1>2. pc'[Bsp] = l /\ mtrr'[Bsp] = t /\ pc' \in [Cpus -> Labels] /\ mtrr' \in [Cpus -> MtrrStates]
  BY <1>1, BspIsNoAp
<1>3. \A c \in Aps : pc'[c] = pc[c] /\ mtrr'[c] = mtrr[c]
  BY <1>1, BspIsNoAp DEF Cpus
<1>4. QED
  BY <1>1, <1>2, <1>3 DEF LaunchType, BspStepOnly

\* Turning the MTRRs of a processor off or on.
LEMMA Enabling ==
  ASSUME mtrr \in [Cpus -> MtrrStates], NEW c \in Cpus, NEW b \in BOOLEAN, set_all_mtrrs(c, b)
  PROVE  \E t \in MtrrStates :
           mtrr' = [mtrr EXCEPT ![c] = t] /\ t.e = b /\ t.type = mtrr[c].type /\ t.var = mtrr[c].var
<1> DEFINE t == [mtrr[c] EXCEPT !.e = b]
<1>1. mtrr[c] \in MtrrStates
  BY Zenon
<1>2. t \in MtrrStates /\ t.e = b /\ t.type = mtrr[c].type /\ t.var = mtrr[c].var
  BY <1>1, Zenon DEF MtrrStates
<1>3. mtrr' = [mtrr EXCEPT ![c] = t]
  BY Zenon DEF set_all_mtrrs
<1>4. QED
  BY <1>2, <1>3, Zenon

\* set_mtrrs_for_acmod() turns the MTRRs off
LEMMA DisableInv ==
  ASSUME LaunchInv, set_mtrrs_for_acmod
  PROVE  LaunchInv'
<1>1. mtrr \in [Cpus -> MtrrStates] /\ ndx \in [Cpus -> Nat]
  BY Zenon DEF LaunchInv, LaunchType
<1>2. pc[Bsp] = "disable" /\ pc' = [pc EXCEPT ![Bsp] = "clear"] /\ UNCHANGED <<machine, saved, ndx, left>>
      /\ set_all_mtrrs(Bsp, FALSE)
  BY Zenon DEF set_mtrrs_for_acmod, Go
<1>3. PICK t \in MtrrStates : mtrr' = [mtrr EXCEPT ![Bsp] = t] /\ t.e = FALSE
  BY <1>1, <1>2, Enabling, BspIsNoAp, Zenon
<1>4. LaunchType' /\ BspStepOnly /\ pc'[Bsp] = "clear" /\ mtrr'[Bsp] = t
  <2>1. "clear" \in Labels
    BY Zenon DEF Labels
  <2>2. QED
    BY <1>1, <1>2, <1>3, <2>1, BspTakes, ZenonT(60)
<1>5. BspMtrrs'
  BY <1>2, <1>3, <1>4, ZenonT(60) DEF LaunchInv, BspMtrrs
<1>6. SavedMtrrs'
  BY <1>2, <1>4 DEF LaunchInv, SavedMtrrs
<1>7. RestoredMtrrs'
  BY <1>2, <1>4, EarlyBsp, ZenonT(60) DEF Early
<1>8. QED
  BY <1>4, <1>5, <1>6, <1>7, SMTT(30) DEF LaunchInv

\* ... makes all of them invalid
LEMMA ClearInv ==
  ASSUME LaunchInv, ClearAll
  PROVE  LaunchInv'
<1>1. mtrr \in [Cpus -> MtrrStates] /\ ndx \in [Cpus -> Nat] /\ Bsp \in Cpus
  BY BspIsNoAp, Zenon DEF LaunchInv, LaunchType
<1>2. pc[Bsp] = "clear" /\ pc' = [pc EXCEPT ![Bsp] = "map"] /\ UNCHANGED <<machine, saved, ndx, left>>
  BY Zenon DEF ClearAll, Go
<1> DEFINE s == mtrr[Bsp]
           t == [s EXCEPT !.type = "UC", !.var = [i \in Ndxs |-> [s.var[i] EXCEPT !.v = FALSE]]]
           a == machine.acmod
<1>3. mtrr' = [mtrr EXCEPT ![Bsp] = t]
  BY <1>1, Zenon DEF ClearAll
<1>4. s \in MtrrStates /\ s.e = FALSE /\ IsRegion(a) /\ left = a /\ ndx[Bsp] = 0
  BY <1>1, <1>2, Zenon DEF LaunchInv, BspMtrrs
<1>5. t.e = FALSE /\ t.type = "UC" /\ t.var = [i \in Ndxs |-> [s.var[i] EXCEPT !.v = FALSE]]
  BY <1>4, Zenon DEF MtrrStates
<1>6. t.var \in [Ndxs -> Vars] /\ MappedTo(t, 0, a, a.base)
  <2> HIDE DEF t, s
  <2>1. QED
    BY <1>4, <1>5, ClearedMaps, Zenon
<1>7. t \in MtrrStates
  BY <1>4, <1>6, Zenon DEF MtrrStates, Types
<1> HIDE DEF t
<1>8. LaunchType' /\ BspStepOnly /\ pc'[Bsp] = "map" /\ mtrr'[Bsp] = t
  <2>1. "map" \in Labels
    BY Zenon DEF Labels
  <2>2. QED
    BY <1>1, <1>2, <1>3, <1>7, <2>1, BspTakes, Zenon
<1>9. Remaining(a, a) /\ 0 < Vcnt
  BY <1>4, FirstRange, MtrrAssumption
<1>10. BspMtrrs'
  BY <1>2, <1>4, <1>5, <1>6, <1>8, <1>9, ZenonT(60) DEF BspMtrrs
<1>11. SavedMtrrs'
  BY <1>2, <1>8 DEF LaunchInv, SavedMtrrs
<1>12. RestoredMtrrs'
  BY <1>2, <1>8, EarlyBsp, Zenon DEF Early
<1>13. QED
  BY <1>8, <1>10, <1>11, <1>12, SMTT(30) DEF LaunchInv

\* ... maps one range after the other
LEMMA MapRangeInv ==
  ASSUME LaunchInv, MapRange
  PROVE  LaunchInv'
<1> DEFINE s == mtrr[Bsp]
           a == machine.acmod
           n == ndx[Bsp]
           k == RangeSize(a, left)
           t == [s EXCEPT !.var[n] = RangeAt(left.base, k)]
           l == IF n + 1 = Vcnt THEN "hang" ELSE "map"
<1>1. mtrr \in [Cpus -> MtrrStates] /\ ndx \in [Cpus -> Nat] /\ Bsp \in Cpus
  BY BspIsNoAp, Zenon DEF LaunchInv, LaunchType
<1>2. k = pages_in_range
  BY Zenon DEF RangeSize, pages_in_range
<1>3. pc[Bsp] = "map" /\ left.pages > 0 /\ pc' = [pc EXCEPT ![Bsp] = l] /\ UNCHANGED <<machine, saved>>
      /\ left' = [base |-> left.base + k, pages |-> left.pages - k]
      /\ ndx' = [ndx EXCEPT ![Bsp] = n + 1]
  BY <1>1, <1>2 DEF MapRange, Go
<1>4. mtrr' = [mtrr EXCEPT ![Bsp] = t]
  <2>1. RangeMtrr(k) = RangeAt(left.base, k)
    BY Zenon DEF RangeMtrr, RangeAt
  <2>2. QED
    BY <1>1, <1>2, <2>1 DEF MapRange
<1>5. s \in MtrrStates /\ s.e = FALSE /\ IsRegion(a) /\ Remaining(a, left) /\ n < Vcnt /\ MappedTo(s, n, a, left.base)
  BY <1>1, <1>3, SMTT(30) DEF LaunchInv, BspMtrrs
<1>6. n \in Ndxs /\ n \in Nat /\ Vcnt \in Nat
  BY <1>1, <1>5, MtrrAssumption DEF Ndxs
<1>7. t \in MtrrStates /\ t.e = s.e /\ MappedTo(t, n + 1, a, left.base + k)
      /\ Remaining(a, [base |-> left.base + k, pages |-> left.pages - k])
  <2> HIDE DEF s, a, n
  <2>1. QED
    BY <1>3, <1>5, <1>6, MapsRange, SMTT(30)
<1> HIDE DEF t, k
<1>8. l \in {"hang", "map"} /\ l \in Labels /\ (l = "map" => n + 1 < Vcnt)
  BY <1>5, <1>6 DEF Labels
<1> HIDE DEF l
<1>9. ndx' \in [Cpus -> Nat] /\ ndx'[Bsp] = n + 1 /\ \A c \in Aps : ndx'[c] = ndx[c]
  BY <1>1, <1>3, <1>6, BspIsNoAp DEF Cpus
<1>10. LaunchType' /\ BspStepOnly /\ pc'[Bsp] = l /\ mtrr'[Bsp] = t
  BY <1>3, <1>4, <1>7, <1>8, <1>9, BspTakes, Zenon
<1>11. BspMtrrs'
  <2>1. left'.base = left.base + k
    BY <1>3, Zenon
  <2>2. CASE l = "hang"
    BY <1>5, <1>7, <1>10, <2>2, SMTT(30) DEF BspMtrrs
  <2>3. CASE l = "map"
    BY <1>3, <1>5, <1>7, <1>8, <1>9, <1>10, <2>1, <2>3, ZenonT(60) DEF BspMtrrs
  <2>4. QED
    BY <1>8, <2>2, <2>3
<1>12. SavedMtrrs'
  BY <1>3, <1>8, <1>10, SMTT(30) DEF LaunchInv, SavedMtrrs
<1>13. RestoredMtrrs'
  BY <1>3, <1>8, <1>10, EarlyBsp, Zenon DEF Early
<1>14. QED
  BY <1>10, <1>11, <1>12, <1>13 DEF LaunchInv

\* ... and turns them on when no page is left.
LEMMA MappedInv ==
  ASSUME LaunchInv, Mapped
  PROVE  LaunchInv'
<1> DEFINE s == mtrr[Bsp]
           a == machine.acmod
<1>1. mtrr \in [Cpus -> MtrrStates] /\ ndx \in [Cpus -> Nat] /\ Bsp \in Cpus
  BY BspIsNoAp, Zenon DEF LaunchInv, LaunchType
<1>2. pc[Bsp] = "map" /\ left.pages = 0 /\ pc' = [pc EXCEPT ![Bsp] = "senter"]
      /\ UNCHANGED <<machine, saved, ndx, left>> /\ set_all_mtrrs(Bsp, TRUE) /\ cacheOn' = TRUE
  BY Zenon DEF Mapped, Go
<1>3. PICK t \in MtrrStates :
        mtrr' = [mtrr EXCEPT ![Bsp] = t] /\ t.e = TRUE /\ t.type = s.type /\ t.var = s.var
  BY <1>1, <1>2, Enabling, Zenon
<1>4. LaunchType' /\ BspStepOnly /\ pc'[Bsp] = "senter" /\ mtrr'[Bsp] = t
  <2>1. "senter" \in Labels
    BY Zenon DEF Labels
  <2>2. QED
    BY <1>1, <1>2, <1>3, <2>1, BspTakes, Zenon
<1>5. IsRegion(a) /\ MappedTo(s, ndx[Bsp], a, left.base) /\ Remaining(a, left)
  BY <1>2, Zenon DEF LaunchInv, BspMtrrs
<1>6. left.base = a.base + a.pages
  BY <1>2, <1>5, SMTT(30) DEF Remaining, IsRegion
<1>7. MappedTo(t, ndx[Bsp], a, a.base + a.pages)
  BY <1>3, <1>5, <1>6, SMTT(30) DEF MappedTo
<1>8. BspMtrrs'
  BY <1>2, <1>3, <1>4, <1>5, <1>7, ZenonT(60) DEF BspMtrrs
<1>9. SavedMtrrs'
  BY <1>2, <1>4 DEF LaunchInv, SavedMtrrs
<1>10. RestoredMtrrs'
  BY <1>2, <1>4, EarlyBsp, Zenon DEF Early
<1>11. QED
  BY <1>4, <1>8, <1>9, <1>10 DEF LaunchInv

\* Steps after the launch that leave the registers alone.
LEMMA AfterLaunchInv ==
  ASSUME LaunchInv, UNCHANGED <<machine, mtrr, saved, ndx, left, cacheOn>>,
         \/ pc[Bsp] = "senter" /\ Go(Bsp, "verify")
         \/ pc[Bsp] = "verify" /\ (Go(Bsp, "heap refused") \/ UNCHANGED pc)
         \/ pc[Bsp] = "verify" /\ ~Valid(saved, machine) /\ Go(Bsp, "refused")
  PROVE  LaunchInv'
<1>1. pc \in [Cpus -> Labels]
  BY Zenon DEF LaunchInv, LaunchType
<1>2. pc[Bsp] \in {"senter", "verify"} /\ pc'[Bsp] \in {"verify", "refused", "heap refused"}
      /\ pc' \in [Cpus -> Labels] /\ (\A c \in Aps : pc'[c] = pc[c])
      /\ (pc'[Bsp] = "refused" => ~Valid(saved, machine))
  BY <1>1, BspIsNoAp, Zenon DEF Go, Cpus, Labels
<1>3. LaunchType'
  BY <1>2, Zenon DEF LaunchInv, LaunchType
<1>4. BspMtrrs'
  BY <1>2, Zenon DEF LaunchInv, BspMtrrs
<1>5. SavedMtrrs'
  BY <1>2, Zenon DEF LaunchInv, SavedMtrrs
<1>6. RestoredMtrrs'
  <2>1. BspStepOnly
    BY <1>2, Zenon DEF BspStepOnly
  <2>2. QED
    BY <1>2, <2>1, EarlyBsp, Zenon DEF Early
<1>7. QED
  BY <1>3, <1>4, <1>5, <1>6, Zenon DEF LaunchInv

\* validate_mtrrs() as a predicate of what was saved.
LEMMA ValidIs == validate_mtrrs(saved) <=> Valid(saved, machine)
BY Zenon DEF validate_mtrrs, validate_mmio_regions, Valid

\* verify_saved_mtrrs() wakes the APs.
LEMMA WakeInv ==
  ASSUME LaunchInv, UNCHANGED <<machine, mtrr, saved, ndx, left, cacheOn>>, pc[Bsp] = "verify",
         Valid(saved, machine), pc' = [c \in Cpus |-> IF c = Bsp THEN "wakeup" ELSE "restore"]
  PROVE  LaunchInv'
<1>1. /\ pc' \in [Cpus -> Labels] /\ pc'[Bsp] = "wakeup" /\ (\A c \in Aps : pc'[c] = "restore")
  BY BspIsNoAp, Zenon DEF Cpus, Labels
<1>2. \A c \in Aps : pc[c] = "asleep" /\ mtrr[c] = machine.ap
  BY Zenon DEF LaunchInv, LaunchType, RestoredMtrrs
<1>3. LaunchType'
  BY <1>1, Zenon DEF LaunchInv, LaunchType
<1>4. BspMtrrs'
  BY <1>1, Zenon DEF LaunchInv, BspMtrrs
<1>5. SavedMtrrs'
  BY <1>1, Zenon DEF LaunchInv, SavedMtrrs
<1>6. RestoredMtrrs'
  BY <1>1, <1>2, BspIsNoAp DEF RestoredMtrrs
<1>7. QED
  BY <1>3, <1>4, <1>5, <1>6 DEF LaunchInv

\* The BSP goes on to restore its MTRRs while the APs restore theirs.
LEMMA WokenInv ==
  ASSUME LaunchInv, txt_wakeup_cpus
  PROVE  LaunchInv'
<1>1. pc \in [Cpus -> Labels]
  BY Zenon DEF LaunchInv, LaunchType
<1>2. /\ pc[Bsp] = "wakeup" /\ pc' \in [Cpus -> Labels] /\ pc'[Bsp] = "restore" /\ (\A c \in Aps : pc'[c] = pc[c])
      /\ UNCHANGED <<machine, mtrr, saved, ndx, left, cacheOn>>
  BY <1>1, BspIsNoAp, Zenon DEF txt_wakeup_cpus, Go, Cpus, Labels
<1>3. LaunchType'
  BY <1>2, Zenon DEF LaunchInv, LaunchType
<1>4. BspMtrrs'
  BY <1>2, Zenon DEF LaunchInv, BspMtrrs
<1>5. SavedMtrrs'
  BY <1>2, Zenon DEF LaunchInv, SavedMtrrs
<1>6. RestoredMtrrs'
  BY <1>2, BspIsNoAp DEF LaunchInv, RestoredMtrrs
<1>7. QED
  BY <1>3, <1>4, <1>5, <1>6 DEF LaunchInv

\* A step of restore_mtrrs() on processor c, which takes the MTRRs t and goes to
\* label l with the index k: what has to be shown of t.
LEMMA RestoreStep ==
  ASSUME LaunchInv, NEW c \in Cpus, pc[c] \in {"restore", "vars"}, NEW t \in MtrrStates,
         NEW l \in {"vars", "done"}, NEW k \in Nat,
         mtrr' = [mtrr EXCEPT ![c] = t], pc' = [pc EXCEPT ![c] = l], ndx' = [ndx EXCEPT ![c] = k],
         UNCHANGED <<machine, saved, left, cacheOn>>,
         l = "vars" => /\ t.e = FALSE /\ k <= NumSaved
                       /\ \A i \in Ndxs : i < k => t.var[i] = machine.found.var[i],
         l = "done" => /\ t.e = machine.found.e /\ t.type = machine.found.type
                       /\ \A i \in Ndxs : i < NumSaved => t.var[i] = machine.found.var[i]
  PROVE  LaunchInv'
<1>1. mtrr \in [Cpus -> MtrrStates] /\ pc \in [Cpus -> Labels] /\ ndx \in [Cpus -> Nat]
  BY Zenon DEF LaunchInv, LaunchType
<1>2. /\ pc' \in [Cpus -> Labels] /\ mtrr' \in [Cpus -> MtrrStates] /\ ndx' \in [Cpus -> Nat]
      /\ pc'[c] = l /\ mtrr'[c] = t /\ ndx'[c] = k
      /\ \A d \in Cpus : d # c => pc'[d] = pc[d] /\ mtrr'[d] = mtrr[d] /\ ndx'[d] = ndx[d]
  BY <1>1, Zenon DEF Labels
<1>3. Aps \subseteq Cpus /\ Bsp \in Cpus /\ Bsp \notin Aps
  BY BspIsNoAp, Zenon DEF Cpus
<1>4. pc[Bsp] \in {"wakeup", "restore", "vars", "done"} /\ pc'[Bsp] \in {"wakeup", "restore", "vars", "done"}
  <2>1. CASE c = Bsp
    BY <1>2, <2>1, SMTT(30)
  <2>2. CASE c # Bsp
    <3>1. c \in Aps
      BY <2>2, Zenon DEF Cpus
    <3>2. pc[Bsp] \in {"wakeup", "restore", "vars", "done"}
      BY <3>1, Zenon DEF LaunchInv, RestoredMtrrs
    <3>3. QED
      BY <1>2, <1>3, <2>2, <3>2, SMTT(30)
  <2>3. QED
    BY <2>1, <2>2, SMTT(30)
<1>5. LaunchType'
  <2>1. \A d \in Aps : pc[d] \in {"asleep", "restore", "vars", "done"}
    BY Zenon DEF LaunchInv, LaunchType
  <2>2. \A d \in Aps : pc'[d] \in {"asleep", "restore", "vars", "done"}
    BY <1>2, <1>3, <2>1
  <2>3. QED
    BY <1>2, <2>2, Zenon DEF LaunchInv, LaunchType
<1>6. BspMtrrs'
  <2>1. IsRegion(machine.acmod)
    BY <1>4, ZenonT(60) DEF LaunchInv, BspMtrrs
  <2>2. CASE c = Bsp
    BY <1>2, <2>1, <2>2, Zenon DEF BspMtrrs
  <2>3. CASE c # Bsp
    <3>1. pc'[Bsp] = pc[Bsp] /\ mtrr'[Bsp] = mtrr[Bsp] /\ ndx'[Bsp] = ndx[Bsp]
      BY <1>2, <1>3, <2>3, SMTT(30)
    <3>2. QED
      BY <3>1, ZenonT(60) DEF LaunchInv, BspMtrrs
  <2>4. QED
    BY <2>2, <2>3, Zenon
<1>7. SavedMtrrs'
  BY <1>4, ZenonT(60) DEF LaunchInv, SavedMtrrs
<1>8. RestoredMtrrs'
  <2>1. ASSUME NEW d \in Aps
        PROVE  /\ pc'[d] \in {"asleep", "restore"} => mtrr'[d] = machine'.ap
               /\ pc'[d] # "asleep" => pc'[Bsp] \in {"wakeup", "restore", "vars", "done"}
    <3>1. CASE d = c
      BY <1>2, <1>4, <3>1, Zenon
    <3>2. CASE d # c
      BY <1>2, <1>3, <1>4, <3>2 DEF LaunchInv, RestoredMtrrs
    <3>3. QED
      BY <3>1, <3>2, Zenon
  <2>2. ASSUME NEW d \in Cpus
        PROVE  /\ pc'[d] = "vars" =>
                    /\ mtrr'[d].e = FALSE /\ ndx'[d] <= NumSaved
                    /\ \A i \in Ndxs : i < ndx'[d] => mtrr'[d].var[i] = machine'.found.var[i]
               /\ pc'[d] = "done" =>
                    /\ mtrr'[d].e = machine'.found.e /\ mtrr'[d].type = machine'.found.type
                    /\ \A i \in Ndxs : i < NumSaved => mtrr'[d].var[i] = machine'.found.var[i]
    <3>1. CASE d = c
      BY <1>2, <3>1
    <3>2. CASE d # c
      BY <1>2, <3>2 DEF LaunchInv, RestoredMtrrs
    <3>3. QED
      BY <3>1, <3>2, ZenonT(60)
  <2>3. QED
    BY <2>1, <2>2, ZenonT(60) DEF RestoredMtrrs
<1>9. QED
  BY <1>5, <1>6, <1>7, <1>8, Zenon DEF LaunchInv

\* What a processor that is restoring restores, and from what.
LEMMA RestoresFound ==
  ASSUME LaunchInv, NEW c \in Cpus, pc[c] \in {"restore", "vars"}
  PROVE  /\ saved = Saved(machine.found) /\ machine.found \in MtrrStates /\ mtrr[c] \in MtrrStates /\ ndx[c] \in Nat
         /\ NumSaved \in Nat /\ NumSaved <= Vcnt
<1>1. pc[Bsp] \in {"wakeup", "restore", "vars", "done"}
  BY Zenon DEF LaunchInv, RestoredMtrrs, Cpus
<1>2. saved = Saved(machine.found)
  BY <1>1, Zenon DEF LaunchInv, SavedMtrrs
<1>3. machine.found \in MtrrStates
  BY PlatformFacts, Zenon DEF LaunchInv, LaunchType
<1>4. NumSaved \in Nat /\ NumSaved <= Vcnt
  BY MtrrAssumption, SMTT(30) DEF NumSaved
<1>5. QED
  BY <1>2, <1>3, <1>4, Zenon DEF LaunchInv, LaunchType

\* restore_mtrrs() turns the MTRRs of a processor off
LEMMA RestoreStartsInv ==
  ASSUME LaunchInv, NEW c \in Cpus, restore_mtrrs(c)
  PROVE  LaunchInv'
<1>1. /\ pc[c] = "restore" /\ pc' = [pc EXCEPT ![c] = "vars"] /\ ndx' = [ndx EXCEPT ![c] = 0]
      /\ set_all_mtrrs(c, FALSE) /\ UNCHANGED <<machine, saved, left, cacheOn>>
  BY Zenon DEF restore_mtrrs, Go
<1>2. mtrr \in [Cpus -> MtrrStates]
  BY Zenon DEF LaunchInv, LaunchType
<1>3. PICK t \in MtrrStates : mtrr' = [mtrr EXCEPT ![c] = t] /\ t.e = FALSE
  BY <1>1, <1>2, Enabling, ZenonT(60)
<1>4. 0 <= NumSaved /\ \A i \in Ndxs : ~(i < 0)
  BY <1>1, RestoresFound, MtrrAssumption DEF Ndxs
<1>5. QED
  BY <1>1, <1>3, <1>4, RestoreStep, Zenon

\* ... puts one variable MTRR after the other back
LEMMA RestoreVarInv ==
  ASSUME LaunchInv, NEW c \in Cpus, RestoreVar(c)
  PROVE  LaunchInv'
<1> DEFINE s == mtrr[c]
           n == ndx[c]
           f == machine.found
           t == [s EXCEPT !.var[n] = f.var[n]]
<1>1. /\ pc[c] = "vars" /\ n < saved.num /\ UNCHANGED <<machine, saved, pc, left, cacheOn>>
      /\ mtrr' = [mtrr EXCEPT ![c].var[n] = saved.var[n]] /\ ndx' = [ndx EXCEPT ![c] = n + 1]
  BY Zenon DEF RestoreVar
<1>2. /\ saved = Saved(f) /\ f \in MtrrStates /\ s \in MtrrStates /\ n \in Nat /\ NumSaved \in Nat /\ NumSaved <= Vcnt
      /\ pc \in [Cpus -> Labels]
  BY <1>1, RestoresFound, Zenon DEF LaunchInv, LaunchType
<1>3. n < NumSaved /\ saved.var[n] = f.var[n]
  <2>1. n < NumSaved
    BY <1>1, <1>2, Zenon DEF Saved
  <2>2. n \in 0 .. NumSaved - 1
    BY <1>2, <2>1
  <2>3. saved.var = [i \in 0 .. NumSaved - 1 |-> f.var[i]]
    BY <1>2, Zenon DEF Saved
  <2>4. QED
    BY <2>1, <2>2, <2>3
<1>4. n \in Ndxs /\ \A i \in Ndxs : i \in Nat
  BY <1>2, <1>3, MtrrAssumption DEF Ndxs
<1>5. t \in MtrrStates /\ t.e = s.e /\ t.var = [s.var EXCEPT ![n] = f.var[n]]
  BY <1>2, <1>4, Zenon DEF MtrrStates
<1>6. mtrr' = [mtrr EXCEPT ![c] = t]
  BY <1>1, <1>3, Zenon
<1>7. s.e = FALSE /\ \A i \in Ndxs : i < n => s.var[i] = f.var[i]
  BY <1>1, Zenon DEF LaunchInv, RestoredMtrrs
<1>8. ASSUME NEW i \in Ndxs, i < n + 1 PROVE t.var[i] = f.var[i]
  <2>1. s.var \in [Ndxs -> Vars]
    BY <1>2, Zenon DEF MtrrStates
  <2>2. CASE i = n
    BY <1>4, <1>5, <2>1, <2>2, SMTT(30)
  <2>3. CASE i # n
    BY <1>2, <1>4, <1>5, <1>7, <1>8, <2>1, <2>3, SMTT(30)
  <2>4. QED
    BY <2>2, <2>3, Zenon
<1>9. pc' = [pc EXCEPT ![c] = "vars"] /\ n + 1 <= NumSaved /\ n + 1 \in Nat
  BY <1>1, <1>2, <1>3, SMTT(30)
<1> HIDE DEF t, n, s
<1>10. t.e = FALSE
  BY <1>5, <1>7
<1>11. ndx' = [ndx EXCEPT ![c] = n + 1] /\ UNCHANGED <<machine, saved, left, cacheOn>>
  BY <1>1, Zenon
<1> DEFINE k == n + 1
<1>12. \A i \in Ndxs : i < k => t.var[i] = machine.found.var[i]
  BY <1>8, Zenon
<1> HIDE DEF k
<1>13. pc[c] = "vars" /\ k \in Nat /\ k <= NumSaved /\ ndx' = [ndx EXCEPT ![c] = k]
  BY <1>1, <1>9, <1>11, SMTT(30) DEF k
<1>14. QED
  BY <1>5, <1>6, <1>9, <1>10, <1>11, <1>12, <1>13, RestoreStep, Zenon

\* ... and at last the default type and the enable flag.
LEMMA RestoreLastInv ==
  ASSUME LaunchInv, NEW c \in Cpus, RestoreDefType(c)
  PROVE  LaunchInv'
<1> DEFINE s == mtrr[c]
           n == ndx[c]
           f == machine.found
           t == [s EXCEPT !.e = f.e, !.type = f.type]
<1>1. /\ pc[c] = "vars" /\ n = saved.num /\ pc' = [pc EXCEPT ![c] = "done"] /\ UNCHANGED <<machine, saved, ndx, left, cacheOn>>
      /\ mtrr' = [mtrr EXCEPT ![c].e = saved.e, ![c].type = saved.type]
  BY Zenon DEF RestoreDefType, Go
<1>2. saved = Saved(f) /\ f \in MtrrStates /\ s \in MtrrStates /\ n \in Nat
  BY <1>1, RestoresFound, Zenon
<1>3. saved.e = f.e /\ saved.type = f.type /\ n = NumSaved
  BY <1>1, <1>2, Zenon DEF Saved
<1>4. t \in MtrrStates /\ t.e = f.e /\ t.type = f.type /\ t.var = s.var
  BY <1>2, Zenon DEF MtrrStates
<1>5. mtrr' = [mtrr EXCEPT ![c] = t]
  <2>1. mtrr \in [Cpus -> MtrrStates] /\ s \in MtrrStates
    BY <1>2, Zenon DEF LaunchInv, LaunchType
  <2>2. QED
    BY <1>1, <1>3, <2>1, Zenon
<1>6. \A i \in Ndxs : i < NumSaved => s.var[i] = f.var[i]
  BY <1>1, <1>3, Zenon DEF LaunchInv, RestoredMtrrs
<1>7. ndx' = [ndx EXCEPT ![c] = n]
  BY <1>1, Zenon DEF LaunchInv, LaunchType
<1> HIDE DEF t, s, n
<1>8. \A i \in Ndxs : i < NumSaved => t.var[i] = machine.found.var[i]
  BY <1>4, <1>6, Zenon
<1>9. t.e = machine.found.e /\ t.type = machine.found.type /\ t \in MtrrStates /\ n \in Nat
  BY <1>2, <1>4, Zenon
<1>10. pc[c] = "vars" /\ pc' = [pc EXCEPT ![c] = "done"] /\ UNCHANGED <<machine, saved, left, cacheOn>>
  BY <1>1, Zenon
<1>11. QED
  BY <1>5, <1>7, <1>8, <1>9, <1>10, RestoreStep, Zenon

\* LaunchInv is kept by every step.
LEMMA StepLaunchInv ==
  ASSUME LaunchInv, [LaunchNext]_<<vars, launchVars>>
  PROVE  LaunchInv'
<1>1. CASE prepare_sinit_acm
  BY <1>1, PrepareInv, Zenon
<1>2. CASE platform_pre_checks
  <2>1. /\ UNCHANGED <<machine, mtrr, saved, ndx, left>> /\ pc[Bsp] = "platform"
        /\ Go(Bsp, "environment") \/ Go(Bsp, "hang")
    BY <1>2, Zenon DEF platform_pre_checks
  <2>2. QED
    BY <2>1, BeforeSaveInv, Zenon
<1>3. CASE txt_launch_environment
  <2>1. /\ UNCHANGED <<machine, mtrr, saved, ndx, left>> /\ pc[Bsp] = "environment"
        /\ Go(Bsp, "save") \/ Go(Bsp, "hang")
    BY <1>3, Zenon DEF txt_launch_environment
  <2>2. QED
    BY <2>1, BeforeSaveInv, Zenon
<1>4. CASE MtrrBefore
  BY <1>4, SaveInv, DisableInv, ClearInv, MapRangeInv, MappedInv, SMTT(30) DEF MtrrBefore
<1>5. CASE Senter
  BY <1>5, AfterLaunchInv, Zenon DEF Senter, __getsec_senter
<1>6. CASE verify_heap
  BY <1>6, AfterLaunchInv, Zenon DEF verify_heap
<1>7. CASE verify_platform
  BY <1>7, AfterLaunchInv, WakeInv, ValidIs, Zenon DEF verify_platform, verify_saved_mtrrs
<1>8. CASE WakeAndRestoreMisc
  BY <1>8, WokenInv, Zenon DEF WakeAndRestoreMisc
<1>9. CASE \E c \in Cpus : RestoreMtrr(c) \/ RestoreLast(c)
  BY <1>9, RestoreStartsInv, RestoreVarInv, RestoreLastInv, SMTT(30) DEF RestoreMtrr, RestoreLast
<1>10. CASE UNCHANGED <<vars, launchVars>>
  <2>1. UNCHANGED <<machine, mtrr, saved, pc, ndx, left, cacheOn>>
    BY <1>10, Zenon DEF vars
  <2>2. QED
    BY <2>1, ZenonT(60) DEF LaunchInv, LaunchType, BspMtrrs, SavedMtrrs, RestoredMtrrs
<1>11. QED
  BY <1>1, <1>2, <1>3, <1>4, <1>5, <1>6, <1>7, <1>8, <1>9, <1>10, SMTT(30) DEF LaunchNext

\* LaunchInv of every execution.
THEOREM LaunchInvAlways == LaunchSpec => []LaunchInv
<1>1. LaunchInit => LaunchInv
  BY InitLaunchInv, Zenon
<1>2. LaunchInv /\ [LaunchNext]_<<vars, launchVars>> => LaunchInv'
  BY StepLaunchInv, Zenon
<1>3. QED
  BY <1>1, <1>2, PTL DEF LaunchSpec

\* The types of the pages once set_mem_type() has mapped all of the module.
LEMMA MappedTypes ==
  ASSUME NEW s \in MtrrStates, NEW n, NEW a, IsRegion(a), s.e = TRUE,
         MappedTo(s, n, a, a.base + a.pages), NEW p \in Pages36
  PROVE  MemoryType(s, p) = IF p \in a.base .. a.base + a.pages - 1 THEN "WB" ELSE "UC"
<1>1. IsState(s)
  BY Zenon DEF MtrrStates, IsState
<1>2. (\E i \in Ndxs : Matches(s.var[i], p)) <=> p \in a.base .. a.base + a.pages - 1
  <2> DEFINE e == a.base + a.pages
  <2>1. MappedTo(s, n, a, e) /\ e \in Nat
    BY DEF IsRegion
  <2> HIDE DEF e
  <2>2. (\E i \in Ndxs : Matches(s.var[i], p)) <=> p \in a.base .. e - 1
    BY <2>1, Zenon DEF MappedTo
  <2>3. e = a.base + a.pages /\ a.base \in Nat /\ a.pages \in Nat
    BY Zenon DEF IsRegion, e
  <2>4. a.base .. e - 1 = a.base .. a.base + a.pages - 1
    BY <2>1, <2>3
  <2>5. QED
    BY <2>2, <2>4, Zenon
<1>3. ASSUME NEW i \in Ndxs, Matches(s.var[i], p) PROVE s.var[i].type = "WB"
  BY <1>3, Zenon DEF MappedTo, Matches
<1>4. Matching(s, p) = {i \in Ndxs : Matches(s.var[i], p)}
  BY <1>1, Zenon DEF Matching, IsState
<1>5. CASE p \in a.base .. a.base + a.pages - 1
  <2>1. TypesAt(s, p) = {"WB"}
    BY <1>2, <1>3, <1>4, <1>5 DEF TypesAt
  <2>2. "WB" \in Types
    BY Zenon DEF Types
  <2>3. QED
    BY <1>1, <1>5, <2>1, <2>2, MemoryTypeIs, Zenon
<1>6. CASE p \notin a.base .. a.base + a.pages - 1
  <2>1. TypesAt(s, p) = {}
    BY <1>2, <1>4, <1>6, Zenon DEF TypesAt
  <2>2. s.type = "UC"
    BY Zenon DEF MappedTo
  <2>3. QED
    BY <1>1, <1>6, <2>1, <2>2, MemoryTypeIs, Zenon
<1>7. QED
  BY <1>5, <1>6, Zenon

\* Where SINIT_MTRR_MASK reaches as far as the processor's addresses, these are all
\* pages.
LEMMA MappedForAcmod ==
  ASSUME SinitBits = PhysBits, NEW s \in MtrrStates, NEW n, s.e = TRUE, IsRegion(machine.acmod),
         MappedTo(s, n, machine.acmod, machine.acmod.base + machine.acmod.pages)
  PROVE  MemoryTypes(s) = ForAcmod
<1> DEFINE a == machine.acmod
<1>1. Pages36 = AllPages
  BY Zenon DEF Pages36, AllPages
<1>2. \A p \in AllPages : MemoryType(s, p) = IF p \in a.base .. a.base + a.pages - 1 THEN "WB" ELSE "UC"
  <2>1. MappedTo(s, n, a, a.base + a.pages) /\ IsRegion(a)
    BY Zenon
  <2> HIDE DEF a
  <2>2. QED
    BY <1>1, <2>1, MappedTypes, Zenon
<1>3. QED
  BY <1>2, Zenon DEF MemoryTypes, ForAcmod

\* A processor that is done has the MTRRs that the BSP was found with, and what was
\* saved of them has been validated.
LEMMA DoneIsFound ==
  ASSUME LaunchInv, Vcnt <= MAX_VARIABLE_MTRRS, NEW c \in Cpus, pc[c] = "done"
  PROVE  mtrr[c] = machine.found /\ Valid(saved, machine) /\ saved = Saved(machine.found)
<1>1. NumSaved = Vcnt /\ \A i \in Ndxs : i < NumSaved
  BY MtrrAssumption DEF NumSaved, Ndxs
<1>2. mtrr[c] \in MtrrStates /\ machine.found \in MtrrStates
  BY PlatformFacts, Zenon DEF LaunchInv, LaunchType
<1>3. /\ mtrr[c].e = machine.found.e /\ mtrr[c].type = machine.found.type
      /\ \A i \in Ndxs : mtrr[c].var[i] = machine.found.var[i]
  BY <1>1, Zenon DEF LaunchInv, RestoredMtrrs
<1>4. \A s, t \in MtrrStates :
        s.e = t.e /\ s.type = t.type /\ (\A i \in Ndxs : s.var[i] = t.var[i]) => s = t
  <2> SUFFICES ASSUME NEW s \in MtrrStates, NEW t \in MtrrStates, s.e = t.e, s.type = t.type,
                      \A i \in Ndxs : s.var[i] = t.var[i]
               PROVE  s = t
    BY Zenon
  <2>1. s.var \in [Ndxs -> Vars] /\ t.var \in [Ndxs -> Vars]
    BY Zenon DEF MtrrStates
  <2>2. s.var = t.var
    BY <2>1
  <2>3. s = [e |-> s.e, type |-> s.type, var |-> s.var] /\ t = [e |-> t.e, type |-> t.type, var |-> t.var]
    BY Zenon DEF MtrrStates
  <2>4. QED
    BY <2>2, <2>3
<1>5. pc[Bsp] \in {"wakeup", "restore", "vars", "done"}
  BY Zenon DEF LaunchInv, RestoredMtrrs, Cpus
<1>6. QED
  BY <1>2, <1>3, <1>4, <1>5, SMTT(30) DEF LaunchInv, SavedMtrrs

\* What has been saved gives the pages the types that they had.
LEMMA SavedTypes ==
  ASSUME Vcnt <= MAX_VARIABLE_MTRRS, NEW f \in MtrrStates
  PROVE  /\ IsState(Saved(f)) /\ Saved(f).e = f.e /\ Saved(f).var = f.var /\ Saved(f).num = Vcnt
         /\ \A p : MemoryType(Saved(f), p) = MemoryType(f, p)
<1> DEFINE s == Saved(f)
<1>1. NumSaved = Vcnt /\ 0 .. NumSaved - 1 = Ndxs
  BY MtrrAssumption DEF NumSaved, Ndxs
<1>2. s.e = f.e /\ s.type = f.type /\ s.var = [i \in 0 .. NumSaved - 1 |-> f.var[i]] /\ s.num = NumSaved
  BY Zenon DEF Saved
<1>3. f.e \in BOOLEAN /\ f.type \in Types /\ f.var \in [Ndxs -> Vars]
  BY Zenon DEF MtrrStates
<1> HIDE DEF s
<1>4. s.var = f.var
  BY <1>1, <1>2, <1>3, Zenon
<1>5. ASSUME NEW p PROVE MemoryType(s, p) = MemoryType(f, p)
  <2> DEFINE T(x) == {x.var[i].type : i \in {i \in DOMAIN x.var : Matches(x.var[i], p)}}
             C(x, t) == CASE ~x.e \/ "UC" \in t -> "UC"
                          [] x.e /\ t = {} -> x.type
                          [] x.e /\ t = {"WT", "WB"} -> "WT"
                          [] OTHER -> IF Single(t) THEN CHOOSE u \in t : TRUE ELSE "undefined"
  <2>1. MemoryType(s, p) = C(s, T(s)) /\ MemoryType(f, p) = C(f, T(f))
    BY Zenon DEF MemoryType
  <2>2. T(s) = T(f)
    BY <1>4, Zenon
  <2> HIDE DEF T
  <2>3. C(s, T(s)) = C(f, T(f))
    BY <1>2, <2>2
  <2>4. QED
    BY <2>1, <2>3
<1>6. QED
  BY <1>1, <1>2, <1>3, <1>4, <1>5, SMTT(30) DEF IsState, s

\* The devices whose registers validate_mmio_regions() looks at.
Devices(x) == MmioRegions \cup {Ioapic} \cup (IF x.mcfg THEN {Mcfg} ELSE {})

\* The registers of a device lie within the address space.
LEMMA DeviceFacts ==
  ASSUME NEW x, NEW r \in Devices(x)
  PROVE  r.base \in Nat /\ r.pages \in Nat \ {0} /\ r.base .. r.base + r.pages - 1 \subseteq AllPages
<1>1. r \in MmioRegions \cup {Ioapic, Mcfg}
  BY Zenon DEF Devices
<1>2. r.base \in Nat /\ r.pages \in Nat \ {0} /\ r.base + r.pages <= Pow2[PhysBits]
  BY <1>1, MtrrAssumption, Zenon
<1>3. Pow2[PhysBits] \in Nat
  BY Pow2Def, Widths
<1>4. QED
  BY <1>2, <1>3 DEF AllPages

\* What validate_mtrrs() has accepted gives every page a defined type, and makes the
\* registers of devices uncacheable.
LEMMA ValidSound ==
  ASSUME NEW s, IsState(s), NEW x, Valid(s, x)
  PROVE  \A r \in Devices(x) : \A p \in r.base .. r.base + r.pages - 1 : MemoryType(s, p) = "UC"
<1> SUFFICES ASSUME NEW r \in Devices(x)
             PROVE  \A p \in r.base .. r.base + r.pages - 1 : MemoryType(s, p) = "UC"
  BY Zenon
<1>1. CASE s.e = FALSE
  BY <1>1, MemoryTypeIs, Zenon
<1>2. CASE s.e = TRUE
  <2>1. get_region_type(s, r) = "UC"
    BY <1>2, Zenon DEF Valid, Devices
  <2>2. r.base \in Nat /\ r.pages \in Nat \ {0}
    BY DeviceFacts, ZenonT(60)
  <2>3. QED
    BY <2>1, <2>2, RegionUC
<1>3. QED
  BY <1>1, <1>2, Zenon DEF IsState

\* The types after the launch are those of before it.
LEMMA RestoredTypesHold ==
  ASSUME LaunchInv, Vcnt <= MAX_VARIABLE_MTRRS
  PROVE  RestoredTypes
<1> SUFFICES ASSUME NEW c \in Cpus, pc[c] = "done"
             PROVE  LET T == MemoryTypes(mtrr[c])
                    IN  /\ T = MemoryTypes(machine.found)
                        /\ \A p \in AllPages : T[p] # "undefined"
                        /\ \A r \in Devices(machine) : \A p \in r.base .. r.base + r.pages - 1 : T[p] = "UC"
  BY Zenon DEF RestoredTypes, Devices
<1> DEFINE f == machine.found
           T == MemoryTypes(f)
<1>1. mtrr[c] = f /\ Valid(Saved(f), machine) /\ f \in MtrrStates
  BY DoneIsFound, PlatformFacts, SMTT(30) DEF LaunchInv, LaunchType
<1>2. IsState(Saved(f)) /\ \A p : MemoryType(Saved(f), p) = MemoryType(f, p)
  BY <1>1, SavedTypes
<1>3. \A p \in AllPages : T[p] = MemoryType(Saved(f), p)
  BY <1>2, Zenon DEF MemoryTypes
<1>4. \A p \in AllPages : T[p] # "undefined"
  BY <1>1, <1>2, <1>3, ValidDefined, SMTT(30)
<1>5. ASSUME NEW r \in Devices(machine), NEW p \in r.base .. r.base + r.pages - 1 PROVE T[p] = "UC"
  <2>1. p \in AllPages
    BY DeviceFacts, Zenon
  <2>2. MemoryType(Saved(f), p) = "UC"
    BY <1>1, <1>2, ValidSound, SMTT(30)
  <2>3. QED
    BY <1>3, <2>1, <2>2
<1>6. QED
  BY <1>1, <1>4, <1>5

\* What validate_mtrrs() refuses has a reason that can be stated on pages.
LEMMA RefusedForCauseHolds ==
  ASSUME LaunchInv, Vcnt <= MAX_VARIABLE_MTRRS
  PROVE  RefusedForCause
<1> SUFFICES ASSUME pc[Bsp] = "refused" PROVE RefusedForCause
  BY Zenon DEF RefusedForCause
<1> DEFINE f == machine.found
           s == Saved(f)
           valid == {f.var[i] : i \in {i \in Ndxs : f.var[i].v}}
           uc == {PagesOf(m) : m \in {m \in valid : m.type = "UC"}}
           gap(P) == \E p, q \in P : \E x \in p .. q : x \notin P
           Cause ==
             \/ \E m \in valid : gap(PagesOf(m))
             \/ \E m, n \in valid :
                  /\ PagesOf(m) \cap PagesOf(n) # {} /\ ~Compatible(m.type, n.type)
                  /\ ~ \E P \in uc : PagesOf(m) \subseteq P \/ PagesOf(n) \subseteq P
             \/ \E r \in Devices(machine) :
                  \/ r.base + r.pages >= Pages4G
                  \/ \E p \in r.base .. r.base + r.pages - 1 : MemoryType(f, p) # "UC"
             \/ ~machine.ioapic
<1>1. f \in MtrrStates /\ saved = s /\ ~Valid(s, machine)
  BY PlatformFacts, Zenon DEF LaunchInv, LaunchType, SavedMtrrs
<1>2. /\ IsState(s) /\ s.e = f.e /\ s.var = f.var /\ s.num = Vcnt
      /\ \A p : MemoryType(s, p) = MemoryType(f, p)
  BY <1>1, SavedTypes, Zenon
<1>3. f.var \in [Ndxs -> Vars]
  BY <1>1, Zenon DEF MtrrStates
<1> HIDE DEF s
<1>4. \A m \in valid : m \in Vars /\ m.v = TRUE
  BY <1>3, Zenon DEF Vars
<1>5. \/ \E m \in valid : ~Contiguous(m)
      \/ ~OverlapsAllowed(valid)
      \/ \E r \in Devices(machine) : get_region_type(s, r) # "UC"
      \/ ~machine.ioapic
  <2>1. {s.var[i] : i \in {i \in DOMAIN s.var : s.var[i].v}} = valid
    BY <1>2, <1>3, Zenon
  <2> DEFINE V == {s.var[i] : i \in {i \in DOMAIN s.var : s.var[i].v}}
  <2>2. Vcnt >= s.num
    BY <1>2, MtrrAssumption, SMTT(30)
  <2>3. \/ \E m \in V : ~Contiguous(m)
        \/ ~OverlapsAllowed(V)
        \/ \E r \in Devices(machine) : get_region_type(s, r) # "UC"
        \/ ~machine.ioapic
    <3> SUFFICES ASSUME \A m \in V : Contiguous(m), OverlapsAllowed(V), machine.ioapic,
                        \A r \in Devices(machine) : get_region_type(s, r) = "UC"
                 PROVE  FALSE
      BY Zenon
    <3>1. \A r \in MmioRegions : get_region_type(s, r) = "UC"
      BY Zenon DEF Devices
    <3>2. get_region_type(s, Ioapic) = "UC" /\ (machine.mcfg => get_region_type(s, Mcfg) = "UC")
      BY Zenon DEF Devices
    <3>3. QED
      BY <1>1, <2>2, <3>1, <3>2 DEF Valid
  <2> HIDE DEF V, valid
  <2>4. V = valid
    BY <2>1, Zenon DEF V
  <2>5. QED
    BY <2>3, <2>4, Zenon
<1>6. CASE \E m \in valid : ~Contiguous(m)
  <2>1. PICK m \in valid : ~Contiguous(m)
    BY <1>6, Zenon
  <2>2. m \in Vars /\ m.v = TRUE
    BY <1>4, Zenon
  <2>3. gap(PagesOf(m))
    BY <2>1, <2>2, NotContiguousGap, Zenon
  <2>4. QED
    BY <2>3, Zenon DEF RefusedForCause, Devices
<1>7. CASE ~OverlapsAllowed(valid)
  <2>1. PICK m \in valid, n \in valid :
          /\ Overlap(m, n) /\ ~Compatible(m.type, n.type)
          /\ ~ \E u \in valid : u.type = "UC" /\ (Contains(u, m) \/ Contains(u, n))
    BY <1>7, Zenon DEF OverlapsAllowed
  <2>2. m \in Vars /\ m.v = TRUE /\ n \in Vars /\ n.v = TRUE
    BY <1>4, Zenon
  <2>3. PagesOf(m) \cap PagesOf(n) # {}
    BY <2>1, <2>2, OverlapShared, Zenon
  <2>4. ASSUME NEW P \in uc, PagesOf(m) \subseteq P \/ PagesOf(n) \subseteq P PROVE FALSE
    <3>1. PICK u \in valid : u.type = "UC" /\ P = PagesOf(u)
      BY Zenon
    <3>2. u \in Vars
      BY <1>4, Zenon
    <3>3. Contains(u, m) \/ Contains(u, n)
      BY <2>2, <2>4, <3>1, <3>2, SubsetContains, Zenon
    <3>4. QED
      BY <2>1, <3>1, <3>3
  <2>5. \E a, b \in valid :
          /\ PagesOf(a) \cap PagesOf(b) # {} /\ ~Compatible(a.type, b.type)
          /\ ~ \E P \in uc : PagesOf(a) \subseteq P \/ PagesOf(b) \subseteq P
    <3> HIDE DEF valid, uc
    <3>1. QED
      BY <2>1, <2>3, <2>4
  <2>6. QED
    BY <2>5, Zenon DEF RefusedForCause, Devices
<1>8. CASE \E r \in Devices(machine) : get_region_type(s, r) # "UC"
  <2>1. PICK r \in Devices(machine) : get_region_type(s, r) # "UC"
    BY <1>8, Zenon
  <2>2. r.base \in Nat /\ r.pages \in Nat \ {0}
    BY DeviceFacts, Zenon
  <2>3. r.base + r.pages >= Pages4G \/ \E p \in r.base .. r.base + r.pages - 1 : MemoryType(s, p) # "UC"
    BY <1>2, <2>1, <2>2, RegionUC, SMTT(30)
  <2>4. r.base + r.pages >= Pages4G \/ \E p \in r.base .. r.base + r.pages - 1 : MemoryType(f, p) # "UC"
    BY <1>2, <2>3
  <2>5. QED
    BY <2>4, Zenon DEF RefusedForCause, Devices
<1>9. CASE ~machine.ioapic
  BY <1>9, Zenon DEF RefusedForCause
<1>10. QED
  BY <1>5, <1>6, <1>7, <1>8, <1>9, SMTT(30)

\* A processor whose MTRRs are on has those of before the launch, or those for SINIT.
LEMMA NeverHalfSetHolds ==
  ASSUME LaunchInv, Vcnt <= MAX_VARIABLE_MTRRS, SinitBits = PhysBits
  PROVE  NeverHalfSet
<1> SUFFICES ASSUME NEW c \in Cpus, mtrr[c].e
             PROVE  MemoryTypes(mtrr[c]) \in {MemoryTypes(machine.found), MemoryTypes(machine.ap), ForAcmod}
  BY Zenon DEF NeverHalfSet
<1>0. mtrr[c] \in MtrrStates /\ pc[c] \in Labels
  BY Zenon DEF LaunchInv, LaunchType
<1>1. mtrr[c].e = TRUE /\ pc[c] # "vars"
  BY <1>0, Zenon DEF MtrrStates, LaunchInv, RestoredMtrrs
<1>2. CASE pc[c] = "done"
  BY <1>2, DoneIsFound, Zenon
<1>3. CASE c \in Aps /\ pc[c] # "done"
  <2>1. pc[c] \in {"asleep", "restore"}
    BY <1>1, <1>3, Zenon DEF LaunchInv, LaunchType
  <2>2. QED
    BY <1>3, <2>1, Zenon DEF LaunchInv, RestoredMtrrs
<1>4. CASE c = Bsp /\ pc[c] # "done"
  <2>1. CASE pc[Bsp] \in {"senter", "verify", "wakeup", "refused", "heap refused", "restore"}
    <3>1. MappedTo(mtrr[Bsp], ndx[Bsp], machine.acmod, machine.acmod.base + machine.acmod.pages)
          /\ IsRegion(machine.acmod)
      BY <2>1, Zenon DEF LaunchInv, BspMtrrs
    <3>2. QED
      BY <1>0, <1>1, <1>4, <3>1, MappedForAcmod, ZenonT(60)
  <2>2. CASE pc[Bsp] \notin {"senter", "verify", "wakeup", "refused", "heap refused", "restore"}
    <3>1. pc[Bsp] \in {"sinit", "platform", "environment", "save", "disable", "clear", "map", "hang"}
      BY <1>0, <1>1, <1>4, <2>2, Zenon DEF Labels, LaunchInv, BspMtrrs
    <3>2. mtrr[Bsp] = machine.found
      BY <1>1, <1>4, <3>1, Zenon DEF LaunchInv, BspMtrrs
    <3>3. QED
      BY <1>4, <3>2, Zenon
  <2>3. QED
    BY <2>1, <2>2, ZenonT(60)
<1>5. QED
  BY <1>2, <1>3, <1>4 DEF Cpus

\* AcmodTyped of the pages that SINIT_MTRR_MASK covers.
AcmodTypedBelow ==
  pc[Bsp] \in {"senter", "verify", "wakeup"} =>
    /\ cacheOn
    /\ LET a == machine.acmod
       IN  \A p \in Pages36 : MemoryType(mtrr[Bsp], p) = IF p \in a.base .. a.base + a.pages - 1 THEN "WB" ELSE "UC"

\* The memory types at SENTER, read off the ranges that were mapped.
LEMMA AcmodTypedHolds ==
  ASSUME LaunchInv
  PROVE  AcmodTypedBelow /\ (SinitBits = PhysBits => AcmodTyped)
<1> SUFFICES ASSUME pc[Bsp] \in {"senter", "verify", "wakeup"}
             PROVE  AcmodTypedBelow /\ (SinitBits = PhysBits => AcmodTyped)
  BY Zenon DEF AcmodTypedBelow, AcmodTyped
<1> DEFINE a == machine.acmod
<1>1. mtrr[Bsp] \in MtrrStates
  BY BspIsNoAp, Zenon DEF LaunchInv, LaunchType
<1>2. cacheOn /\ mtrr[Bsp].e = TRUE /\ IsRegion(a) /\ MappedTo(mtrr[Bsp], ndx[Bsp], a, a.base + a.pages)
  BY Zenon DEF LaunchInv, BspMtrrs
<1>3. \A p \in Pages36 : MemoryType(mtrr[Bsp], p) = IF p \in a.base .. a.base + a.pages - 1 THEN "WB" ELSE "UC"
  <2> HIDE DEF a
  <2>1. QED
    BY <1>1, <1>2, MappedTypes, Zenon
<1>4. SinitBits = PhysBits => MemoryTypes(mtrr[Bsp]) = ForAcmod
  BY <1>1, <1>2, MappedForAcmod, Zenon
<1>5. QED
  BY <1>2, <1>3, <1>4, Zenon DEF AcmodTypedBelow, AcmodTyped

\* AcmodTyped of every execution, where addresses are as wide as SINIT_MTRR_MASK takes
\* them to be: set_mem_type() makes exactly the pages of SINIT write-back, wherever it
\* lies, however large it is and however many ranges that takes.
THEOREM AcmodAlwaysTyped ==
  ASSUME SinitBits = PhysBits
  PROVE  LaunchSpec => []AcmodTyped
<1>1. LaunchInv => AcmodTyped
  BY AcmodTypedHolds, Zenon
<1>2. QED
  BY <1>1, LaunchInvAlways, PTL

\* On processors with wider addresses the same is true of the pages that
\* SINIT_MTRR_MASK covers.
THEOREM AcmodAlwaysTypedBelow == LaunchSpec => []AcmodTypedBelow
<1>1. LaunchInv => AcmodTypedBelow
  BY AcmodTypedHolds, Zenon
<1>2. QED
  BY <1>1, LaunchInvAlways, PTL

\* RestoredSound of every execution, where saved_mtrr_state_t has room for all MTRRs:
\* restore_mtrrs() gives every processor the types of before the launch, and
\* validate_mtrrs() stops a boot only for a reason that can be stated on pages.
THEOREM AlwaysRestoredSound ==
  ASSUME Vcnt <= MAX_VARIABLE_MTRRS
  PROVE  LaunchSpec => []RestoredSound
<1>1. LaunchInv => RestoredSound
  BY RestoredTypesHold, RefusedForCauseHolds DEF RestoredSound
<1>2. QED
  BY <1>1, LaunchInvAlways, PTL

\* NeverHalfSet of every execution, in every interleaving of the BSP and the APs that
\* restore their MTRRs register by register.
THEOREM AlwaysNeverHalfSet ==
  ASSUME Vcnt <= MAX_VARIABLE_MTRRS, SinitBits = PhysBits
  PROVE  LaunchSpec => []NeverHalfSet
<1>1. LaunchInv => NeverHalfSet
  BY NeverHalfSetHolds, Zenon
<1>2. QED
  BY <1>1, LaunchInvAlways, PTL
=============================================================================
