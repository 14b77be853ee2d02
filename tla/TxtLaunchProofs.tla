-------------------------- MODULE TxtLaunchProofs --------------------------
(***************************************************************************)
(* The Intel launch up to SENTER, for every set of machines: SINIT modules *)
(* of any sizes and number, every heap and every image.                    *)
(*                                                                         *)
(* First what the operators compute: powers of two and bits (an MTRR       *)
(* matches the pages whose masked bits are those of its base), what the    *)
(* checks of validate_mtrrs() say about pages, where init_txt_heap()       *)
(* leaves each field, which module copy_sinit() chooses, and which pages   *)
(* build_mle_pagetable() maps.  Then the invariants: FlowInv for where     *)
(* the processors are, SinitInv for the chosen module, HeapInv for the     *)
(* control registers, the page table and the heap.  SinitSuits and         *)
(* LaunchReady are read off them.                                          *)
(***************************************************************************)
EXTENDS TxtLaunch, Induction

-----------------------------------------------------------------------------
(* Powers of two and the bits of page numbers.                               *)
\* The widths of addresses are positive.
LEMMA Widths ==
  PhysBits \in Nat /\ PhysBits >= 1 /\ SinitBits \in 1 .. PhysBits
BY MtrrAssumption

\* The recursion of Pow2.
Pow2Body(f) == [b \in 0 .. PhysBits |-> IF b = 0 THEN 1 ELSE 2 * f[b - 1]]

\* Pow2 is what its definition says: it exists, and its values are positive.
LEMMA Pow2Def ==
  /\ Pow2 \in [0 .. PhysBits -> Nat \ {0}]
  /\ Pow2[0] = 1
  /\ \A b \in Nat : b < PhysBits => Pow2[b + 1] = 2 * Pow2[b]
<1> DEFINE n == PhysBits
           S == Nat \ {0}
           g == [i \in 1 .. n |-> [s \in S |-> 2 * s]]
<1>1. n \in Nat
  BY Widths, Zenon
<1> HIDE DEF n
<1>2. g \in [1 .. n -> [S -> S]]
  BY <1>1
<1>3. PICK f : Iterates(f, n, S, 1, g)
  <2>1. 1 \in S
    OBVIOUS
  <2> HIDE DEF g, S
  <2>2. QED
    BY <1>1, <1>2, <2>1, Recursion, Zenon
<1>4. f \in [0 .. n -> S] /\ f[0] = 1 /\ \A i \in 1 .. n : f[i] = g[i][f[i - 1]]
  BY <1>3, Zenon DEF Iterates
<1>5. ASSUME NEW i \in 1 .. n PROVE f[i] = 2 * f[i - 1]
  <2>1. f[i - 1] \in S
    BY <1>1, <1>4
  <2>2. \A s \in S : g[i][s] = 2 * s
    BY Zenon
  <2> HIDE DEF g, S
  <2>3. QED
    BY <1>4, <2>1, <2>2, Zenon
<1>6. f = Pow2Body(f)
  BY <1>1, <1>4, <1>5 DEF Pow2Body, n
<1>7. Pow2 = CHOOSE h : h = Pow2Body(h)
  BY Zenon DEF Pow2, Pow2Body
<1>8. Pow2 = Pow2Body(Pow2)
  BY <1>6, <1>7, Zenon
<1>9. Pow2[0] = 1 /\ \A b \in Nat : b < n => Pow2[b + 1] = 2 * Pow2[b]
  <2> DEFINE q == Pow2
  <2>1. q = Pow2Body(q)
    BY <1>8, Zenon
  <2> HIDE DEF q
  <2>2. \A b \in 0 .. n : q[b] = IF b = 0 THEN 1 ELSE 2 * q[b - 1]
    BY <2>1, Zenon DEF Pow2Body, n
  <2>3. q[0] = 1
    BY <1>1, <2>2
  <2>4. ASSUME NEW b \in Nat, b < n PROVE q[b + 1] = 2 * q[b]
    BY <1>1, <2>2, <2>4
  <2>5. QED
    BY <2>3, <2>4, Zenon DEF q
<1> DEFINE T == {b \in Nat : b <= n => Pow2[b] \in S}
<1>10. 0 \in T
  BY <1>9
<1>11. ASSUME NEW b \in Nat, b \in T PROVE b + 1 \in T
  BY <1>1, <1>9, <1>11
<1> HIDE DEF T
<1>12. Nat \subseteq T
  BY <1>10, <1>11, NatInd, Zenon
<1>13. \A b \in 0 .. n : Pow2[b] \in S
  BY <1>1, <1>12 DEF T
<1>14. Pow2 \in [0 .. n -> S]
  BY <1>8, <1>13, Zenon DEF Pow2Body, n
<1>15. QED
  BY <1>9, <1>14, Zenon DEF n

\* Every later power is a multiple of an earlier one, and an even one of an earlier
\* one that is not itself.
LEMMA Pow2Multiple ==
  ASSUME NEW b \in 0 .. PhysBits, NEW c \in b .. PhysBits
  PROVE  /\ \E d \in Nat \ {0} : Pow2[c] = d * Pow2[b]
         /\ b < c => \E d \in Nat \ {0} : Pow2[c] = (2 * d) * Pow2[b]
<1> DEFINE T == {j \in Nat : b + j <= PhysBits =>
                   /\ \E d \in Nat \ {0} : Pow2[b + j] = d * Pow2[b]
                   /\ j > 0 => \E d \in Nat \ {0} : Pow2[b + j] = (2 * d) * Pow2[b]}
<1>1. 0 \in T
  <2>1. Pow2[b + 0] = 1 * Pow2[b]
    BY Pow2Def
  <2>2. QED
    BY <2>1
<1>2. ASSUME NEW j \in Nat, j \in T PROVE j + 1 \in T
  <2> SUFFICES ASSUME b + j + 1 <= PhysBits
               PROVE  \E d \in Nat \ {0} : Pow2[b + (j + 1)] = (2 * d) * Pow2[b]
    <3>1. ASSUME NEW d \in Nat \ {0}, Pow2[b + (j + 1)] = (2 * d) * Pow2[b]
          PROVE  \E e \in Nat \ {0} : Pow2[b + (j + 1)] = e * Pow2[b]
      <4>1. 2 * d \in Nat \ {0}
        OBVIOUS
      <4>2. QED
        BY <3>1, <4>1, Zenon
    <3>2. QED
      BY <3>1
  <2>1. PICK d \in Nat \ {0} : Pow2[b + j] = d * Pow2[b]
    BY <1>2, Widths
  <2>2. Pow2[b + (j + 1)] = 2 * (d * Pow2[b])
    <3>1. b + j \in Nat /\ b + j < PhysBits /\ (b + j) + 1 = b + (j + 1)
      BY Widths
    <3>2. QED
      BY <2>1, <3>1, Pow2Def, Zenon
  <2>3. Pow2[b] \in Nat
    BY Pow2Def, Zenon
  <2>4. 2 * (d * Pow2[b]) = (2 * d) * Pow2[b]
    BY <2>3
  <2>5. QED
    BY <2>2, <2>4, Zenon
<1> HIDE DEF T
<1>3. c - b \in T
  <2>1. c - b \in Nat
    BY Widths
  <2>2. QED
    BY <1>1, <1>2, <2>1, NatInd, Zenon
<1>4. b + (c - b) = c /\ (b < c <=> c - b > 0)
  BY Widths
<1>5. QED
  BY <1>3, <1>4 DEF T

\* Powers of two grow.
LEMMA Pow2Grows ==
  ASSUME NEW b \in 0 .. PhysBits, NEW c \in 0 .. PhysBits
  PROVE  /\ b <= c <=> Pow2[b] <= Pow2[c]
         /\ b < c <=> Pow2[b] < Pow2[c]
         /\ b < c => 2 * Pow2[b] <= Pow2[c]
<1> DEFINE Up(x, y) == x < y => 2 * Pow2[x] <= Pow2[y]
<1>1. ASSUME NEW x \in 0 .. PhysBits, NEW y \in 0 .. PhysBits, x < y PROVE 2 * Pow2[x] <= Pow2[y]
  <2>1. y \in x .. PhysBits
    BY <1>1, Widths
  <2>2. PICK d \in Nat \ {0} : Pow2[y] = (2 * d) * Pow2[x]
    BY <1>1, <2>1, Pow2Multiple, Zenon
  <2>3. Pow2[x] \in Nat
    BY Pow2Def, Zenon
  <2>4. \A w \in Nat : (2 * d) * w >= 2 * w
    OBVIOUS
  <2>5. QED
    BY <2>2, <2>3, <2>4, Zenon
<1>2. Pow2[b] \in Nat \ {0} /\ Pow2[c] \in Nat \ {0}
  BY Pow2Def, Zenon
<1>3. QED
  BY <1>1, <1>2, Widths

\* Dividing by the next power is dividing once more by two.
LEMMA DivNext ==
  ASSUME NEW x \in Nat, NEW b \in Nat, b < PhysBits
  PROVE  /\ x \div Pow2[b] \in Nat /\ x \div Pow2[b + 1] \in Nat
         /\ x \div Pow2[b + 1] = (x \div Pow2[b]) \div 2
         /\ x \div Pow2[b] = 2 * (x \div Pow2[b + 1]) + ((x \div Pow2[b]) % 2)
<1>1. Pow2[b] \in Nat \ {0} /\ Pow2[b + 1] = 2 * Pow2[b]
  BY Pow2Def, Widths
<1>2. ASSUME NEW d \in Nat \ {0}
      PROVE  x \div d \in Nat /\ (x \div d) \div 2 = x \div (2 * d)
  OBVIOUS
<1>3. ASSUME NEW y \in Nat PROVE y = 2 * (y \div 2) + (y % 2) /\ y \div 2 \in Nat
  OBVIOUS
<1>4. QED
  BY <1>1, <1>2, <1>3, Zenon

\* Numbers with the same quotient have the same for every later power, and so the
\* same bits from there.
LEMMA SameAbove ==
  ASSUME NEW x \in Nat, NEW y \in Nat, NEW k \in 0 .. PhysBits, x \div Pow2[k] = y \div Pow2[k],
         NEW b \in k .. PhysBits
  PROVE  x \div Pow2[b] = y \div Pow2[b]
<1> DEFINE T == {j \in Nat : k + j <= PhysBits => x \div Pow2[k + j] = y \div Pow2[k + j]}
<1>1. 0 \in T
  OBVIOUS
<1>2. ASSUME NEW j \in Nat, j \in T PROVE j + 1 \in T
  <2> SUFFICES ASSUME k + j + 1 <= PhysBits
               PROVE  x \div Pow2[k + (j + 1)] = y \div Pow2[k + (j + 1)]
    OBVIOUS
  <2>1. k + j \in Nat /\ k + j < PhysBits /\ (k + j) + 1 = k + (j + 1)
    BY Widths
  <2>2. x \div Pow2[k + j] = y \div Pow2[k + j]
    BY <1>2, <2>1, Widths
  <2>3. QED
    BY <2>1, <2>2, DivNext
<1> HIDE DEF T
<1>3. b - k \in T
  <2>1. b - k \in Nat
    BY Widths
  <2>2. QED
    BY <1>1, <1>2, <2>1, NatInd, Zenon
<1>4. k + (b - k) = b
  BY Widths
<1>5. QED
  BY <1>3, <1>4, Widths DEF T

\* Numbers of w bits that have the same bits from k on have the same quotient.
LEMMA SameBits ==
  ASSUME NEW w \in 0 .. PhysBits, NEW k \in 0 .. w,
         NEW x \in 0 .. Pow2[w] - 1, NEW y \in 0 .. Pow2[w] - 1,
         \A b \in k .. w - 1 : b \in Bits(x) <=> b \in Bits(y)
  PROVE  x \div Pow2[k] = y \div Pow2[k]
<1>0. Pow2[w] \in Nat \ {0} /\ x \in Nat /\ y \in Nat
  BY Pow2Def
<1> DEFINE T == {j \in Nat : j <= w - k => x \div Pow2[w - j] = y \div Pow2[w - j]}
<1>1. 0 \in T
  <2>1. \A d \in Nat \ {0} : \A z \in 0 .. d - 1 : z \div d = 0
    OBVIOUS
  <2>2. x \div Pow2[w] = 0 /\ y \div Pow2[w] = 0
    BY <1>0, <2>1, Zenon
  <2>3. w - 0 = w
    OBVIOUS
  <2>4. QED
    BY <2>2, <2>3, Zenon
<1>2. ASSUME NEW j \in Nat, j \in T PROVE j + 1 \in T
  <2> SUFFICES ASSUME j + 1 <= w - k
               PROVE  x \div Pow2[w - (j + 1)] = y \div Pow2[w - (j + 1)]
    OBVIOUS
  <2> DEFINE b == w - (j + 1)
  <2>1. b \in Nat /\ b < PhysBits /\ b + 1 = w - j /\ b \in k .. w - 1 /\ b \in AllBits
    BY Widths DEF AllBits
  <2>2. x \div Pow2[b + 1] = y \div Pow2[b + 1]
    BY <1>2, <2>1
  <2> HIDE DEF b
  <2>3. (x \div Pow2[b]) % 2 = 1 <=> (y \div Pow2[b]) % 2 = 1
    BY <2>1, Zenon DEF Bits
  <2>4. \A z \in Nat : z % 2 \in {0, 1}
    OBVIOUS
  <2>5. (x \div Pow2[b]) % 2 = (y \div Pow2[b]) % 2
    <3>1. x \div Pow2[b] \in Nat /\ y \div Pow2[b] \in Nat
      BY <1>0, <2>1, DivNext, Zenon
    <3>2. (x \div Pow2[b]) % 2 \in {0, 1} /\ (y \div Pow2[b]) % 2 \in {0, 1}
      BY <2>4, <3>1, Zenon
    <3>3. QED
      BY <2>3, <3>2
  <2>6. x \div Pow2[b] = y \div Pow2[b]
    BY <1>0, <2>1, <2>2, <2>5, DivNext
  <2>7. QED
    BY <2>6, Zenon DEF b
<1> HIDE DEF T
<1>3. w - k \in T
  <2>1. w - k \in Nat
    BY Widths
  <2>2. QED
    BY <1>1, <1>2, <2>1, NatInd, Zenon
<1>4. w - (w - k) = k /\ w - k <= w - k
  BY Widths
<1>5. QED
  BY <1>3, <1>4, Zenon DEF T

\* A range of 2^k pages that starts at a multiple of its size holds just the pages
\* that have its upper bits.  Pages above those that SINIT_MTRR_MASK reaches are
\* left aside.
LEMMA RangeMatches ==
  ASSUME NEW k \in 0 .. SinitBits, NEW q \in Nat, q * Pow2[k] < Pow2[SinitBits],
         NEW p \in 0 .. Pow2[SinitBits] - 1,
         NEW m, m.v = TRUE,
         m.base = {b \in Bits(q * Pow2[k]) : b < SinitBits},
         m.mask = {b \in 0 .. SinitBits - 1 : Pow2[b] >= Pow2[k]}
  PROVE  Matches(m, p) <=> p \in q * Pow2[k] .. q * Pow2[k] + Pow2[k] - 1
<1> DEFINE d == Pow2[k]
           x == q * d
           w == SinitBits
<1>0. /\ d \in Nat \ {0} /\ Pow2[w] \in Nat \ {0} /\ w \in 1 .. PhysBits /\ k \in 0 .. PhysBits
      /\ p \in Nat
  BY Pow2Def, Widths
<1>1. x \in Nat /\ x \in 0 .. Pow2[w] - 1
  BY <1>0
<1>2. m.mask = k .. w - 1
  <2>1. ASSUME NEW b \in 0 .. w - 1 PROVE Pow2[b] >= Pow2[k] <=> b >= k
    <3>1. b \in 0 .. PhysBits
      BY <1>0, Widths
    <3>2. Pow2[b] \in Nat /\ (k <= b <=> Pow2[k] <= Pow2[b])
      BY <1>0, <3>1, Pow2Grows, Pow2Def, SMTT(30)
    <3>3. QED
      BY <1>0, <3>2, Zenon
  <2>2. QED
    BY <2>1, <1>0
<1>3. Matches(m, p) <=> \A b \in k .. w - 1 : b \in Bits(p) <=> b \in Bits(x)
  <2>1. m.base \cap m.mask = {b \in k .. w - 1 : b \in Bits(x)}
    BY <1>0, <1>2
  <2>2. Bits(p) \cap m.mask = {b \in k .. w - 1 : b \in Bits(p)}
    BY <1>2, Zenon
  <2>3. QED
    BY <2>1, <2>2, Zenon DEF Matches
<1>4. ASSUME \A b \in k .. w - 1 : b \in Bits(p) <=> b \in Bits(x)
      PROVE  p \div d = x \div d
  <2>1. w \in 0 .. PhysBits /\ k \in 0 .. w
    BY <1>0
  <2>2. QED
    BY <1>1, <1>4, <2>1, SameBits
<1>5. ASSUME p \div d = x \div d, NEW b \in k .. w - 1
      PROVE  b \in Bits(p) <=> b \in Bits(x)
  <2>1. b \in k .. PhysBits /\ b \in AllBits
    BY <1>0, Widths DEF AllBits
  <2>2. p \div Pow2[b] = x \div Pow2[b]
    BY <1>0, <1>1, <1>5, <2>1, SameAbove
  <2>3. QED
    BY <2>1, <2>2, Zenon DEF Bits
<1>6. x \div d = q
  BY <1>0
<1>7. p \div d = q <=> p \in x .. x + d - 1
  <2>1. ASSUME NEW e \in Nat \ {0}, NEW r \in Nat PROVE r \div e = q <=> r \in q * e .. q * e + e - 1
    OBVIOUS
  <2>2. QED
    BY <1>0, <2>1, Zenon
<1>8. QED
  BY <1>3, <1>4, <1>5, <1>6, <1>7, Zenon

\* Page 0 has no bits.
LEMMA NoBits == Bits(0) = {} /\ 0 \in AllPages
<1>1. \A d \in Nat \ {0} : (0 \div d) % 2 = 0
  OBVIOUS
<1>2. \A b \in AllBits : Pow2[b] \in Nat \ {0}
  BY Pow2Def, Widths DEF AllBits
<1>3. Pow2[PhysBits] \in Nat \ {0}
  BY Pow2Def, Widths
<1>4. QED
  BY <1>1, <1>2, <1>3 DEF Bits, AllPages

\* Adding a multiple of the divisor.
LEMMA DivPlus ==
  ASSUME NEW x \in Nat, NEW d \in Nat \ {0}, NEW a \in Nat
  PROVE  (x + a * d) \div d = x \div d + a /\ x \div d \in Nat
<1>1. PICK u \in Nat, r \in 0 .. d - 1 : x = u * d + r
  <2>1. x = (x \div d) * d + (x % d) /\ x \div d \in Nat /\ x % d \in 0 .. d - 1
    OBVIOUS
  <2>2. QED
    BY <2>1, Zenon
<1>2. \A v \in Nat : (v * d + r) \div d = v
  OBVIOUS
<1>3. x + a * d = (u + a) * d + r
  BY <1>1
<1>4. u + a \in Nat
  OBVIOUS
<1>5. (x + a * d) \div d = u + a
  BY <1>2, <1>3, <1>4, Zenon
<1>6. x \div d = u
  BY <1>1, <1>2, Zenon
<1>7. QED
  BY <1>5, <1>6, Zenon

\* Setting a bit that is not set.
LEMMA AddBit ==
  ASSUME NEW x \in AllPages, NEW b \in AllBits, b \notin Bits(x)
  PROVE  x + Pow2[b] \in AllPages /\ Bits(x + Pow2[b]) = Bits(x) \cup {b}
<1> DEFINE d == Pow2[b]
           y == x + d
           h == x \div Pow2[b + 1]
<1>0. /\ d \in Nat \ {0} /\ x \in Nat /\ y \in Nat /\ b \in Nat /\ b < PhysBits /\ b + 1 \in 0 .. PhysBits
      /\ Pow2[b + 1] = 2 * d /\ Pow2[PhysBits] \in Nat \ {0}
  BY Pow2Def, Widths, SMTT(30) DEF AllPages, AllBits
<1>1. x \div d = 2 * h /\ h \in Nat
  <2>1. (x \div d) % 2 # 1
    BY Zenon DEF Bits
  <2>2. \A z \in Nat : z % 2 \in {0, 1}
    OBVIOUS
  <2>3. x \div d \in Nat /\ h \in Nat /\ x \div d = 2 * h + ((x \div d) % 2)
    BY <1>0, DivNext, Zenon
  <2>4. (x \div d) % 2 = 0
    BY <2>1, <2>2, <2>3, Zenon
  <2> HIDE DEF d, h
  <2>5. QED
    BY <2>3, <2>4
<1>2. y \div d = 2 * h + 1 /\ y \div (2 * d) = h
  <2>1. ASSUME NEW e \in Nat \ {0}, NEW z \in Nat, NEW q \in Nat, z \div e = 2 * q
        PROVE  (z + e) \div e = 2 * q + 1 /\ (z + e) \div (2 * e) = q
    <3>1. (z + e) \div e = 2 * q + 1
      BY <2>1
    <3>2. ((z + e) \div e) \div 2 = (z + e) \div (2 * e)
      OBVIOUS
    <3>3. QED
      BY <3>1, <3>2
  <2> HIDE DEF d, h
  <2>2. QED
    BY <1>0, <1>1, <2>1, ZenonT(60)
<1>3. ASSUME NEW c \in AllBits, b < c
      PROVE  c \in Bits(y) <=> c \in Bits(x)
  <2>1. c \in b + 1 .. PhysBits
    BY <1>0, <1>3, Widths DEF AllBits
  <2>2. y \div Pow2[c] = x \div Pow2[c]
    BY <1>0, <1>2, <2>1, SameAbove
  <2>3. QED
    BY <2>2, Zenon DEF Bits
<1>4. y \in AllPages
  <2>1. PhysBits \in b + 1 .. PhysBits
    BY <1>0, Widths
  <2>2. y \div Pow2[PhysBits] = x \div Pow2[PhysBits]
    BY <1>0, <1>2, <2>1, SameAbove, SMTT(30)
  <2>3. ASSUME NEW e \in Nat \ {0}, NEW u \in Nat, NEW z \in 0 .. e - 1, u \div e = z \div e PROVE u <= e - 1
    BY <2>3
  <2>4. x \in 0 .. Pow2[PhysBits] - 1
    BY Zenon DEF AllPages
  <2> HIDE DEF y
  <2>5. y <= Pow2[PhysBits] - 1
    BY <1>0, <2>2, <2>3, <2>4, Zenon
  <2>6. QED
    BY <1>0, <2>5 DEF AllPages
<1>5. ASSUME NEW c \in AllBits, c < b
      PROVE  c \in Bits(y) <=> c \in Bits(x)
  <2>1. c \in 0 .. PhysBits /\ b \in c .. PhysBits
    BY <1>0, <1>5, Widths DEF AllBits
  <2>2. PICK e \in Nat \ {0} : d = (2 * e) * Pow2[c]
    BY <1>5, <2>1, Pow2Multiple, Zenon
  <2>3. Pow2[c] \in Nat \ {0}
    BY <2>1, Pow2Def, Zenon
  <2>4. 2 * e \in Nat
    OBVIOUS
  <2>5. y \div Pow2[c] = x \div Pow2[c] + 2 * e /\ x \div Pow2[c] \in Nat
    <3> HIDE DEF d
    <3>1. y = x + (2 * e) * Pow2[c]
      BY <2>2, Zenon
    <3>2. \A f \in Nat : (x + f * Pow2[c]) \div Pow2[c] = x \div Pow2[c] + f /\ x \div Pow2[c] \in Nat
      BY <1>0, <2>3, DivPlus, Zenon
    <3> HIDE DEF y
    <3>3. QED
      BY <2>4, <3>1, <3>2, Zenon
  <2>6. \A u \in Nat : (u + 2 * e) % 2 = u % 2
    OBVIOUS
  <2>7. QED
    BY <2>5, <2>6, Zenon DEF Bits
<1>6. b \in Bits(y)
  <2>1. \A u \in Nat : (2 * u + 1) % 2 = 1
    OBVIOUS
  <2>2. QED
    BY <1>1, <1>2, <2>1, Zenon DEF Bits
<1>7. ASSUME NEW c PROVE c \in Bits(y) <=> c \in Bits(x) \cup {b}
  <2>1. CASE c \in AllBits
    <3>1. c < b \/ c = b \/ b < c
      BY <1>0, <2>1 DEF AllBits
    <3>2. QED
      BY <1>3, <1>5, <1>6, <2>1, <3>1, Zenon
  <2>2. CASE c \notin AllBits
    BY <2>2, Zenon DEF Bits
  <2>3. QED
    BY <2>1, <2>2, Zenon
<1>8. QED
  BY <1>4, <1>7, Zenon

\* Every set of bits is that of a page, and of one page only.
LEMMA BitsOnto ==
  ASSUME NEW S \in SUBSET AllBits
  PROVE  \E x \in AllPages : Bits(x) = S
<1> DEFINE T == {k \in Nat : \A R \in SUBSET AllBits : R \subseteq 0 .. k - 1 => \E x \in AllPages : Bits(x) = R}
<1>1. 0 \in T
  <2>1. ASSUME NEW R, R \subseteq 0 .. 0 - 1 PROVE R = {}
    BY <2>1
  <2>2. QED
    BY <2>1, NoBits, Zenon
<1>2. ASSUME NEW k \in Nat, k \in T PROVE k + 1 \in T
  <2> SUFFICES ASSUME NEW R \in SUBSET AllBits, R \subseteq 0 .. k PROVE \E x \in AllPages : Bits(x) = R
    OBVIOUS
  <2>1. R \ {k} \in SUBSET AllBits /\ R \ {k} \subseteq 0 .. k - 1
    OBVIOUS
  <2>2. PICK x \in AllPages : Bits(x) = R \ {k}
    BY <1>2, <2>1, Zenon
  <2>3. CASE k \in R
    <3>1. k \in AllBits /\ k \notin Bits(x)
      BY <2>2, <2>3, Zenon
    <3>2. x + Pow2[k] \in AllPages /\ Bits(x + Pow2[k]) = (R \ {k}) \cup {k}
      BY <2>2, <3>1, AddBit, Zenon
    <3>3. (R \ {k}) \cup {k} = R
      BY <2>3, Zenon
    <3>4. QED
      BY <3>2, <3>3, Zenon
  <2>4. CASE k \notin R
    <3>1. Bits(x) = R
      BY <2>2, <2>4, Zenon
    <3>2. QED
      BY <3>1, Zenon
  <2>5. QED
    BY <2>3, <2>4, Zenon
<1> HIDE DEF T
<1>3. PhysBits \in T
  BY <1>1, <1>2, NatInd, Widths, Zenon
<1>4. S \subseteq 0 .. PhysBits - 1
  BY Zenon DEF AllBits
<1>5. QED
  BY <1>3, <1>4, Zenon DEF T

\* The bits of a power of two: just the one.
LEMMA BitsOfOne ==
  ASSUME NEW x \in AllPages, NEW y \in AllPages, Bits(x) = Bits(y)
  PROVE  x = y
<1>1. PhysBits \in 0 .. PhysBits /\ 0 \in 0 .. PhysBits /\ x \in 0 .. Pow2[PhysBits] - 1 /\ y \in 0 .. Pow2[PhysBits] - 1
  BY Widths DEF AllPages
<1>2. x \div Pow2[0] = y \div Pow2[0]
  BY <1>1, SameBits
<1>3. Pow2[PhysBits] \in Nat /\ Pow2[0] = 1
  BY Pow2Def, Widths
<1>4. QED
  BY <1>1, <1>2, <1>3

\* mtrr_s() and FloorPower() are defined.
LEMMA MtrrSize ==
  ASSUME NEW x \in Nat \ {0}, x < Pow2[SinitBits]
  PROVE  \E b \in 0 .. SinitBits - 1 : mtrr_s(x) = Pow2[b] /\ x % Pow2[b] = 0
<1> DEFINE w == SinitBits
           S == {c \in 1 .. w : x % Pow2[c] # 0}
<1>0. w \in 1 .. PhysBits /\ \A c \in 0 .. PhysBits : Pow2[c] \in Nat \ {0}
  BY Widths, Pow2Def, Zenon
<1>1. w \in S
  <2>1. \A e \in Nat \ {0} : x < e => x % e = x
    OBVIOUS
  <2>2. QED
    BY <1>0, <2>1
<1>2. PICK c \in S : \A e \in S : c <= e
  <2>1. S \in SUBSET Nat /\ S # {}
    BY <1>0, <1>1
  <2> HIDE DEF S
  <2>2. QED
    BY <2>1, LeastIn, Zenon
<1>3. c - 1 \in 0 .. w - 1 /\ c - 1 \in AllBits /\ c \in 1 .. w /\ c - 1 \in Nat /\ c - 1 < PhysBits
  BY <1>0, Widths DEF AllBits
<1>4. x % Pow2[c - 1] = 0
  <2>1. CASE c - 1 = 0
    <3>1. Pow2[c - 1] = 1
      BY <2>1, Pow2Def, Zenon
    <3>2. QED
      BY <3>1
  <2>2. CASE c - 1 \in 1 .. w
    BY <1>2, <1>3, <2>2
  <2>3. QED
    BY <1>0, <1>3, <2>1, <2>2
<1>5. Pow2[c] = 2 * Pow2[c - 1]
  <2>1. (c - 1) + 1 = c
    BY <1>3
  <2>2. QED
    BY <1>3, <2>1, Pow2Def, Zenon
<1>6. x % (2 * Pow2[c - 1]) # 0
  BY <1>5, Zenon
<1>7. ASSUME NEW b \in AllBits, x % Pow2[b] = 0, x % (2 * Pow2[b]) # 0
      PROVE  b \in 0 .. w - 1
  <2>1. b \in 0 .. PhysBits - 1
    BY Zenon DEF AllBits
  <2>2. CASE b >= w
    <3>1. w <= b /\ w \in 0 .. PhysBits /\ b \in 0 .. PhysBits
      BY <1>0, <2>1, <2>2, Widths
    <3>2. Pow2[w] <= Pow2[b]
      BY <3>1, Pow2Grows, Zenon
    <3>3. Pow2[w] \in Nat /\ Pow2[b] \in Nat \ {0}
      BY <1>0, <3>1, Zenon
    <3>4. x < Pow2[b]
      BY <3>2, <3>3
    <3>5. x % Pow2[b] = x
      BY <3>3, <3>4
    <3>6. QED
      BY <1>7, <3>5, Zenon
  <2>3. QED
    BY <1>0, <2>1, <2>2
<1>8. \E p \in {Pow2[b] : b \in AllBits} : x % p = 0 /\ x % (2 * p) # 0
  BY <1>3, <1>4, <1>6, Zenon
<1>9. mtrr_s(x) \in {Pow2[b] : b \in AllBits} /\ x % mtrr_s(x) = 0 /\ x % (2 * mtrr_s(x)) # 0
  <2>1. mtrr_s(x) = CHOOSE p : p \in {Pow2[b] : b \in AllBits} /\ x % p = 0 /\ x % (2 * p) # 0
    BY Zenon DEF mtrr_s
  <2>2. QED
    BY <1>8, <2>1, Zenon
<1>10. PICK b \in AllBits : mtrr_s(x) = Pow2[b]
  BY <1>9, Zenon
<1>11. QED
  BY <1>7, <1>9, <1>10, Zenon

\* fls(): the largest power of two that is not larger than a number of pages.
LEMMA FloorPowerIs ==
  ASSUME NEW n \in Nat \ {0}, NEW w \in 0 .. PhysBits, n < Pow2[w]
  PROVE  \E b \in 0 .. w - 1 : FloorPower(n) = Pow2[b] /\ Pow2[b] <= n /\ n < 2 * Pow2[b]
<1> DEFINE S == {c \in 0 .. w : n < Pow2[c]}
<1>0. \A c \in 0 .. PhysBits : Pow2[c] \in Nat \ {0}
  BY Pow2Def, Zenon
<1>1. S \in SUBSET Nat /\ w \in S
  BY Widths
<1>2. PICK c \in S : \A e \in S : c <= e
  <2> HIDE DEF S
  <2>1. QED
    BY <1>1, LeastIn, Zenon
<1>3. c # 0
  BY Pow2Def
<1>4. c \in 1 .. w /\ c - 1 \in 0 .. w - 1 /\ c - 1 \in 0 .. PhysBits /\ c - 1 \in Nat /\ c - 1 < PhysBits
      /\ (c - 1) + 1 = c
  BY <1>3, Widths
<1>5. Pow2[c] = 2 * Pow2[c - 1]
  BY <1>4, Pow2Def, Zenon
<1>6. Pow2[c - 1] <= n
  <2>1. c - 1 \notin S
    BY <1>2, <1>4
  <2>2. QED
    BY <1>0, <1>4, <2>1
<1>7. \E p \in {Pow2[b] : b \in 0 .. PhysBits} : p <= n /\ n < 2 * p
  BY <1>2, <1>4, <1>5, <1>6, Zenon
<1>8. FloorPower(n) \in {Pow2[b] : b \in 0 .. PhysBits} /\ FloorPower(n) <= n /\ n < 2 * FloorPower(n)
  <2>1. FloorPower(n) = CHOOSE p : p \in {Pow2[b] : b \in 0 .. PhysBits} /\ p <= n /\ n < 2 * p
    BY Zenon DEF FloorPower
  <2>2. QED
    BY <1>7, <2>1, Zenon
<1>9. PICK b \in 0 .. PhysBits : FloorPower(n) = Pow2[b]
  BY <1>8, Zenon
<1>10. b < w
  <2>1. Pow2[b] < Pow2[w]
    BY <1>0, <1>8, <1>9
  <2>2. QED
    BY <2>1, Pow2Grows, Zenon
<1>11. b \in 0 .. w - 1
  BY <1>10, Widths
<1>12. QED
  BY <1>8, <1>9, <1>11, Zenon

-----------------------------------------------------------------------------
(* What validate_mtrrs() finds out.                                          *)
\* A state of the MTRRs, as a processor has it or as it has been saved.
IsState(s) == s.e \in BOOLEAN /\ s.type \in Types /\ s.var \in [Ndxs -> Vars]

\* The types that the matching MTRRs give to a page, and what the processor makes
\* of them when get_page_type() can decide it.
TypesAt(s, p) == {s.var[i].type : i \in Matching(s, p)}

\* What the processor makes of the types of the matching MTRRs.
LEMMA MemoryTypeIs ==
  ASSUME NEW s, IsState(s), NEW p
  PROVE  /\ TypesAt(s, p) \subseteq Types
         /\ s.e = FALSE => MemoryType(s, p) = "UC"
         /\ "UC" \in TypesAt(s, p) => MemoryType(s, p) = "UC"
         /\ s.e = TRUE /\ TypesAt(s, p) = {} => MemoryType(s, p) = s.type
         /\ s.e = TRUE /\ TypesAt(s, p) = {"WT", "WB"} => MemoryType(s, p) = "WT"
         /\ \A t \in Types : s.e = TRUE /\ TypesAt(s, p) = {t} => MemoryType(s, p) = t
         /\ s.e = TRUE /\ MemoryType(s, p) = "UC" =>
              "UC" \in TypesAt(s, p) \/ (TypesAt(s, p) = {} /\ s.type = "UC")
<1> DEFINE T == {s.var[i].type : i \in {i \in DOMAIN s.var : Matches(s.var[i], p)}}
<1>1. T = TypesAt(s, p)
  BY Zenon DEF TypesAt, Matching
<1>2. T \subseteq Types
  BY Zenon DEF IsState, Vars
<1>3. MemoryType(s, p) =
        CASE ~s.e \/ "UC" \in T -> "UC"
          [] s.e /\ T = {} -> s.type
          [] s.e /\ T = {"WT", "WB"} -> "WT"
          [] OTHER -> IF Single(T) THEN CHOOSE t \in T : TRUE ELSE "undefined"
  BY Zenon DEF MemoryType
<1> HIDE DEF T
<1>4. s.e \in BOOLEAN
  BY Zenon DEF IsState
<1>5. ASSUME NEW t, T = {t} PROVE Single(T) /\ (CHOOSE u \in T : TRUE) = t
  <2>1. Single({t})
    BY Zenon DEF Single
  <2>2. QED
    BY <1>5, <2>1, Zenon
<1>6. ASSUME NEW t \in Types, s.e = TRUE, T = {t} PROVE MemoryType(s, p) = t
  <2>1. CASE t = "UC"
    BY <1>3, <1>6, <2>1, Zenon
  <2>2. CASE t # "UC"
    <3>1. "UC" \notin T /\ T # {} /\ T # {"WT", "WB"}
      BY <1>6, <2>2
    <3>2. QED
      BY <1>3, <1>5, <1>6, <3>1, Zenon
  <2>3. QED
    BY <2>1, <2>2, Zenon
<1>7. ASSUME s.e = TRUE, MemoryType(s, p) = "UC", "UC" \notin T PROVE T = {} /\ s.type = "UC"
  <2>1. CASE T = {}
    BY <1>3, <1>7, <2>1, Zenon
  <2>2. CASE T # {}
    <3>1. (CHOOSE t \in T : TRUE) \in T
      BY <2>2, Zenon
    <3>2. QED
      BY <1>3, <1>7, <2>2, <3>1, Zenon
  <2>3. QED
    BY <2>1, <2>2, Zenon
<1>8. s.e = FALSE => MemoryType(s, p) = "UC"
  BY <1>3, Zenon
<1>9. "UC" \in T => MemoryType(s, p) = "UC"
  BY <1>3
<1>10. s.e = TRUE /\ T = {} => MemoryType(s, p) = s.type
  BY <1>3, Zenon
<1>11. s.e = TRUE /\ T = {"WT", "WB"} => MemoryType(s, p) = "WT"
  BY <1>3, Zenon
<1>12. QED
  BY <1>1, <1>2, <1>6, <1>7, <1>8, <1>9, <1>10, <1>11, Zenon

\* A set of indices has a last one.
LEMMA LastNdx ==
  ASSUME NEW M \in SUBSET Ndxs, M # {}
  PROVE  \E i \in M : \A j \in M : j <= i
<1> DEFINE S == {Vcnt - i : i \in M}
<1>0. Vcnt \in Nat
  BY MtrrAssumption, Zenon
<1>1. S \in SUBSET Nat /\ S # {}
  <2>1. \A i \in Ndxs : Vcnt - i \in Nat
    BY <1>0 DEF Ndxs
  <2>2. QED
    BY <2>1, Zenon
<1>2. PICK n \in S : \A k \in S : n <= k
  <2> HIDE DEF S
  <2>1. QED
    BY <1>1, LeastIn, Zenon
<1>3. PICK i \in M : n = Vcnt - i
  BY Zenon
<1>4. ASSUME NEW j \in M PROVE j <= i
  <2>1. n <= Vcnt - j
    BY <1>2, Zenon
  <2>2. QED
    BY <1>0, <1>3, <2>1 DEF Ndxs
<1>5. QED
  BY <1>4, Zenon

\* get_page_type() and the processor agree on which pages are uncacheable.
LEMMA PageTypeUC ==
  ASSUME NEW s, IsState(s), s.e = TRUE, NEW p
  PROVE  get_page_type(s, p) = "UC" <=> MemoryType(s, p) = "UC"
<1> DEFINE M == Matching(s, p)
           has(t) == \E i \in M : s.var[i].type = t
<1>1. \A t : has(t) <=> t \in TypesAt(s, p)
  BY Zenon DEF TypesAt
<1>2. M = {} <=> TypesAt(s, p) = {}
  BY Zenon DEF TypesAt
<1>3. M \in SUBSET Ndxs
  BY Zenon DEF Matching, IsState
<1>4. get_page_type(s, p) =
        CASE has("UC") -> "UC"
          [] ~has("UC") /\ has("WT") -> "WT"
          [] M = {} -> s.type
          [] OTHER -> s.var[CHOOSE i \in M : \A j \in M : j <= i].type
  BY Zenon DEF get_page_type
<1> HIDE DEF M
<1>5. CASE has("UC")
  <2>1. get_page_type(s, p) = "UC"
    BY <1>4, <1>5, Zenon
  <2>2. "UC" \in TypesAt(s, p)
    BY <1>1, <1>5, Zenon
  <2>3. QED
    BY <2>1, <2>2, MemoryTypeIs, Zenon
<1>6. CASE ~has("UC") /\ M = {}
  <2>1. ~has("WT")
    BY <1>6, Zenon
  <2>2. get_page_type(s, p) = s.type
    BY <1>4, <1>6, <2>1, Zenon
  <2>3. MemoryType(s, p) = s.type
    BY <1>2, <1>6, MemoryTypeIs, Zenon
  <2>4. QED
    BY <2>2, <2>3, Zenon
<1>7. CASE ~has("UC") /\ M # {}
  <2>1. "UC" \notin TypesAt(s, p) /\ TypesAt(s, p) # {}
    BY <1>1, <1>2, <1>7, Zenon
  <2>2. MemoryType(s, p) # "UC"
    BY <2>1, MemoryTypeIs, Zenon
  <2>3. (CHOOSE i \in M : \A j \in M : j <= i) \in M
    <3>1. \E i \in M : \A j \in M : j <= i
      BY <1>3, <1>7, LastNdx, Zenon
    <3>2. QED
      BY <3>1, Zenon
  <2>4. get_page_type(s, p) # "UC"
    <3>1. s.var[CHOOSE i \in M : \A j \in M : j <= i].type # "UC"
      BY <1>7, <2>3, Zenon
    <3> DEFINE last == s.var[CHOOSE i \in M : \A j \in M : j <= i].type
    <3> HIDE DEF last
    <3>2. get_page_type(s, p) = IF has("WT") THEN "WT" ELSE last
      BY <1>4, <1>7, Zenon DEF last
    <3>3. QED
      BY <3>1, <3>2, Zenon DEF last
  <2>5. QED
    BY <2>2, <2>4, Zenon
<1>8. QED
  BY <1>5, <1>6, <1>7, Zenon

\* Two ranges that share a page overlap in validate_mtrrs()'s sense.
LEMMA SharedOverlap ==
  ASSUME NEW m \in Vars, NEW n \in Vars, Contiguous(m), Contiguous(n), NEW p, Matches(m, p), Matches(n, p)
  PROVE  Overlap(m, n)
<1>1. m.mask \subseteq AllBits /\ n.mask \subseteq AllBits
  BY Zenon DEF Vars
<1>2. n.mask \subseteq m.mask \/ m.mask \subseteq n.mask
  <2> SUFFICES ASSUME NEW b \in m.mask, b \notin n.mask, NEW c \in n.mask PROVE c \in m.mask
    BY Zenon
  <2>1. b \in AllBits /\ c \in AllBits /\ b \in Nat /\ c \in Nat
    BY <1>1 DEF AllBits
  <2>2. ~ (b >= c)
    BY <2>1, Zenon DEF Contiguous
  <2>3. c >= b
    BY <2>1, <2>2
  <2>4. QED
    BY <2>1, <2>3, Zenon DEF Contiguous
<1>3. Bits(p) \cap m.mask = m.base \cap m.mask /\ Bits(p) \cap n.mask = n.base \cap n.mask
  BY Zenon DEF Matches
<1>4. CASE n.mask \subseteq m.mask
  BY <1>3, <1>4, Zenon DEF Overlap
<1>5. CASE m.mask \subseteq n.mask
  BY <1>3, <1>5, Zenon DEF Overlap
<1>6. QED
  BY <1>2, <1>4, <1>5, Zenon

\* Every page of m is one of a range that contains it.
LEMMA ContainedMatches ==
  ASSUME NEW u, NEW m, Contains(u, m), u.v = TRUE, NEW p, Matches(m, p)
  PROVE  Matches(u, p)
<1>1. Bits(p) \cap m.mask = m.base \cap m.mask
  BY Zenon DEF Matches
<1>2. QED
  BY <1>1, Zenon DEF Matches, Contains

\* validate_mtrrs() for a given machine.
Valid(s, x) ==
  LET valid == {s.var[i] : i \in {i \in DOMAIN s.var : s.var[i].v}}
  IN  \/ ~s.e
      \/ /\ Vcnt >= s.num
         /\ \A m \in valid : Contiguous(m)
         /\ OverlapsAllowed(valid)
         /\ \A r \in MmioRegions : get_region_type(s, r) = "UC"
         /\ x.ioapic /\ get_region_type(s, Ioapic) = "UC"
         /\ x.mcfg => get_region_type(s, Mcfg) = "UC"

\* MTRRs that are validated give every page a type.
LEMMA ValidDefined ==
  ASSUME NEW s, IsState(s), NEW x, Valid(s, x), NEW p
  PROVE  MemoryType(s, p) # "undefined"
<1> DEFINE valid == {s.var[i] : i \in {i \in DOMAIN s.var : s.var[i].v}}
           T == TypesAt(s, p)
<1>0. "UC" # "undefined" /\ "WT" # "undefined" /\ "undefined" \notin Types
  BY Zenon DEF Types
<1>1. CASE s.e = FALSE
  BY <1>0, <1>1, MemoryTypeIs, Zenon
<1>2. CASE s.e = TRUE /\ "UC" \in T
  BY <1>0, <1>2, MemoryTypeIs, Zenon
<1>3. CASE s.e = TRUE /\ "UC" \notin T
  <2>1. (\A m \in valid : Contiguous(m)) /\ OverlapsAllowed(valid)
    BY <1>3, Zenon DEF Valid
  <2>2. \A i \in Matching(s, p) : s.var[i] \in valid /\ s.var[i] \in Vars /\ Matches(s.var[i], p)
    BY Zenon DEF Matching, Matches, IsState
  <2>3. ASSUME NEW t \in T, NEW u \in T PROVE t = u \/ {t, u} = {"WT", "WB"}
    <3>1. PICK i \in Matching(s, p) : t = s.var[i].type
      BY Zenon DEF TypesAt
    <3>2. PICK j \in Matching(s, p) : u = s.var[j].type
      BY Zenon DEF TypesAt
    <3> DEFINE m == s.var[i]
               n == s.var[j]
    <3>3. m \in valid /\ n \in valid /\ Matches(m, p) /\ Matches(n, p) /\ m \in Vars /\ n \in Vars
      BY <2>2, Zenon
    <3>4. Overlap(m, n)
      <4> HIDE DEF valid, m, n
      <4>1. QED
        BY <2>1, <3>3, SharedOverlap, Zenon
    <3>5. ASSUME NEW w \in valid, w.type = "UC", Contains(w, m) \/ Contains(w, n) PROVE FALSE
      <4>1. PICK k \in DOMAIN s.var : w = s.var[k] /\ s.var[k].v
        BY Zenon
      <4>2. w.v = TRUE
        BY <4>1, Zenon DEF IsState, Vars
      <4>3. Matches(w, p)
        <5> HIDE DEF valid, m, n
        <5>1. QED
          BY <3>3, <3>5, <4>2, ContainedMatches, Zenon
      <4>4. "UC" \in T
        BY <3>5, <4>1, <4>3, Zenon DEF TypesAt, Matching
      <4>5. QED
        BY <1>3, <4>4, Zenon
    <3>6. Compatible(m.type, n.type)
      <4> HIDE DEF valid, m, n
      <4>1. QED
        BY <2>1, <3>3, <3>4, <3>5, Zenon DEF OverlapsAllowed
    <3>7. QED
      BY <1>3, <3>1, <3>2, <3>6 DEF Compatible
  <2>4. T \subseteq Types
    BY MemoryTypeIs, Zenon
  <2> HIDE DEF T
  <2>5. CASE T = {}
    BY <1>0, <1>3, <2>5, MemoryTypeIs, Zenon DEF T, IsState
  <2>6. CASE \E t \in T : T = {t}
    <3>1. PICK t \in T : T = {t}
      BY <2>6, Zenon
    <3>2. t \in Types
      BY <2>4, Zenon
    <3>3. MemoryType(s, p) = t
      BY <1>3, <3>1, <3>2, MemoryTypeIs, Zenon DEF T
    <3>4. QED
      BY <1>0, <3>2, <3>3, Zenon
  <2>7. CASE \E t, u \in T : t # u
    <3>1. PICK t \in T, u \in T : t # u
      BY <2>7, Zenon
    <3>2. {t, u} = {"WT", "WB"}
      BY <2>3, <3>1, Zenon
    <3>3. ASSUME NEW y \in T PROVE y \in {"WT", "WB"}
      BY <2>3, <3>2, Zenon
    <3>4. T = {"WT", "WB"}
      BY <3>2, <3>3, Zenon
    <3>5. QED
      BY <1>0, <1>3, <3>4, MemoryTypeIs, Zenon DEF T
  <2>8. QED
    BY <2>5, <2>6, <2>7, Zenon
<1>4. QED
  BY <1>1, <1>2, <1>3, Zenon DEF IsState

\* get_region_type() finds a region below 4 GB uncacheable just when each of its
\* pages is.
LEMMA RegionUC ==
  ASSUME NEW s, IsState(s), NEW r, r.base \in Nat, r.pages \in Nat \ {0}
  PROVE  /\ get_region_type(s, r) = "UC" =>
              \A p \in r.base .. r.base + r.pages - 1 : MemoryType(s, p) = "UC"
         /\ get_region_type(s, r) # "UC" =>
              \/ r.base + r.pages >= Pages4G
              \/ \E p \in r.base .. r.base + r.pages - 1 : MemoryType(s, p) # "UC"
<1> DEFINE pages == r.base .. r.base + r.pages - 1
           found == {get_page_type(s, p) : p \in pages}
<1>0. Pages4G \in Nat
  <2>1. Pow2[SinitBits] \in Nat
    BY Pow2Def, Widths
  <2>2. QED
    BY <2>1, MtrrAssumption
<1>1. get_region_type(s, r) =
        CASE r.pages = 0 \/ r.base + r.pages >= Pages4G -> "MIXED"
          [] r.pages > 0 /\ r.base + r.pages < Pages4G /\ ~s.e -> "UC"
          [] OTHER -> IF Single(found) THEN CHOOSE t \in found : TRUE ELSE "MIXED"
  BY Zenon DEF get_region_type
<1>2. r.base \in pages
  OBVIOUS
<1>3. Single(found) <=> \E t : found = {t}
  <2> HIDE DEF found
  <2>1. QED
    BY Zenon DEF Single
<1>4. CASE r.base + r.pages >= Pages4G
  <2> HIDE DEF found
  <2>1. ~ (r.base + r.pages < Pages4G)
    BY <1>0, <1>4
  <2>2. get_region_type(s, r) = "MIXED"
    BY <1>1, <1>4, <2>1, Zenon
  <2>3. QED
    BY <1>4, <2>2, Zenon
<1>5. CASE r.base + r.pages < Pages4G /\ s.e = FALSE
  <2>1. ~ (r.base + r.pages >= Pages4G)
    BY <1>0, <1>5
  <2>2. get_region_type(s, r) = "UC"
    BY <1>1, <1>5, <2>1
  <2>3. \A p : MemoryType(s, p) = "UC"
    BY <1>5, MemoryTypeIs, Zenon
  <2>4. QED
    BY <2>2, <2>3, Zenon
<1>6. CASE r.base + r.pages < Pages4G /\ s.e = TRUE
  <2>1. ~ (r.base + r.pages >= Pages4G)
    BY <1>0, <1>6
  <2>2. get_region_type(s, r) = IF Single(found) THEN CHOOSE t \in found : TRUE ELSE "MIXED"
    <3> HIDE DEF found
    <3>1. QED
      BY <1>1, <1>6, <2>1, Zenon
  <2>3. \A p : get_page_type(s, p) = "UC" <=> MemoryType(s, p) = "UC"
    BY <1>6, PageTypeUC, Zenon
  <2>4. ASSUME get_region_type(s, r) = "UC", NEW p \in pages PROVE MemoryType(s, p) = "UC"
    <3>1. PICK t : found = {t}
      BY <1>3, <2>2, <2>4, Zenon
    <3>2. t = "UC"
      <4> HIDE DEF found
      <4>1. Single(found) /\ (CHOOSE x \in found : TRUE) = t
        BY <1>3, <3>1, Zenon
      <4>2. QED
        BY <2>2, <2>4, <4>1, Zenon
    <3>3. get_page_type(s, p) \in found
      BY Zenon
    <3>4. get_page_type(s, p) = "UC"
      BY <3>1, <3>2, <3>3, Zenon
    <3>5. QED
      BY <2>3, <3>4, Zenon
  <2>5. ASSUME \A p \in pages : MemoryType(s, p) = "UC" PROVE get_region_type(s, r) = "UC"
    <3>1. found = {"UC"}
      BY <1>2, <2>3, <2>5, Zenon
    <3> HIDE DEF found
    <3>2. Single(found) /\ (CHOOSE x \in found : TRUE) = "UC"
      BY <1>3, <3>1, Zenon
    <3>3. QED
      BY <2>2, <3>2, Zenon
  <2>6. QED
    BY <2>4, <2>5, Zenon
<1>7. s.e \in BOOLEAN /\ (r.base + r.pages >= Pages4G \/ r.base + r.pages < Pages4G)
  BY <1>0 DEF IsState
<1>8. QED
  BY <1>4, <1>5, <1>6, <1>7, Zenon

\* The pages of an MTRR whose mask has a bit and not a higher one are not one range.
LEMMA NotContiguousGap ==
  ASSUME NEW m \in Vars, m.v = TRUE, ~Contiguous(m)
  PROVE  \E p, q \in PagesOf(m) : \E x \in p .. q : x \notin PagesOf(m)
<1>1. PICK b \in m.mask, c \in AllBits : c >= b /\ c \notin m.mask
  BY Zenon DEF Contiguous
<1> DEFINE B == m.base \cap m.mask
<1>2. m.mask \subseteq AllBits /\ b \in AllBits /\ B \in SUBSET AllBits
  BY Zenon DEF Vars
<1>3. b < c /\ b \in 0 .. PhysBits /\ c \in 0 .. PhysBits
  BY <1>1, <1>2, Widths DEF AllBits
<1>4. Pow2[b] \in Nat \ {0} /\ Pow2[c] \in Nat \ {0} /\ Pow2[b] < Pow2[c] /\ Pow2[PhysBits] \in Nat
  <2>1. Pow2[b] < Pow2[c]
    BY <1>3, Pow2Grows, Zenon
  <2>2. PhysBits \in 0 .. PhysBits
    BY Widths
  <2>3. QED
    BY <1>3, <2>1, <2>2, Pow2Def
<1>5. \A y \in AllPages : y \in PagesOf(m) <=> Bits(y) \cap m.mask = B
  BY Zenon DEF PagesOf, Matches
<1> HIDE DEF B
<1>6. PICK p \in AllPages : Bits(p) = B
  BY <1>2, BitsOnto, Zenon
<1>7. B \cap m.mask = B /\ (B \cup {c}) \cap m.mask = B /\ c \notin B
  BY <1>1, Zenon DEF B
<1>8. p + Pow2[c] \in AllPages /\ Bits(p + Pow2[c]) = B \cup {c}
  BY <1>6, <1>7, AddBit, Zenon
<1>9. p \in PagesOf(m) /\ p + Pow2[c] \in PagesOf(m)
  BY <1>5, <1>6, <1>7, <1>8, Zenon
<1>10. p \in Nat
  BY <1>4 DEF AllPages
<1>11. CASE b \notin B
  <2>1. p + Pow2[b] \in AllPages /\ Bits(p + Pow2[b]) = B \cup {b}
    BY <1>2, <1>6, <1>11, AddBit, Zenon
  <2>2. b \in (B \cup {b}) \cap m.mask
    BY <1>1, Zenon
  <2>3. p + Pow2[b] \notin PagesOf(m)
    BY <1>5, <1>11, <2>1, <2>2, Zenon
  <2>4. p + Pow2[b] \in p .. p + Pow2[c]
    BY <1>4, <1>10
  <2>5. QED
    BY <1>9, <2>3, <2>4, Zenon
<1>12. CASE b \in B
  <2>1. (B \cup {c}) \ {b} \in SUBSET AllBits
    BY <1>1, <1>2, Zenon
  <2>2. PICK x \in AllPages : Bits(x) = (B \cup {c}) \ {b}
    BY <2>1, BitsOnto, Zenon
  <2>3. x + Pow2[b] \in AllPages /\ Bits(x + Pow2[b]) = ((B \cup {c}) \ {b}) \cup {b}
    BY <1>2, <2>2, AddBit, Zenon
  <2>4. ((B \cup {c}) \ {b}) \cup {b} = B \cup {c}
    BY <1>12, Zenon
  <2>5. x + Pow2[b] = p + Pow2[c]
    BY <1>8, <2>3, <2>4, BitsOfOne, Zenon
  <2>6. x \in Nat
    BY <1>4 DEF AllPages
  <2>7. x \in p .. p + Pow2[c]
    BY <1>4, <1>10, <2>5, <2>6
  <2>8. b \notin Bits(x) \cap m.mask
    BY <2>2, Zenon
  <2>9. x \notin PagesOf(m)
    BY <1>5, <1>12, <2>8, Zenon
  <2>10. QED
    BY <1>9, <2>7, <2>9, Zenon
<1>13. QED
  BY <1>11, <1>12, Zenon

\* MTRRs that overlap in validate_mtrrs()'s sense share a page.
LEMMA OverlapShared ==
  ASSUME NEW m \in Vars, NEW n \in Vars, m.v = TRUE, n.v = TRUE, Overlap(m, n)
  PROVE  PagesOf(m) \cap PagesOf(n) # {}
<1> DEFINE S == (m.base \cap m.mask) \cup (n.base \cap n.mask)
<1>1. S \in SUBSET AllBits
  BY Zenon DEF Vars
<1>2. PICK p \in AllPages : Bits(p) = S
  <2> HIDE DEF S
  <2>1. QED
    BY <1>1, BitsOnto, Zenon
<1>3. S \cap m.mask = m.base \cap m.mask
  BY Zenon DEF Overlap
<1>4. S \cap n.mask = n.base \cap n.mask
  BY Zenon DEF Overlap
<1>5. p \in PagesOf(m) /\ p \in PagesOf(n)
  BY <1>2, <1>3, <1>4, Zenon DEF PagesOf, Matches
<1>6. QED
  BY <1>5, Zenon

\* A range that holds every page of another contains it in validate_mtrrs()'s sense.
LEMMA SubsetContains ==
  ASSUME NEW u \in Vars, NEW m \in Vars, m.v = TRUE, PagesOf(m) \subseteq PagesOf(u)
  PROVE  Contains(u, m)
<1> DEFINE B == m.base \cap m.mask
<1>1. B \in SUBSET AllBits /\ u.mask \subseteq AllBits
  BY Zenon DEF Vars
<1>2. \A p \in AllPages : Bits(p) \cap m.mask = B => Bits(p) \cap u.mask = u.base \cap u.mask
  BY Zenon DEF PagesOf, Matches
<1>3. PICK p \in AllPages : Bits(p) = B
  <2> HIDE DEF B
  <2>1. QED
    BY <1>1, BitsOnto, Zenon
<1>4. B \cap u.mask = u.base \cap u.mask
  BY <1>2, <1>3, Zenon
<1>5. ASSUME NEW c \in u.mask, c \notin m.mask PROVE FALSE
  <2>1. c \in AllBits /\ c \notin Bits(p)
    BY <1>1, <1>3, <1>5, Zenon
  <2>2. p + Pow2[c] \in AllPages /\ Bits(p + Pow2[c]) = B \cup {c}
    <3> HIDE DEF B
    <3>1. QED
      BY <1>3, <2>1, AddBit, Zenon
  <2>3. (B \cup {c}) \cap m.mask = B
    BY <1>5, Zenon
  <2>4. (B \cup {c}) \cap u.mask = u.base \cap u.mask
    <3> HIDE DEF B
    <3>1. QED
      BY <1>2, <2>2, <2>3, Zenon
  <2>5. c \in B
    BY <1>4, <1>5, <2>4, Zenon
  <2>6. QED
    BY <1>5, <2>5, Zenon
<1>6. QED
  BY <1>4, <1>5, Zenon DEF Contains

\* What two rows of cells give when they are written one after the other.
LEMMA Joined ==
  ASSUME NEW s \in Seq(Nat), NEW t \in Seq(Nat)
  PROVE  /\ s \o t \in Seq(Nat) /\ Len(s \o t) = Len(s) + Len(t)
         /\ \A k \in 1 .. Len(s) + Len(t) : (s \o t)[k] = IF k <= Len(s) THEN s[k] ELSE t[k - Len(s)]
OBVIOUS

\* What Put() leaves in a heap.
IsPut(r, m, at, s) ==
  /\ r \in [Cells -> Nat]
  /\ \A c \in Cells : c < at \/ c >= at + Len(s) => r[c] = m[c]
  /\ \A k \in 1 .. Len(s) : at + k - 1 \in Cells => r[at + k - 1] = s[k]

\* Put() leaves what IsPut says.
LEMMA PutCells ==
  ASSUME NEW m \in [Cells -> Nat], NEW at \in Nat, NEW s \in Seq(Nat)
  PROVE  IsPut(Put(m, at, s), m, at, s)
<1> DEFINE r == Put(m, at, s)
           n == Len(s)
<1>0. (\A c \in Cells : c \in Int) /\ n \in Nat /\ \A k \in 1 .. n : s[k] \in Nat
  BY TxtHeapAssumption DEF Cells
<1>1. r = [c \in Cells |-> IF c \in at .. at + n - 1 THEN s[c - at + 1] ELSE m[c]]
  BY Zenon DEF Put
<1> HIDE DEF r, n
<1>2. ASSUME NEW c \in Cells, c \in at .. at + n - 1 PROVE c - at + 1 \in 1 .. n
  BY <1>0, <1>2
<1>3. r \in [Cells -> Nat]
  BY <1>0, <1>1, <1>2, Zenon
<1>4. ASSUME NEW k \in 1 .. n, at + k - 1 \in Cells PROVE r[at + k - 1] = s[k]
  <2>1. at + k - 1 \in at .. at + n - 1 /\ (at + k - 1) - at + 1 = k
    BY <1>0
  <2>2. QED
    BY <1>1, <1>4, <2>1, Zenon
<1>5. ASSUME NEW c \in Cells, c < at \/ c >= at + n PROVE r[c] = m[c]
  BY <1>0, <1>1, <1>5
<1>6. QED
  BY <1>3, <1>4, <1>5, Zenon DEF IsPut, r, n

\* The cells that init_txt_heap() writes, from the end of the BIOS's part on: the
\* first are the OS-to-MLE data, and then come its size and the OS-to-SINIT data.
MleCells(m, b, w) ==
  m[b] = OsMleFixed + SizeField /\ m[b + 1] = 3 /\ m[b + 2] = w

\* The head of the event log.
LogCells(m, b) ==
  m[b + 3] = EVTLOG_SIGNATURE /\ m[b + 4] = LogSize /\ m[b + 5] = LogHead /\ m[b + 6] = LogHead

\* The OS-to-SINIT data.
SinitCells(m, b, version, ptab, wake, da) ==
  /\ m[b + 7] = calc_os_sinit_data_size(version) /\ m[b + 8] = version
  /\ m[b + 9] = ptab /\ m[b + 10] = wake /\ m[b + 11] = da

\* The two elements behind it: the pointer to the log, and the end.
ExtCells(m, b) ==
  m[b + 13] = LOG_PTR /\ m[b + 14] = EltHead + LogPtr /\ m[b + 15] = b + 3 /\ m[b + 16] = END /\ m[b + 17] = EltHead

\* All that init_txt_heap() makes of a heap m0 whose first b cells are the BIOS's.
IsFilled(m, m0, b, w, version, ptab, wake, da) ==
  /\ m \in [Cells -> Nat] /\ \A c \in 0 .. b - 1 : m[c] = m0[c]
  /\ MleCells(m, b, w) /\ SinitCells(m, b, version, ptab, wake, da)
  /\ version >= 6 => LogCells(m, b) /\ ExtCells(m, b)

\* The sizes that calc_os_sinit_data_size() gives to the versions.
LEMMA SizesOfData ==
  ASSUME NEW v \in Nat
  PROVE  /\ v >= 6 => calc_os_sinit_data_size(v) = 11
         /\ v = 5 => calc_os_sinit_data_size(v) = 6
         /\ v < 5 => calc_os_sinit_data_size(v) = 5
BY DEF calc_os_sinit_data_size, OsSinitFixed, SizeField, EltHead, LogPtr, RsdtAt

\* init_txt_heap() writes the parts of the heap behind one another, each where the
\* sizes in front of it say, and none over what is already there.
LEMMA HeapFilled ==
  ASSUME NEW m0 \in [Cells -> Nat], NEW b \in Nat \ {0}, m0[0] = b, b + 20 <= HeapCells,
         NEW w \in Nat, NEW v \in 4 .. 7, NEW ptab \in Nat, NEW wake \in Nat, NEW da \in Nat, NEW rsdt \in Nat,
         NEW m, m = OsSinitData(OsMleData(m0, w), v, ptab, wake, da, rsdt)
  PROVE  IsFilled(m, m0, b, w, v, ptab, wake, da)
<1> DEFINE size == calc_os_sinit_data_size(v)
           s1 == <<7, 3, w>> \o Zeros(4)
           s2 == <<size>>
           s3 == Zeros(size)
           s4 == <<v, ptab, wake, da, rsdt>>
           s5 == <<EVTLOG_SIGNATURE, LogSize, LogHead, LogHead>>
           s6 == <<LOG_PTR, EltHead + LogPtr, b + 3, END, EltHead>>
           m1 == Put(m0, b, s1)
           m2 == Put(m1, b + 7, s2)
           m3 == Put(m2, b + 8, s3)
           m4 == Put(m3, b + 8, s4)
           m5 == Put(m4, b + 3, s5)
           m6 == Put(m5, b + 13, s6)
<1>1. \A c \in Int : 0 <= c /\ c < b + 20 => c \in Cells
  BY TxtHeapAssumption DEF Cells
<1>2. size \in 5 .. 11 /\ v \in Nat
  BY SizesOfData
<1>3. m1 = OsMleData(m0, w)
  BY DEF OsMleData, get_bios_data_size, OsMleFixed, SizeField
<1>4. ASSUME m1[0] = b, m1[b] = 7
      PROVE  m = IF v >= 6 THEN init_os_sinit_ext_data(m4, b + 8 + OsSinitFixed) ELSE m4
  <2>1. OsSinitSizeAt(m1) = b + 7 /\ get_os_sinit_data_start(m1) = b + 8
    BY <1>4 DEF OsSinitSizeAt, get_os_sinit_data_start, get_bios_data_size, get_os_mle_data_size, SizeField
  <2>2. QED
    BY <1>3, <2>1, Zenon DEF OsSinitData
<1>5. ASSUME m4[0] = b
      PROVE  init_os_sinit_ext_data(m4, b + 8 + OsSinitFixed) = m6
  BY <1>5 DEF init_os_sinit_ext_data, init_event_log, get_os_mle_data_start, get_bios_data_size,
              OsSinitFixed, SizeField, LogAt, EltHead, LogPtr
<1>6. s1 \in Seq(Nat) /\ Len(s1) = 7 /\ s1[1] = 7 /\ s1[2] = 3 /\ s1[3] = w
  <2> DEFINE z == Zeros(4)
             h == <<7, 3, w>>
             c == h \o z
  <2>1. z \in Seq(Nat) /\ Len(z) = 4
    BY DEF Zeros
  <2>2. h \in Seq(Nat) /\ Len(h) = 3 /\ h[1] = 7 /\ h[2] = 3 /\ h[3] = w
    OBVIOUS
  <2>3. s1 = c
    BY Zenon
  <2> HIDE DEF z, h, s1
  <2>4. /\ c \in Seq(Nat) /\ Len(c) = Len(h) + Len(z)
        /\ \A k \in 1 .. Len(h) + Len(z) : c[k] = IF k <= Len(h) THEN h[k] ELSE z[k - Len(h)]
    BY <2>1, <2>2, Joined, Zenon
  <2> HIDE DEF c
  <2>5. Len(c) = 7 /\ c[1] = h[1] /\ c[2] = h[2] /\ c[3] = h[3]
    BY <2>1, <2>2, <2>4
  <2>6. QED
    BY <2>2, <2>3, <2>4, <2>5, Zenon
<1>7. s2 \in Seq(Nat) /\ Len(s2) = 1 /\ s2[1] = size
  BY <1>2
<1>8. s3 \in Seq(Nat)
  BY <1>2, SMTT(30) DEF Zeros
<1>9. s4 \in Seq(Nat) /\ Len(s4) = 5 /\ s4[1] = v /\ s4[2] = ptab /\ s4[3] = wake /\ s4[4] = da
  BY <1>2
<1>10. /\ s5 \in Seq(Nat) /\ Len(s5) = 4
       /\ s5[1] = EVTLOG_SIGNATURE /\ s5[2] = LogSize /\ s5[3] = LogHead /\ s5[4] = LogHead
  BY DEF EVTLOG_SIGNATURE, LogSize, LogHead
<1>11. /\ s6 \in Seq(Nat) /\ Len(s6) = 5
       /\ s6[1] = LOG_PTR /\ s6[2] = EltHead + LogPtr /\ s6[3] = b + 3 /\ s6[4] = END /\ s6[5] = EltHead
  BY DEF LOG_PTR, END, EltHead, LogPtr
<1> HIDE DEF size, s1, s2, s3, s4, s5, s6
<1>12. \A c \in Cells : c \in Nat
  BY TxtHeapAssumption DEF Cells
<1>13. /\ IsPut(m1, m0, b, s1) /\ IsPut(m2, m1, b + 7, s2) /\ IsPut(m3, m2, b + 8, s3)
       /\ IsPut(m4, m3, b + 8, s4) /\ IsPut(m5, m4, b + 3, s5) /\ IsPut(m6, m5, b + 13, s6)
  <2>0. b + 7 \in Nat /\ b + 8 \in Nat /\ b + 3 \in Nat /\ b + 13 \in Nat
    OBVIOUS
  <2>1. IsPut(m1, m0, b, s1)
    BY <1>6, PutCells, Zenon
  <2> HIDE DEF m1
  <2>2. m1 \in [Cells -> Nat]
    BY <2>1, Zenon DEF IsPut
  <2>3. IsPut(m2, m1, b + 7, s2)
    BY <1>7, <2>0, <2>2, PutCells, Zenon
  <2> HIDE DEF m2
  <2>4. m2 \in [Cells -> Nat]
    BY <2>3, Zenon DEF IsPut
  <2>5. IsPut(m3, m2, b + 8, s3)
    BY <1>8, <2>0, <2>4, PutCells, Zenon
  <2> HIDE DEF m3
  <2>6. m3 \in [Cells -> Nat]
    BY <2>5, Zenon DEF IsPut
  <2>7. IsPut(m4, m3, b + 8, s4)
    BY <1>9, <2>0, <2>6, PutCells, Zenon
  <2> HIDE DEF m4
  <2>8. m4 \in [Cells -> Nat]
    BY <2>7, Zenon DEF IsPut
  <2>9. IsPut(m5, m4, b + 3, s5)
    BY <1>10, <2>0, <2>8, PutCells, Zenon
  <2> HIDE DEF m5
  <2>10. m5 \in [Cells -> Nat]
    BY <2>9, Zenon DEF IsPut
  <2>11. IsPut(m6, m5, b + 13, s6)
    BY <1>11, <2>0, <2>10, PutCells, Zenon
  <2>12. QED
    BY <2>1, <2>3, <2>5, <2>7, <2>9, <2>11, Zenon
<1> HIDE DEF m1, m2, m3, m4, m5, m6
<1>14. /\ m1 \in [Cells -> Nat] /\ m1[b] = 7 /\ m1[b + 1] = 3 /\ m1[b + 2] = w
       /\ \A c \in Cells : c < b => m1[c] = m0[c]
  <2>1. m1 \in [Cells -> Nat] /\ \A c \in Cells : c < b => m1[c] = m0[c]
    BY <1>13, Zenon DEF IsPut
  <2>2. \A k \in 1 .. 7 : b + k - 1 \in Cells => m1[b + k - 1] = s1[k]
    BY <1>6, <1>13, Zenon DEF IsPut
  <2>3. m1[b + 1 - 1] = s1[1] /\ m1[b + 2 - 1] = s1[2] /\ m1[b + 3 - 1] = s1[3]
    BY <1>1, <2>2
  <2>4. b + 1 - 1 = b /\ b + 2 - 1 = b + 1 /\ b + 3 - 1 = b + 2
    OBVIOUS
  <2>5. QED
    BY <1>6, <2>1, <2>3, <2>4, Zenon
<1>15. m2 \in [Cells -> Nat] /\ m2[b + 7] = size /\ \A c \in Cells : c < b + 7 => m2[c] = m1[c]
  <2>1. m2 \in [Cells -> Nat] /\ \A c \in Cells : c < b + 7 => m2[c] = m1[c]
    BY <1>13, Zenon DEF IsPut
  <2>2. \A k \in 1 .. 1 : b + 7 + k - 1 \in Cells => m2[b + 7 + k - 1] = s2[k]
    BY <1>7, <1>13, Zenon DEF IsPut
  <2>3. m2[b + 7 + 1 - 1] = size /\ b + 7 + 1 - 1 = b + 7
    BY <1>1, <1>7, <2>2
  <2>4. QED
    BY <2>1, <2>3, Zenon
<1>16. m3 \in [Cells -> Nat] /\ \A c \in Cells : c < b + 8 => m3[c] = m2[c]
  BY <1>13, Zenon DEF IsPut
<1>17. /\ m4 \in [Cells -> Nat] /\ \A c \in Cells : c < b + 8 => m4[c] = m3[c]
       /\ m4[b + 8] = v /\ m4[b + 9] = ptab /\ m4[b + 10] = wake /\ m4[b + 11] = da
  <2>1. m4 \in [Cells -> Nat] /\ \A c \in Cells : c < b + 8 => m4[c] = m3[c]
    BY <1>13, Zenon DEF IsPut
  <2>2. \A k \in 1 .. 5 : b + 8 + k - 1 \in Cells => m4[b + 8 + k - 1] = s4[k]
    BY <1>9, <1>13, Zenon DEF IsPut
  <2>3. /\ m4[b + 8 + 1 - 1] = s4[1] /\ m4[b + 8 + 2 - 1] = s4[2] /\ m4[b + 8 + 3 - 1] = s4[3]
        /\ m4[b + 8 + 4 - 1] = s4[4]
    BY <1>1, <2>2
  <2>4. b + 8 + 1 - 1 = b + 8 /\ b + 8 + 2 - 1 = b + 9 /\ b + 8 + 3 - 1 = b + 10 /\ b + 8 + 4 - 1 = b + 11
    OBVIOUS
  <2>5. QED
    BY <1>9, <2>1, <2>3, <2>4, Zenon
<1>18. /\ \A c \in 0 .. b - 1 : m4[c] = m0[c]
       /\ m4[b] = 7 /\ m4[b + 1] = 3 /\ m4[b + 2] = w /\ m4[b + 7] = size
  <2>1. \A c \in Cells : c < b + 7 => m4[c] = m1[c]
    BY <1>12, <1>15, <1>16, <1>17
  <2>2. b \in Cells /\ b + 1 \in Cells /\ b + 2 \in Cells /\ b + 7 \in Cells
    BY <1>1
  <2>3. m4[b] = m1[b] /\ m4[b + 1] = m1[b + 1] /\ m4[b + 2] = m1[b + 2]
    BY <2>1, <2>2
  <2>4. m4[b + 7] = size
    BY <1>15, <1>16, <1>17, <2>2
  <2>5. \A c \in 0 .. b - 1 : c \in Cells /\ c < b /\ c < b + 7
    BY <1>1
  <2>6. QED
    BY <1>14, <2>1, <2>3, <2>4, <2>5, Zenon
<1>19. m4[0] = b /\ m1[0] = b
  <2>1. 0 \in Cells /\ 0 < b /\ 0 \in 0 .. b - 1
    BY <1>1
  <2>2. QED
    BY <1>14, <1>18, <2>1, Zenon
<1>20. CASE v < 6
  <2>1. m = m4
    BY <1>2, <1>4, <1>14, <1>19, <1>20
  <2>2. MleCells(m4, b, w) /\ SinitCells(m4, b, v, ptab, wake, da)
    BY <1>17, <1>18 DEF MleCells, SinitCells, OsMleFixed, SizeField, size
  <2>3. QED
    BY <1>2, <1>17, <1>18, <1>20, <2>1, <2>2 DEF IsFilled
<1>21. CASE v >= 6
  <2>1. m = m6
    BY <1>4, <1>5, <1>14, <1>19, <1>21, Zenon
  <2>2. \A c \in Cells : c < b + 3 \/ c > b + 6 => m5[c] = m4[c]
    <3>1. \A c \in Cells : c < b + 3 \/ c >= b + 3 + 4 => m5[c] = m4[c]
      BY <1>10, <1>13, Zenon DEF IsPut
    <3>2. QED
      BY <1>12, <3>1
  <2>3. m6 \in [Cells -> Nat] /\ \A c \in Cells : c < b + 13 => m6[c] = m5[c]
    BY <1>13, Zenon DEF IsPut
  <2>4. LogCells(m5, b)
    <3>1. \A k \in 1 .. 4 : b + 3 + k - 1 \in Cells => m5[b + 3 + k - 1] = s5[k]
      BY <1>10, <1>13, Zenon DEF IsPut
    <3>2. /\ m5[b + 3 + 1 - 1] = s5[1] /\ m5[b + 3 + 2 - 1] = s5[2] /\ m5[b + 3 + 3 - 1] = s5[3]
          /\ m5[b + 3 + 4 - 1] = s5[4]
      BY <1>1, <3>1
    <3>3. b + 3 + 1 - 1 = b + 3 /\ b + 3 + 2 - 1 = b + 4 /\ b + 3 + 3 - 1 = b + 5 /\ b + 3 + 4 - 1 = b + 6
      OBVIOUS
    <3>4. QED
      BY <1>10, <3>2, <3>3, Zenon DEF LogCells
  <2>5. LogCells(m6, b)
    <3>1. m6[b + 3] = m5[b + 3] /\ m6[b + 4] = m5[b + 4] /\ m6[b + 5] = m5[b + 5] /\ m6[b + 6] = m5[b + 6]
      BY <1>1, <2>3
    <3>2. QED
      BY <2>4, <3>1, Zenon DEF LogCells
  <2>6. ExtCells(m6, b)
    <3>1. \A k \in 1 .. 5 : b + 13 + k - 1 \in Cells => m6[b + 13 + k - 1] = s6[k]
      BY <1>11, <1>13, Zenon DEF IsPut
    <3>2. /\ m6[b + 13 + 1 - 1] = s6[1] /\ m6[b + 13 + 2 - 1] = s6[2] /\ m6[b + 13 + 3 - 1] = s6[3]
          /\ m6[b + 13 + 4 - 1] = s6[4] /\ m6[b + 13 + 5 - 1] = s6[5]
      BY <1>1, <3>1
    <3>3. /\ b + 13 + 1 - 1 = b + 13 /\ b + 13 + 2 - 1 = b + 14 /\ b + 13 + 3 - 1 = b + 15
          /\ b + 13 + 4 - 1 = b + 16 /\ b + 13 + 5 - 1 = b + 17
      OBVIOUS
    <3>4. QED
      BY <1>11, <3>2, <3>3, Zenon DEF ExtCells
  <2>7. \A c \in Cells : c < b + 3 => m6[c] = m4[c]
    BY <1>12, <2>2, <2>3
  <2>8. MleCells(m6, b, w) /\ \A c \in 0 .. b - 1 : m6[c] = m0[c]
    <3>1. b \in Cells /\ b + 1 \in Cells /\ b + 2 \in Cells /\ \A c \in 0 .. b - 1 : c \in Cells /\ c < b + 3
      BY <1>1
    <3>2. m6[b] = m4[b] /\ m6[b + 1] = m4[b + 1] /\ m6[b + 2] = m4[b + 2] /\ \A c \in 0 .. b - 1 : m6[c] = m4[c]
      BY <2>7, <3>1
    <3>3. QED
      BY <1>18, <3>2 DEF MleCells, OsMleFixed, SizeField
  <2>9. SinitCells(m6, b, v, ptab, wake, da)
    <3>1. \A c \in {b + 7, b + 8, b + 9, b + 10, b + 11} : c \in Cells /\ c < b + 13 /\ c > b + 6
      BY <1>1
    <3>2. \A c \in {b + 7, b + 8, b + 9, b + 10, b + 11} : m6[c] = m4[c]
      BY <2>2, <2>3, <3>1, Zenon
    <3>3. m6[b + 7] = m4[b + 7] /\ m6[b + 8] = m4[b + 8] /\ m6[b + 9] = m4[b + 9] /\ m6[b + 10] = m4[b + 10]
          /\ m6[b + 11] = m4[b + 11]
      BY <3>2, Zenon
    <3>4. QED
      BY <1>17, <1>18, <3>3, Zenon DEF SinitCells, size
  <2>10. QED
    BY <2>1, <2>3, <2>5, <2>6, <2>8, <2>9, Zenon DEF IsFilled
<1>22. QED
  BY <1>2, <1>20, <1>21

\* Where a processor can be, and the machines there are: prepare_sinit_acm() records
\* where SINIT lies, and nothing else of a machine changes.
Labels ==
  {"sinit", "platform", "environment", "save", "disable", "clear", "map", "senter", "verify", "wakeup",
   "restore", "vars", "done", "refused", "heap refused", "hang", "asleep"}

\* x is one of Machines, with one of its platforms.
IsMachine(x) ==
  \E m \in Machines : \E n \in PlatformNames(m) :
    x = [found |-> m.found, ap |-> m.ap, acmod |-> x.acmod, txt |-> n, ioapic |-> x.ioapic, mcfg |-> x.mcfg]

\* What is known of the platform of a machine.
LEMMA PlatformFacts ==
  ASSUME NEW x, IsMachine(x)
  PROVE  /\ IsPlatform(Platform(x.txt))
         /\ x.found \in MtrrStates /\ x.ap \in MtrrStates
         /\ DOMAIN x = {"found", "ap", "acmod", "txt", "ioapic", "mcfg"}
<1>1. PICK m \in Machines : \E n \in PlatformNames(m) :
        x = [found |-> m.found, ap |-> m.ap, acmod |-> x.acmod, txt |-> n, ioapic |-> x.ioapic, mcfg |-> x.mcfg]
  BY Zenon DEF IsMachine
<1>2. PICK n \in PlatformNames(m) :
        x = [found |-> m.found, ap |-> m.ap, acmod |-> x.acmod, txt |-> n, ioapic |-> x.ioapic, mcfg |-> x.mcfg]
  BY <1>1, Zenon
<1>3. {m.found, m.ap} \subseteq MtrrStates /\ IsPlatform(Platform(n))
  BY MtrrAssumption, LaunchAssumption, Zenon
<1>4. /\ x.found = m.found /\ x.ap = m.ap /\ x.txt = n
      /\ DOMAIN x = {"found", "ap", "acmod", "txt", "ioapic", "mcfg"}
  BY <1>2
<1>5. QED
  BY <1>3, <1>4, Zenon

-----------------------------------------------------------------------------
(* The choice of SINIT.                                                      *)
\* The sizes of addresses and pages.
LEMMA Sizes ==
  /\ U32Size \in Nat /\ U32Size > 0 /\ AcmPage \in Nat \ {0} /\ AcmUnit \in Nat \ {0}
  /\ Pages4G \in Nat /\ Pages4G * AcmPage = U32Size
<1>1. Pow2[SinitBits] \in Nat
  BY Pow2Def, Widths
<1>2. QED
  BY <1>1, MtrrAssumption, SinitAcmAssumption, LaunchAssumption DEF HdrSize

\* A module is moved by changing where it is.
LEMMA Moved ==
  ASSUME NEW h, IsAcm(h), NEW at \in U32Values
  PROVE  /\ IsAcm([h EXCEPT !.at = at]) /\ [h EXCEPT !.at = at].at = at
         /\ \A f \in {"len", "size", "chipset", "header_len", "scratch_size", "debug", "date",
                      "entry_point", "seg_sel", "gdt_limit", "info"} : [h EXCEPT !.at = at][f] = h[f]
         /\ [h EXCEPT !.at = at] # NoModule
<1> DEFINE g == [h EXCEPT !.at = at]
<1>1. g.at = at /\ DOMAIN g = DOMAIN h
  BY Zenon DEF IsAcm
<1>2. \A f \in {"len", "size", "chipset", "header_len", "scratch_size", "debug", "date",
                "entry_point", "seg_sel", "gdt_limit", "info"} : g[f] = h[f]
  BY Zenon DEF IsAcm
<1> HIDE DEF g
<1>3. /\ g.len = h.len /\ g.size = h.size /\ g.chipset = h.chipset /\ g.header_len = h.header_len
      /\ g.scratch_size = h.scratch_size /\ g.debug = h.debug /\ g.date = h.date
      /\ g.entry_point = h.entry_point /\ g.seg_sel = h.seg_sel /\ g.gdt_limit = h.gdt_limit /\ g.info = h.info
  BY <1>2, Zenon
<1>4. IsAcm(g)
  BY <1>1, <1>3 DEF IsAcm
<1>5. g # NoModule
  <2>1. "at" \in DOMAIN g
    BY <1>4, Zenon DEF IsAcm
  <2>2. "at" \notin DOMAIN NoModule
    BY Zenon DEF NoModule
  <2>3. QED
    BY <2>1, <2>2, Zenon
<1>6. QED
  BY <1>1, <1>2, <1>4, <1>5, Zenon DEF g

\* Without overflow the bytes are those that the header claims.
LEMMA BytesExact ==
  ASSUME NEW h, h.size \in Nat, ~multiply_overflow_u32(h.size, 4)
  PROVE  Bytes(h) = h.size * 4 /\ h.size * 4 < U32Size /\ Bytes(h) \in Nat
<1>1. h.size * 4 < U32Size
  BY Sizes DEF multiply_overflow_u32
<1>2. \A x \in Nat : x < U32Size => x % U32Size = x
  BY Sizes
<1>3. QED
  BY <1>1, <1>2 DEF Bytes

\* The last of the loaded modules that suit, if any.
LEMMA FoundLast ==
  ASSUME NEW p, IsPlatform(p)
  PROVE  /\ FoundSinit(p.mods, p) = NoModule <=> Len(p.mods) = 1
         /\ FoundSinit(p.mods, p) # NoModule => IsAcm(FoundSinit(p.mods, p))
         /\ (\E i \in 2 .. Len(p.mods) : Suits(p.mods[i], p)) =>
              \E i \in 2 .. Len(p.mods) : Suits(p.mods[i], p) /\ FoundSinit(p.mods, p) = p.mods[i]
         /\ FoundSinit(p.mods, p) # NoModule /\ ~(\E i \in 2 .. Len(p.mods) : Suits(p.mods[i], p)) =>
              Len(p.mods) > 1 /\ FoundSinit(p.mods, p) = p.mods[2]
<1> DEFINE n == Len(p.mods)
           cand == 2 .. n
           good == {i \in cand : Suits(p.mods[i], p)}
           last == CHOOSE i \in good : \A j \in good : j <= i
<1>1. n \in Nat \ {0} /\ \A i \in 1 .. n : IsAcm(p.mods[i])
  BY Zenon DEF IsPlatform
<1>2. ASSUME NEW h, IsAcm(h) PROVE h # NoModule
  <2>1. "at" \in DOMAIN h
    BY <1>2, Zenon DEF IsAcm
  <2>2. "at" \notin DOMAIN NoModule
    BY Zenon DEF NoModule
  <2>3. QED
    BY <2>1, <2>2, Zenon
<1>3. FoundSinit(p.mods, p) = IF cand = {} THEN NoModule ELSE p.mods[IF good = {} THEN 2 ELSE last]
  BY Zenon DEF FoundSinit
<1> HIDE DEF n
<1>4. ASSUME good # {} PROVE last \in good
  <2> DEFINE S == {n - i : i \in good}
  <2>1. S \in SUBSET Nat /\ S # {}
    BY <1>1, <1>4
  <2>2. PICK k \in S : \A j \in S : k <= j
    <3> HIDE DEF S
    <3>1. QED
      BY <2>1, LeastIn, Zenon
  <2>3. PICK i \in good : k = n - i
    BY Zenon
  <2>4. ASSUME NEW j \in good PROVE j <= i
    <3>1. k <= n - j
      BY <2>2, Zenon
    <3>2. QED
      BY <1>1, <2>3, <3>1
  <2>5. \E x \in good : \A j \in good : j <= x
    BY <2>4, Zenon
  <2> HIDE DEF good
  <2>6. QED
    BY <2>5, Zenon
<1>5. (cand = {} <=> n = 1) /\ (cand # {} => n > 1)
  BY <1>1
<1>6. ASSUME cand # {}
      PROVE  \E i \in cand : FoundSinit(p.mods, p) = p.mods[i] /\ (IF good = {} THEN i = 2 ELSE i \in good)
  <2>1. CASE good = {}
    <3>1. 2 \in cand
      BY <1>1, <1>6
    <3>2. FoundSinit(p.mods, p) = p.mods[2]
      <4> HIDE DEF good, cand, last
      <4>1. QED
        BY <1>3, <1>6, <2>1, Zenon
    <3>3. QED
      BY <2>1, <3>1, <3>2, Zenon
  <2>2. CASE good # {}
    <3>1. last \in cand /\ last \in good
      BY <1>4, <2>2, Zenon
    <3>2. FoundSinit(p.mods, p) = p.mods[last]
      <4> HIDE DEF good, cand, last
      <4>1. QED
        BY <1>3, <1>6, <2>2, Zenon
    <3> HIDE DEF good, cand, last
    <3>3. QED
      BY <3>1, <3>2, Zenon
  <2>3. QED
    BY <2>1, <2>2, Zenon
<1>7. CASE cand = {}
  <2>1. FoundSinit(p.mods, p) = NoModule
    <3> HIDE DEF good, cand, last
    <3>1. QED
      BY <1>3, <1>7, Zenon
  <2>2. QED
    BY <1>5, <1>7, <2>1, Zenon DEF n
<1>8. CASE cand # {}
  <2>1. PICK i \in cand : FoundSinit(p.mods, p) = p.mods[i] /\ (IF good = {} THEN i = 2 ELSE i \in good)
    BY <1>6, <1>8, Zenon
  <2>2. i \in 1 .. n
    BY <1>1
  <2>3. IsAcm(p.mods[i])
    BY <1>1, <2>2, Zenon
  <2>4. good = {} => FoundSinit(p.mods, p) = p.mods[2]
    <3> HIDE DEF good, cand
    <3>1. QED
      BY <2>1, Zenon
  <2>5. ~(\E j \in 2 .. Len(p.mods) : Suits(p.mods[j], p)) => good = {}
    BY Zenon DEF n
  <2>6. (\E j \in 2 .. Len(p.mods) : Suits(p.mods[j], p)) => Suits(p.mods[i], p)
    BY <2>1, Zenon DEF n
  <2>7. QED
    BY <1>2, <1>5, <1>8, <2>1, <2>3, <2>4, <2>5, <2>6, Zenon DEF n
<1>9. QED
  BY <1>7, <1>8, Zenon

\* What copy_sinit() leaves in the SINIT region: the BIOS's module or the boot
\* loader's, at the start of the region and inside of it.
LEMMA CopiedSinit ==
  ASSUME NEW p, IsPlatform(p), NEW s, s = copy_sinit(FoundSinit(p.mods, p), p), s # NoModule
  PROVE  /\ IsAcm(s) /\ s.at = p.region.base /\ s.at # 0
         /\ Bytes(s) = s.size * 4 /\ Bytes(s) \in Nat /\ Bytes(s) <= p.region.size
         /\ \/ s = get_bios_sinit(p)
            \/ FoundSinit(p.mods, p) # NoModule /\ s = [FoundSinit(p.mods, p) EXCEPT !.at = p.region.base]
         /\ get_bios_sinit(p) # NoModule => s.date >= get_bios_sinit(p).date
<1> DEFINE f == FoundSinit(p.mods, p)
           bios == get_bios_sinit(p)
           at == p.region.base
           h == [p.region.holds EXCEPT !.at = at]
<1>1. /\ p.bios_sinit_size \in Nat /\ p.region.size \in Nat /\ at \in U32Values
      /\ at + p.region.size <= U32Size /\ IsAcm(p.region.holds) /\ p.bios_sinit_size <= p.region.size
  BY DEF IsPlatform
<1>2. bios # NoModule =>
        /\ bios = h /\ at # 0 /\ p.bios_sinit_size # 0 /\ is_acmod(h, p.bios_sinit_size)
  BY Zenon DEF get_bios_sinit, is_sinit_acmod
<1>3. s = CASE bios # NoModule /\ (f = NoModule \/ bios.date >= f.date) -> bios
            [] bios = NoModule /\ f = NoModule -> NoModule
            [] OTHER -> IF multiply_overflow_u32(f.size, 4) \/ Bytes(f) > p.region.size \/ at = 0
                        THEN NoModule ELSE [f EXCEPT !.at = at]
  BY Zenon DEF copy_sinit
<1>4. ASSUME bios # NoModule
      PROVE  /\ IsAcm(bios) /\ bios.at = at /\ at # 0
             /\ Bytes(bios) = bios.size * 4 /\ Bytes(bios) \in Nat /\ Bytes(bios) <= p.region.size
  <2>2. IsAcm(h) /\ h.at = at
    BY <1>1, Moved, ZenonT(60)
  <2>3. ~multiply_overflow_u32(h.size, 4) /\ p.bios_sinit_size = Bytes(h)
    BY <1>2, <1>4, Zenon DEF is_acmod
  <2>4. h.size \in Nat
    BY <2>2, Sizes DEF IsAcm, U32Values
  <2> HIDE DEF h, bios
  <2>5. QED
    BY <1>1, <1>2, <1>4, <2>2, <2>3, <2>4, BytesExact, Zenon
<1>5. f # NoModule => IsAcm(f)
  BY FoundLast, Zenon
<1> HIDE DEF f, bios, h
<1>6. CASE bios # NoModule /\ (f = NoModule \/ bios.date >= f.date)
  <2>1. s = bios
    BY <1>3, <1>6, Zenon
  <2>2. bios.date \in Nat
    BY <1>4, <1>6, Zenon DEF IsAcm
  <2>3. QED
    BY <1>4, <1>6, <2>1, <2>2 DEF f, bios
<1>7. CASE ~ (bios # NoModule /\ (f = NoModule \/ bios.date >= f.date))
  <2>1. f # NoModule
    BY <1>3, <1>7, Zenon
  <2>2. ~multiply_overflow_u32(f.size, 4) /\ ~ (Bytes(f) > p.region.size) /\ at # 0 /\ s = [f EXCEPT !.at = at]
    BY <1>3, <1>7, <2>1, Zenon
  <2>3. f.size \in Nat /\ f.date \in Nat
    BY <1>5, <2>1, Sizes DEF IsAcm, U32Values
  <2>4. Bytes(f) = f.size * 4 /\ f.size * 4 < U32Size /\ Bytes(f) \in Nat
    BY <2>2, <2>3, BytesExact, Zenon
  <2>5. IsAcm(s) /\ s.at = at /\ s.size = f.size /\ s.date = f.date
    BY <1>1, <1>5, <2>1, <2>2, Moved
  <2>6. Bytes(s) = Bytes(f)
    BY <2>5, Zenon DEF Bytes
  <2>7. bios # NoModule => s.date >= bios.date
    <3>1. bios # NoModule => bios.date \in Nat
      BY <1>4, Zenon DEF IsAcm
    <3>2. QED
      BY <1>7, <2>1, <2>3, <2>5, <3>1
  <2>8. QED
    BY <1>1, <2>1, <2>2, <2>4, <2>5, <2>6, <2>7 DEF f, bios
<1>8. QED
  BY <1>6, <1>7, Zenon

\* What a multiple of the page size is.
LEMMA Multiple ==
  ASSUME NEW x \in Nat, NEW d \in Nat \ {0}, x % d = 0
  PROVE  \E q \in Nat : x = q * d
<1>1. x = (x \div d) * d + (x % d) /\ x \div d \in Nat
  OBVIOUS
<1>2. (x \div d) * d + 0 = (x \div d) * d
  BY <1>1
<1>3. x = (x \div d) * d
  BY <1>1, <1>2, Zenon
<1>4. QED
  BY <1>1, <1>3, Zenon

-----------------------------------------------------------------------------
(* The invariant.                                                            *)
\* The BSP is none of the APs.
LEMMA BspIsNoAp == Bsp \notin Aps /\ Bsp \in Cpus /\ \A c \in Cpus : c \in Aps \/ c = Bsp
BY MtrrAssumption, Zenon DEF Cpus

\* Where the processors are: the machine is one of those given, and an AP is awake
\* only once the BSP has verified the platform.
Awake == {"wakeup", "restore", "vars", "done"}

FlowInv ==
  /\ IsMachine(machine)
  /\ pc \in [Cpus -> Labels]
  /\ \A c \in Aps : /\ pc[c] \in {"asleep", "restore", "vars", "done"}
                    /\ pc[c] # "asleep" => pc[Bsp] \in Awake

\* Recording where SINIT lies does not make another machine of it.
LEMMA Equipped ==
  ASSUME NEW x, IsMachine(x), NEW a
  PROVE  IsMachine([x EXCEPT !.acmod = a])
<1> DEFINE y == [x EXCEPT !.acmod = a]
<1>1. PICK m \in Machines : \E n \in PlatformNames(m) :
        x = [found |-> m.found, ap |-> m.ap, acmod |-> x.acmod, txt |-> n, ioapic |-> x.ioapic, mcfg |-> x.mcfg]
  BY Zenon DEF IsMachine
<1>2. PICK n \in PlatformNames(m) :
        x = [found |-> m.found, ap |-> m.ap, acmod |-> x.acmod, txt |-> n, ioapic |-> x.ioapic, mcfg |-> x.mcfg]
  BY <1>1, Zenon
<1>3. y = [found |-> m.found, ap |-> m.ap, acmod |-> y.acmod, txt |-> n, ioapic |-> y.ioapic, mcfg |-> y.mcfg]
  BY <1>2
<1>4. QED
  BY <1>3, Zenon DEF IsMachine

\* FlowInv holds at the start.
LEMMA InitFlow ==
  ASSUME LaunchInit
  PROVE  FlowInv
<1>1. PICK m \in Machines : \E n \in PlatformNames(m) :
        machine = [found |-> m.found, ap |-> m.ap, acmod |-> m.acmod, txt |-> n,
                   ioapic |-> get_acpi_ioapic_table(Platform(n).acpi, NoRsdp) = "found",
                   mcfg |-> get_acpi_mcfg_table(Platform(n).acpi, NoRsdp)]
  BY Zenon DEF LaunchInit
<1>2. PICK n \in PlatformNames(m) :
        machine = [found |-> m.found, ap |-> m.ap, acmod |-> m.acmod, txt |-> n,
                   ioapic |-> get_acpi_ioapic_table(Platform(n).acpi, NoRsdp) = "found",
                   mcfg |-> get_acpi_mcfg_table(Platform(n).acpi, NoRsdp)]
  BY <1>1, Zenon
<1>3. machine = [found |-> m.found, ap |-> m.ap, acmod |-> machine.acmod, txt |-> n,
                 ioapic |-> machine.ioapic, mcfg |-> machine.mcfg]
  BY <1>2, Zenon
<1>4. IsMachine(machine)
  BY <1>3, Zenon DEF IsMachine
<1>5. pc = [c \in Cpus |-> IF c = Bsp THEN "sinit" ELSE "asleep"]
  BY Zenon DEF LaunchInit
<1>6. pc \in [Cpus -> Labels] /\ \A c \in Aps : pc[c] = "asleep"
  BY <1>5, BspIsNoAp, Zenon DEF Cpus, Labels
<1>7. QED
  BY <1>4, <1>6, Zenon DEF FlowInv

\* A step of one processor that leaves the machine as it is.
LEMMA MovedFlow ==
  ASSUME FlowInv, machine' = machine, NEW c \in Cpus, NEW l \in Labels, pc' = [pc EXCEPT ![c] = l],
         c = Bsp => (pc[Bsp] \in Awake => l \in Awake),
         c # Bsp => pc[c] \in {"restore", "vars"} /\ l \in {"restore", "vars", "done"}
  PROVE  FlowInv'
<1>1. pc' \in [Cpus -> Labels] /\ pc'[c] = l /\ \A d \in Cpus : d # c => pc'[d] = pc[d]
  BY Zenon DEF FlowInv
<1>2. IsMachine(machine)'
  BY Zenon DEF FlowInv
<1>3. CASE c = Bsp
  <2>1. \A d \in Aps : pc'[d] = pc[d]
    BY <1>1, <1>3, BspIsNoAp, Zenon DEF Cpus
  <2>2. QED
    BY <1>1, <1>2, <1>3, <2>1, Zenon DEF FlowInv
<1>4. CASE c # Bsp
  <2>1. pc'[Bsp] = pc[Bsp] /\ c \in Aps
    BY <1>1, <1>4, BspIsNoAp, Zenon
  <2>2. pc[Bsp] \in Awake
    BY <1>4, <2>1, Zenon DEF FlowInv
  <2>3. \A d \in Aps : pc'[d] \in {"asleep", "restore", "vars", "done"}
    BY <1>1, <1>4, Zenon DEF FlowInv, Cpus
  <2>4. QED
    BY <1>1, <1>2, <2>1, <2>2, <2>3, Zenon DEF FlowInv
<1>5. QED
  BY <1>3, <1>4, Zenon

\* FlowInv is kept by every step.
LEMMA StepFlow ==
  ASSUME FlowInv, [LaunchNext]_<<vars, launchVars>>
  PROVE  FlowInv'
<1>0. pc \in [Cpus -> Labels] /\ Bsp \in Cpus
  BY BspIsNoAp, Zenon DEF FlowInv
<1>1. CASE prepare_sinit_acm
  <2>1. /\ pc[Bsp] = "sinit"
        /\ machine' = machine \/ \E a : machine' = [machine EXCEPT !.acmod = a]
        /\ \E l \in {"platform", "hang"} : pc' = [pc EXCEPT ![Bsp] = l]
    BY <1>1, Zenon DEF prepare_sinit_acm, Go
  <2>2. IsMachine(machine)'
    BY <2>1, Equipped DEF FlowInv
  <2>3. pc' \in [Cpus -> Labels] /\ \A d \in Aps : pc'[d] = pc[d]
    BY <1>0, <2>1, BspIsNoAp, Zenon DEF Labels, Cpus
  <2>4. \A d \in Aps : pc[d] = "asleep"
    BY <2>1, Zenon DEF FlowInv, Awake
  <2>5. QED
    BY <2>2, <2>3, <2>4, Zenon DEF FlowInv
<1>2. CASE platform_pre_checks
  <2>1. /\ machine' = machine /\ pc[Bsp] = "platform"
        /\ \E l \in {"environment", "hang"} : pc' = [pc EXCEPT ![Bsp] = l]
    BY <1>2, Zenon DEF platform_pre_checks, Go
  <2>2. QED
    BY <1>0, <2>1, MovedFlow, Zenon DEF Awake, Labels
<1>3. CASE txt_launch_environment
  <2>1. /\ machine' = machine /\ pc[Bsp] = "environment"
        /\ \E l \in {"save", "hang"} : pc' = [pc EXCEPT ![Bsp] = l]
    BY <1>3, Zenon DEF txt_launch_environment, Go
  <2>2. QED
    BY <1>0, <2>1, MovedFlow, Zenon DEF Awake, Labels
<1>4. CASE MtrrBefore
  <2>1. /\ machine' = machine /\ pc[Bsp] \in {"save", "disable", "clear", "map"}
        /\ \E l \in {"disable", "clear", "map", "senter", "hang"} : pc' = [pc EXCEPT ![Bsp] = l]
    BY <1>0, <1>4, Zenon DEF MtrrBefore, save_mtrrs, set_mtrrs_for_acmod, ClearAll, MapRange, Mapped, Go
  <2>2. QED
    BY <1>0, <2>1, MovedFlow, Zenon DEF Awake, Labels
<1>5. CASE Senter
  <2>1. /\ machine' = machine /\ pc[Bsp] = "senter"
        /\ \E l \in {"verify", "hang"} : pc' = [pc EXCEPT ![Bsp] = l]
    BY <1>5, Zenon DEF Senter, __getsec_senter, Go
  <2>2. QED
    BY <1>0, <2>1, MovedFlow, Zenon DEF Awake, Labels
<1>6. CASE verify_heap
  <2>1. /\ machine' = machine /\ pc[Bsp] = "verify"
        /\ \E l \in {"verify", "heap refused"} : pc' = [pc EXCEPT ![Bsp] = l]
    BY <1>0, <1>6, Zenon DEF verify_heap, Go
  <2>2. QED
    BY <1>0, <2>1, MovedFlow, Zenon DEF Awake, Labels
<1>7. CASE verify_platform
  <2>1. CASE Go(Bsp, "refused")
    <3>1. machine' = machine /\ pc[Bsp] = "verify" /\ pc' = [pc EXCEPT ![Bsp] = "refused"]
      BY <1>7, <2>1, Zenon DEF verify_platform, verify_saved_mtrrs, Go
    <3>2. QED
      BY <1>0, <3>1, MovedFlow, Zenon DEF Awake, Labels
  <2>2. CASE pc' = [c \in Cpus |-> IF c = Bsp THEN "wakeup" ELSE "restore"]
    <3>1. /\ pc' \in [Cpus -> Labels] /\ pc'[Bsp] = "wakeup" /\ \A c \in Aps : pc'[c] = "restore"
      BY <2>2, BspIsNoAp, Zenon DEF Cpus, Labels
    <3>2. IsMachine(machine)'
      BY <1>7, Zenon DEF verify_platform, verify_saved_mtrrs, FlowInv
    <3>3. QED
      BY <3>1, <3>2, Zenon DEF FlowInv, Awake
  <2>3. QED
    BY <1>7, <2>1, <2>2, Zenon DEF verify_platform, verify_saved_mtrrs
<1>8. CASE WakeAndRestoreMisc
  <2>1. machine' = machine /\ pc[Bsp] = "wakeup" /\ pc' = [pc EXCEPT ![Bsp] = "restore"]
    BY <1>8, Zenon DEF WakeAndRestoreMisc, txt_wakeup_cpus, Go
  <2>2. QED
    BY <1>0, <2>1, MovedFlow, Zenon DEF Awake, Labels
<1>9. CASE \E c \in Cpus : RestoreMtrr(c) \/ RestoreLast(c)
  <2>1. PICK c \in Cpus : RestoreMtrr(c) \/ RestoreLast(c)
    BY <1>9, Zenon
  <2>2. /\ machine' = machine /\ pc[c] \in {"restore", "vars"}
        /\ \E l \in {"vars", "done"} : pc' = [pc EXCEPT ![c] = l]
    BY <1>0, <2>1, Zenon DEF RestoreMtrr, RestoreLast, restore_mtrrs, RestoreVar, RestoreDefType, Go
  <2>3. PICK l \in {"vars", "done"} : pc' = [pc EXCEPT ![c] = l]
    BY <2>2, Zenon
  <2>4. QED
    BY <2>2, <2>3, MovedFlow, Zenon DEF Awake, Labels
<1>10. CASE UNCHANGED <<vars, launchVars>>
  BY <1>10, Zenon DEF vars, launchVars, FlowInv
<1>11. QED
  BY <1>1, <1>2, <1>3, <1>4, <1>5, <1>6, <1>7, <1>8, <1>9, <1>10, Zenon DEF LaunchNext

-----------------------------------------------------------------------------
(* The module that is entered.                                               *)
\* The module s that a machine x enters, as prepare_sinit_acm() leaves it.
Chosen(s, x) ==
  LET p == Platform(x.txt)
  IN  /\ s = copy_sinit(FoundSinit(p.mods, p), p) /\ s # NoModule
      /\ AcmodAligned(s) /\ get_acmod_info_table(s) # NULL
      /\ x.acmod = [base |-> s.at \div AcmPage, pages |-> PageUp(Bytes(s))]

\* Once the BSP is past prepare_sinit_acm(), g_sinit is what it chose.
SinitInv == pc[Bsp] \notin {"sinit", "hang"} => Chosen(g_sinit, machine)

\* Only prepare_sinit_acm() chooses, and a boot that hangs goes on hanging.
LEMMA ChosenOnce ==
  ASSUME FlowInv, [LaunchNext]_<<vars, launchVars>>, ~prepare_sinit_acm
  PROVE  UNCHANGED <<machine, g_sinit>> /\ (pc'[Bsp] \notin {"sinit", "hang"} => pc[Bsp] \notin {"sinit", "hang"})
<1>0. pc \in [Cpus -> Labels]
  BY Zenon DEF FlowInv
<1>1. CASE platform_pre_checks
  BY <1>1, Zenon DEF platform_pre_checks
<1>2. CASE txt_launch_environment
  BY <1>2, Zenon DEF txt_launch_environment
<1>3. CASE MtrrBefore
  BY <1>3, Zenon DEF MtrrBefore, launchVars, save_mtrrs, set_mtrrs_for_acmod, ClearAll, MapRange, Mapped
<1>4. CASE Senter
  BY <1>4, Zenon DEF Senter, __getsec_senter
<1>5. CASE verify_heap
  BY <1>5, Zenon DEF verify_heap
<1>6. CASE verify_platform
  BY <1>6, Zenon DEF verify_platform, verify_saved_mtrrs, launchVars
<1>7. CASE WakeAndRestoreMisc
  BY <1>7, Zenon DEF WakeAndRestoreMisc, txt_wakeup_cpus
<1>8. CASE \E c \in Cpus : RestoreMtrr(c) \/ RestoreLast(c)
  <2>1. PICK c \in Cpus : RestoreMtrr(c) \/ RestoreLast(c)
    BY <1>8, Zenon
  <2>2. UNCHANGED <<machine, g_sinit>> /\ pc[c] \in {"restore", "vars"}
        /\ (UNCHANGED pc \/ Go(c, "vars") \/ Go(c, "done"))
    BY <2>1, Zenon DEF RestoreMtrr, RestoreLast, restore_mtrrs, RestoreVar, RestoreDefType, launchVars
  <2>3. pc'[Bsp] = pc[Bsp] \/ (c = Bsp /\ pc[Bsp] \in {"restore", "vars"})
    BY <1>0, <2>2, BspIsNoAp, Zenon DEF Go
  <2>4. QED
    BY <2>2, <2>3, Zenon
<1>9. CASE UNCHANGED <<vars, launchVars>>
  BY <1>9, Zenon DEF vars, launchVars
<1>10. QED
  BY <1>1, <1>2, <1>3, <1>4, <1>5, <1>6, <1>7, <1>8, <1>9, Zenon DEF LaunchNext

\* prepare_sinit_acm() goes on with what it chose, or not at all.
LEMMA PrepareChooses ==
  ASSUME FlowInv, prepare_sinit_acm
  PROVE  SinitInv'
<1> DEFINE p == Platform(machine.txt)
           s == copy_sinit(FoundSinit(p.mods, p), p)
           a == [base |-> s.at \div AcmPage, pages |-> PageUp(Bytes(s))]
<1>1. pc \in [Cpus -> Labels] /\ IsMachine(machine)
  BY Zenon DEF FlowInv
<1>2. g_sinit' = s /\ \/ /\ s # NoModule /\ verify_acmod(s, acm_max_size)
                         /\ machine' = [machine EXCEPT !.acmod = a]
                      \/ pc' = [pc EXCEPT ![Bsp] = "hang"]
  BY Zenon DEF prepare_sinit_acm, Go, platform
<1>3. CASE pc' = [pc EXCEPT ![Bsp] = "hang"]
  <2>1. pc'[Bsp] = "hang"
    BY <1>1, <1>3, BspIsNoAp, Zenon
  <2>2. QED
    BY <2>1, Zenon DEF SinitInv
<1>4. CASE s # NoModule /\ verify_acmod(s, acm_max_size) /\ machine' = [machine EXCEPT !.acmod = a]
  <2>1. DOMAIN machine = {"found", "ap", "acmod", "txt", "ioapic", "mcfg"}
    BY <1>1, PlatformFacts, Zenon
  <2> HIDE DEF a, s
  <2>2. machine'.acmod = a /\ machine'.txt = machine.txt
    BY <1>4, <2>1, Zenon
  <2>3. AcmodAligned(s) /\ get_acmod_info_table(s) # NULL
    BY <1>4, Zenon DEF verify_acmod
  <2>4. Chosen(s, machine')
    BY <1>4, <2>2, <2>3, Zenon DEF Chosen, s, a
  <2>5. QED
    BY <1>2, <2>4, Zenon DEF SinitInv
<1>5. QED
  BY <1>2, <1>3, <1>4, Zenon

\* SinitInv holds at the start.
LEMMA InitSinitInv == LaunchInit => SinitInv
<1> SUFFICES ASSUME LaunchInit PROVE pc[Bsp] = "sinit"
  BY Zenon DEF SinitInv
<1>1. QED
  BY BspIsNoAp, Zenon DEF LaunchInit

\* SinitInv is kept by every step.
LEMMA StepSinitInv ==
  ASSUME FlowInv, SinitInv, [LaunchNext]_<<vars, launchVars>>
  PROVE  SinitInv'
<1>1. CASE prepare_sinit_acm
  BY <1>1, PrepareChooses, Zenon
<1>2. CASE ~prepare_sinit_acm
  <2>1. UNCHANGED <<machine, g_sinit>> /\ (pc'[Bsp] \notin {"sinit", "hang"} => pc[Bsp] \notin {"sinit", "hang"})
    BY <1>2, ChosenOnce, Zenon
  <2>2. QED
    BY <2>1, Zenon DEF SinitInv
<1>3. QED
  BY <1>1, <1>2, Zenon

\* The lists of a module are found where it has been moved to, if it ends below 4 GB.
LEMMA TablesMove ==
  ASSUME NEW h, IsAcm(h), NEW at \in U32Values, at + Bytes(h) <= U32Size, Bytes(h) \in Nat,
         NEW g, g = [h EXCEPT !.at = at]
  PROVE  /\ get_acmod_info_table(h) # NULL => get_acmod_info_table(g) = get_acmod_info_table(h)
         /\ \A list : \A n \in Nat \ {0} :
              list.off \in Nat /\ ListFound(h, list, n) => ListFound(g, list, n)
<1> DEFINE off == (h.header_len + h.scratch_size) * 4
<1>0. at \in Nat /\ h.header_len \in Nat /\ h.scratch_size \in Nat /\ off \in Nat
  BY Sizes DEF IsAcm, U32Values
<1>1. /\ g.at = at /\ g.size = h.size /\ g.header_len = h.header_len /\ g.scratch_size = h.scratch_size
  BY Moved, ZenonT(60)
<1>2. Bytes(g) = Bytes(h)
  BY <1>1, Zenon DEF Bytes
<1>3. off + InfoSize <= Bytes(h) => ~plus_overflow_u32(at, off)
  BY <1>0, Sizes DEF plus_overflow_u32, InfoSize
<1>4. ASSUME get_acmod_info_table(h) # NULL PROVE get_acmod_info_table(g) = get_acmod_info_table(h)
  <2>1. /\ ~plus_overflow_u32(h.header_len, h.scratch_size)
        /\ ~multiply_overflow_u32(h.header_len + h.scratch_size, 4)
        /\ ~plus_overflow_u32(off, InfoSize)
        /\ ~ (off + InfoSize > Bytes(h))
        /\ get_acmod_info_table(h) = off
    BY <1>4, Zenon DEF get_acmod_info_table
  <2>2. off + InfoSize <= Bytes(h)
    BY <1>0, <2>1 DEF InfoSize
  <2>3. get_acmod_info_table(g) = off
    BY <1>1, <1>2, <1>3, <2>1, <2>2, Zenon DEF get_acmod_info_table
  <2>4. QED
    BY <2>1, <2>3, Zenon
<1>5. ASSUME NEW list, NEW n \in Nat \ {0}, list.off \in Nat, ListFound(h, list, n) PROVE ListFound(g, list, n)
  <2>1. get_acmod_info_table(g) # NULL
    BY <1>4, <1>5, Zenon DEF ListFound
  <2>2. list.off + n <= Bytes(h)
    BY <1>5, Zenon DEF ListFound
  <2>3. ~plus_overflow_u32(at, list.off)
    <3> DEFINE o == list.off
               B == Bytes(h)
    <3>1. o \in Nat /\ B \in Nat /\ o + n <= B /\ at + B <= U32Size
      BY <1>5, <2>2, Zenon
    <3> HIDE DEF o, B
    <3>2. at + o < U32Size /\ U32Size \in Nat /\ at + o \in Nat
      BY <1>0, <3>1, Sizes
    <3>3. ~plus_overflow_u32(at, o)
      BY <3>2 DEF plus_overflow_u32
    <3>4. QED
      BY <3>3, Zenon DEF o
  <2>4. QED
    BY <1>1, <1>2, <1>5, <2>1, <2>3, Zenon DEF ListFound
<1>6. QED
  BY <1>4, <1>5, Zenon

\* A module matches the platform wherever copy_sinit() puts it.
LEMMA MatchMoves ==
  ASSUME NEW h, IsAcm(h), NEW at \in U32Values, at + Bytes(h) <= U32Size, Bytes(h) \in Nat,
         NEW g, g = [h EXCEPT !.at = at], NEW p, does_acmod_match_platform(h, p)
  PROVE  does_acmod_match_platform(g, p)
<1>1. g.debug = h.debug /\ g.info = h.info
  BY Moved, Zenon
<1>2. h.info.chipset_id_list.off \in Nat /\ h.info.processor_id_list.off \in Nat
  BY Sizes DEF IsAcm, U32Values
<1>3. \A list : \A n \in Nat \ {0} : list.off \in Nat /\ ListFound(h, list, n) => ListFound(g, list, n)
  BY TablesMove, Zenon
<1>4. get_acmod_chipset_list(h) => get_acmod_chipset_list(g)
  BY <1>1, <1>2, <1>3 DEF get_acmod_chipset_list, ChipsetIdSize
<1>5. get_acmod_processor_list(h) => get_acmod_processor_list(g)
  BY <1>1, <1>2, <1>3 DEF get_acmod_processor_list, ProcessorIdSize
<1>6. QED
  BY <1>1, <1>4, <1>5, Zenon DEF does_acmod_match_platform

\* The pages of n bytes hold them.
LEMMA PagesHold ==
  ASSUME NEW n \in Nat
  PROVE  PageUp(n) \in Nat /\ PageUp(n) * AcmPage >= n /\ (n > 0 => (PageUp(n) - 1) * AcmPage < n)
<1> DEFINE A == AcmPage
           x == n + A - 1
<1>1. A \in Nat \ {0} /\ x \in Nat
  BY Sizes
<1>2. \A y \in Nat : \A d \in Nat \ {0} :
        y \div d \in Nat /\ y % d \in 0 .. d - 1 /\ y = (y \div d) * d + (y % d)
  OBVIOUS
<1>3. x \div A \in Nat /\ x % A \in 0 .. A - 1 /\ x = (x \div A) * A + (x % A)
  <2> HIDE DEF x, A
  <2>1. QED
    BY <1>1, <1>2, Zenon
<1> DEFINE q == x \div A
           r == x % A
<1> HIDE DEF q, r
<1>4. q \in Nat /\ r \in 0 .. A - 1 /\ n + A - 1 = q * A + r
  BY <1>3, Zenon DEF q, r
<1>5. (q - 1) * A = q * A - A
  BY <1>1, <1>4
<1>6. q * A >= n /\ (q - 1) * A < n
  BY <1>1, <1>4, <1>5
<1>7. QED
  BY <1>4, <1>6, Zenon DEF PageUp, q

\* SinitSuits follows: what copy_sinit() chooses is a module that suits, the
\* loader's only when it is not older than the BIOS's; when no module of the loader's
\* suits, it is offered the second.
LEMMA SinitSuitsHolds ==
  ASSUME FlowInv, SinitInv
  PROVE  SinitSuits
<1> DEFINE p == platform
           s == g_sinit
           f == FoundSinit(p.mods, p)
           at == p.region.base
<1> SUFFICES ASSUME pc[Bsp] = "senter"
             PROVE  /\ BiosSinit # NoModule => s.date >= BiosSinit.date
                    /\ get_acmod_info_table(s) + InfoSize <= p.region.size
                    /\ machine.acmod.pages * AcmPage >= s.size * 4
                    /\ \/ /\ s \in {[m EXCEPT !.at = at] : m \in Loaded \cup ({BiosSinit} \ {NoModule})}
                          /\ does_acmod_match_platform(s, p)
                       \/ Loaded = {} /\ Len(p.mods) > 1 /\ s = [p.mods[2] EXCEPT !.at = at]
  BY Zenon DEF SinitSuits, Entered
<1>1. IsPlatform(p) /\ Chosen(s, machine)
  BY PlatformFacts, Zenon DEF platform, FlowInv, SinitInv
<1>2. /\ s = copy_sinit(f, p) /\ s # NoModule /\ get_acmod_info_table(s) # NULL
      /\ machine.acmod.pages = PageUp(Bytes(s))
  BY <1>1 DEF Chosen, platform
<1> HIDE DEF p, s
<1>3. /\ IsAcm(s) /\ Bytes(s) = s.size * 4 /\ Bytes(s) \in Nat /\ Bytes(s) <= p.region.size
      /\ s = get_bios_sinit(p) \/ (f # NoModule /\ s = [f EXCEPT !.at = at])
      /\ get_bios_sinit(p) # NoModule => s.date >= get_bios_sinit(p).date
  BY <1>1, <1>2, CopiedSinit, Zenon
<1>4. BiosSinit = get_bios_sinit(p)
  BY Zenon DEF BiosSinit, p
<1>5. at \in U32Values /\ at + p.region.size <= U32Size /\ p.region.size \in Nat /\ at \in Nat
  BY <1>1, Sizes DEF IsPlatform, U32Values
<1>6. machine.acmod.pages * AcmPage >= s.size * 4
  BY <1>2, <1>3, PagesHold, Zenon
<1>7. get_acmod_info_table(s) + InfoSize <= p.region.size
  <2> DEFINE off == (s.header_len + s.scratch_size) * 4
  <2>1. off \in Nat
    BY <1>3, Sizes DEF IsAcm, U32Values
  <2>2. get_acmod_info_table(s) = off /\ ~ (off + InfoSize > Bytes(s))
    BY <1>2, Zenon DEF get_acmod_info_table
  <2>3. QED
    BY <1>3, <1>5, <2>1, <2>2 DEF InfoSize
<1>8. CASE s = get_bios_sinit(p)
  <2> DEFINE h == [p.region.holds EXCEPT !.at = at]
  <2>1. get_bios_sinit(p) = h /\ does_acmod_match_platform(h, p)
    BY <1>2, <1>8, Zenon DEF get_bios_sinit
  <2>2. [h EXCEPT !.at = at] = h
    BY <1>1, Zenon DEF IsPlatform, IsAcm
  <2>3. s \in Loaded \cup ({BiosSinit} \ {NoModule}) /\ s = [s EXCEPT !.at = at]
    <3> HIDE DEF h
    <3>1. QED
      BY <1>2, <1>4, <1>8, <2>1, <2>2, Zenon
  <2>4. QED
    BY <1>3, <1>4, <1>6, <1>7, <1>8, <2>1, <2>3, Zenon
<1>9. CASE f # NoModule /\ s = [f EXCEPT !.at = at]
  <2>1. Len(p.mods) # 1 /\ IsAcm(f)
    BY <1>1, <1>9, FoundLast, Zenon
  <2>2. Loaded = {p.mods[i] : i \in {i \in 2 .. Len(p.mods) : Suits(p.mods[i], p)}}
    BY Zenon DEF Loaded, p
  <2>3. CASE ~(\E i \in 2 .. Len(p.mods) : Suits(p.mods[i], p))
    <3>1. Loaded = {}
      BY <2>2, <2>3, Zenon
    <3>2. Len(p.mods) > 1 /\ f = p.mods[2]
      BY <1>1, <1>9, <2>3, FoundLast, Zenon
    <3>3. QED
      BY <1>3, <1>4, <1>6, <1>7, <1>9, <3>1, <3>2, Zenon
  <2> SUFFICES ASSUME \E i \in 2 .. Len(p.mods) : Suits(p.mods[i], p)
               PROVE  /\ s \in {[m EXCEPT !.at = at] : m \in Loaded \cup ({BiosSinit} \ {NoModule})}
                      /\ does_acmod_match_platform(s, p)
    BY <1>3, <1>4, <1>6, <1>7, <2>3, Zenon
  <2>4. PICK i \in 2 .. Len(p.mods) : Suits(p.mods[i], p) /\ f = p.mods[i]
    BY <1>1, FoundLast, Zenon
  <2>5. f \in Loaded /\ does_acmod_match_platform(f, p)
    BY <2>2, <2>4, Zenon DEF Suits
  <2> HIDE DEF f, at
  <2>6. Bytes(f) = Bytes(s)
    <3>1. s.size = f.size
      BY <1>5, <1>9, <2>1, Moved, Zenon
    <3>2. QED
      BY <3>1, Zenon DEF Bytes
  <2>7. at + Bytes(f) <= U32Size /\ Bytes(f) \in Nat
    BY <1>3, <1>5, <2>6, Sizes, SMTT(30)
  <2>8. does_acmod_match_platform(s, p)
    BY <1>5, <1>9, <2>1, <2>5, <2>7, MatchMoves, Zenon
  <2>9. QED
    BY <1>9, <2>5, <2>8, Zenon
<1>10. QED
  BY <1>3, <1>8, <1>9, Zenon

-----------------------------------------------------------------------------
(* What is prepared for the launch.                                          *)
\* The error returns of build_mle_pagetable() and init_txt_heap() on a platform p
\* with the module s.
Possible(p, s) ==
  LET caps == get_sinit_capabilities(s)
  IN  /\ Mappable(p.mle) /\ verify_bios_data(p.mem, p.heap)
      /\ get_supported_os_sinit_data_ver(s) >= MIN_OS_SINIT_DATA_VER
      /\ WakeChosen(caps) # {} /\ PcrMap(caps) # "none"

\* The heap at SENTER, and as SINIT hands it over.
Version(s) == DataVersion(get_supported_os_sinit_data_ver(s))

\* The heap that init_txt_heap() has filled for module s.
Filled(p, s) ==
  LET caps == get_sinit_capabilities(s)
  IN  OsSinitData(OsMleData(p.mem, MiscSaved(p.misc[Bsp])), Version(s), PtabBase,
                  WakeCode(WakeChosen(caps)), IF PcrMap(caps) = "da" THEN 1 ELSE 0,
                  IF Version(s) < 6 THEN RsdtCode ELSE G_RSDP)

\* The same heap once SINIT has added its data.
HandedOver(p, s) ==
  Put(Filled(p, s), SinitMleSizeAt(Filled(p, s)), <<p.given.size, p.given.version>>)

\* The control registers as GETSEC[SENTER] wants them.
CrReady(c) == c.smxe /\ ~c.cd /\ ~c.nw /\ c.ne

\* The BSP before, between and after the preparations and the launch.
Unprepared == {"sinit", "platform", "environment"}

Prepared == {"save", "disable", "clear", "map", "senter"}

Launched == {"verify", "wakeup", "refused", "heap refused", "restore", "vars", "done"}

\* The control registers, the page table and the heap by where the BSP is.
HeapInv ==
  LET p == Platform(machine.txt)
  IN  /\ DOMAIN cr = {"smxe", "cd", "nw", "ne"}
      /\ pc[Bsp] \in Unprepared => mem = p.mem /\ misc = p.misc
      /\ pc[Bsp] \in {"environment"} \cup Prepared \cup Launched => CrReady(cr)
      /\ pc[Bsp] \in Prepared \cup Launched => Possible(p, g_sinit) /\ ptes = PagesMapped(p.mle)
      /\ pc[Bsp] \in Prepared => mem = Filled(p, g_sinit)
      /\ pc[Bsp] \in Launched => mem = HandedOver(p, g_sinit)
      /\ pc[Bsp] = "heap refused" => ~verify_txt_heap(mem, p.heap)
      /\ checked => pc[Bsp] \in Launched /\ verify_txt_heap(mem, p.heap)

\* HeapInv holds at the start.
LEMMA InitHeapInv == LaunchInit => HeapInv
<1> SUFFICES ASSUME LaunchInit PROVE HeapInv
  BY Zenon
<1>1. pc[Bsp] = "sinit" /\ mem = platform.mem /\ misc = platform.misc /\ checked = FALSE
      /\ DOMAIN cr = {"smxe", "cd", "nw", "ne"}
  BY BspIsNoAp, Zenon DEF LaunchInit
<1>2. QED
  BY <1>1, Zenon DEF HeapInv, Unprepared, Prepared, Launched, platform

\* Steps that only move the BSP.
LEMMA MovedHeapInv ==
  ASSUME HeapInv, UNCHANGED <<g_sinit, cr, ptes, mem, checked>>, machine'.txt = machine.txt,
         \/ pc'[Bsp] = pc[Bsp] /\ (pc[Bsp] \in Unprepared => misc' = misc)
         \/ pc[Bsp] \in Prepared /\ pc'[Bsp] \in Prepared \cup {"hang"}
         \/ pc[Bsp] \in Launched /\ pc'[Bsp] \in Launched \ {"heap refused"}
  PROVE  HeapInv'
<1>1. CASE pc'[Bsp] = pc[Bsp] /\ (pc[Bsp] \in Unprepared => misc' = misc)
  BY <1>1, Zenon DEF HeapInv
<1>2. CASE pc[Bsp] \in Prepared /\ pc'[Bsp] \in Prepared \cup {"hang"}
  BY <1>2, Zenon DEF HeapInv, Unprepared, Prepared, Launched
<1>3. CASE pc[Bsp] \in Launched /\ pc'[Bsp] \in Launched \ {"heap refused"}
  BY <1>3, Zenon DEF HeapInv, Unprepared, Prepared, Launched
<1>4. QED
  BY <1>1, <1>2, <1>3, Zenon

\* prepare_sinit_acm() changes nothing that HeapInv speaks of but where the BSP is.
LEMMA PrepareHeapInv ==
  ASSUME FlowInv, HeapInv, prepare_sinit_acm
  PROVE  HeapInv'
<1>1. pc \in [Cpus -> Labels] /\ DOMAIN machine = {"found", "ap", "acmod", "txt", "ioapic", "mcfg"}
  BY PlatformFacts, Zenon DEF FlowInv
<1>2. /\ pc[Bsp] = "sinit" /\ UNCHANGED <<mem, checked, misc>>
      /\ Go(Bsp, "platform") \/ Go(Bsp, "hang")
  BY Zenon DEF prepare_sinit_acm
<1>3. machine'.txt = machine.txt
  <2>1. machine' = machine \/ \E a : machine' = [machine EXCEPT !.acmod = a]
    BY Zenon DEF prepare_sinit_acm
  <2>2. QED
    BY <1>1, <2>1, Zenon
<1>4. pc'[Bsp] \in {"platform", "hang"}
  BY <1>1, <1>2, BspIsNoAp, Zenon DEF Go
<1>5. DOMAIN cr' = DOMAIN cr
  BY Zenon DEF prepare_sinit_acm
<1>6. QED
  BY <1>2, <1>3, <1>4, <1>5, Zenon DEF HeapInv, Unprepared, Prepared, Launched

\* platform_pre_checks() prepares the control registers and leaves the heap alone.
LEMMA CheckHeapInv ==
  ASSUME FlowInv, HeapInv, platform_pre_checks
  PROVE  HeapInv'
<1> DEFINE f == platform.cpu.features
           verified == supports_txt(f) /\ txt_verify_platform
           c == [cr EXCEPT !.smxe = Smxe(f)]
<1>1. pc \in [Cpus -> Labels] /\ DOMAIN cr = {"smxe", "cd", "nw", "ne"}
  BY Zenon DEF FlowInv, HeapInv
<1>2. /\ pc[Bsp] = "platform" /\ UNCHANGED <<machine, mem, checked, misc>>
      /\ cr' = IF verified /\ platform.cpu.pe THEN Cr0Prepared(c) ELSE c
      /\ pc' = [pc EXCEPT ![Bsp] = IF verified /\ CpuReady(platform.cpu) THEN "environment" ELSE "hang"]
  BY Zenon DEF platform_pre_checks, Go
<1>3. verified => Smxe(f)
  BY Zenon DEF Smxe, supports_txt
<1> HIDE DEF verified
<1>4. DOMAIN c = DOMAIN cr /\ c.smxe = Smxe(f)
  BY <1>1, Zenon
<1> HIDE DEF c
<1>5. /\ DOMAIN Cr0Prepared(c) = DOMAIN c /\ Cr0Prepared(c).smxe = c.smxe
      /\ Cr0Prepared(c).cd = FALSE /\ Cr0Prepared(c).nw = FALSE /\ Cr0Prepared(c).ne = TRUE
  BY <1>1, <1>4, Zenon DEF Cr0Prepared
<1>6. DOMAIN cr' = {"smxe", "cd", "nw", "ne"}
  BY <1>1, <1>2, <1>4, <1>5, Zenon
<1>7. CASE verified /\ CpuReady(platform.cpu)
  <2>1. pc'[Bsp] = "environment"
    BY <1>1, <1>2, <1>7, BspIsNoAp, Zenon
  <2>2. cr' = Cr0Prepared(c)
    BY <1>2, <1>7, Zenon DEF CpuReady
  <2>3. CrReady(cr')
    BY <1>3, <1>4, <1>5, <1>7, <2>2, Zenon DEF CrReady
  <2>4. QED
    BY <1>2, <1>6, <2>1, <2>3, Zenon DEF HeapInv, Unprepared, Prepared, Launched
<1>8. CASE ~ (verified /\ CpuReady(platform.cpu))
  <2>1. pc'[Bsp] = "hang"
    BY <1>1, <1>2, <1>8, BspIsNoAp, Zenon
  <2>2. QED
    BY <1>2, <1>6, <2>1, Zenon DEF HeapInv, Unprepared, Prepared, Launched
<1>9. QED
  BY <1>7, <1>8, Zenon

\* txt_launch_environment() fills the heap.
LEMMA FillHeapInv ==
  ASSUME FlowInv, HeapInv, txt_launch_environment
  PROVE  HeapInv'
<1> DEFINE p == Platform(machine.txt)
<1>1. pc \in [Cpus -> Labels]
  BY Zenon DEF FlowInv
<1>2. pc[Bsp] = "environment" /\ UNCHANGED <<machine, g_sinit, cr, checked, misc>>
  BY Zenon DEF txt_launch_environment
<1>4. ~checked
  BY <1>2, Zenon DEF HeapInv, Launched
<1>5. CASE LaunchPossible /\ Go(Bsp, "save") /\ ptes' = PagesMapped(platform.mle) /\ init_txt_heap
  <2>1. mem = p.mem /\ misc = p.misc /\ CrReady(cr)
    BY <1>2, Zenon DEF HeapInv, Unprepared
  <2>2. Possible(p, g_sinit)
    BY <1>5, <2>1, Zenon DEF LaunchPossible, Possible, platform
  <2>3. mem' = Filled(p, g_sinit)
    BY <1>5, <2>1, Zenon DEF init_txt_heap, Filled, Version
  <2>4. ptes' = PagesMapped(p.mle) /\ pc'[Bsp] = "save"
    BY <1>1, <1>5, BspIsNoAp, Zenon DEF Go, platform
  <2>5. QED
    BY <1>2, <1>4, <2>1, <2>2, <2>3, <2>4, Zenon DEF HeapInv, Unprepared, Prepared, Launched
<1>6. CASE Go(Bsp, "hang")
  <2>1. pc'[Bsp] = "hang"
    BY <1>1, <1>6, BspIsNoAp, Zenon DEF Go
  <2>2. QED
    BY <1>2, <1>4, <2>1, Zenon DEF HeapInv, Unprepared, Prepared, Launched
<1>7. QED
  BY <1>5, <1>6, Zenon DEF txt_launch_environment

\* SENTER hands it over with SINIT's own data.
LEMMA SenterHeapInv ==
  ASSUME FlowInv, HeapInv, Senter
  PROVE  HeapInv'
<1> DEFINE p == Platform(machine.txt)
<1>1. pc \in [Cpus -> Labels]
  BY Zenon DEF FlowInv
<1>2. pc[Bsp] = "senter" /\ pc'[Bsp] = "verify" /\ UNCHANGED <<machine, g_sinit, cr, ptes, checked>>
      /\ mem' = Put(mem, SinitMleSizeAt(mem), <<p.given.size, p.given.version>>)
  BY <1>1, BspIsNoAp, Zenon DEF Senter, __getsec_senter, Go, platform
<1>3. mem = Filled(p, g_sinit) /\ ~checked
  BY <1>2, Zenon DEF HeapInv, Prepared, Launched
<1>4. mem' = HandedOver(p, g_sinit)
  BY <1>2, <1>3, Zenon DEF HandedOver
<1>5. QED
  BY <1>2, <1>3, <1>4, Zenon DEF HeapInv, Unprepared, Prepared, Launched

\* verify_txt_heap() reads what was handed over.
LEMMA VerifyHeapInv ==
  ASSUME FlowInv, HeapInv, verify_heap
  PROVE  HeapInv'
<1>1. pc \in [Cpus -> Labels]
  BY Zenon DEF FlowInv
<1>2. /\ pc[Bsp] = "verify" /\ ~checked /\ UNCHANGED <<machine, g_sinit, cr, ptes, mem>>
      /\ IF verify_txt_heap(mem, Platform(machine.txt).heap)
         THEN checked' = TRUE /\ UNCHANGED pc
         ELSE Go(Bsp, "heap refused") /\ UNCHANGED checked
  BY Zenon DEF verify_heap, platform
<1>3. CASE verify_txt_heap(mem, Platform(machine.txt).heap)
  BY <1>2, <1>3, Zenon DEF HeapInv, Unprepared, Prepared, Launched
<1>4. CASE ~verify_txt_heap(mem, Platform(machine.txt).heap)
  <2>1. pc'[Bsp] = "heap refused"
    BY <1>1, <1>2, <1>4, BspIsNoAp, Zenon DEF Go
  <2>2. QED
    BY <1>2, <1>4, <2>1, Zenon DEF HeapInv, Unprepared, Prepared, Launched
<1>5. QED
  BY <1>3, <1>4, Zenon

\* HeapInv is kept by every step.
LEMMA StepHeapInv ==
  ASSUME FlowInv, HeapInv, [LaunchNext]_<<vars, launchVars>>
  PROVE  HeapInv'
<1>0. pc \in [Cpus -> Labels] /\ Bsp \in Cpus
  BY BspIsNoAp, Zenon DEF FlowInv
<1>1. CASE prepare_sinit_acm
  BY <1>1, PrepareHeapInv, Zenon
<1>2. CASE platform_pre_checks
  BY <1>2, CheckHeapInv, Zenon
<1>3. CASE txt_launch_environment
  BY <1>3, FillHeapInv, Zenon
<1>4. CASE MtrrBefore
  <2>1. UNCHANGED <<g_sinit, cr, ptes, mem, checked, machine>>
    BY <1>4, Zenon DEF MtrrBefore, launchVars, save_mtrrs, set_mtrrs_for_acmod, ClearAll, MapRange, Mapped
  <2>2. pc[Bsp] \in Prepared /\ \E l \in Prepared \cup {"hang"} : pc' = [pc EXCEPT ![Bsp] = l]
    BY <1>4, Zenon DEF MtrrBefore, save_mtrrs, set_mtrrs_for_acmod, ClearAll, MapRange, Mapped, Go, Prepared
  <2>3. QED
    BY <1>0, <2>1, <2>2, MovedHeapInv, Zenon
<1>5. CASE Senter
  BY <1>5, SenterHeapInv, Zenon
<1>6. CASE verify_heap
  BY <1>6, VerifyHeapInv, Zenon
<1>7. CASE verify_platform
  <2>1. UNCHANGED <<g_sinit, cr, ptes, mem, checked, machine>> /\ pc[Bsp] = "verify"
    BY <1>7, Zenon DEF verify_platform, verify_saved_mtrrs, launchVars
  <2>2. pc'[Bsp] \in {"refused", "wakeup"}
    BY <1>0, <1>7, Zenon DEF verify_platform, verify_saved_mtrrs, Go
  <2>3. QED
    BY <2>1, <2>2, MovedHeapInv, Zenon DEF Launched
<1>8. CASE WakeAndRestoreMisc
  <2>1. UNCHANGED <<g_sinit, cr, ptes, mem, checked, machine>> /\ pc[Bsp] = "wakeup" /\ pc'[Bsp] = "restore"
    BY <1>0, <1>8, Zenon DEF WakeAndRestoreMisc, txt_wakeup_cpus, Go
  <2>2. QED
    BY <2>1, MovedHeapInv, Zenon DEF Launched
<1>9. CASE \E c \in Cpus : RestoreMtrr(c) \/ RestoreLast(c)
  <2>1. PICK c \in Cpus : RestoreMtrr(c) \/ RestoreLast(c)
    BY <1>9, Zenon
  <2>2. /\ UNCHANGED <<g_sinit, cr, ptes, mem, checked, machine>> /\ pc[c] \in {"restore", "vars"}
        /\ UNCHANGED pc \/ Go(c, "vars") \/ Go(c, "done")
    BY <2>1, Zenon DEF RestoreMtrr, RestoreLast, restore_mtrrs, RestoreVar, RestoreDefType, launchVars
  <2>3. pc[Bsp] \in {"wakeup", "restore", "vars", "done"}
    BY <2>2, Zenon DEF FlowInv, Awake, Cpus
  <2>4. pc'[Bsp] \in {"wakeup", "restore", "vars", "done"}
    BY <1>0, <2>2, <2>3, Zenon DEF Go
  <2>5. QED
    BY <2>2, <2>3, <2>4, MovedHeapInv, Zenon DEF Launched
<1>10. CASE UNCHANGED <<vars, launchVars>>
  <2>1. UNCHANGED <<g_sinit, cr, ptes, mem, checked, machine, pc, misc>>
    BY <1>10, Zenon DEF vars, launchVars
  <2>2. QED
    BY <2>1, MovedHeapInv, Zenon
<1>11. QED
  BY <1>1, <1>2, <1>3, <1>4, <1>5, <1>6, <1>7, <1>8, <1>9, <1>10, Zenon DEF LaunchNext

\* The page table t maps the pages of an image and no other, in order.
PagesRight(t, mle) ==
  /\ {t[i] : i \in DOMAIN t} =
       {p \in {q * AcmPage : q \in 0 .. U32Size \div AcmPage} : p >= mle.start /\ p < mle.start + mle.size}
  /\ \A i, j \in DOMAIN t : i < j => t[i] < t[j]

\* build_mle_pagetable() maps exactly the pages of the MLE, in their order, through
\* one table of pages.
LEMMA PagesExact ==
  ASSUME NEW mle, mle.start \in Nat, mle.size \in Nat \ {0}, mle.start + mle.size <= U32Size, Mappable(mle),
         NEW t, t = PagesMapped(mle)
  PROVE  PagesRight(t, mle)
<1> DEFINE A == AcmPage
           start == mle.start
           size == mle.size
           n == PageUp(size)
<1>1. A \in Nat \ {0} /\ start \in Nat /\ size \in Nat \ {0} /\ start + size <= U32Size
      /\ Pages4G \in Nat /\ U32Size = Pages4G * A
  BY Sizes, Zenon
<1>2. n \in Nat /\ n * A >= size /\ (n - 1) * A < size
  BY <1>1, PagesHold
<1>3. n # 0
  BY <1>1, <1>2
<1>4. t = [i \in 1 .. n |-> start + (i - 1) * A]
  BY <1>3, Zenon DEF PagesMapped, PageUp
<1>5. PICK k \in Nat : start = k * A
  BY <1>1, Multiple, Zenon DEF Mappable
<1>6. \A x, y, d \in Int : (x + y) * d = x * d + y * d
  OBVIOUS
<1>7. \A d \in Nat \ {0} : \A x, y \in Int : x < y => x * d < y * d
  OBVIOUS
<1>8. \A x, y, d \in Int : (x - y) * d = x * d - y * d
  OBVIOUS
<1>9. U32Size \div A = Pages4G
  <2>1. \A x \in Nat : \A d \in Nat \ {0} : (x * d) \div d = x
    OBVIOUS
  <2>2. QED
    BY <1>1, <2>1, Zenon
<1> HIDE DEF A, start, size, n
<1>10. \A i \in 1 .. n : t[i] = start + (i - 1) * A /\ (i - 1) * A \in Nat /\ (i - 1) * A < size
  <2> SUFFICES ASSUME NEW i \in 1 .. n
               PROVE  t[i] = start + (i - 1) * A /\ (i - 1) * A \in Nat /\ (i - 1) * A < size
    BY Zenon
  <2>1. i - 1 \in Nat /\ (i - 1 = n - 1 \/ i - 1 < n - 1) /\ n - 1 \in Int
    BY <1>2
  <2>2. (i - 1) * A \in Nat /\ (n - 1) * A \in Int
    BY <1>1, <1>2, <2>1, SMTT(30)
  <2>3. (i - 1) * A <= (n - 1) * A
    BY <1>1, <1>7, <2>1, <2>2
  <2>4. t[i] = start + (i - 1) * A
    BY <1>4, Zenon
  <2> DEFINE d == (i - 1) * A
             e == (n - 1) * A
  <2>5. d \in Nat /\ e \in Int /\ d <= e /\ e < size
    BY <1>2, <2>2, <2>3, Zenon
  <2> HIDE DEF d, e
  <2>6. d < size
    BY <1>1, <2>5
  <2>7. QED
    BY <2>4, <2>5, <2>6, Zenon DEF d
<1>11. ASSUME NEW i \in 1 .. n
       PROVE  t[i] \in {q * A : q \in 0 .. Pages4G} /\ t[i] >= start /\ t[i] < start + size
  <2> DEFINE q == k + (i - 1)
             d == (i - 1) * A
  <2>1. q \in Nat /\ t[i] = start + d /\ d \in Nat /\ d < size
    BY <1>2, <1>10
  <2>2. q * A = k * A + d
    BY <1>1, <1>2, <1>6
  <2> HIDE DEF q, d
  <2>3. t[i] = q * A /\ t[i] >= start /\ t[i] < start + size /\ t[i] < Pages4G * A
    BY <1>1, <1>5, <2>1, <2>2
  <2>4. ~ (Pages4G < q)
    <3>1. Pages4G < q => Pages4G * A < q * A
      BY <1>1, <1>7, <2>1
    <3>2. Pages4G * A \in Nat /\ q * A \in Nat
      BY <1>1, <2>1
    <3>3. QED
      BY <2>3, <3>1, <3>2
  <2>5. q \in 0 .. Pages4G
    BY <1>1, <2>1, <2>4
  <2>6. QED
    BY <2>3, <2>5, Zenon
<1>12. ASSUME NEW p, p \in {q * A : q \in 0 .. Pages4G}, p >= start, p < start + size
       PROVE  \E i \in 1 .. n : t[i] = p
  <2>1. PICK q \in 0 .. Pages4G : p = q * A
    BY <1>12, Zenon
  <2>2. q \in Nat /\ p \in Nat
    BY <1>1, <2>1
  <2>3. q >= k
    <3>1. q < k => q * A < k * A
      BY <1>1, <1>7, <2>2
    <3>2. QED
      BY <1>1, <1>5, <1>12, <2>1, <2>2, <3>1, SMTT(30)
  <2> DEFINE i == q - k + 1
             d == (q - k) * A
  <2>4. d = q * A - k * A /\ q - k \in Nat /\ d \in Int
    BY <1>1, <1>8, <2>2, <2>3, SMTT(30)
  <2>5. d < size
    BY <1>1, <1>5, <1>12, <2>1, <2>2, <2>4, SMTT(30)
  <2>6. q - k < n
    <3>1. ASSUME n < q - k PROVE n * A < (q - k) * A
      BY <1>1, <1>2, <1>7, <2>4, <3>1, SMTT(30)
    <3>2. n * A \in Nat
      BY <1>1, <1>2
    <3>3. ~ (n < q - k)
      BY <1>1, <1>2, <2>4, <2>5, <3>1, <3>2, SMTT(30)
    <3>4. n # q - k
      BY <1>1, <1>2, <2>4, <2>5, <3>2, SMTT(30)
    <3>5. QED
      BY <1>2, <2>4, <3>3, <3>4, SMTT(30)
  <2>7. i \in 1 .. n /\ i - 1 = q - k
    BY <1>2, <2>2, <2>4, <2>6
  <2>8. t[i] = start + d
    BY <1>10, <2>7, Zenon
  <2>9. start + d = p
    BY <1>1, <1>5, <2>1, <2>2, <2>4
  <2>10. QED
    BY <2>7, <2>8, <2>9, Zenon
<1>13. DOMAIN t = 1 .. n
  BY <1>4, Zenon
<1>14. {t[i] : i \in DOMAIN t} = {p \in {q * A : q \in 0 .. Pages4G} : p >= start /\ p < start + size}
  BY <1>11, <1>12, <1>13
<1>15. \A i, j \in 1 .. n : i < j => t[i] < t[j]
  <2> SUFFICES ASSUME NEW i \in 1 .. n, NEW j \in 1 .. n, i < j PROVE t[i] < t[j]
    BY Zenon
  <2>1. (i - 1) * A < (j - 1) * A
    BY <1>1, <1>2, <1>7
  <2> DEFINE x == (i - 1) * A
             y == (j - 1) * A
  <2> HIDE DEF x, y
  <2>2. t[i] = start + x /\ t[j] = start + y /\ x \in Nat /\ y \in Nat /\ x < y
    BY <1>10, <2>1, Zenon DEF x, y
  <2>3. QED
    BY <1>1, <2>2
<1>16. QED
  BY <1>9, <1>13, <1>14, <1>15, Zenon DEF A, start, size, PagesRight

\* What SINIT is asked for.
LEMMA AskedOf ==
  ASSUME NEW p, NEW s, IsAcm(s), Possible(p, s)
  PROVE  /\ get_sinit_capabilities(s) = s.info.caps /\ s.info.caps \cap {"monitor", "getsec"} # {}
         /\ Version(s) \in 4 .. 7 /\ Version(s) <= s.info.os_sinit_data_ver
         /\ WakeCode(WakeChosen(s.info.caps)) = (IF "monitor" \in s.info.caps THEN 2 ELSE 1)
         /\ PcrMap(s.info.caps) = "da" => "da" \in s.info.caps
<1> DEFINE caps == get_sinit_capabilities(s)
<1>1. WakeChosen(caps) # {} /\ get_supported_os_sinit_data_ver(s) >= 4
  BY Zenon DEF Possible, MIN_OS_SINIT_DATA_VER
<1>2. caps # {}
  BY <1>1, Zenon DEF WakeChosen
<1>3. caps = s.info.caps
  BY <1>2, Zenon DEF get_sinit_capabilities
<1>4. caps \cap {"monitor", "getsec"} # {}
  BY <1>1, Zenon DEF WakeChosen
<1>5. get_supported_os_sinit_data_ver(s) = s.info.os_sinit_data_ver
  BY <1>1 DEF get_supported_os_sinit_data_ver
<1>6. s.info.os_sinit_data_ver \in Nat
  BY Zenon DEF IsAcm
<1>7. Version(s) \in 4 .. 7 /\ Version(s) <= s.info.os_sinit_data_ver
  BY <1>1, <1>5, <1>6 DEF Version, DataVersion, MAX_OS_SINIT_DATA_VER
<1>8. WakeCode(WakeChosen(s.info.caps)) = (IF "monitor" \in s.info.caps THEN 2 ELSE 1)
  <2>1. CASE "monitor" \in s.info.caps
    BY <2>1, Zenon DEF WakeCode, WakeChosen
  <2>2. CASE "monitor" \notin s.info.caps
    <3>1. "monitor" \notin WakeChosen(s.info.caps)
      BY <2>2, Zenon DEF WakeChosen
    <3>2. WakeChosen(s.info.caps) # {"monitor"}
      BY <3>1, Zenon
    <3>3. QED
      BY <2>2, <3>2, Zenon DEF WakeCode
  <2>3. QED
    BY <2>1, <2>2, Zenon
<1>9. PcrMap(s.info.caps) = "da" => "da" \in s.info.caps
  BY Zenon DEF PcrMap
<1>10. QED
  BY <1>3, <1>4, <1>7, <1>8, <1>9, Zenon

\* The heap at SENTER.
LEMMA FilledIs ==
  ASSUME NEW p, IsPlatform(p), NEW s, IsAcm(s), Possible(p, s),
         NEW m, m = Filled(p, s), NEW b, b = p.mem[0]
  PROVE  /\ b \in Nat \ {0} /\ b <= p.heap.size /\ b + 20 <= HeapCells
         /\ IsFilled(m, p.mem, b, MiscSaved(p.misc[Bsp]), Version(s), PtabBase,
                     WakeCode(WakeChosen(s.info.caps)), IF PcrMap(s.info.caps) = "da" THEN 1 ELSE 0)
<1> DEFINE w == MiscSaved(p.misc[Bsp])
           v == Version(s)
           wake == WakeCode(WakeChosen(s.info.caps))
           da == IF PcrMap(s.info.caps) = "da" THEN 1 ELSE 0
           rsdt == IF v < 6 THEN RsdtCode ELSE G_RSDP
<1>1. v \in 4 .. 7 /\ get_sinit_capabilities(s) = s.info.caps
  BY AskedOf, Zenon
<1>2. m = OsSinitData(OsMleData(p.mem, w), v, PtabBase, wake, da, rsdt)
  BY <1>1, Zenon DEF Filled
<1>3. p.mem \in [Cells -> Nat] /\ p.misc \in [Cpus -> Nat] /\ p.heap.size \in Nat
      /\ p.heap.size + OsMleFixed + calc_os_sinit_data_size(MAX_OS_SINIT_DATA_VER) + 3 * SizeField <= HeapCells
  BY Zenon DEF IsPlatform
<1>4. calc_os_sinit_data_size(MAX_OS_SINIT_DATA_VER) = 11
  BY SizesOfData DEF MAX_OS_SINIT_DATA_VER
<1>5. 0 \in Cells
  BY TxtHeapAssumption DEF Cells
<1>6. b \in Nat /\ b # 0 /\ b <= p.heap.size
  BY <1>3, <1>5, Zenon DEF Possible, verify_bios_data, get_bios_data_size
<1>7. b + 20 <= HeapCells
  BY <1>3, <1>4, <1>6, TxtHeapAssumption DEF OsMleFixed, SizeField
<1>8. w \in Nat
  <2>1. p.misc[Bsp] \in Nat /\ MiscWord \in Nat \ {0}
    BY <1>3, BspIsNoAp, LaunchAssumption, Zenon
  <2>2. QED
    BY <2>1 DEF MiscSaved
<1>9. wake \in Nat /\ da \in Nat /\ rsdt \in Nat /\ PtabBase \in Nat
  BY Zenon DEF WakeCode, RsdtCode, G_RSDP, PtabBase
<1> HIDE DEF w, v, wake, da, rsdt
<1>10. IsFilled(m, p.mem, b, w, v, PtabBase, wake, da)
  <2>1. b \in Nat \ {0} /\ p.mem[0] = b
    BY <1>6, Zenon
  <2>2. QED
    BY <1>1, <1>2, <1>3, <1>7, <1>8, <1>9, <2>1, HeapFilled, Zenon
<1>11. QED
  BY <1>6, <1>7, <1>10, Zenon DEF w, v, wake, da

\* LaunchReady follows from what the heap has been filled with.
LEMMA LaunchReadyHolds ==
  ASSUME FlowInv, SinitInv, HeapInv
  PROVE  LaunchReady
<1> DEFINE p == platform
           s == g_sinit
           b == p.mem[0]
           data == get_os_sinit_data_start(mem)
<1> SUFFICES ASSUME pc[Bsp] = "senter" PROVE LaunchReady
  BY Zenon DEF LaunchReady, Entered
<1>1. IsPlatform(p)
  BY PlatformFacts, Zenon DEF FlowInv, platform
<1>2. IsAcm(s)
  BY <1>1, CopiedSinit, Zenon DEF SinitInv, Chosen, platform
<1>3. CrReady(cr) /\ Possible(p, s) /\ ptes = PagesMapped(p.mle) /\ mem = Filled(p, s)
  BY Zenon DEF HeapInv, Prepared, platform
<1>4. /\ b \in Nat \ {0} /\ (\A c \in 0 .. b - 1 : mem[c] = p.mem[c])
      /\ MleCells(mem, b, MiscSaved(p.misc[Bsp]))
      /\ SinitCells(mem, b, Version(s), PtabBase, WakeCode(WakeChosen(s.info.caps)),
                    IF PcrMap(s.info.caps) = "da" THEN 1 ELSE 0)
  <2>1. /\ b \in Nat \ {0}
        /\ IsFilled(mem, p.mem, b, MiscSaved(p.misc[Bsp]), Version(s), PtabBase,
                    WakeCode(WakeChosen(s.info.caps)), IF PcrMap(s.info.caps) = "da" THEN 1 ELSE 0)
    BY <1>1, <1>2, <1>3, FilledIs, ZenonT(60)
  <2>2. QED
    BY <2>1, Zenon DEF IsFilled
<1>5. mem[0] = b /\ mem[b] = 7
  BY <1>4, SMTT(30) DEF MleCells, OsMleFixed, SizeField
<1>6. data = b + 8
  BY <1>4, <1>5, SMTT(30) DEF get_os_sinit_data_start, OsSinitSizeAt, get_bios_data_size, get_os_mle_data_size, SizeField
<1>7. data + 2 = b + 10 /\ data + 3 = b + 11
  BY <1>4, <1>6
<1>8. PagesRight(ptes, p.mle)
  <2>1. p.mle.start \in Nat /\ p.mle.size \in Nat \ {0} /\ p.mle.start + p.mle.size <= U32Size /\ Mappable(p.mle)
    BY <1>1, <1>3, Zenon DEF IsPlatform, Possible
  <2>2. QED
    BY <1>3, <2>1, PagesExact, Zenon
<1>9. /\ s.info.caps \cap {"monitor", "getsec"} # {} /\ Version(s) <= s.info.os_sinit_data_ver
      /\ WakeCode(WakeChosen(s.info.caps)) = (IF "monitor" \in s.info.caps THEN 2 ELSE 1)
      /\ PcrMap(s.info.caps) = "da" => "da" \in s.info.caps
  BY <1>2, <1>3, AskedOf, Zenon
<1>10. /\ mem[data] <= s.info.os_sinit_data_ver
       /\ mem[data + 2] = (IF "monitor" \in s.info.caps THEN 2 ELSE 1)
       /\ mem[data + 3] = 1 => "da" \in s.info.caps
  <2>1. mem[data] = Version(s) /\ mem[data + 2] = WakeCode(WakeChosen(s.info.caps))
        /\ mem[data + 3] = IF PcrMap(s.info.caps) = "da" THEN 1 ELSE 0
    BY <1>4, <1>6, <1>7, Zenon DEF SinitCells
  <2> HIDE DEF data
  <2>2. QED
    BY <1>9, <2>1
<1>11. cr.smxe /\ ~cr.cd /\ ~cr.nw /\ cr.ne
  BY <1>3, Zenon DEF CrReady
<1>12. QED
  BY <1>8, <1>9, <1>10, <1>11, Zenon DEF LaunchReady, PagesRight

\* The three invariants together.
LEMMA LaunchInvariants == LaunchSpec => [](FlowInv /\ SinitInv /\ HeapInv)
<1>1. LaunchInit => FlowInv /\ SinitInv /\ HeapInv
  BY InitFlow, InitSinitInv, InitHeapInv, Zenon
<1>2. FlowInv /\ SinitInv /\ HeapInv /\ [LaunchNext]_<<vars, launchVars>> => (FlowInv /\ SinitInv /\ HeapInv)'
  BY StepFlow, StepSinitInv, StepHeapInv, Zenon
<1>3. QED
  BY <1>1, <1>2, PTL DEF LaunchSpec

\* SinitSuits of every execution: whatever modules the loader and the BIOS have
\* brought, prepare_sinit_acm() lets only one that lies whole in its region and is not
\* older than the BIOS's own be entered, and only one that matches chipset and
\* processor, unless the loader brought modules of which none does.
THEOREM SinitAlwaysSuits == LaunchSpec => []SinitSuits
<1>1. FlowInv /\ SinitInv /\ HeapInv => SinitSuits
  BY SinitSuitsHolds, Zenon
<1>2. QED
  BY <1>1, LaunchInvariants, PTL

\* LaunchReady of every execution: __getsec_senter() is reached only with the control
\* registers, the page table of the MLE and the OS-to-SINIT data as they must be, for
\* every image, heap and SINIT module.
THEOREM LaunchAlwaysReady == LaunchSpec => []LaunchReady
<1>1. FlowInv /\ SinitInv /\ HeapInv => LaunchReady
  BY LaunchReadyHolds, Zenon
<1>2. QED
  BY <1>1, LaunchInvariants, PTL
=============================================================================
