--------------------------- MODULE HelpersProofs ---------------------------
(***************************************************************************)
(* The library below SABLE's boot.                                         *)
(*                                                                         *)
(* The heap of src/alloc.c is safe for every heap size and every set of    *)
(* request sizes.  Tiling is what makes the search and the split right;    *)
(* Handed ties the history of returned pointers to the headers, and makes  *)
(* Exclusive a consequence.                                                *)
(*                                                                         *)
(* Unpacking stays in the buffer for every word size, buffer, heap and     *)
(* response.                                                               *)
(***************************************************************************)
EXTENDS Alloc, TpmCommand, SequenceTheorems, TLAPS

-----------------------------------------------------------------------------
(* The heap.                                                                 *)
N == HeapSize \div BLOCK_SIZE

\* Before init_heap() the heap is the zeroed BSS node and nothing is out.
Untouched ==
  ~ready => /\ node = [c \in {1} |-> [size |-> 0, occupied |-> FALSE, next |-> NULL]]
            /\ live = {}

\* A pointer handed out is the cell after an occupied header of that size, and
\* no two allocations share it.
Handed ==
  \A a \in live :
    /\ a.ptr - 1 \in DOMAIN node
    /\ node[a.ptr - 1].occupied
    /\ node[a.ptr - 1].size = Blocks(a.size)
    /\ \A b \in live : a.ptr = b.ptr => a = b

\* A running alloc() has one of Requests; between calls the cursor is unused.
Running ==
  /\ pc = "search" => req \in Requests
  /\ pc = "idle" => n = NULL

IInv == TypeOK /\ Untouched /\ Tiling /\ Handed /\ FirstFit /\ Running

\* The heap has at least one cell.
LEMMA HeapCells == N \in Nat /\ N >= 1 /\ Cells = 1 .. N
  BY HeapAssumption DEF N, Cells, BLOCK_SIZE

\* Blocks() rounds up past the request: the payload covers the bytes asked for.
LEMMA BlocksCover ==
  ASSUME NEW sz \in Nat
  PROVE  Blocks(sz) \in Nat /\ Blocks(sz) >= 1 /\ sz < BLOCK_SIZE * Blocks(sz)
  BY DEF Blocks, BLOCK_SIZE

\* The initial state of the program satisfies the inductive invariant.
LEMMA InitIInv == Init => IInv
<1> SUFFICES ASSUME Init PROVE IInv
  BY Zenon
<1>1. DOMAIN node = {1} /\ node[1] = [size |-> 0, occupied |-> FALSE, next |-> NULL]
  BY Zenon DEF Init
<1>2. TypeOK
  <2>1. node \in [DOMAIN node -> MemNode]
    BY <1>1, Zenon DEF Init, MemNode, NULL
  <2>2. DOMAIN node \subseteq Cells
    BY <1>1, HeapCells
  <2>3. QED
    BY <2>1, <2>2, Zenon DEF Init, TypeOK
<1>3. QED
  BY <1>2, Zenon DEF Init, IInv, Untouched, Tiling, Handed, FirstFit, Running

\* init_heap() makes one free node of the whole heap.
LEMMA InitHeapStep == IInv /\ init_heap => IInv'
<1> SUFFICES ASSUME IInv, init_heap PROVE IInv'
  OBVIOUS
<1> USE HeapCells
<1>1. /\ DOMAIN node' = {1}
      /\ node'[1] = [size |-> N - 1, occupied |-> FALSE, next |-> NULL]
  BY Zenon DEF init_heap, N
<1>2. TypeOK'
  <2>1. node' \in [DOMAIN node' -> MemNode]
    BY <1>1 DEF init_heap, MemNode, NULL
  <2>2. n = NULL
    BY Zenon DEF IInv, Running, init_heap
  <2>3. QED
    BY <1>1, <2>1, <2>2 DEF init_heap, TypeOK, IInv
<1>3. Tiling'
  BY <1>1 DEF Tiling, End, N
<1>4. live' = {}
  BY Zenon DEF IInv, Untouched, init_heap
<1>5. QED
  BY <1>2, <1>3, <1>4 DEF IInv, Untouched, Handed, FirstFit, Running, init_heap

\* Entering alloc() and moving its cursor along the list write no node.
LEMMA SearchStep ==
  IInv /\ ((\E sz \in Requests : alloc(sz)) \/ SearchNext \/ ReturnNull) => IInv'
<1> SUFFICES ASSUME IInv,
                    (\E sz \in Requests : alloc(sz)) \/ SearchNext \/ ReturnNull
             PROVE  IInv'
  OBVIOUS
<1> USE HeapCells DEF NULL
<1>1. UNCHANGED <<node, ready, live>>
  BY Zenon DEF alloc, SearchNext, ReturnNull
<1>2. Untouched' /\ Tiling' /\ Handed'
  BY <1>1 DEF IInv, Untouched, Tiling, End, Handed
<1>3. 1 \in DOMAIN node
  BY Zenon DEF IInv, Untouched, Tiling, TypeOK
<1>4. CASE \E sz \in Requests : alloc(sz)
  <2>1. n' = 1 /\ pc' = "search" /\ req' \in Requests
    BY <1>4 DEF alloc
  <2>2. TypeOK'
    BY <1>1, <1>3, <2>1 DEF IInv, TypeOK
  <2>3. FirstFit'
    BY <1>1, <2>1, HeapCells DEF IInv, TypeOK, FirstFit
  <2>4. QED
    BY <1>2, <2>1, <2>2, <2>3 DEF IInv, Running
<1>5. CASE SearchNext
  <2>1. n \in DOMAIN node /\ n' = node[n].next /\ pc' = "search" /\ pc = "search" /\ req' = req
    BY <1>5, Zenon DEF SearchNext, IInv, TypeOK
  <2>2. \/ ready /\ (n' = NULL \/ n' = End(n)) /\ n' \in DOMAIN node \cup {NULL}
        \/ ~ready /\ n' = NULL
    BY <2>1 DEF IInv, Tiling, Untouched
  <2>3. TypeOK'
    BY <1>1, <2>1, <2>2, Zenon DEF IInv, TypeOK
  <2>4. FirstFit'
    <3>1. ~Fits(n)
      BY <1>5, Zenon DEF SearchNext
    <3>2. SUFFICES ASSUME NEW c \in DOMAIN node, n' = NULL \/ c < n'
                   PROVE  c <= n
      BY <1>1, <2>1, <3>1 DEF IInv, FirstFit, Fits, TypeOK, Cells
    <3>3. CASE ~ready
      BY <2>1, <3>3 DEF IInv, Untouched
    <3>4. CASE ready
      <4>1. c \in 1 .. N /\ n \in 1 .. N /\ node[n].size \in Nat
        BY <2>1, Zenon DEF IInv, TypeOK, MemNode
      <4>2. c <= n \/ End(n) <= c
        BY <2>1, <3>4, <4>1 DEF IInv, Tiling
      <4>3. c < N + 1
        BY <4>1
      <4>4. QED
        BY <2>1, <2>2, <3>2, <3>4, <4>1, <4>2, <4>3 DEF IInv, Tiling, End, N
    <3>5. QED
      BY <3>3, <3>4, Zenon
  <2>5. QED
    BY <1>2, <2>1, <2>3, <2>4 DEF IInv, Running
<1>6. CASE ReturnNull
  BY <1>1, <1>2, <1>6, Zenon DEF ReturnNull, IInv, TypeOK, FirstFit, Running
<1>7. QED
  BY <1>4, <1>5, <1>6

\* Cutting a node that fits, or taking it whole, keeps the heap tiled and gives
\* the caller a header of its own.
LEMMA ReturnBlockStep == IInv /\ ReturnBlock => IInv'
<1> SUFFICES ASSUME IInv, ReturnBlock PROVE IInv'
  BY Zenon
<1> DEFINE b == Blocks(req)
<1> USE HeapCells
<1>1. /\ n \in DOMAIN node /\ n \in 1 .. N /\ req \in Requests /\ Fits(n) /\ b \in Nat
      /\ b >= 1 /\ n' = NULL /\ pc' = "idle" /\ req' = 0 /\ UNCHANGED ready
      /\ live' = live \cup {[ptr |-> n + 1, size |-> req]}
  BY BlocksCover, HeapAssumption DEF ReturnBlock, IInv, TypeOK, Running
<1>2. ready
  BY <1>1 DEF IInv, Untouched, Fits
<1>3. /\ node[n].size \in Nat /\ node[n].next \in Nat /\ ~node[n].occupied
      /\ b <= node[n].size /\ End(n) <= N + 1 /\ End(n) = n + node[n].size + 1
  <2>1. node[n].size \in Nat /\ node[n].next \in Nat /\ End(n) = n + node[n].size + 1
    BY <1>1, Zenon DEF IInv, TypeOK, MemNode, End
  <2>2. ~node[n].occupied /\ b <= node[n].size
    BY <1>1, Zenon DEF Fits
  <2>3. End(n) <= N + 1
    BY <1>1, <1>2, <2>1 DEF IInv, Tiling, TypeOK, N
  <2>4. QED
    BY <2>1, <2>2, <2>3, Zenon
<1>4. \A c \in DOMAIN node : /\ c \in 1 .. N /\ node[c] \in MemNode
                             /\ c < n => End(c) <= n
                             /\ n < c => End(n) <= c
  BY <1>1, <1>2, Zenon DEF IInv, TypeOK, Tiling
<1>rest. ASSUME b < node[n].size
         PROVE  /\ n + b + 1 \in 1 .. N /\ n + b + 1 # n
                /\ n + b + 1 \notin DOMAIN node /\ n + b + 1 < End(n)
  <2>1. n \in Nat /\ b \in Nat /\ n >= 1
    BY <1>1
  <2>2. n < n + b + 1 /\ n + b + 1 < End(n)
    BY <1>rest, <1>3, <2>1
  <2>3. n + b + 1 \in 1 .. N
    BY <1>3, <2>1, <2>2, SMTT(30)
  <2>4. n + b + 1 \notin DOMAIN node
    <3> SUFFICES ASSUME n + b + 1 \in DOMAIN node PROVE FALSE
      BY Zenon
    <3>1. End(n) <= n + b + 1
      BY <1>4, <2>2
    <3>2. QED
      BY <1>3, <2>1, <2>2, <3>1, SMTT(30)
  <2>5. QED
    BY <2>1, <2>2, <2>3, <2>4
<1>5. /\ DOMAIN node \subseteq DOMAIN node'
      /\ node'[n].size = b /\ node'[n].occupied
      /\ \A c \in DOMAIN node : c # n => node'[c] = node[c]
      /\ DOMAIN node' \subseteq Cells
      /\ node' \in [DOMAIN node' -> MemNode]
  <2>1. CASE b < node[n].size
    <3> DEFINE rest == n + b + 1
    <3>1. node' = Split(n, b)
      BY <2>1, Zenon DEF ReturnBlock
    <3>2. rest \in 1 .. N /\ rest # n /\ rest \notin DOMAIN node
      BY <1>rest, <2>1
    <3>3. DOMAIN node' = DOMAIN node \cup {rest}
      BY <3>1 DEF Split
    <3>4. /\ node'[n] = [size |-> b, occupied |-> TRUE, next |-> rest]
          /\ node'[rest] = [size |-> node[n].size - (b + 1), occupied |-> FALSE,
                            next |-> node[n].next]
          /\ \A c \in DOMAIN node : c # n => node'[c] = node[c]
      BY <1>1, <3>1, <3>2 DEF Split
    <3>5. node'[n] \in MemNode /\ node'[rest] \in MemNode
      BY <1>1, <1>3, <2>1, <3>2, <3>4, SMTT(30) DEF MemNode
    <3>6. \A c \in DOMAIN node' : node'[c] \in MemNode
      BY <1>4, <3>3, <3>4, <3>5
    <3>7. node' = [c \in DOMAIN node' |-> node'[c]]
      BY <3>1, Zenon DEF Split
    <3>8. QED
      BY <1>1, <1>4, <3>2, <3>3, <3>4, <3>6, <3>7 DEF Cells, N
  <2>2. CASE ~(b < node[n].size)
    <3>1. node' = Occupy(n, b)
      BY <2>2, Zenon DEF ReturnBlock
    <3>2. DOMAIN node' = DOMAIN node
      BY <3>1, Zenon DEF Occupy
    <3>3. /\ node'[n] = [size |-> b, occupied |-> TRUE, next |-> node[n].next]
          /\ \A c \in DOMAIN node : c # n => node'[c] = node[c]
      BY <1>1, <3>1 DEF Occupy
    <3>4. \A c \in DOMAIN node' : node'[c] \in MemNode
      <4>1. node'[n] \in MemNode
        BY <1>1, <1>3, <3>3 DEF MemNode
      <4>2. QED
        BY <1>4, <3>2, <3>3, <4>1
    <3>5. node' = [c \in DOMAIN node' |-> node'[c]]
      BY <3>1, Zenon DEF Occupy, IInv, TypeOK
    <3>6. QED
      BY <1>1, <1>4, <3>2, <3>3, <3>4, <3>5 DEF Cells, N
  <2>3. QED
    BY <2>1, <2>2
<1>6. Tiling'
  <2> DEFINE NewEnd(c) == c + node'[c].size + 1
  <2> SUFFICES /\ 1 \in DOMAIN node'
               /\ \A c \in DOMAIN node' :
                    /\ IF node'[c].next = NULL THEN NewEnd(c) = N + 1
                       ELSE node'[c].next = NewEnd(c) /\ NewEnd(c) \in DOMAIN node'
                    /\ \A d \in DOMAIN node' : c < d => NewEnd(c) <= d
    BY Zenon DEF Tiling, End, N
  <2>0. /\ 1 \in DOMAIN node
        /\ \A c \in DOMAIN node :
             /\ IF node[c].next = NULL THEN End(c) = N + 1
                ELSE node[c].next = End(c) /\ End(c) \in DOMAIN node
             /\ \A d \in DOMAIN node : c < d => End(c) <= d
    BY <1>2, Zenon DEF IInv, Tiling, N
  <2>1. \A c \in DOMAIN node : c # n => NewEnd(c) = End(c)
    BY <1>5, Zenon DEF End
  <2>2. \A c \in DOMAIN node : End(c) \in Nat
    BY <1>4 DEF End, MemNode
  <2>3. CASE b < node[n].size
    <3> DEFINE rest == n + b + 1
    <3>1. node' = Split(n, b)
      BY <2>3 DEF ReturnBlock
    <3>2. /\ DOMAIN node' = DOMAIN node \cup {rest}
          /\ node'[n].next = rest
      BY <1>1, <3>1 DEF Split
    <3>3. rest \in 1 .. N /\ rest # n /\ rest \notin DOMAIN node /\ rest < End(n)
      BY <1>rest, <2>3
    <3>4. node'[rest].size = node[n].size - (b + 1) /\ node'[rest].next = node[n].next
      BY <3>1, <3>3 DEF Split
    <3>5. NewEnd(n) = rest
      BY <1>1, <1>5 DEF End
    <3>6. NewEnd(rest) = End(n)
      <4>1. \A x, y, z \in Nat : (x + y + 1) + (z - (y + 1)) + 1 = x + z + 1
        OBVIOUS
      <4>2. n \in Nat /\ b \in Nat /\ node[n].size \in Nat
        BY <1>1, <1>3
      <4>3. rest + (node[n].size - (b + 1)) + 1 = n + node[n].size + 1
        BY <4>1, <4>2, Zenon
      <4>4. QED
        BY <1>3, <3>4, <4>3
    <3>7. 1 \in DOMAIN node'
      BY <2>0, <3>2
    <3>8. ASSUME NEW c \in DOMAIN node'
          PROVE  IF node'[c].next = NULL THEN NewEnd(c) = N + 1
                 ELSE node'[c].next = NewEnd(c) /\ NewEnd(c) \in DOMAIN node'
      <4>1. CASE c = n
        BY <4>1, <3>2, <3>3, <3>5 DEF NULL
      <4>2. CASE c = rest
        BY <1>1, <2>0, <3>2, <3>4, <3>6, <4>2
      <4>3. CASE c # n /\ c # rest
        BY <1>5, <2>0, <2>1, <3>2, <4>3
      <4>4. QED
        BY <4>1, <4>2, <4>3
    <3>9. ASSUME NEW c \in DOMAIN node', NEW d \in DOMAIN node', c < d
          PROVE  NewEnd(c) <= d
      <4>1. CASE c = n
        BY <1>1, <1>3, <1>4, <3>2, <3>3, <3>5, <3>9, <4>1, SMTT(30)
      <4>2. CASE c = rest
        BY <1>1, <1>3, <1>4, <3>2, <3>3, <3>6, <3>9, <4>2, SMTT(30)
      <4>3. CASE c # n /\ c # rest
        <5>1. c \in DOMAIN node /\ NewEnd(c) = End(c)
          BY <2>1, <3>2, <4>3
        <5>2. CASE d = rest
          <6>1. c < n
            BY <1>1, <1>3, <1>4, <3>3, <3>9, <4>3, <5>1, <5>2, SMTT(20)
          <6>2. QED
            BY <1>1, <1>4, <2>2, <3>3, <5>1, <5>2, <6>1
        <5>3. CASE d # rest
          BY <2>0, <3>2, <3>9, <5>1, <5>3
        <5>4. QED
          BY <5>2, <5>3
      <4>4. QED
        BY <4>1, <4>2, <4>3
    <3>10. QED
      BY <3>7, <3>8, <3>9, Zenon
  <2>4. CASE ~(b < node[n].size)
    <3>1. node' = Occupy(n, b)
      BY <2>4 DEF ReturnBlock
    <3>2. DOMAIN node' = DOMAIN node /\ node'[n].next = node[n].next
      BY <1>1, <3>1 DEF Occupy
    <3>3. NewEnd(n) = End(n)
      BY <1>1, <1>3, <1>5, <2>4 DEF End
    <3>4. \A c \in DOMAIN node : NewEnd(c) = End(c) /\ node'[c].next = node[c].next
      BY <1>5, <2>1, <3>2, <3>3
    <3>5. QED
      BY <2>0, <3>2, <3>4
  <2>5. QED
    BY <2>3, <2>4, Zenon
<1>7. Handed'
  <2>1. \A a \in live : /\ a.ptr \in Nat /\ a.ptr - 1 \in DOMAIN node /\ a.ptr - 1 # n
                        /\ node'[a.ptr - 1] = node[a.ptr - 1]
    BY <1>3, <1>5 DEF IInv, Handed, TypeOK
  <2> DEFINE new == [ptr |-> n + 1, size |-> req]
  <2>2. new.ptr - 1 = n /\ new.size = req /\ new.ptr = n + 1
    BY <1>1
  <2>3. \A a \in live : a.ptr # new.ptr
    BY <1>1, <2>1, <2>2
  <2> HIDE DEF new
  <2>4. ASSUME NEW a \in live'
        PROVE  /\ a.ptr - 1 \in DOMAIN node'
               /\ node'[a.ptr - 1].occupied
               /\ node'[a.ptr - 1].size = Blocks(a.size)
    <3>1. CASE a = new
      BY <1>1, <1>5, <2>2, <3>1
    <3>2. CASE a \in live
      BY <1>5, <2>1, <3>2 DEF IInv, Handed
    <3>3. QED
      BY <1>1, <3>1, <3>2 DEF new
  <2>5. ASSUME NEW a \in live', NEW c \in live', a.ptr = c.ptr
        PROVE  a = c
    BY <1>1, <2>3, <2>5 DEF IInv, Handed, new
  <2>6. QED
    BY <2>4, <2>5 DEF Handed
<1>8. TypeOK'
  <2>1. [ptr |-> n + 1, size |-> req] \in [ptr : Nat, size : Requests]
    BY <1>1
  <2>2. live' \subseteq [ptr : Nat, size : Requests]
    BY <1>1, <2>1 DEF IInv, TypeOK
  <2>3. ready' \in BOOLEAN
    BY <1>1 DEF IInv, TypeOK
  <2>4. QED
    BY <1>1, <1>5, <2>2, <2>3 DEF TypeOK
<1>9. QED
  BY <1>1, <1>2, <1>6, <1>7, <1>8 DEF IInv, Untouched, FirstFit, Running

\* Every step of the allocator keeps the inductive invariant.
LEMMA NextIInv == IInv /\ [Next]_vars => IInv'
<1> SUFFICES ASSUME IInv, [Next]_vars PROVE IInv'
  BY Zenon
<1>1. CASE init_heap
  BY <1>1, InitHeapStep
<1>2. CASE (\E sz \in Requests : alloc(sz)) \/ SearchNext \/ ReturnNull
  BY <1>2, SearchStep
<1>3. CASE ReturnBlock
  BY <1>3, ReturnBlockStep
<1>4. CASE UNCHANGED vars
  BY <1>4 DEF vars, IInv, TypeOK, Untouched, Tiling, End, Handed, FirstFit, Fits, Running
<1>5. QED
  BY <1>1, <1>2, <1>3, <1>4 DEF Next

\* The inductive invariant implies that allocations are exclusive: a payload
\* ends before the end of its node, and nodes do not overlap.
LEMMA IInvExclusive == IInv => Exclusive
<1> SUFFICES ASSUME IInv, NEW a \in live
             PROVE  /\ PastByte(a) <= BLOCK_SIZE * (N + 1)
                    /\ \A b \in live \ {a} : \/ PastByte(a) <= FirstByte(b)
                                             \/ PastByte(b) <= FirstByte(a)
                    /\ \A c \in DOMAIN node : \/ BLOCK_SIZE * (c + 1) <= FirstByte(a)
                                              \/ PastByte(a) <= BLOCK_SIZE * c
  BY DEF Exclusive, N
<1> USE HeapCells
<1>1. ready
  BY Zenon DEF IInv, Untouched
<1>2. ASSUME NEW x \in live
      PROVE  /\ x.ptr \in Nat /\ x.ptr - 1 \in DOMAIN node /\ x.ptr - 1 \in 1 .. N
             /\ End(x.ptr - 1) \in Nat
             /\ FirstByte(x) = BLOCK_SIZE * x.ptr
             /\ PastByte(x) \in Nat
             /\ PastByte(x) < BLOCK_SIZE * End(x.ptr - 1)
  <2>1. x.ptr \in Nat /\ x.size \in Nat /\ x.ptr - 1 \in DOMAIN node /\ x.ptr - 1 \in 1 .. N
    BY HeapAssumption DEF IInv, TypeOK, Handed
  <2>2. Blocks(x.size) \in Nat /\ x.size < BLOCK_SIZE * Blocks(x.size)
    BY <2>1, BlocksCover, Zenon
  <2>3. End(x.ptr - 1) = (x.ptr - 1) + Blocks(x.size) + 1
    BY Zenon DEF IInv, Handed, End
  <2>4. End(x.ptr - 1) = x.ptr + Blocks(x.size)
    BY <2>1, <2>2, <2>3
  <2>5. \A p, k, z \in Nat : z < 8 * k => 8 * p + z \in Nat /\ 8 * p + z < 8 * (p + k)
    OBVIOUS
  <2>6. PastByte(x) \in Nat /\ PastByte(x) < BLOCK_SIZE * (x.ptr + Blocks(x.size))
    BY <2>1, <2>2, <2>5, Zenon DEF FirstByte, PastByte, BLOCK_SIZE
  <2>7. End(x.ptr - 1) \in Nat
    BY <2>1, <2>2, <2>4
  <2>8. QED
    BY <2>1, <2>4, <2>6, <2>7, Zenon DEF FirstByte
<1>3. \A c \in DOMAIN node : c \in 1 .. N /\ End(c) <= N + 1 /\ c < End(c)
  BY <1>1, SMTT(30) DEF IInv, TypeOK, Tiling, End, N, MemNode
<1>4. \A c, d \in DOMAIN node : c < d => End(c) <= d
  BY <1>1, Zenon DEF IInv, Tiling
<1>5. PastByte(a) <= BLOCK_SIZE * (N + 1)
  BY <1>2, <1>3 DEF BLOCK_SIZE
<1>6. ASSUME NEW b \in live \ {a}
      PROVE  PastByte(a) <= FirstByte(b) \/ PastByte(b) <= FirstByte(a)
  <2>1. a.ptr - 1 # b.ptr - 1
    BY <1>2 DEF IInv, Handed
  <2>2. End(a.ptr - 1) <= b.ptr - 1 \/ End(b.ptr - 1) <= a.ptr - 1
    BY <1>2, <1>4, <2>1, SMTT(30)
  <2>3. QED
    BY <1>2, <2>2, SMTT(30) DEF BLOCK_SIZE
<1>7. ASSUME NEW c \in DOMAIN node
      PROVE  BLOCK_SIZE * (c + 1) <= FirstByte(a) \/ PastByte(a) <= BLOCK_SIZE * c
  <2>1. c <= a.ptr - 1 \/ End(a.ptr - 1) <= c
    BY <1>2, <1>3, <1>4
  <2>2. QED
    BY <1>2, <1>3, <2>1, SMTT(20) DEF BLOCK_SIZE
<1>8. QED
  BY <1>5, <1>6, <1>7, Zenon

\* Headers and payloads tile the heap in every reachable state, for every heap
\* size and every set of requests.
THEOREM HeapTiled == Spec => [](TypeOK /\ Tiling)
<1>1. IInv => TypeOK /\ Tiling
  BY Zenon DEF IInv
<1>2. QED
  BY <1>1, InitIInv, NextIInv, PTL DEF Spec

\* alloc() returns NULL only if no node of the heap fits.
THEOREM SearchIsFirstFit == Spec => []FirstFit
<1>1. IInv => FirstFit
  BY Zenon DEF IInv
<1>2. QED
  BY <1>1, InitIInv, NextIInv, PTL DEF Spec

\* No two callers of alloc() share a byte, and none holds a byte of a header.
THEOREM AllocationsExclusive == Spec => []Exclusive
  BY InitIInv, NextIInv, IInvExclusive, PTL DEF Spec

-----------------------------------------------------------------------------
(* The heap is a bump allocator.                                             *)

\* Only the last node of the list can be free.
LastFree == ready => \A c \in DOMAIN node : ~node[c].occupied => node[c].next = NULL

Top == IF ~ready \/ FreeNodes = {} THEN N + 1 ELSE CHOOSE c \in FreeNodes : TRUE

\* It ends at the end of the heap, and there is no other.
LEMMA TheFreeNode ==
  ASSUME IInv, LastFree, ready, NEW c \in FreeNodes
  PROVE  FreeNodes = {c} /\ Top = c /\ End(c) = N + 1
<1>1. \A d \in FreeNodes : d \in DOMAIN node /\ d \in 1 .. N /\ End(d) = N + 1
  BY HeapCells DEF FreeNodes, LastFree, IInv, TypeOK, Tiling, N
<1>2. ASSUME NEW d \in FreeNodes PROVE c = d
  <2>1. ~(c < d) /\ ~(d < c)
    BY <1>1, HeapCells DEF IInv, Tiling
  <2>2. QED
    BY <1>1, <2>1
<1>3. FreeNodes = {c}
  BY <1>2, Zenon
<1>4. QED
  BY <1>1, <1>3 DEF Top

\* alloc() takes the blocks and a header off the top.
LEMMA ReturnBlockBumps ==
  ASSUME IInv, LastFree, ReturnBlock
  PROVE  /\ LastFree' /\ Top = n
         /\ Top' = n + Blocks(req) + 1 /\ Top' <= N + 1
<1> DEFINE b == Blocks(req)
<1>1. /\ n \in DOMAIN node /\ n \in 1 .. N /\ Fits(n) /\ b \in Nat /\ b >= 1 /\ ready' = ready
      /\ node[n].size \in Nat /\ b <= node[n].size
  BY BlocksCover, HeapAssumption, HeapCells DEF ReturnBlock, IInv, TypeOK, Running, MemNode, Fits
<1>2. ready
  BY <1>1 DEF IInv, Untouched, Fits
<1>3. n \in FreeNodes
  BY <1>1, Zenon DEF Fits, FreeNodes
<1>4. FreeNodes = {n} /\ Top = n /\ End(n) = N + 1
  BY <1>2, <1>3, TheFreeNode, Zenon
<1>5. n + node[n].size + 1 = N + 1 /\ node[n].next = NULL
  BY <1>1, <1>2, <1>3, <1>4 DEF End, LastFree, FreeNodes
<1>6. \A c \in DOMAIN node : c # n => node[c].occupied
  BY <1>4 DEF FreeNodes
<1> HIDE DEF b
<1>7. CASE b < node[n].size
  <2> DEFINE rest == n + b + 1
  <2>1. node' = Split(n, b)
    BY <1>7 DEF ReturnBlock, b
  <2>2. rest # n /\ rest <= N + 1
    BY <1>1, <1>5, <1>7, HeapCells
  <2>3. /\ DOMAIN node' = DOMAIN node \cup {rest}
        /\ node'[n].occupied /\ ~node'[rest].occupied /\ node'[rest].next = NULL
        /\ \A c \in DOMAIN node : c # n /\ c # rest => node'[c] = node[c]
    BY <1>1, <1>5, <2>1, <2>2 DEF Split
  <2> HIDE DEF rest
  <2>4. LastFree'
    BY <1>6, <2>3 DEF LastFree
  <2>5. FreeNodes' = {rest}
    BY <1>6, <2>3 DEF FreeNodes
  <2>6. Top' = rest
    BY <1>1, <1>2, <2>5 DEF Top
  <2>7. QED
    BY <1>4, <2>2, <2>4, <2>6 DEF rest, b
<1>8. CASE ~(b < node[n].size)
  <2>1. node' = Occupy(n, b)
    BY <1>8 DEF ReturnBlock, b
  <2>2. /\ DOMAIN node' = DOMAIN node /\ node'[n].occupied
        /\ \A c \in DOMAIN node : c # n => node'[c] = node[c]
    BY <1>1, <2>1 DEF Occupy
  <2>3. FreeNodes' = {}
    BY <1>6, <2>2 DEF FreeNodes
  <2>4. LastFree' /\ Top' = N + 1
    BY <2>3 DEF LastFree, FreeNodes, Top
  <2>5. N + 1 = n + b + 1
    BY <1>1, <1>5, <1>8
  <2>6. QED
    BY <1>4, <2>4, <2>5, HeapCells DEF b
<1>9. QED
  BY <1>7, <1>8, Zenon

\* Every step of the allocator gives from the top, opens the heap or stutters.
LEMMA NextBumps ==
  ASSUME IInv, LastFree, [Next]_vars
  PROVE  LastFree' /\ [Bump!Next]_<<Top, live>>
<1>1. CASE init_heap
  <2>1. DOMAIN node' = {1} /\ ~node'[1].occupied /\ node'[1].next = NULL /\ ready'
    BY <1>1 DEF init_heap
  <2>2. FreeNodes' = {1} /\ LastFree'
    BY <2>1 DEF FreeNodes, LastFree
  <2>3. Top' = 1
    BY <2>1, <2>2 DEF Top
  <2>4. live = {} /\ live' = live
    BY <1>1 DEF init_heap, IInv, Untouched
  <2>5. QED
    BY <2>2, <2>3, <2>4 DEF Bump!Next, Bump!Open, Top, N
<1>2. CASE UNCHANGED <<node, ready, live>>
  <2>1. LastFree' /\ Top' = Top
    BY <1>2 DEF LastFree, Top, FreeNodes
  <2>2. QED
    BY <1>2, <2>1
<1>3. CASE ReturnBlock
  <2>1. LastFree' /\ Top = n /\ Top' = n + Blocks(req) + 1 /\ Top' <= N + 1
    BY <1>3, ReturnBlockBumps
  <2>2. live' = live \cup {[ptr |-> n + 1, size |-> req]} /\ req \in Requests /\ n \in Nat /\ req \in Nat
    BY <1>3, HeapCells, HeapAssumption DEF ReturnBlock, IInv, Running, TypeOK, NULL
  <2>3. Blocks(req) + 1 = Bump!Cost(req)
    BY <2>2 DEF Blocks, BLOCK_SIZE, Bump!Cost
  <2>4. n + Blocks(req) + 1 = n + Bump!Cost(req)
    BY <2>2, <2>3, BlocksCover
  <2>5. Bump!Give(req)
    BY <2>1, <2>2, <2>4, Zenon DEF Bump!Give, Bump!Last, N, Top, BLOCK_SIZE
  <2>6. QED
    BY <2>1, <2>2, <2>5 DEF Bump!Next
<1>4. QED
  BY <1>1, <1>2, <1>3 DEF Next, vars, alloc, SearchNext, ReturnNull

\* The list of src/alloc.c, its search and its splits implement a bump allocator:
\* alloc() gives the next blocks of the heap as long as they are there.
THEOREM HeapBumps == Spec => BumpSpec
<1>1. Init => LastFree /\ Bump!Init
  BY Zenon DEF Init, LastFree, Bump!Init, Bump!Last, BLOCK_SIZE
<1>2. IInv /\ LastFree /\ [Next]_vars => LastFree' /\ [Bump!Next]_<<Top, live>>
  BY NextBumps, Zenon
<1>3. QED
  BY InitIInv, NextIInv, <1>1, <1>2, PTL DEF Spec, BumpSpec, Bump!Spec, Top, N

-----------------------------------------------------------------------------
(* Requests and responses.                                                   *)
\* The calls that unpack.  Only the one for random bytes fills an array.
Plain == {"fixed", "length", "ptr", "code", "check"}
Names == {"tag", "paramSize", "res", "ordinal", "value", "authHandle", "nonceEven", "nonceEvenOSAP",
          "S", "nonceOdd", "continueAuthSession", "auth", "dataAuth", "dataSize", "data", "none",
          "blob.tag", "et", "sealInfoSize", "sealInfo", "encDataSize", "encData"}
Digests == {"none", "S", "H1", "H2"}
Calls == [op : Plain, name : Names, n : 0 .. 20, inBuffer : BOOLEAN, digest : Digests]

LEMMA ItemType ==
  \A b \in BOOLEAN : \A op \in Plain, name \in Names, sz \in 0 .. 20, digest \in Digests :
    Item(op, name, sz, b, digest) \in Calls
BY Zenon DEF Item, Calls

LEMMA CallTypes ==
  \A name \in Names, sz \in 0 .. 20, digest \in Digests :
    /\ Put(name, sz) \in Calls
    /\ PutMac(name, sz, digest) \in Calls /\ Mac(name, sz, digest) \in Calls
    /\ Sized(name, digest) \in Calls /\ Ptr(name, digest) \in Calls
    /\ Item("code", name, sz, TRUE, digest) \in Calls
    /\ Item("check", name, sz, FALSE, digest) \in Calls
<1>1. /\ 4 \in 0 .. 20 /\ 0 \in 0 .. 20 /\ "none" \in Digests
      /\ "fixed" \in Plain /\ "length" \in Plain /\ "ptr" \in Plain
      /\ "code" \in Plain /\ "check" \in Plain
  BY DEF Plain, Digests
<1>2. TRUE \in BOOLEAN /\ FALSE \in BOOLEAN
  OBVIOUS
<1> TAKE name \in Names, sz \in 0 .. 20, digest \in Digests
<1>3. Put(name, sz) \in Calls /\ PutMac(name, sz, digest) \in Calls
  BY <1>1, <1>2, ItemType, Zenon DEF Put, PutMac
<1>4. Mac(name, sz, digest) \in Calls /\ Sized(name, digest) \in Calls
  BY <1>1, <1>2, ItemType, Zenon DEF Mac, Sized
<1>5. Ptr(name, digest) \in Calls
  BY <1>1, <1>2, ItemType, Zenon DEF Ptr
<1>6. Item("code", name, sz, TRUE, digest) \in Calls /\ Item("check", name, sz, FALSE, digest) \in Calls
  BY <1>1, <1>2, ItemType, Zenon
<1> QED
  BY <1>3, <1>4, <1>5, <1>6, Zenon

LEMMA Tuples ==
  \A a, b, c, d, e, f \in Calls :
    /\ <<a>> \in Seq(Calls) /\ <<a, b>> \in Seq(Calls) /\ <<a, b, c>> \in Seq(Calls)
    /\ <<a, b, c, d>> \in Seq(Calls) /\ <<a, b, c, d, e>> \in Seq(Calls)
    /\ <<a, b, c, d, e, f>> \in Seq(Calls)
OBVIOUS

LEMMA Concatenation ==
  \A s, t \in Seq(Calls) : s \o t \in Seq(Calls)
OBVIOUS

LEMMA PartTypes ==
  ASSUME NEW digest \in Digests, NEW auth \in Names
  PROVE  /\ unmarshal_TPM_STORED_DATA12(digest) \in Seq(Calls)
         /\ Confirmed(digest, auth) \in Seq(Calls)
<1>1. 1 \in 0 .. 20 /\ 2 \in 0 .. 20 /\ 20 \in 0 .. 20
  BY SMTT(30)
<1>2. /\ PutMac("blob.tag", 2, digest) \in Calls
      /\ PutMac("et", 2, digest) \in Calls
      /\ Sized("sealInfoSize", digest) \in Calls
      /\ Ptr("sealInfo", digest) \in Calls
      /\ Sized("encDataSize", digest) \in Calls
      /\ Ptr("encData", digest) \in Calls
  BY <1>1, CallTypes, ZenonT(60) DEF Names, Digests
<1>3. /\ Mac("S", 20, digest) \in Calls /\ PutMac("nonceEven", 20, digest) \in Calls
      /\ Mac("nonceOdd", 20, digest) \in Calls
      /\ PutMac("continueAuthSession", 1, digest) \in Calls /\ Put(auth, 20) \in Calls
  <2>1. {"S", "nonceEven", "nonceOdd", "continueAuthSession"} \subseteq Names
    BY DEF Names
  <2> QED
    BY <1>1, <2>1, CallTypes, Zenon
<1>4. unmarshal_TPM_STORED_DATA12(digest) \in Seq(Calls)
  BY <1>2, Tuples, Zenon DEF unmarshal_TPM_STORED_DATA12
<1>5. Confirmed(digest, auth) \in Seq(Calls)
  BY <1>3, Tuples, Zenon DEF Confirmed
<1> QED
  BY <1>4, <1>5

\* Response(c) but for the array of TPM_GetRandom().
LEMMA ResponseTypes ==
  ASSUME NEW c \in Commands, c.fn \notin {"TPM_GetRandom", "unpack"}
  PROVE  Response(c) \in Seq(Calls)
<1> DEFINE plain == <<Put("tag", 2), Put("paramSize", 4), Item("code", "res", 4, TRUE, "none")>>
           auth == <<Put("tag", 2), Put("paramSize", 4), Item("code", "res", 4, TRUE, "S"),
                     Mac("ordinal", 4, "S")>>
           data == <<Sized("dataSize", "S"), Ptr("data", "S")>>
           check == <<Item("check", "none", 0, FALSE, "none")>>
           oiap == <<Put("authHandle", 4), Put("nonceEven", 20)>>
           osap == <<Put("authHandle", 4), Put("nonceEven", 20), Put("nonceEvenOSAP", 20)>>
           blob == unmarshal_TPM_STORED_DATA12("S")
           first == Confirmed("H1", "auth")
           second == Confirmed("H2", "dataAuth")
<1>1. 0 \in 0 .. 20 /\ 2 \in 0 .. 20 /\ 4 \in 0 .. 20 /\ 20 \in 0 .. 20
  OBVIOUS
<1>2. plain \in Seq(Calls) /\ auth \in Seq(Calls)
  <2>1. /\ Put("tag", 2) \in Calls /\ Put("paramSize", 4) \in Calls /\ Mac("ordinal", 4, "S") \in Calls
        /\ Item("code", "res", 4, TRUE, "none") \in Calls /\ Item("code", "res", 4, TRUE, "S") \in Calls
    BY <1>1, CallTypes, Zenon DEF Names, Digests
  <2> QED
    BY <2>1, Tuples, ZenonT(60)
<1>3. data \in Seq(Calls) /\ check \in Seq(Calls)
  <2>1. /\ Sized("dataSize", "S") \in Calls /\ Ptr("data", "S") \in Calls
        /\ Item("check", "none", 0, FALSE, "none") \in Calls
    BY <1>1, CallTypes, Zenon DEF Names, Digests
  <2> QED
    BY <2>1, Tuples, ZenonT(60)
<1>4. oiap \in Seq(Calls) /\ osap \in Seq(Calls) /\ <<Put("value", 20)>> \in Seq(Calls)
  <2>1. /\ Put("authHandle", 4) \in Calls /\ Put("nonceEven", 20) \in Calls
        /\ Put("nonceEvenOSAP", 20) \in Calls /\ Put("value", 20) \in Calls
    BY <1>1, CallTypes, Zenon DEF Names, Digests
  <2> QED
    BY <2>1, Tuples, ZenonT(60)
<1>5. blob \in Seq(Calls) /\ first \in Seq(Calls) /\ second \in Seq(Calls)
  BY PartTypes DEF Names, Digests
<1>6. c.fn \in {"TPM_Startup", "TPM_PCRRead", "TPM_Extend", "TPM_OIAP", "TPM_OSAP",
                "TPM_NV_WriteValueAuth", "TPM_NV_ReadValue", "TPM_Unseal", "TPM_Seal"}
  BY TpmCommandAssumption
<1>7. Response(c) =
        CASE c.fn = "TPM_Startup" -> plain
          [] c.fn = "TPM_GetRandom" -> plain \o <<Sized("randomBytesSize", "none"),
                                                  Item("array", "randomBytes", 0, TRUE, "none")>>
          [] c.fn \in {"TPM_PCRRead", "TPM_Extend"} -> plain \o <<Put("value", 20)>>
          [] c.fn = "TPM_OIAP" -> plain \o oiap
          [] c.fn = "TPM_OSAP" -> plain \o osap
          [] c.fn = "TPM_NV_WriteValueAuth" -> auth \o first
          [] c.fn = "TPM_NV_ReadValue" -> auth \o data
          [] c.fn = "TPM_Unseal" -> auth \o data \o first \o check \o second
          [] c.fn = "TPM_Seal" -> auth \o blob \o first
  BY Zenon DEF Response
<1> HIDE DEF plain, auth, data, check, oiap, osap, blob, first, second
<1>8. CASE c.fn \in {"TPM_Startup", "TPM_PCRRead", "TPM_Extend", "TPM_OIAP", "TPM_OSAP"}
  <2>1. Response(c) \in {plain, plain \o <<Put("value", 20)>>, plain \o oiap, plain \o osap}
    BY <1>7, <1>8, Zenon
  <2>2. /\ plain \in Seq(Calls) /\ plain \o <<Put("value", 20)>> \in Seq(Calls)
        /\ plain \o oiap \in Seq(Calls) /\ plain \o osap \in Seq(Calls)
    BY <1>2, <1>4, Concatenation, Zenon
  <2> QED
    BY <2>1, <2>2, ZenonT(60)
<1>9. CASE c.fn \in {"TPM_NV_WriteValueAuth", "TPM_NV_ReadValue"}
  <2>1. Response(c) \in {auth \o first, auth \o data}
    BY <1>7, <1>9, SMTT(30)
  <2>2. auth \o first \in Seq(Calls) /\ auth \o data \in Seq(Calls)
    BY <1>2, <1>3, <1>5, Concatenation, Zenon
  <2> QED
    BY <2>1, <2>2, Zenon
<1>10. CASE c.fn \in {"TPM_Unseal", "TPM_Seal"}
  <2>1. Response(c) \in {auth \o data \o first \o check \o second, auth \o blob \o first}
    BY <1>7, <1>10
  <2>2. auth \o data \o first \o check \o second \in Seq(Calls) /\ auth \o blob \o first \in Seq(Calls)
    BY <1>2, <1>3, <1>5, Concatenation, Zenon
  <2> QED
    BY <2>1, <2>2, ZenonT(60)
<1> QED
  BY <1>6, <1>8, <1>9, <1>10, SMTT(30)

-----------------------------------------------------------------------------
(* TPM_GetRandom() fills an array of the caller: the size in the response is *)
(* compared with it before the bytes are read.                               *)

Size == Sized("randomBytesSize", "none")
Array == Item("array", "randomBytes", 0, TRUE, "none")
Before == {<<Put("tag", 2), Put("paramSize", 4), Item("code", "res", 4, TRUE, "none"), Size, Array>>,
           <<Put("paramSize", 4), Item("code", "res", 4, TRUE, "none"), Size, Array>>,
           <<Item("code", "res", 4, TRUE, "none"), Size, Array>>, <<Size, Array>>}

\* What is left to unpack.
Left ==
  \/ calls \in Seq(Calls)
  \/ size = BufferSize /\ calls \in Before
  \/ size = BufferSize /\ calls = <<Array>> /\ named = cmd.n

InsideInv ==
  /\ size \in Nat /\ named \in Nat /\ taken \in Nat
  /\ size + 8 * (HeapBlocks + 1) < U32
  /\ read.to <= size
  /\ phase # "idle" => cmd \in Commands
  /\ phase = "idle" => bytes = 0 /\ read.to = 0
  /\ phase = "request" => size = BufferSize /\ cmd.fn # "unpack"
  /\ phase = "response" => bytes \in 0 .. size /\ Left

LEMMA CallParts ==
  \A i \in Calls : i.op \in Plain /\ i.n \in 0 .. 20 /\ i.name # "randomBytesSize"
BY DEF Calls, Names

LEMMA RandomParts ==
  /\ Size.op = "length" /\ Size.n = 4 /\ Size.name = "randomBytesSize"
  /\ Array.op = "array" /\ Array.name = "randomBytes"
BY DEF Size, Array, Sized, Item

\* The sum that is checked does not wrap, so the check means what it says.
LEMMA CheckedRead ==
  ASSUME InsideInv, phase = "response", NEW i,
         \/ i.op \in Plain /\ i.n \in 0 .. 20
         \/ i.op = "array" /\ named = cmd.n /\ size = BufferSize,
         ~Overflow(Need(i)), Allocated(i)
  PROVE  /\ Need(i) \in Nat /\ bytes + Need(i) <= size
         /\ (bytes + Need(i)) % U32 = bytes + Need(i)
<1> USE TpmCommandAssumption
<1>1. bytes \in 0 .. size /\ size \in Nat /\ U32 \in Nat /\ HeapBlocks \in Nat /\ HeapBlocks >= 2
  BY DEF InsideInv
<1>2. Need(i) \in Nat /\ bytes + Need(i) < U32
  <2>1. CASE i.op = "ptr"
    <3>1. Need(i) = named /\ named \in Nat /\ taken \in Nat
      BY <2>1 DEF Need, InsideInv
    <3>2. named \div 8 + 1 <= HeapBlocks - taken
      BY <2>1, <3>1 DEF Allocated, Blocks8
    <3>3. named < 8 * HeapBlocks
      BY <3>1, <3>2, <1>1
    <3> QED
      BY <3>1, <3>3, <1>1 DEF InsideInv
  <2>2. CASE i.op \in Plain \ {"ptr"} /\ i.n \in 0 .. 20
    BY <1>1, <2>2 DEF InsideInv, Need, Plain
  <2>3. CASE i.op = "array" /\ named = cmd.n /\ size = BufferSize
    <3>1. cmd \in Commands /\ Need(i) = cmd.n
      BY <2>3 DEF InsideInv, Need
    <3>2. cmd.n \in Nat /\ cmd.n + BufferSize + 8 * (HeapBlocks + 1) < U32
      BY <3>1
    <3> QED
      BY <3>1, <3>2, <2>3, <1>1, SMTT(30)
  <2> QED
    BY <2>1, <2>2, <2>3
<1>3. (bytes + Need(i)) % U32 = bytes + Need(i)
  BY <1>1, <1>2
<1> QED
  BY <1>1, <1>2, <1>3, SMTT(30) DEF Overflow

LEMMA ThreeAndTwo ==
  ASSUME NEW a, NEW b, NEW c, NEW d, NEW e
  PROVE  <<a, b, c>> \o <<d, e>> = <<a, b, c, d, e>>
<1> DEFINE s == <<a, b, c>>
           t == <<d, e>>
           r == <<a, b, c, d, e>>
           S == {a, b, c, d, e}
           p == s \o t
<1>1. s \in Seq(S) /\ t \in Seq(S) /\ r \in Seq(S) /\ Len(s) = 3 /\ Len(t) = 2 /\ Len(r) = 5
  OBVIOUS
<1>2. s[1] = a /\ s[2] = b /\ s[3] = c /\ t[1] = d /\ t[2] = e
  OBVIOUS
<1>3. r[1] = a /\ r[2] = b /\ r[3] = c /\ r[4] = d /\ r[5] = e
  OBVIOUS
<1> HIDE DEF s, t, r, S
<1>4. /\ p \in Seq(S) /\ Len(p) = Len(s) + Len(t)
      /\ \A i \in 1 .. Len(s) + Len(t) : p[i] = IF i <= Len(s) THEN s[i] ELSE t[i - Len(s)]
  BY <1>1, ConcatProperties, Zenon
<1> HIDE DEF p
<1>5. Len(p) = 5 /\ \A i \in 1 .. 5 : p[i] = IF i <= 3 THEN s[i] ELSE t[i - 3]
  BY <1>1, <1>4
<1>6. p[1] = a /\ p[2] = b /\ p[3] = c /\ p[4] = d /\ p[5] = e
  BY <1>5, <1>2
<1>7. \A i \in 1 .. 5 : p[i] = r[i]
  BY <1>6, <1>3, SMTT(30)
<1>8. p = r
  BY <1>1, <1>4, <1>5, <1>7, SeqEqual, SMTT(30)
<1> QED
  BY <1>8 DEF s, t, r, p

LEMMA BeforeParts ==
  \A s \in Before : \/ Head(s) \in Calls /\ Tail(s) \in Before
                    \/ Head(s) = Size /\ Tail(s) = <<Array>>
<1> DEFINE tag == Put("tag", 2)
           params == Put("paramSize", 4)
           code == Item("code", "res", 4, TRUE, "none")
<1>1. tag \in Calls /\ params \in Calls /\ code \in Calls
  <2>1. 2 \in 0 .. 20 /\ 4 \in 0 .. 20
    OBVIOUS
  <2> QED
    BY <2>1, CallTypes, Zenon DEF Names, Digests
<1>2. Before = {<<tag, params, code, Size, Array>>, <<params, code, Size, Array>>,
                <<code, Size, Array>>, <<Size, Array>>}
  BY Zenon DEF Before
<1> HIDE DEF tag, params, code
<1>3. /\ Head(<<tag, params, code, Size, Array>>) = tag
      /\ Tail(<<tag, params, code, Size, Array>>) = <<params, code, Size, Array>>
      /\ Head(<<params, code, Size, Array>>) = params
      /\ Tail(<<params, code, Size, Array>>) = <<code, Size, Array>>
  OBVIOUS
<1>4. /\ Head(<<code, Size, Array>>) = code /\ Tail(<<code, Size, Array>>) = <<Size, Array>>
      /\ Head(<<Size, Array>>) = Size /\ Tail(<<Size, Array>>) = <<Array>>
  OBVIOUS
<1> QED
  BY <1>1, <1>2, <1>3, <1>4, Zenon

LEMMA RandomResponse ==
  ASSUME NEW c, c.fn = "TPM_GetRandom"
  PROVE  Response(c) \in Before
<1> DEFINE tag == Put("tag", 2)
           params == Put("paramSize", 4)
           code == Item("code", "res", 4, TRUE, "none")
<1>1. Response(c) = <<tag, params, code>> \o <<Size, Array>>
  BY Zenon DEF Response, Size, Array
<1>2. <<tag, params, code, Size, Array>> \in Before
  BY Zenon DEF Before
<1> HIDE DEF tag, params, code
<1>3. <<tag, params, code>> \o <<Size, Array>> = <<tag, params, code, Size, Array>>
  BY ThreeAndTwo
<1> QED
  BY <1>1, <1>2, <1>3, Zenon

LEMMA InitInside == CmdInit => InsideInv
BY TpmCommandAssumption DEF CmdInit, InsideInv, Nothing

\* A call that unpacks, and the one that reads the array.
LEMMA StepUnmarshal ==
  ASSUME InsideInv, Unmarshal
  PROVE  InsideInv'
<1> DEFINE i == Head(calls)
<1>1. /\ phase = "response" /\ calls # <<>> /\ Left /\ bytes \in 0 .. size /\ cmd \in Commands
      /\ size \in Nat /\ named \in Nat /\ taken \in Nat
      /\ cmd' = cmd /\ size' = size
  BY DEF InsideInv, Unmarshal
<1>2. CASE phase' = "exit" /\ UNCHANGED <<calls, bytes, packed, digests, named, taken, read>>
  BY <1>1, <1>2, SMTT(30) DEF InsideInv
<1>3. CASE ~(i.inBuffer /\ (Overflow(Need(i)) \/ ~Allocated(i)))
  <2>1. /\ calls' = Tail(calls)
        /\ read' = IF i.inBuffer THEN [from |-> bytes, to |-> bytes + Need(i)] ELSE Nothing
        /\ bytes' = IF i.inBuffer THEN (bytes + Need(i)) % U32 ELSE bytes
        /\ taken' = IF i.op = "ptr" THEN taken + Blocks8(Need(i)) + 1 ELSE taken
        /\ IF i.op = "length" THEN named' \in Lengths ELSE named' = named
        /\ phase' = IF \/ i.op = "code" /\ reply.code # 0
                       \/ i.op = "check" /\ ~reply.good
                       \/ i.name = "randomBytesSize" /\ named' # cmd.n
                    THEN "error" ELSE phase
    BY <1>3, SMTT(30) DEF Unmarshal
  <2>2. \/ i.op \in Plain /\ i.n \in 0 .. 20
        \/ i.op = "array" /\ named = cmd.n /\ size = BufferSize
    <3>1. CASE calls \in Seq(Calls)
      <4>1. i \in Calls
        BY <3>1, <1>1, HeadTailProperties
      <4> QED
        BY <4>1, CallParts, Zenon
    <3>2. CASE calls \in Before
      <4>1. i \in Calls \/ i = Size
        BY <3>2, BeforeParts
      <4>2. Size.op \in Plain /\ Size.n \in 0 .. 20
        BY RandomParts DEF Plain
      <4> QED
        BY <4>1, <4>2, CallParts, Zenon
    <3>3. CASE size = BufferSize /\ calls = <<Array>> /\ named = cmd.n
      BY <3>3, RandomParts, SMTT(30)
    <3> QED
      BY <1>1, <3>1, <3>2, <3>3, SMTT(30) DEF Left
  <2>3. named' \in Nat
    <3> HIDE DEF i
    <3>1. named' \in Lengths \/ named' = named
      BY <2>1, Zenon
    <3>2. Lengths \subseteq Nat
      BY TpmCommandAssumption
    <3> QED
      BY <1>1, <3>1, <3>2, Zenon
  <2>4. taken' \in Nat
    <3>1. taken' = taken + Blocks8(named) + 1 \/ taken' = taken
      BY <2>1 DEF Need
    <3> QED
      BY <3>1, <1>1, SMTT(30) DEF Blocks8
  <2>5. read'.to <= size /\ bytes' \in 0 .. size
    <3>1. CASE i.inBuffer
      <4>1. /\ Need(i) \in Nat /\ bytes + Need(i) <= size
            /\ (bytes + Need(i)) % U32 = bytes + Need(i)
        BY <1>1, <1>3, <2>2, <3>1, CheckedRead, SMTT(30)
      <4>2. read' = [from |-> bytes, to |-> bytes + Need(i)] /\ bytes' = (bytes + Need(i)) % U32
        BY <2>1, <3>1
      <4> HIDE DEF i
      <4>3. read'.to = bytes + Need(i) /\ bytes' = bytes + Need(i)
        BY <4>1, <4>2
      <4>4. bytes + Need(i) \in 0 .. size
        BY <4>1, <1>1, SMTT(30)
      <4> QED
        BY <4>1, <4>3, <4>4, ZenonT(60)
    <3>2. CASE ~i.inBuffer
      BY <3>2, <2>1, <1>1, SMTT(30) DEF Nothing
    <3> QED
      BY <3>1, <3>2, SMTT(30)
  <2>6. phase' = "response" => Left'
    <3>1. CASE calls \in Seq(Calls)
      BY <3>1, <1>1, <2>1, SMTT(30) DEF Left
    <3>2. CASE size = BufferSize /\ calls \in Before
      <4>1. CASE Head(calls) \in Calls /\ Tail(calls) \in Before
        BY <4>1, <3>2, <1>1, <2>1, SMTT(30) DEF Left
      <4>2. CASE Head(calls) = Size /\ Tail(calls) = <<Array>>
        BY <4>2, <3>2, <1>1, <2>1, RandomParts, SMTT(30) DEF Left
      <4> QED
        BY <3>2, <4>1, <4>2, BeforeParts, SMTT(30)
    <3>3. CASE calls = <<Array>>
      BY <3>3, <1>1, <2>1, SMTT(30) DEF Left
    <3> QED
      BY <1>1, <3>1, <3>2, <3>3, SMTT(30) DEF Left
  <2>7. phase' \in {"error", "response"}
    BY <2>1, <1>1
  <2> QED
    BY <1>1, <2>3, <2>4, <2>5, <2>6, <2>7, SMTT(30) DEF InsideInv
<1> QED
  BY <1>2, <1>3 DEF Unmarshal

LEMMA StepInside ==
  ASSUME InsideInv, [CmdNext]_cmdVars
  PROVE  InsideInv'
<1> USE TpmCommandAssumption
<1>1. ASSUME phase = "idle", NEW c \in Commands, Start(c)
      PROVE  InsideInv'
  <2>1. /\ c.n \in Nat /\ c.n + 8 * (HeapBlocks + 1) < U32 /\ BufferSize \in Nat
        /\ HeapBlocks \in Nat
    OBVIOUS
  <2>2. /\ cmd' = c /\ bytes' = 0 /\ read'.to = 0 /\ named' \in Nat /\ taken' \in Nat
        /\ size' \in Nat /\ size' + 8 * (HeapBlocks + 1) < U32
    BY <1>1, <2>1, SMTT(30) DEF Start, InsideInv
  <2>3. CASE c.fn = "unpack"
    <3>1. phase' = "response" /\ calls' = unmarshal_TPM_STORED_DATA12("none")
      BY <1>1, <2>3 DEF Start
    <3>2. calls' \in Seq(Calls)
      BY <3>1, PartTypes DEF Digests, Names
    <3> QED
      BY <2>2, <3>1, <3>2, SMTT(30) DEF InsideInv, Left
  <2>4. CASE c.fn # "unpack"
    BY <1>1, <2>2, <2>4, SMTT(30) DEF Start, InsideInv
  <2> QED
    BY <2>3, <2>4
<1>2. CASE Marshal
  BY <1>2 DEF Marshal, InsideInv
<1>3. CASE Transmit
  <2>1. CASE phase' # "response"
    BY <1>3, <2>1, SMTT(30) DEF Transmit, InsideInv
  <2>2. CASE phase' = "response"
    <3>1. calls' = Response(cmd) /\ bytes' = 0 /\ UNCHANGED <<cmd, size, named, taken, read>>
      BY <1>3, <2>2, SMTT(30) DEF Transmit
    <3>2. cmd \in Commands /\ cmd.fn # "unpack" /\ size = BufferSize
      BY <1>3 DEF Transmit, InsideInv
    <3>3. Response(cmd) \in Seq(Calls) \/ Response(cmd) \in Before
      BY <3>2, ResponseTypes, RandomResponse, SMTT(30)
    <3> QED
      BY <2>2, <3>1, <3>2, <3>3, SMTT(30) DEF InsideInv, Left
  <2> QED
    BY <2>1, <2>2, SMTT(30)
<1>4. CASE Unmarshal
  BY <1>4, StepUnmarshal, SMTT(30)
<1>5. CASE Finish
  BY <1>5 DEF Finish, InsideInv
<1>6. CASE UNCHANGED cmdVars
  BY <1>6 DEF cmdVars, InsideInv, Left
<1> QED
  BY <1>1, <1>2, <1>3, <1>4, <1>5, <1>6, SMTT(30) DEF CmdNext

\* The bytes that an unmarshal_*() call reads are bytes of its buffer, for every
\* width of UINT32, every heap smaller than it, and every size that the TPM or a
\* stored blob may name.
THEOREM UnpackAlwaysInside == CmdSpec => []UnpackInside
<1>1. InsideInv => UnpackInside
  BY Zenon DEF InsideInv, UnpackInside
<1> QED
  BY InitInside, StepInside, <1>1, PTL DEF CmdSpec
=============================================================================
