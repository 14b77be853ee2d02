------------------------------- MODULE Alloc -------------------------------
(***************************************************************************)
(* The bump-and-split heap of src/alloc.c.  The heap is an array of 8-byte *)
(* cells; a cell is a block of payload or a struct mem_node that describes *)
(* the payload that follows it.  The nodes form a list in address order.   *)
(* There is no free().                                                     *)
(*                                                                         *)
(* Cell 1 is the start of the heap and NULL is 0.  The function node holds *)
(* the mem_node structures that the code has written: its domain is the    *)
(* set of cells that hold a header.  Before init_heap() the heap is BSS,   *)
(* so that cell 1 reads as a node of size 0 without a successor.           *)
(*                                                                         *)
(* The search loop of alloc() is one step per iteration.  live is a        *)
(* history variable: what alloc() has handed out.                          *)
(***************************************************************************)
EXTENDS Integers

CONSTANTS
  HeapSize,   \* bytes given to init_heap(), sizeof(heap_array)
  Requests    \* the sizes in bytes that callers ask for

BLOCK_SIZE == 8
NULL == 0

\* init_heap() asserts that the occupied flag is not set in heap_size, and
\* alloc() asserts size > 0.
ASSUME HeapAssumption ==
  /\ HeapSize \in Nat
  /\ HeapSize >= BLOCK_SIZE
  /\ HeapSize <= 2147483647
  /\ Requests \subseteq Nat \ {0}

Cells == 1 .. (HeapSize \div BLOCK_SIZE)

MemNode == [size : Nat, occupied : BOOLEAN, next : Nat]

Blocks(size) == (size \div BLOCK_SIZE) + 1

VARIABLES
  node,    \* the mem_node structures in the heap, by cell
  ready,   \* init_heap() has run
  pc,      \* "idle", or "search" inside alloc()
  n,       \* the cursor of alloc()'s loop
  req,     \* the size argument of the running alloc()
  live     \* history: the allocations returned, [ptr, size] each

vars == <<node, ready, pc, n, req, live>>

Init ==
  /\ node = [c \in {1} |-> [size |-> 0, occupied |-> FALSE, next |-> NULL]]
  /\ ready = FALSE
  /\ pc = "idle"
  /\ n = NULL
  /\ req = 0
  /\ live = {}

\* Called once, at the start of post_launch() and of the cleanup module.
init_heap ==
  /\ pc = "idle"
  /\ ~ready
  /\ ready' = TRUE
  /\ node' = [c \in {1} |-> [size |-> (HeapSize \div BLOCK_SIZE) - 1,
                             occupied |-> FALSE, next |-> NULL]]
  /\ UNCHANGED <<pc, n, req, live>>

\* The entry of alloc(): the loop starts at the head of the heap.
alloc(size) ==
  /\ pc = "idle"
  /\ pc' = "search"
  /\ n' = 1
  /\ req' = size
  /\ UNCHANGED <<node, ready, live>>

FitsIgnoringFlag(c) == Blocks(req) <= node[c].size

Fits(c) == ~node[c].occupied /\ Blocks(req) <= node[c].size


SearchNextSkipsTwo ==
  /\ pc = "search"
  /\ n # NULL
  /\ ~Fits(n)
  /\ n' = LET m == node[n].next IN IF m = NULL THEN NULL ELSE node[m].next
  /\ UNCHANGED <<node, ready, pc, req, live>>

SearchNext ==
  /\ pc = "search"
  /\ n # NULL
  /\ ~Fits(n)
  /\ n' = node[n].next
  /\ UNCHANGED <<node, ready, pc, req, live>>

\* No node fits: alloc() returns NULL.
ReturnNull ==
  /\ pc = "search"
  /\ n = NULL
  /\ pc' = "idle"
  /\ req' = 0
  /\ UNCHANGED <<node, ready, n, live>>

\* The list after node c has been cut to b blocks: the rest of a larger node
\* becomes a free node of its own.
SplitShort(c, b) ==
  LET rest == c + b
  IN [x \in DOMAIN node \cup {rest} |->
        IF x = c THEN [size |-> b, occupied |-> TRUE, next |-> rest]
        ELSE IF x = rest THEN [size |-> node[c].size - b, occupied |-> FALSE,
                               next |-> node[c].next]
        ELSE node[x]]

SplitForgetsHeader(c, b) ==
  LET rest == c + b + 1
  IN [x \in DOMAIN node \cup {rest} |->
        IF x = c THEN [size |-> b, occupied |-> TRUE, next |-> rest]
        ELSE IF x = rest THEN [size |-> node[c].size - b, occupied |-> FALSE,
                               next |-> node[c].next]
        ELSE node[x]]

Split(c, b) ==
  LET rest == c + b + 1
  IN [x \in DOMAIN node \cup {rest} |->
        IF x = c THEN [size |-> b, occupied |-> TRUE, next |-> rest]
        ELSE IF x = rest THEN [size |-> node[c].size - (b + 1), occupied |-> FALSE,
                               next |-> node[c].next]
        ELSE node[x]]

\* A node of exactly b blocks keeps its successor.
Occupy(c, b) ==
  [node EXCEPT ![c] = [size |-> b, occupied |-> TRUE, next |-> node[c].next]]

\* The loop stopped at a node that fits: it is cut and marked occupied, and the
\* cell after its header is returned.
ReturnBlock ==
  /\ pc = "search"
  /\ n # NULL
  /\ Fits(n)
  /\ node' = IF Blocks(req) < node[n].size THEN Split(n, Blocks(req))
                                           ELSE Occupy(n, Blocks(req))
  /\ live' = live \cup {[ptr |-> n + 1, size |-> req]}
  /\ pc' = "idle"
  /\ n' = NULL
  /\ req' = 0
  /\ UNCHANGED ready

Next ==
  \/ init_heap
  \/ \E size \in Requests : alloc(size)
  \/ SearchNext
  \/ ReturnNull
  \/ ReturnBlock

Spec == Init /\ [][Next]_vars

-----------------------------------------------------------------------------
\* Types of the allocator's state: nodes lie in the heap and hold legal links.
TypeOK ==
  /\ DOMAIN node \subseteq Cells
  /\ node \in [DOMAIN node -> MemNode]
  /\ ready \in BOOLEAN
  /\ pc \in {"idle", "search"}
  /\ n \in DOMAIN node \cup {NULL}
  /\ req \in Requests \cup {0}
  /\ live \subseteq [ptr : Nat, size : Requests]

\* The cell after the payload of header c.
End(c) == c + node[c].size + 1

\* After init_heap() headers and payloads tile the heap: each node ends where
\* its successor starts, the last one at the end of the heap, and no header
\* lies inside another node's payload (the links alloc() writes).
Tiling ==
  ready =>
    /\ 1 \in DOMAIN node
    /\ \A c \in DOMAIN node :
         /\ IF node[c].next = NULL THEN End(c) = (HeapSize \div BLOCK_SIZE) + 1
            ELSE node[c].next = End(c) /\ End(c) \in DOMAIN node
         /\ \A d \in DOMAIN node : c < d => End(c) <= d

\* The bytes that the caller of alloc() asked for, first and one past the last,
\* as byte offsets from the cell before the heap.
FirstByte(a) == BLOCK_SIZE * a.ptr
PastByte(a) == FirstByte(a) + a.size

\* What alloc() hands out is memory of the heap that no other caller has and
\* that holds no list header: writing to it disturbs neither.
Exclusive ==
  \A a \in live :
    /\ PastByte(a) <= BLOCK_SIZE * ((HeapSize \div BLOCK_SIZE) + 1)
    /\ \A b \in live \ {a} : PastByte(a) <= FirstByte(b) \/ PastByte(b) <= FirstByte(a)
    /\ \A c \in DOMAIN node : \/ BLOCK_SIZE * (c + 1) <= FirstByte(a)
                              \/ PastByte(a) <= BLOCK_SIZE * c

\* The loop of alloc() misses no node: all the nodes it has passed are too
\* small or taken, so that NULL means that no node of the heap fits.
FirstFit ==
  pc = "search" => \A c \in DOMAIN node : (n = NULL \/ c < n) => ~Fits(c)

\* Without free() the list is a stack of occupied nodes and one free node: the
\* allocator is a bump allocator whose top is the free node (BumpHeap).
FreeNodes == {c \in DOMAIN node : ~node[c].occupied}
Bump == INSTANCE BumpHeap WITH
  top <- IF ~ready \/ FreeNodes = {} THEN (HeapSize \div BLOCK_SIZE) + 1
         ELSE CHOOSE c \in FreeNodes : TRUE
BumpSpec == Bump!Spec

=============================================================================
