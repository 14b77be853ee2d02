------------------------------ MODULE BumpHeap ------------------------------
(***************************************************************************)
(* What the heap of src/alloc.c amounts to, since nothing is ever freed:   *)
(* each allocation takes its blocks and one header cell off the top.       *)
(***************************************************************************)
EXTENDS Integers

CONSTANTS HeapSize, Requests

VARIABLES
  top,    \* the first cell not yet given out
  live    \* the allocations given out

Last == HeapSize \div 8
Cost(size) == (size \div 8) + 2

\* A heap that has not been opened gives nothing.
Init == top = Last + 1 /\ live = {}

Open == live = {} /\ top' = 1 /\ UNCHANGED live

Give(size) ==
  /\ top + Cost(size) <= Last + 1
  /\ top' = top + Cost(size)
  /\ live' = live \cup {[ptr |-> top + 1, size |-> size]}

\* A remainder of one cell is a header without payload: it is the top, and
\* no request fits it.
Next == Open \/ \E size \in Requests : Give(size)

Spec == Init /\ [][Next]_<<top, live>>
=============================================================================
