----------------------------- MODULE AbstractHeap -----------------------------
(***************************************************************************)
(* What the C and Win32 allocation functions promise a program: every live *)
(* block is memory of its own.  A block's bytes change only by a write to  *)
(* that block; a resized block keeps its bytes up to the smaller size; a   *)
(* call that fails changes nothing.                                        *)
(***************************************************************************)
EXTENDS Naturals

CONSTANTS
  Value,     \* contents of a byte
  Request    \* sizes a program asks for

VARIABLE heap    \* live blocks: name -> bytes

Bytes(n) == 0 .. n - 1

Init == heap = <<>>

(* The other blocks are as they were. *)
OthersKept(changed) ==
  \A b \in DOMAIN heap \ changed : b \in DOMAIN heap' /\ heap'[b] = heap[b]

Allocate(b, n) ==
  /\ b \notin DOMAIN heap
  /\ DOMAIN heap' = DOMAIN heap \union {b}
  /\ heap'[b] \in [Bytes(n) -> Value]
  /\ OthersKept({})

AllocateZeroed(b, n) ==
  /\ Allocate(b, n)
  /\ \A k \in Bytes(n) : heap'[b][k] = 0

Free(b) ==
  /\ b \in DOMAIN heap
  /\ DOMAIN heap' = DOMAIN heap \ {b}
  /\ OthersKept({b})

Write(b, k, v) ==
  /\ b \in DOMAIN heap
  /\ k \in DOMAIN heap[b]
  /\ heap' = [heap EXCEPT ![b][k] = v]

(* The block moves: b is gone, c holds its bytes. *)
Resize(b, c, n) ==
  /\ b \in DOMAIN heap
  /\ c \notin DOMAIN heap
  /\ DOMAIN heap' = (DOMAIN heap \ {b}) \union {c}
  /\ heap'[c] \in [Bytes(n) -> Value]
  /\ \A k \in Bytes(n) \intersect DOMAIN heap[b] : heap'[c][k] = heap[b][k]
  /\ OthersKept({b})

Next ==
  \/ \E b \in DOMAIN heap' \ DOMAIN heap, n \in Request :
       \/ Allocate(b, n)
       \/ AllocateZeroed(b, n)
       \/ \E a \in DOMAIN heap : Resize(a, b, n)
  \/ \E b \in DOMAIN heap :
       \/ Free(b)
       \/ \E k \in DOMAIN heap[b], v \in Value : Write(b, k, v)

Spec == Init /\ [][Next]_heap
=============================================================================
