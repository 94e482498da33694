------------------------------- MODULE ShimHeap -------------------------------
(***************************************************************************)
(* The runtime's allocator: shim_heap_alloc(), a bump allocator over brk,  *)
(* and the msvcrt and kernel32 functions built on it.  Nothing is ever     *)
(* reused, and no block's size is recorded: realloc copies as many bytes   *)
(* as the new block has, wherever the old one ended.                       *)
(*                                                                         *)
(* The program is the environment: it calls the functions on the blocks    *)
(* they returned and writes inside them.  The kernel may refuse any brk.   *)
(***************************************************************************)
EXTENDS Integers, Sequences

CONSTANTS
  WORD,          \* 2^32: unsigned long and pointers wrap
  ALIGN,         \* 16
  GROW,          \* 0x100000: the least the break is moved by
  HeapStart,     \* the program break the process starts with
  BrkMax,        \* the highest break the kernel grants
  Value,         \* contents of a byte
  Request,       \* the sizes the program asks for
  ZeroFlags,     \* whether HeapReAlloc is given HEAP_ZERO_MEMORY: a set
  MaxBlocks      \* bound: calls that may return a block

ASSUME HeapAssumption ==
  /\ WORD \in Nat /\ ALIGN \in Nat \ {0} /\ GROW \in Nat \ {0}
  /\ HeapStart \in Nat \ {0} /\ BrkMax \in Nat /\ MaxBlocks \in Nat
  /\ HeapStart <= BrkMax /\ BrkMax < WORD
  /\ HeapStart % ALIGN = 0 /\ WORD % ALIGN = 0
  /\ Request \subseteq 0 .. WORD - 1
  /\ ZeroFlags \subseteq BOOLEAN
  /\ 0 \in Value

VARIABLES
  heap_next,    \* the next block's address; 0 before the first call
  heap_limit,   \* the break the allocator believes it has
  brk,          \* the break the kernel has
  mem,          \* the bytes of the heap
  blocks,       \* what was returned: address, size asked for, still in use
  fault         \* an access outside the mapped heap was made

vars == <<heap_next, heap_limit, brk, mem, blocks, fault>>

Init ==
  /\ heap_next = 0
  /\ heap_limit = 0
  /\ brk = HeapStart
  /\ mem = [a \in HeapStart .. BrkMax - 1 |-> 0]
  /\ blocks = <<>>
  /\ fault = FALSE

----------------------------------------------------------------------------
(* size = (size + 15) & ~15; if (size == 0) size = 16 *)
RoundUp(n) ==
  LET r == (((n + ALIGN - 1) % WORD) \div ALIGN) * ALIGN
  IN IF r = 0 THEN ALIGN ELSE r

(* brk(x): the kernel moves the break to x or answers with the one it has. *)
Breaks(x) == IF x >= HeapStart /\ x <= BrkMax THEN {x, brk} ELSE {brk}

(* A fault: the break is asked to move by the block's size, not by what is
   missing, so a block may reach past it. *)
ShortGrow(next, limit, size) == (limit + GROW) % WORD

(* The break asked for when [next, next + size) does not fit. *)
NewLimit(next, limit, size) ==
  LET need == (((next + size) % WORD) - limit) % WORD
  IN (limit + IF need > GROW THEN need ELSE GROW) % WORD

(* shim_heap_alloc(n): what it returns and what it leaves. *)
NULL == 0
Allocation(at, next, limit, newBrk) ==
  [at |-> at, next |-> next, limit |-> limit, brk |-> newBrk]

(* A fault: the break asked for is believed without looking at the answer. *)
HeapAllocTrusting(n) ==
  LET size  == RoundUp(n)
      next  == IF heap_next = 0 THEN brk ELSE heap_next
      limit == IF heap_next = 0 THEN brk ELSE heap_limit
      asked == NewLimit(next, limit, size)
      end   == (next + size) % WORD
  IN IF end <= limit
       THEN {Allocation(next, end, limit, brk)}
       ELSE {Allocation(next, end, asked, b) : b \in Breaks(asked)}

HeapAlloc(n) ==
  LET size  == RoundUp(n)
      next  == IF heap_next = 0 THEN brk ELSE heap_next
      limit == IF heap_next = 0 THEN brk ELSE heap_limit
      asked == NewLimit(next, limit, size)
      end   == (next + size) % WORD
  IN IF end <= limit
       THEN {Allocation(next, end, limit, brk)}
       ELSE {IF b < asked
               THEN Allocation(NULL, next, limit, b)
               ELSE Allocation(next, end, b, b) : b \in Breaks(asked)}

Returns(r) ==
  /\ heap_next' = r.next
  /\ heap_limit' = r.limit
  /\ brk' = r.brk

(* Store f[k] at at + k for k < n. *)
Stored(at, n, f) ==
  mem' = [a \in DOMAIN mem |->
            IF a >= at /\ a < at + n THEN f[a - at] ELSE mem[a]]

(* n bytes from each of these addresses are accessed: a fault outside the
   mapped heap. *)
Accessed(starts, n) ==
  fault' = (fault \/ \E at \in starts :
                       n > 0 /\ (at < HeapStart \/ at + n > brk'))

Block(at, n) == [at |-> at, size |-> n, live |-> TRUE]

----------------------------------------------------------------------------
Live == {i \in DOMAIN blocks : blocks[i].live}
MayReturn == Len(blocks) < MaxBlocks

(* malloc(), and HeapAlloc() without HEAP_ZERO_MEMORY *)
Malloc(n) ==
  /\ MayReturn
  /\ \E r \in HeapAlloc(n) :
       /\ Returns(r)
       /\ blocks' = IF r.at = NULL THEN blocks ELSE Append(blocks, Block(r.at, n))
  /\ UNCHANGED <<mem, fault>>

(* calloc(), whose product of sizes is n, and HeapAlloc() with the flag *)
Calloc(n) ==
  /\ MayReturn
  /\ \E r \in HeapAlloc(n) :
       /\ Returns(r)
       /\ IF r.at = NULL
            THEN UNCHANGED <<mem, fault, blocks>>
            ELSE /\ Stored(r.at, n, [k \in 0 .. n - 1 |-> 0])
                 /\ Accessed({r.at}, n)
                 /\ blocks' = Append(blocks, Block(r.at, n))

(* free() and HeapFree(): nothing is reclaimed *)
Free(i) ==
  /\ i \in Live
  /\ blocks' = [blocks EXCEPT ![i].live = FALSE]
  /\ UNCHANGED <<heap_next, heap_limit, brk, mem, fault>>

(* A fault: realloc copies nothing when the block grows. *)
NoCopy(p, new, n, k) == mem[new + k]

(* Byte k of the copy loop n[i] = p[i]: where the blocks overlap the loop
   reads bytes it has already written, so the first ones repeat. *)
CopiedByte(p, new, n, k) == mem[p + (k % (new - p))]

(* realloc() and HeapReAlloc() *)
ReAlloc(i, n, zero) ==
  /\ i \in Live
  /\ MayReturn
  /\ \E r \in HeapAlloc(n) :
       /\ Returns(r)
       /\ IF r.at = NULL
            THEN UNCHANGED <<mem, fault, blocks>>
            ELSE /\ Stored(r.at, n,
                         [k \in 0 .. n - 1 |->
                            IF zero THEN 0 ELSE CopiedByte(blocks[i].at, r.at, n, k)])
                 /\ Accessed({blocks[i].at, r.at}, n)
                 /\ blocks' = Append([blocks EXCEPT ![i].live = FALSE],
                                     Block(r.at, n))

(* The program stores a byte inside a block it owns. *)
Write(i, k, v) ==
  /\ i \in Live
  /\ k \in 0 .. blocks[i].size - 1
  /\ mem' = [mem EXCEPT ![blocks[i].at + k] = v]
  /\ UNCHANGED <<heap_next, heap_limit, brk, blocks, fault>>

Next ==
  \/ \E n \in Request : Malloc(n) \/ Calloc(n)
  \/ \E i \in Live :
       \/ Free(i)
       \/ \E n \in Request, zero \in ZeroFlags : ReAlloc(i, n, zero)
       \/ \E k \in 0 .. blocks[i].size - 1, v \in Value : Write(i, k, v)

Spec == Init /\ [][Next]_vars

----------------------------------------------------------------------------
TypeOK ==
  /\ heap_next \in {0} \union (HeapStart .. BrkMax)
  /\ heap_limit \in {0} \union (HeapStart .. BrkMax)
  /\ brk \in HeapStart .. BrkMax
  /\ mem \in [HeapStart .. BrkMax - 1 -> Value]
  /\ blocks \in Seq([at : HeapStart .. BrkMax, size : Nat, live : BOOLEAN])
  /\ fault \in BOOLEAN

(* The blocks handed out lie one after another below heap_next, aligned,
   each as large as was asked for, and all of it is mapped: the allocator's
   idea of the break never passes the kernel's. *)
BlocksSeparate ==
  /\ heap_next <= heap_limit /\ heap_limit <= brk
  /\ \A i \in DOMAIN blocks :
       /\ blocks[i].at % ALIGN = 0
       /\ blocks[i].at < heap_next
       /\ blocks[i].at + blocks[i].size <= heap_next
       /\ i > 1 => /\ blocks[i - 1].at < blocks[i].at
                   /\ blocks[i - 1].at + blocks[i - 1].size <= blocks[i].at

(* realloc() reads past the end of a block it enlarges, but never past the
   memory that is mapped; no other access leaves the heap. *)
NoFault == ~ fault

(* What the program sees of the heap: the bytes of the blocks it owns. *)
Contents ==
  [i \in Live |-> [k \in 0 .. blocks[i].size - 1 |-> mem[blocks[i].at + k]]]

Abstract == INSTANCE AbstractHeap WITH heap <- Contents

(* The allocator implements AbstractHeap, except where HEAP_ZERO_MEMORY asks
   HeapReAlloc() to zero (ReAllocKeepsBytes): a block's bytes change only by
   a write to it, and realloc() carries them over although it does not know
   where the old block ended. *)
KeepsPromise == Abstract!Spec

----------------------------------------------------------------------------
(* Claims of the sources that do not hold. *)

(* shim_startup.c says of realloc: "correct but wasteful".  HeapReAlloc()
   must keep the old bytes whatever its flags. *)
ReAllocKeepsBytes ==
  [][\A i \in Live, n \in Request, zero \in ZeroFlags :
       (ReAlloc(i, n, zero) /\ Len(blocks') > Len(blocks)) =>
         \A k \in 0 .. n - 1 :
           k < blocks[i].size =>
             mem'[blocks'[Len(blocks')].at + k] = mem[blocks[i].at + k]]_vars

(* The requests for which addresses do not wrap: the others are not refused
   but misplaced. *)
ModestRequests ==
  /\ BrkMax + GROW < WORD
  /\ \A n \in Request : BrkMax + n + ALIGN < WORD
=============================================================================
