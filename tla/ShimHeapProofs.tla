---------------------------- MODULE ShimHeapProofs ----------------------------
(***************************************************************************)
(* The allocator hands out separate, mapped memory for every sequence of   *)
(* requests that are far enough from 2^32, whatever brk() answers, and     *)
(* keeps what is stored in it; the strings the shim makes in it for the    *)
(* program are whole and stay so.  The first half is about Spec, the       *)
(* allocator under any program, the second about EnvSpec.                  *)
(***************************************************************************)
EXTENDS ShimEnv, Arithmetic

(* Rounding a request up: enough, aligned, never zero, no wrap. *)
LEMMA RoundUpFacts ==
  ASSUME NEW n \in Nat, n + ALIGN < WORD
  PROVE  /\ RoundUp(n) \in Nat
         /\ RoundUp(n) >= n
         /\ RoundUp(n) > 0
         /\ RoundUp(n) <= n + ALIGN
         /\ RoundUp(n) % ALIGN = 0
<1> DEFINE m == n + ALIGN - 1
           q == m \div ALIGN
           r == q * ALIGN
           y == m % ALIGN
<1>1. ALIGN \in Nat \ {0} /\ WORD \in Nat
  BY HeapAssumption
<1>2. m \in Nat /\ m < WORD /\ m >= n /\ m < n + ALIGN
  BY <1>1
<1>3. m % WORD = m
  BY <1>1, <1>2, SmallMod
<1>4. RoundUp(n) = IF r = 0 THEN ALIGN ELSE r
  BY <1>3 DEF RoundUp
<1> HIDE DEF m
<1>5. q \in Nat /\ y \in 0 .. ALIGN - 1 /\ m = r + y
  BY <1>1, <1>2, DivMod
<1>6. r \in Nat /\ r % ALIGN = 0
  BY <1>1, <1>5, MultipleMod
<1>7. ALIGN % ALIGN = 0
  <2>1. (1 * ALIGN) % ALIGN = 0
    BY <1>1, MultipleMod
  <2> QED
    BY <1>1, <2>1
<1> HIDE DEF q, r, y
<1>8. r >= n
  BY <1>1, <1>5, <1>6 DEF m
<1>9. r <= n + ALIGN
  BY <1>1, <1>2, <1>5, <1>6
<1> QED
  BY <1>1, <1>4, <1>6, <1>7, <1>8, <1>9

----------------------------------------------------------------------------
(* The invariant: before the first call nothing is set up, afterwards the  *)
(* next block's address is aligned.                                        *)
BumpPointer ==
  /\ heap_next % ALIGN = 0
  /\ heap_next = 0 => brk = HeapStart /\ heap_limit = 0 /\ blocks = <<>>
  /\ heap_next # 0 => heap_limit >= HeapStart /\ heap_limit # 0

HeapInvariant == TypeOK /\ BlocksSeparate /\ BumpPointer /\ NoFault

(* What a call of shim_heap_alloc() may leave behind. *)
GoodOutcome(n, r) ==
  /\ r.next \in HeapStart .. BrkMax
  /\ r.limit \in HeapStart .. BrkMax
  /\ r.brk \in HeapStart .. BrkMax
  /\ heap_next <= r.next /\ r.next <= r.limit /\ r.limit <= r.brk
  /\ r.next % ALIGN = 0
  /\ r.at # NULL =>
       /\ r.at \in HeapStart .. BrkMax
       /\ heap_next <= r.at
       /\ r.at % ALIGN = 0
       /\ r.at < r.next
       /\ r.at + n <= r.next

(* A size for which addresses do not wrap. *)
Modest(n) == n \in Nat /\ BrkMax + n + ALIGN < WORD /\ BrkMax + GROW < WORD

LEMMA RequestModest ==
  ASSUME ModestRequests, NEW n \in Request
  PROVE  Modest(n)
BY HeapAssumption DEF Modest, ModestRequests

LEMMA HeapAllocOutcome ==
  ASSUME HeapInvariant, NEW n, Modest(n), NEW r \in HeapAlloc(n)
  PROVE  GoodOutcome(n, r)
<1> DEFINE size  == RoundUp(n)
           next  == IF heap_next = 0 THEN brk ELSE heap_next
           limit == IF heap_next = 0 THEN brk ELSE heap_limit
           asked == NewLimit(next, limit, size)
           end   == (next + size) % WORD
<1>1. /\ ALIGN \in Nat \ {0} /\ WORD \in Nat /\ GROW \in Nat \ {0}
      /\ HeapStart \in Nat \ {0} /\ BrkMax \in Nat /\ BrkMax < WORD
      /\ n \in Nat
      /\ BrkMax + n + ALIGN < WORD /\ BrkMax + GROW < WORD
  BY HeapAssumption DEF Modest
<1>2. /\ size \in Nat /\ size >= n /\ size > 0 /\ size <= n + ALIGN
      /\ size % ALIGN = 0
  <2>1. n + ALIGN < WORD
    BY <1>1
  <2> QED
    BY <1>1, <2>1, RoundUpFacts
<1>3. /\ next \in HeapStart .. BrkMax /\ limit \in HeapStart .. BrkMax
      /\ brk \in HeapStart .. BrkMax
      /\ next <= limit /\ limit <= brk /\ heap_next <= next
      /\ next % ALIGN = 0
  BY <1>1, HeapAssumption DEF HeapInvariant, TypeOK, BlocksSeparate, BumpPointer
<1> HIDE DEF size, next, limit
<1>4. end = next + size
  <2>1. next + size \in Nat /\ next + size < WORD
    BY <1>1, <1>2, <1>3
  <2> QED
    BY <1>1, <2>1, SmallMod
<1>5. end \in Nat /\ end % ALIGN = 0 /\ end > next /\ end >= next + n
  <2>1. next \in Nat /\ size \in Nat /\ ALIGN \in Nat \ {0}
    BY <1>1, <1>2, <1>3
  <2>2. next % ALIGN = 0 /\ size % ALIGN = 0
    BY <1>2, <1>3
  <2> HIDE DEF end
  <2>3. (next + size) % ALIGN = 0
    BY ONLY <2>1, <2>2, SumMod
  <2>4. end % ALIGN = 0
    BY ONLY <1>4, <2>3
  <2>5. end \in Nat /\ end > next /\ end >= next + n
    BY <1>1, <1>2, <2>1, <1>4
  <2> QED
    BY ONLY <2>4, <2>5
<1>6. ASSUME ~ (end <= limit)
      PROVE  asked \in Nat /\ end <= asked
  <2> DEFINE need == end - limit
  <2>1. need \in Nat /\ need < WORD /\ limit + need = end
    BY <1>1, <1>2, <1>3, <1>4, <1>6
  <2>2. need % WORD = need
    BY <1>1, <2>1, SmallMod
  <2>3. asked = (limit + (IF need > GROW THEN need ELSE GROW)) % WORD
    BY <2>2 DEF NewLimit
  <2> DEFINE sum == limit + (IF need > GROW THEN need ELSE GROW)
  <2>4. sum \in Nat /\ sum < WORD /\ sum >= end
    BY <1>1, <1>2, <1>3, <1>4, <2>1
  <2> HIDE DEF sum, need, asked, end
  <2>5. sum % WORD = sum
    BY <1>1, <2>4, SmallMod
  <2> QED
    BY <2>3, <2>4, <2>5 DEF sum
<1>7. HeapAlloc(n) =
        IF end <= limit
          THEN {Allocation(next, end, limit, brk)}
          ELSE {IF b < asked
                  THEN Allocation(NULL, next, limit, b)
                  ELSE Allocation(next, end, b, b) : b \in Breaks(asked)}
  BY DEF HeapAlloc, size, next, limit
<1> HIDE DEF end, asked
<1>8. CASE end <= limit
  <2>1. r = Allocation(next, end, limit, brk)
    BY <1>7, <1>8
  <2>2. end \in HeapStart .. BrkMax /\ next < end /\ next + n <= end
        /\ heap_next <= end /\ heap_next \in Nat
    BY <1>1, <1>3, <1>5, <1>8 DEF HeapInvariant, TypeOK
  <2>3. r.at = next /\ r.next = end /\ r.limit = limit /\ r.brk = brk
    BY <2>1 DEF Allocation
  <2> QED
    BY ONLY <1>3, <1>5, <1>8, <2>2, <2>3 DEF GoodOutcome
<1>9. CASE ~ (end <= limit)
  <2>1. PICK b \in Breaks(asked) :
          r = IF b < asked
                THEN Allocation(NULL, next, limit, b)
                ELSE Allocation(next, end, b, b)
    BY <1>7, <1>9
  <2>2. b \in HeapStart .. BrkMax /\ b \in {asked, brk}
    BY <1>3, <1>6, <1>9 DEF Breaks
  <2>3. CASE b < asked
    <3>1. b = brk
      BY <1>6, <1>9, <2>2, <2>3
    <3>2. r = Allocation(NULL, next, limit, b)
      BY <2>1, <2>3
    <3> QED
      BY <1>1, <1>3, <3>1, <3>2 DEF GoodOutcome, Allocation, NULL
  <2>4. CASE ~ (b < asked)
    <3>1. r = Allocation(next, end, b, b)
      BY <2>1, <2>4
    <3>2. end <= b
      BY <1>1, <1>5, <1>6, <1>9, <2>2, <2>4
    <3>3. end \in HeapStart .. BrkMax /\ next < end /\ next + n <= end
          /\ heap_next <= end /\ heap_next \in Nat
      BY <1>1, <1>3, <1>5, <2>2, <3>2 DEF HeapInvariant, TypeOK
    <3>4. r.at = next /\ r.next = end /\ r.limit = b /\ r.brk = b
      BY <3>1 DEF Allocation
    <3> QED
      BY ONLY <1>1, <1>3, <1>5, <2>2, <3>2, <3>3, <3>4 DEF GoodOutcome
  <2> QED
    BY <2>3, <2>4
<1> QED
  BY <1>8, <1>9

----------------------------------------------------------------------------
BlockRecord == [at : HeapStart .. BrkMax, size : Nat, live : BOOLEAN]

(* Freeing changes no block's place. *)
SamePlaces(b) ==
  /\ b \in Seq(BlockRecord)
  /\ Len(b) = Len(blocks)
  /\ \A i \in 1 .. Len(blocks) : b[i].at = blocks[i].at /\ b[i].size = blocks[i].size

(* The three variables of the allocator after a call keep their part. *)
LEMMA ReturnsTyped ==
  ASSUME HeapInvariant, NEW n, Modest(n), NEW r \in HeapAlloc(n),
         Returns(r)
  PROVE  /\ heap_next' \in HeapStart .. BrkMax
         /\ heap_limit' \in HeapStart .. BrkMax
         /\ brk' \in HeapStart .. BrkMax
         /\ heap_next <= heap_next' /\ heap_next' <= heap_limit' /\ heap_limit' <= brk'
         /\ heap_next' % ALIGN = 0
         /\ heap_next \in Nat /\ heap_next' # 0 /\ heap_limit' # 0
<1>1. GoodOutcome(n, r)
  BY HeapAllocOutcome
<1>2. heap_next' = r.next /\ heap_limit' = r.limit /\ brk' = r.brk
  BY DEF Returns
<1>3. heap_next \in Nat /\ HeapStart \in Nat \ {0} /\ BrkMax \in Nat
  BY HeapAssumption DEF HeapInvariant, TypeOK
<1> QED
  BY ONLY <1>1, <1>2, <1>3 DEF GoodOutcome

(* A refused call leaves the blocks where they were. *)
LEMMA RefusedKeeps ==
  ASSUME HeapInvariant, NEW n, Modest(n), NEW r \in HeapAlloc(n),
         Returns(r), UNCHANGED blocks
  PROVE  BlocksSeparate' /\ BumpPointer'
<1>1. /\ heap_next' \in Nat /\ heap_next \in Nat
      /\ heap_next <= heap_next' /\ heap_next' <= heap_limit' /\ heap_limit' <= brk'
      /\ heap_next' % ALIGN = 0 /\ heap_next' # 0
      /\ heap_limit' >= HeapStart /\ heap_limit' # 0
  BY HeapAssumption, ReturnsTyped
<1>2. /\ blocks \in Seq(BlockRecord)
      /\ \A i \in DOMAIN blocks : blocks[i].at \in Nat /\ blocks[i].size \in Nat
  <2>1. blocks \in Seq(BlockRecord)
    BY DEF HeapInvariant, TypeOK, BlockRecord
  <2>2. \A i \in DOMAIN blocks : blocks[i] \in BlockRecord
    BY <2>1
  <2> QED
    BY <2>1, <2>2, HeapAssumption DEF BlockRecord
<1>3. BumpPointer'
  BY <1>1 DEF BumpPointer
<1>4. BlocksSeparate'
  BY <1>1, <1>2 DEF HeapInvariant, BlocksSeparate
<1> QED
  BY <1>3, <1>4

(* A granted call adds a block behind all the others. *)
LEMMA GrantedKeeps ==
  ASSUME HeapInvariant, NEW n, Modest(n), NEW r \in HeapAlloc(n),
         Returns(r), r.at # NULL,
         NEW b, SamePlaces(b), blocks' = Append(b, Block(r.at, n))
  PROVE  /\ BlocksSeparate' /\ BumpPointer'
         /\ blocks' \in Seq(BlockRecord)
<1>1. /\ heap_next' \in Nat /\ heap_next \in Nat
      /\ heap_next <= heap_next' /\ heap_next' <= heap_limit' /\ heap_limit' <= brk'
      /\ heap_next' % ALIGN = 0 /\ heap_next' # 0
      /\ heap_limit' >= HeapStart /\ heap_limit' # 0
  BY HeapAssumption, ReturnsTyped
<1>2. /\ blocks \in Seq(BlockRecord)
      /\ \A i \in 1 .. Len(blocks) :
           /\ blocks[i].at \in Nat /\ blocks[i].size \in Nat
           /\ blocks[i].at % ALIGN = 0
           /\ blocks[i].at < heap_next
           /\ blocks[i].at + blocks[i].size <= heap_next
           /\ i > 1 => /\ blocks[i - 1].at < blocks[i].at
                       /\ blocks[i - 1].at + blocks[i - 1].size <= blocks[i].at
  <2>1. blocks \in Seq(BlockRecord)
    BY DEF HeapInvariant, TypeOK, BlockRecord
  <2>2. \A i \in 1 .. Len(blocks) : blocks[i] \in BlockRecord
    BY <2>1
  <2>3. DOMAIN blocks = 1 .. Len(blocks)
    BY <2>1
  <2>4. \A i \in 1 .. Len(blocks) : blocks[i].at \in Nat /\ blocks[i].size \in Nat
    BY <2>2, HeapAssumption DEF BlockRecord
  <2> QED
    BY <2>1, <2>3, <2>4 DEF HeapInvariant, BlocksSeparate
<1>3. /\ r.at \in HeapStart .. BrkMax /\ r.at \in Nat /\ n \in Nat
      /\ heap_next <= r.at /\ r.at % ALIGN = 0
      /\ r.at < heap_next' /\ r.at + n <= heap_next'
  <2>1. GoodOutcome(n, r)
    BY HeapAllocOutcome
  <2> QED
    BY <2>1, HeapAssumption DEF GoodOutcome, Returns, Modest
<1>4. Block(r.at, n) \in BlockRecord
  BY <1>3 DEF Block, BlockRecord
<1>5. /\ b \in Seq(BlockRecord) /\ Len(b) = Len(blocks) /\ Len(b) \in Nat
      /\ blocks' \in Seq(BlockRecord)
      /\ Len(blocks') = Len(blocks) + 1
      /\ \A i \in 1 .. Len(blocks) : blocks'[i] = b[i]
      /\ blocks'[Len(blocks) + 1] = Block(r.at, n)
  BY <1>4 DEF SamePlaces
<1>6. /\ \A i \in 1 .. Len(blocks) :
           blocks'[i].at = blocks[i].at /\ blocks'[i].size = blocks[i].size
      /\ blocks'[Len(blocks) + 1].at = r.at
      /\ blocks'[Len(blocks) + 1].size = n
  BY <1>5 DEF SamePlaces, Block
<1>7. ASSUME NEW i \in 1 .. Len(blocks) + 1
      PROVE  /\ blocks'[i].at % ALIGN = 0
             /\ blocks'[i].at < heap_next'
             /\ blocks'[i].at + blocks'[i].size <= heap_next'
             /\ i > 1 => /\ blocks'[i - 1].at < blocks'[i].at
                         /\ blocks'[i - 1].at + blocks'[i - 1].size <= blocks'[i].at
  <2>1. CASE i <= Len(blocks)
    <3>1. i \in 1 .. Len(blocks) /\ (i > 1 => i - 1 \in 1 .. Len(blocks))
      BY <1>5, <2>1
    <3>2. blocks'[i].at = blocks[i].at /\ blocks'[i].size = blocks[i].size
      BY <1>6, <3>1
    <3>3. blocks'[i].at % ALIGN = 0
      BY ONLY <1>2, <3>1, <3>2
    <3>4. /\ blocks[i].at < heap_next
          /\ blocks[i].at + blocks[i].size <= heap_next
          /\ blocks[i].at \in Nat /\ blocks[i].size \in Nat
      BY ONLY <1>2, <3>1
    <3>5. ASSUME i > 1
          PROVE  /\ blocks'[i - 1].at < blocks'[i].at
                 /\ blocks'[i - 1].at + blocks'[i - 1].size <= blocks'[i].at
      <4>1. /\ blocks'[i - 1].at = blocks[i - 1].at
            /\ blocks'[i - 1].size = blocks[i - 1].size
        BY ONLY <1>6, <3>1, <3>5
      <4> QED
        BY ONLY <1>2, <3>1, <3>2, <3>5, <4>1
    <3>6. /\ blocks'[i].at < heap_next'
          /\ blocks'[i].at + blocks'[i].size <= heap_next'
      BY ONLY <1>1, <3>2, <3>4
    <3> QED
      BY ONLY <3>3, <3>5, <3>6
  <2>2. CASE i = Len(blocks) + 1
    <3>1. i > 1 => i - 1 \in 1 .. Len(blocks) /\ i - 1 = Len(blocks)
      BY <1>5, <2>2
    <3>2. blocks'[i].at = r.at /\ blocks'[i].size = n
      BY <1>6, <2>2
    <3>3. blocks'[i].at % ALIGN = 0
      BY ONLY <1>3, <3>2
    <3>4. /\ blocks'[i].at < heap_next'
          /\ blocks'[i].at + blocks'[i].size <= heap_next'
      BY ONLY <1>3, <3>2
    <3>5. ASSUME i > 1
          PROVE  /\ blocks'[i - 1].at < blocks'[i].at
                 /\ blocks'[i - 1].at + blocks'[i - 1].size <= blocks'[i].at
      <4> DEFINE j == i - 1
      <4>1. j \in 1 .. Len(blocks)
        BY <3>1, <3>5
      <4> HIDE DEF j
      <4>2. blocks'[j].at = blocks[j].at /\ blocks'[j].size = blocks[j].size
        BY ONLY <1>6, <4>1
      <4>3. /\ blocks[j].at < heap_next /\ blocks[j].at + blocks[j].size <= heap_next
            /\ blocks[j].at \in Nat /\ blocks[j].size \in Nat
        BY ONLY <1>2, <4>1
      <4>4. /\ blocks'[j].at < blocks'[i].at
            /\ blocks'[j].at + blocks'[j].size <= blocks'[i].at
        BY ONLY <1>1, <1>3, <3>2, <4>2, <4>3
      <4> QED
        BY <4>4 DEF j
    <3> QED
      BY ONLY <3>3, <3>4, <3>5
  <2> QED
    BY <1>5, <2>1, <2>2
<1>8. BlocksSeparate'
  <2>1. DOMAIN blocks' = 1 .. Len(blocks) + 1
    BY <1>5
  <2> QED
    BY <1>1, <1>7, <2>1 DEF BlocksSeparate
<1>9. BumpPointer'
  BY <1>1 DEF BumpPointer
<1> QED
  BY <1>5, <1>8, <1>9

(* A store of values keeps the heap's bytes values. *)
LEMMA StoredTyped ==
  ASSUME mem \in [HeapStart .. BrkMax - 1 -> Value], HeapStart \in Nat, BrkMax \in Nat,
         NEW at \in Nat, NEW n \in Nat, NEW f \in [0 .. n - 1 -> Value],
         Stored(at, n, f)
  PROVE  mem' \in [HeapStart .. BrkMax - 1 -> Value]
<1>1. ASSUME NEW a \in HeapStart .. BrkMax - 1
      PROVE  (IF a >= at /\ a < at + n THEN f[a - at] ELSE mem[a]) \in Value
  <2>1. CASE a >= at /\ a < at + n
    <3>1. a - at \in 0 .. n - 1
      BY <2>1
    <3> QED
      BY <2>1, <3>1
  <2>2. CASE ~ (a >= at /\ a < at + n)
    BY <2>2
  <2> QED
    BY <2>1, <2>2
<1>2. DOMAIN mem = HeapStart .. BrkMax - 1
  OBVIOUS
<1> QED
  BY <1>1, <1>2 DEF Stored

(* What the copy loop stores are bytes of the heap. *)
LEMMA CopiedTyped ==
  ASSUME mem \in [HeapStart .. BrkMax - 1 -> Value], HeapStart \in Nat, BrkMax \in Nat,
         NEW p \in HeapStart .. BrkMax, NEW new \in HeapStart .. BrkMax, p < new,
         NEW n \in Nat, NEW k \in 0 .. n - 1
  PROVE  CopiedByte(p, new, n, k) \in Value
<1> DEFINE d == new - p
           y == k % d
<1>1. d \in Nat \ {0} /\ k \in Nat /\ p + d = new /\ p \in Nat /\ new \in Nat
  OBVIOUS
<1> HIDE DEF d
<1>2. y \in 0 .. d - 1
  BY ONLY <1>1, DivMod
<1> HIDE DEF y
<1>3. p + y \in HeapStart .. BrkMax - 1
  BY <1>1, <1>2
<1> QED
  BY <1>3 DEF CopiedByte, d, y

(* The places of the blocks, as the proofs use them. *)
LEMMA BlockFacts ==
  ASSUME HeapInvariant, NEW i \in Live
  PROVE  /\ blocks \in Seq(BlockRecord)
         /\ i \in 1 .. Len(blocks)
         /\ blocks[i].at \in HeapStart .. BrkMax /\ blocks[i].at \in Nat
         /\ blocks[i].size \in Nat
         /\ blocks[i].at < heap_next
         /\ blocks[i].at + blocks[i].size <= heap_next
         /\ heap_next \in Nat /\ heap_next <= BrkMax /\ heap_next <= brk
<1>1. blocks \in Seq(BlockRecord) /\ i \in DOMAIN blocks
  BY DEF HeapInvariant, TypeOK, BlockRecord, Live
<1>2. blocks[i] \in BlockRecord /\ i \in 1 .. Len(blocks)
  BY <1>1
<1>3. /\ blocks[i].at \in HeapStart .. BrkMax /\ blocks[i].at \in Nat
      /\ blocks[i].size \in Nat
  BY <1>2, HeapAssumption DEF BlockRecord
<1>4. /\ blocks[i].at < heap_next
      /\ blocks[i].at + blocks[i].size <= heap_next
      /\ heap_next <= heap_limit /\ heap_limit <= brk
  BY <1>1 DEF HeapInvariant, BlocksSeparate
<1>5. /\ heap_next \in {0} \union HeapStart .. BrkMax
      /\ heap_limit \in {0} \union HeapStart .. BrkMax
      /\ brk \in HeapStart .. BrkMax
      /\ HeapStart \in Nat /\ BrkMax \in Nat
  BY HeapAssumption DEF HeapInvariant, TypeOK
<1> QED
  BY ONLY <1>1, <1>2, <1>3, <1>4, <1>5

(* Marking a block free keeps its place. *)
LEMMA FreedPlaces ==
  ASSUME HeapInvariant, NEW i \in Live
  PROVE  SamePlaces([blocks EXCEPT ![i].live = FALSE])
<1>1. blocks \in Seq(BlockRecord) /\ i \in 1 .. Len(blocks)
  BY BlockFacts
<1>2. [blocks[i] EXCEPT !.live = FALSE] \in BlockRecord
  <2>1. blocks[i] \in BlockRecord
    BY <1>1
  <2> QED
    BY <2>1 DEF BlockRecord
<1> DEFINE b == [blocks EXCEPT ![i].live = FALSE]
<1>3. b \in Seq(BlockRecord) /\ Len(b) = Len(blocks)
  BY <1>1, <1>2
<1>4. ASSUME NEW j \in 1 .. Len(blocks)
      PROVE  b[j].at = blocks[j].at /\ b[j].size = blocks[j].size
  <2>1. blocks[j] \in BlockRecord
    BY <1>1
  <2> QED
    BY <1>1, <2>1 DEF BlockRecord
<1> QED
  BY <1>3, <1>4 DEF SamePlaces

----------------------------------------------------------------------------
(* One lemma for each action: it keeps the invariant. *)

LEMMA InitHolds == Init => HeapInvariant
<1> SUFFICES ASSUME Init PROVE HeapInvariant
  OBVIOUS
<1>1. /\ HeapStart \in Nat \ {0} /\ BrkMax \in Nat /\ HeapStart <= BrkMax
      /\ 0 \in Value /\ ALIGN \in Nat \ {0}
  BY HeapAssumption
<1>2. 0 % ALIGN = 0
  BY <1>1, SmallMod
<1>3. TypeOK
  <2>1. mem \in [HeapStart .. BrkMax - 1 -> Value]
    BY <1>1 DEF Init
  <2>2. blocks \in Seq([at : HeapStart .. BrkMax, size : Nat, live : BOOLEAN])
    BY DEF Init
  <2>3. brk \in HeapStart .. BrkMax
    BY <1>1 DEF Init
  <2> QED
    BY <2>1, <2>2, <2>3 DEF Init, TypeOK
<1> QED
  BY <1>1, <1>2, <1>3
     DEF Init, HeapInvariant, BlocksSeparate, BumpPointer, NoFault

LEMMA MallocKeeps ==
  ASSUME ModestRequests, HeapInvariant, NEW n \in Request, Malloc(n)
  PROVE  HeapInvariant'
<1>1. PICK r \in HeapAlloc(n) :
        /\ Returns(r)
        /\ blocks' = IF r.at = NULL THEN blocks ELSE Append(blocks, Block(r.at, n))
  BY DEF Malloc
<1>2. UNCHANGED <<mem, fault>>
  BY DEF Malloc
<1>3. /\ heap_next' \in HeapStart .. BrkMax /\ heap_limit' \in HeapStart .. BrkMax
      /\ brk' \in HeapStart .. BrkMax
  BY <1>1, ReturnsTyped, RequestModest
<1>4. /\ blocks \in Seq(BlockRecord)
      /\ mem \in [HeapStart .. BrkMax - 1 -> Value]
      /\ fault = FALSE
  BY DEF HeapInvariant, TypeOK, NoFault, BlockRecord
<1>5. BlocksSeparate' /\ BumpPointer' /\ blocks' \in Seq(BlockRecord)
  <2>1. CASE r.at = NULL
    BY <1>1, <1>4, <2>1, RefusedKeeps, RequestModest
  <2>2. CASE r.at # NULL
    <3>1. SamePlaces(blocks)
      BY <1>4 DEF SamePlaces
    <3> QED
      BY <1>1, <2>2, <3>1, GrantedKeeps, RequestModest
  <2> QED
    BY <2>1, <2>2
<1> QED
  BY <1>2, <1>3, <1>4, <1>5 DEF HeapInvariant, TypeOK, NoFault, BlockRecord

(* A block of n bytes, and what is filled in of it. *)
Filled(r, n, m, f) ==
  /\ Returns(r)
  /\ IF r.at = NULL
       THEN UNCHANGED <<mem, fault, blocks>>
       ELSE /\ Stored(r.at, m, f)
            /\ Accessed({r.at}, m)
            /\ blocks' = Append(blocks, Block(r.at, n))

LEMMA FilledKeeps ==
  ASSUME HeapInvariant, NEW n, Modest(n), NEW r \in HeapAlloc(n),
         NEW m \in Nat, m <= n, NEW f \in [0 .. m - 1 -> Value], Filled(r, n, m, f)
  PROVE  HeapInvariant'
<1>1. /\ Returns(r)
      /\ IF r.at = NULL
           THEN UNCHANGED <<mem, fault, blocks>>
           ELSE /\ Stored(r.at, m, f)
                /\ Accessed({r.at}, m)
                /\ blocks' = Append(blocks, Block(r.at, n))
  BY DEF Filled
<1>2. /\ heap_next' \in HeapStart .. BrkMax /\ heap_limit' \in HeapStart .. BrkMax
      /\ brk' \in HeapStart .. BrkMax
      /\ heap_next' <= brk' /\ HeapStart \in Nat /\ BrkMax \in Nat
  BY <1>1, ReturnsTyped, HeapAssumption
<1>3. /\ blocks \in Seq(BlockRecord)
      /\ mem \in [HeapStart .. BrkMax - 1 -> Value]
      /\ fault = FALSE /\ n \in Nat /\ 0 \in Value
  BY HeapAssumption DEF Modest, HeapInvariant, TypeOK, NoFault, BlockRecord
<1>4. CASE r.at = NULL
  <2>1. UNCHANGED <<mem, fault, blocks>>
    BY <1>1, <1>4
  <2>2. BlocksSeparate' /\ BumpPointer'
    BY <1>1, <2>1, RefusedKeeps
  <2> QED
    BY <1>2, <1>3, <2>1, <2>2 DEF HeapInvariant, TypeOK, NoFault, BlockRecord
<1>5. CASE r.at # NULL
  <2>1. SamePlaces(blocks)
    BY <1>3 DEF SamePlaces
  <2>2. BlocksSeparate' /\ BumpPointer' /\ blocks' \in Seq(BlockRecord)
    BY <1>1, <1>5, <2>1, GrantedKeeps
  <2>3. /\ r.at \in HeapStart .. BrkMax /\ r.at \in Nat
        /\ r.at + n <= heap_next'
    BY <1>1, <1>2, <1>5, HeapAllocOutcome DEF GoodOutcome, Returns
  <2>4. mem' \in [HeapStart .. BrkMax - 1 -> Value]
    BY <1>1, <1>2, <1>3, <1>5, <2>3, StoredTyped
  <2>5. fault' = FALSE
    <3>1. \A at \in {r.at} : ~ (m > 0 /\ (at < HeapStart \/ at + m > brk'))
      BY <1>2, <1>3, <2>3
    <3> DEFINE E == \E at \in {r.at} :
                     m > 0 /\ (at < HeapStart \/ at + m > brk')
    <3>2. E = FALSE
      BY <3>1
    <3>3. fault' = (fault \/ E)
      BY <1>1, <1>5 DEF Accessed
    <3> HIDE DEF E
    <3> QED
      BY <1>3, <3>2, <3>3
  <2> QED
    BY <1>2, <2>2, <2>4, <2>5 DEF HeapInvariant, TypeOK, NoFault, BlockRecord
<1> QED
  BY <1>4, <1>5

LEMMA CallocKeeps ==
  ASSUME ModestRequests, HeapInvariant, NEW n \in Request, Calloc(n)
  PROVE  HeapInvariant'
<1> DEFINE f == [k \in 0 .. n - 1 |-> 0]
<1>1. PICK r \in HeapAlloc(n) : Filled(r, n, n, f)
  BY DEF Calloc, Filled
<1>2. n \in Nat /\ n <= n /\ f \in [0 .. n - 1 -> Value]
  BY HeapAssumption
<1> HIDE DEF f
<1> QED
  BY <1>1, <1>2, FilledKeeps, RequestModest

LEMMA FreeKeeps ==
  ASSUME HeapInvariant, NEW i \in Live, Free(i)
  PROVE  HeapInvariant'
<1>1. /\ blocks' = [blocks EXCEPT ![i].live = FALSE]
      /\ UNCHANGED <<heap_next, heap_limit, brk, mem, fault>>
  BY DEF Free
<1>2. SamePlaces(blocks')
  BY <1>1, FreedPlaces
<1>3. /\ blocks \in Seq(BlockRecord) /\ blocks' \in Seq(BlockRecord)
      /\ DOMAIN blocks' = 1 .. Len(blocks) /\ DOMAIN blocks = 1 .. Len(blocks)
      /\ Len(blocks) \in Nat
  BY <1>2, BlockFacts DEF SamePlaces
<1>4. \A j \in 1 .. Len(blocks) :
        blocks'[j].at = blocks[j].at /\ blocks'[j].size = blocks[j].size
  BY <1>2 DEF SamePlaces
<1>5. BumpPointer'
  <2>1. blocks # <<>>
    BY BlockFacts
  <2>2. heap_next # 0
    BY <2>1 DEF HeapInvariant, BumpPointer
  <2> QED
    BY <1>1, <2>2 DEF HeapInvariant, BumpPointer
<1>6. BlocksSeparate'
  <2>1. \A j \in 1 .. Len(blocks) : j > 1 => j - 1 \in 1 .. Len(blocks)
    BY <1>3
  <2> QED
    BY <1>1, <1>3, <1>4, <2>1, ZenonT(30) DEF HeapInvariant, BlocksSeparate
<1> QED
  BY <1>1, <1>3, <1>5, <1>6 DEF HeapInvariant, TypeOK, NoFault, BlockRecord

LEMMA ReAllocKeeps ==
  ASSUME ModestRequests, HeapInvariant, NEW i \in Live, NEW n \in Request,
         NEW zero \in ZeroFlags, ReAlloc(i, n, zero)
  PROVE  HeapInvariant'
<1> DEFINE p == blocks[i].at
           freed == [blocks EXCEPT ![i].live = FALSE]
<1>1. PICK r \in HeapAlloc(n) :
        /\ Returns(r)
        /\ IF r.at = NULL
             THEN UNCHANGED <<mem, fault, blocks>>
             ELSE /\ Stored(r.at, n,
                            [k \in 0 .. n - 1 |->
                               IF zero THEN 0 ELSE CopiedByte(p, r.at, n, k)])
                  /\ Accessed({p, r.at}, n)
                  /\ blocks' = Append(freed, Block(r.at, n))
  BY DEF ReAlloc
<1>2. /\ heap_next' \in HeapStart .. BrkMax /\ heap_limit' \in HeapStart .. BrkMax
      /\ brk' \in HeapStart .. BrkMax
      /\ heap_next' <= brk' /\ HeapStart \in Nat /\ BrkMax \in Nat
  BY <1>1, ReturnsTyped, RequestModest, HeapAssumption
<1>3. /\ blocks \in Seq(BlockRecord)
      /\ mem \in [HeapStart .. BrkMax - 1 -> Value]
      /\ fault = FALSE /\ n \in Nat /\ 0 \in Value
      /\ p \in HeapStart .. BrkMax /\ p < heap_next /\ heap_next \in Nat
  BY HeapAssumption, BlockFacts DEF HeapInvariant, TypeOK, NoFault
<1>4. CASE r.at = NULL
  <2>1. UNCHANGED <<mem, fault, blocks>>
    BY <1>1, <1>4
  <2>2. BlocksSeparate' /\ BumpPointer'
    BY <1>1, <2>1, RefusedKeeps, RequestModest
  <2> QED
    BY <1>2, <1>3, <2>1, <2>2 DEF HeapInvariant, TypeOK, NoFault, BlockRecord
<1>5. CASE r.at # NULL
  <2>1. SamePlaces(freed)
    BY FreedPlaces
  <2>2. BlocksSeparate' /\ BumpPointer' /\ blocks' \in Seq(BlockRecord)
    <3> HIDE DEF freed
    <3> QED
      BY <1>1, <1>5, <2>1, GrantedKeeps, RequestModest
  <2> HIDE DEF p
  <2>3. /\ r.at \in HeapStart .. BrkMax /\ r.at \in Nat
        /\ r.at + n <= heap_next' /\ heap_next <= r.at
    BY <1>1, <1>2, <1>5, HeapAllocOutcome, RequestModest DEF GoodOutcome, Returns
  <2>4. p < r.at /\ p \in Nat
    BY <1>2, <1>3, <2>3
  <2>5. mem' \in [HeapStart .. BrkMax - 1 -> Value]
    <3> DEFINE f == [k \in 0 .. n - 1 |->
                       IF zero THEN 0 ELSE CopiedByte(p, r.at, n, k)]
    <3>1. \A k \in 0 .. n - 1 : CopiedByte(p, r.at, n, k) \in Value
      BY <1>2, <1>3, <2>3, <2>4, CopiedTyped
    <3>2. f \in [0 .. n - 1 -> Value]
      BY <1>3, <3>1
    <3>3. Stored(r.at, n, f)
      BY <1>1, <1>5
    <3> HIDE DEF f
    <3> QED
      BY <1>2, <1>3, <2>3, <3>2, <3>3, StoredTyped
  <2>6. fault' = FALSE
    <3>1. \A at \in {p, r.at} :
             ~ (n > 0 /\ (at < HeapStart \/ at + n > brk'))
      BY <1>2, <1>3, <2>3, <2>4, SMTT(30)
    <3> DEFINE E == \E at \in {p, r.at} :
                     n > 0 /\ (at < HeapStart \/ at + n > brk')
    <3>2. E = FALSE
      BY <3>1
    <3>3. fault' = (fault \/ E)
      BY <1>1, <1>5 DEF Accessed
    <3> HIDE DEF E
    <3> QED
      BY <1>3, <3>2, <3>3
  <2> QED
    BY <1>2, <2>2, <2>5, <2>6 DEF HeapInvariant, TypeOK, NoFault, BlockRecord
<1> QED
  BY <1>4, <1>5

LEMMA WriteKeeps ==
  ASSUME HeapInvariant, NEW i \in Live, NEW k \in 0 .. blocks[i].size - 1,
         NEW v \in Value, Write(i, k, v)
  PROVE  HeapInvariant'
<1>1. /\ mem' = [mem EXCEPT ![blocks[i].at + k] = v]
      /\ UNCHANGED <<heap_next, heap_limit, brk, blocks, fault>>
  BY DEF Write
<1>2. mem' \in [HeapStart .. BrkMax - 1 -> Value]
  BY <1>1 DEF HeapInvariant, TypeOK
<1>3. BlocksSeparate' /\ BumpPointer'
  BY <1>1 DEF HeapInvariant, BlocksSeparate, BumpPointer
<1> QED
  BY <1>1, <1>2, <1>3 DEF HeapInvariant, TypeOK, NoFault

----------------------------------------------------------------------------
LEMMA HeapInvariantInductive ==
  ModestRequests /\ HeapInvariant /\ [Next]_vars => HeapInvariant'
<1> SUFFICES ASSUME ModestRequests, HeapInvariant, [Next]_vars
             PROVE  HeapInvariant'
  OBVIOUS
<1>1. ASSUME NEW n \in Request, Malloc(n) PROVE HeapInvariant'
  BY <1>1, MallocKeeps
<1>2. ASSUME NEW n \in Request, Calloc(n) PROVE HeapInvariant'
  BY <1>2, CallocKeeps
<1>3. ASSUME NEW i \in Live, Free(i) PROVE HeapInvariant'
  BY <1>3, FreeKeeps
<1>4. ASSUME NEW i \in Live, NEW n \in Request, NEW zero \in ZeroFlags,
             ReAlloc(i, n, zero)
      PROVE  HeapInvariant'
  BY <1>4, ReAllocKeeps
<1>5. ASSUME NEW i \in Live, NEW k \in 0 .. blocks[i].size - 1, NEW v \in Value,
             Write(i, k, v)
      PROVE  HeapInvariant'
  BY <1>5, WriteKeeps
<1>6. CASE UNCHANGED vars
  BY <1>6 DEF vars, HeapInvariant, TypeOK, BlocksSeparate, BumpPointer, NoFault
<1> QED
  BY <1>1, <1>2, <1>3, <1>4, <1>5, <1>6 DEF Next

LEMMA HeapInvariantAlways == ModestRequests => (Spec => []HeapInvariant)
<1> SUFFICES ASSUME ModestRequests PROVE Spec => []HeapInvariant
  OBVIOUS
<1>1. Init => HeapInvariant
  BY InitHolds
<1>2. HeapInvariant /\ [Next]_vars => HeapInvariant'
  BY HeapInvariantInductive
<1> QED
  BY <1>1, <1>2, PTL DEF Spec

(* The blocks of the allocator are separate, aligned and mapped, whatever  *)
(* the program asks for, provided no request is near 2^32, and whatever    *)
(* brk() answers.                                                          *)
THEOREM HeapBlocksSeparate == ModestRequests => (Spec => []BlocksSeparate)
<1>1. HeapInvariant => BlocksSeparate
  BY DEF HeapInvariant
<1> QED
  BY <1>1, HeapInvariantAlways, PTL

(* Neither clearing a block nor realloc()'s copy, which reads as many      *)
(* bytes as the new block has, touches memory that is not mapped.          *)
THEOREM HeapNeverFaults == ModestRequests => (Spec => []NoFault)
<1>1. HeapInvariant => NoFault
  BY DEF HeapInvariant
<1> QED
  BY <1>1, HeapInvariantAlways, PTL

(* The allocator's pointers stay inside the heap the kernel granted.       *)
THEOREM HeapTypeCorrect == ModestRequests => (Spec => []TypeOK)
<1>1. HeapInvariant => TypeOK
  BY DEF HeapInvariant
<1> QED
  BY <1>1, HeapInvariantAlways, PTL

----------------------------------------------------------------------------
(* The allocator implements AbstractHeap: what a program stores in a block  *)
(* stays there until it stores something else or frees the block, although  *)
(* realloc() does not know how long the block it copies is.                 *)
(* HeapReAlloc() with HEAP_ZERO_MEMORY breaks the promise. *)
NoZeroing == ZeroFlags \subseteq {FALSE}

----------------------------------------------------------------------------
(* BlocksSeparate compares neighbours; a write must not be seen through any
   other block. *)
BlocksApart ==
  \A i, j \in DOMAIN blocks :
    i < j => blocks[i].at + blocks[i].size <= blocks[j].at

PromiseInvariant == HeapInvariant /\ BlocksApart

(* Each block, live or not, lies below heap_next. *)
LEMMA PlacesTyped ==
  ASSUME HeapInvariant
  PROVE  /\ blocks \in Seq(BlockRecord) /\ Len(blocks) \in Nat
         /\ DOMAIN blocks = 1 .. Len(blocks)
         /\ heap_next \in Nat
         /\ \A i \in 1 .. Len(blocks) :
              /\ blocks[i] \in BlockRecord
              /\ blocks[i].at \in Nat /\ blocks[i].size \in Nat
              /\ HeapStart <= blocks[i].at
              /\ blocks[i].at + blocks[i].size <= heap_next
<1>1. blocks \in Seq(BlockRecord)
  BY DEF HeapInvariant, TypeOK, BlockRecord
<1>2. /\ DOMAIN blocks = 1 .. Len(blocks) /\ Len(blocks) \in Nat
      /\ \A i \in 1 .. Len(blocks) : blocks[i] \in BlockRecord
  BY <1>1
<1>3. \A i \in 1 .. Len(blocks) :
        /\ blocks[i].at \in Nat /\ blocks[i].size \in Nat
        /\ HeapStart <= blocks[i].at
  BY <1>2, HeapAssumption DEF BlockRecord
<1>4. \A i \in 1 .. Len(blocks) : blocks[i].at + blocks[i].size <= heap_next
  BY <1>2 DEF HeapInvariant, BlocksSeparate
<1>5. heap_next \in Nat
  BY HeapAssumption DEF HeapInvariant, TypeOK
<1> QED
  BY ONLY <1>1, <1>2, <1>3, <1>4, <1>5

LEMMA SamePlacesApart ==
  ASSUME PromiseInvariant, NEW b, SamePlaces(b), blocks' = b
  PROVE  BlocksApart'
<1>1. DOMAIN blocks = 1 .. Len(blocks) /\ DOMAIN blocks' = 1 .. Len(blocks)
  BY PlacesTyped DEF PromiseInvariant, SamePlaces
<1>2. \A i \in 1 .. Len(blocks) :
        blocks'[i].at = blocks[i].at /\ blocks'[i].size = blocks[i].size
  BY DEF SamePlaces
<1> QED
  BY <1>1, <1>2 DEF PromiseInvariant, BlocksApart

LEMMA GrantedApart ==
  ASSUME PromiseInvariant, NEW n, Modest(n), NEW r \in HeapAlloc(n),
         r.at # NULL, NEW b, SamePlaces(b), blocks' = Append(b, Block(r.at, n))
  PROVE  BlocksApart'
<1>1. /\ DOMAIN blocks = 1 .. Len(blocks) /\ Len(blocks) \in Nat
      /\ heap_next \in Nat
      /\ \A i \in 1 .. Len(blocks) :
           /\ blocks[i].at \in Nat /\ blocks[i].size \in Nat
           /\ blocks[i].at + blocks[i].size <= heap_next
  BY PlacesTyped DEF PromiseInvariant
<1>2. r.at \in Nat /\ heap_next <= r.at
  BY HeapAllocOutcome, HeapAssumption DEF GoodOutcome, PromiseInvariant
<1>3. /\ b \in Seq(BlockRecord) /\ Len(b) = Len(blocks)
      /\ \A i \in 1 .. Len(blocks) :
           b[i].at = blocks[i].at /\ b[i].size = blocks[i].size
  BY DEF SamePlaces
<1>4. /\ DOMAIN blocks' = 1 .. Len(blocks) + 1
      /\ \A i \in 1 .. Len(blocks) : blocks'[i] = b[i]
      /\ blocks'[Len(blocks) + 1] = Block(r.at, n)
  BY <1>1, <1>3
<1>5. SUFFICES ASSUME NEW i \in 1 .. Len(blocks) + 1,
                      NEW j \in 1 .. Len(blocks) + 1, i < j
               PROVE  blocks'[i].at + blocks'[i].size <= blocks'[j].at
  BY <1>4 DEF BlocksApart
<1>6. i \in 1 .. Len(blocks)
  BY <1>1, <1>5
<1>7. blocks'[i].at = blocks[i].at /\ blocks'[i].size = blocks[i].size
  BY <1>3, <1>4, <1>6
<1>8. CASE j \in 1 .. Len(blocks)
  <2>1. blocks'[j].at = blocks[j].at
    BY <1>3, <1>4, <1>8
  <2>2. blocks[i].at + blocks[i].size <= blocks[j].at
    BY <1>1, <1>5, <1>6, <1>8 DEF PromiseInvariant, BlocksApart
  <2> QED
    BY ONLY <1>7, <2>1, <2>2
<1>9. CASE j = Len(blocks) + 1
  <2>1. blocks'[j].at = r.at
    BY <1>4, <1>9 DEF Block
  <2>2. /\ blocks[i].at + blocks[i].size <= heap_next
        /\ blocks[i].at \in Nat /\ blocks[i].size \in Nat
    BY ONLY <1>1, <1>6
  <2> QED
    BY ONLY <1>1, <1>2, <1>7, <2>1, <2>2
<1>10. j \in 1 .. Len(blocks) \/ j = Len(blocks) + 1
  BY <1>1
<1> QED
  BY ONLY <1>8, <1>9, <1>10

(* Every call leaves the blocks apart. *)
LEMMA ApartStep ==
  ASSUME ModestRequests, PromiseInvariant, [Next]_vars
  PROVE  BlocksApart'
<1>1. HeapInvariant
  BY DEF PromiseInvariant
<1>2. SamePlaces(blocks)
  BY <1>1, PlacesTyped DEF SamePlaces
<1>3. CASE UNCHANGED blocks
  BY <1>2, <1>3, SamePlacesApart
<1>4. ASSUME NEW n \in Request, Malloc(n) \/ Calloc(n) PROVE BlocksApart'
  <2>1. PICK r \in HeapAlloc(n) :
          blocks' = IF r.at = NULL THEN blocks ELSE Append(blocks, Block(r.at, n))
    BY <1>4 DEF Malloc, Calloc
  <2>2. CASE r.at = NULL
    BY <1>3, <2>1, <2>2
  <2>3. CASE r.at # NULL
    BY <1>2, <2>1, <2>3, GrantedApart, RequestModest
  <2> QED
    BY <2>2, <2>3
<1>5. ASSUME NEW i \in Live, Free(i) PROVE BlocksApart'
  BY <1>1, <1>5, FreedPlaces, SamePlacesApart DEF Free
<1>6. ASSUME NEW i \in Live, NEW n \in Request, NEW zero \in ZeroFlags,
             ReAlloc(i, n, zero)
      PROVE  BlocksApart'
  <2> DEFINE freed == [blocks EXCEPT ![i].live = FALSE]
  <2>1. PICK r \in HeapAlloc(n) :
          blocks' = IF r.at = NULL THEN blocks ELSE Append(freed, Block(r.at, n))
    BY <1>6 DEF ReAlloc
  <2>2. SamePlaces(freed)
    BY <1>1, FreedPlaces
  <2> HIDE DEF freed
  <2>3. CASE r.at = NULL
    BY <1>3, <2>1, <2>3
  <2>4. CASE r.at # NULL
    BY <2>1, <2>2, <2>4, GrantedApart, RequestModest
  <2> QED
    BY <2>3, <2>4
<1>7. ASSUME NEW i \in Live, NEW k \in 0 .. blocks[i].size - 1, NEW v \in Value,
             Write(i, k, v)
      PROVE  BlocksApart'
  BY <1>3, <1>7 DEF Write
<1>8. CASE UNCHANGED vars
  BY <1>3, <1>8 DEF vars
<1> QED
  BY <1>4, <1>5, <1>6, <1>7, <1>8 DEF Next

LEMMA PromiseInvariantAlways == ModestRequests => (Spec => []PromiseInvariant)
<1> SUFFICES ASSUME ModestRequests PROVE Spec => []PromiseInvariant
  OBVIOUS
<1>1. Init => PromiseInvariant
  BY InitHolds DEF PromiseInvariant, BlocksApart, Init
<1>2. PromiseInvariant /\ [Next]_vars => PromiseInvariant'
  BY ApartStep, HeapInvariantInductive DEF PromiseInvariant
<1> QED
  BY <1>1, <1>2, PTL DEF Spec

----------------------------------------------------------------------------
(* What the program sees of the blocks, before and after a step. *)
LEMMA ContentsFacts ==
  ASSUME HeapInvariant
  PROVE  /\ DOMAIN Contents = Live
         /\ \A i \in Live :
              /\ Contents[i] = [k \in 0 .. blocks[i].size - 1 |-> mem[blocks[i].at + k]]
              /\ DOMAIN Contents[i] = 0 .. blocks[i].size - 1
BY DEF Contents

(* A block that stays where it was, over bytes that stay what they were, is
   seen unchanged. *)
LEMMA BlockKept ==
  ASSUME HeapInvariant,
         NEW i \in Live, i \in Live',
         blocks'[i].at = blocks[i].at, blocks'[i].size = blocks[i].size,
         \A a \in HeapStart .. BrkMax - 1 :
           (blocks[i].at <= a /\ a < blocks[i].at + blocks[i].size) => mem'[a] = mem[a]
  PROVE  Contents'[i] = Contents[i]
<1>1. Contents[i] = [k \in 0 .. blocks[i].size - 1 |-> mem[blocks[i].at + k]]
  BY DEF Contents
<1>2. Contents'[i] = [k \in 0 .. blocks'[i].size - 1 |-> mem'[blocks'[i].at + k]]
  BY DEF Contents
<1>3. ASSUME NEW k \in 0 .. blocks[i].size - 1
      PROVE  mem'[blocks[i].at + k] = mem[blocks[i].at + k]
  <2>1. /\ blocks[i].at \in Nat /\ blocks[i].at >= HeapStart /\ blocks[i].size \in Nat
        /\ blocks[i].at + blocks[i].size <= BrkMax
        /\ HeapStart \in Nat /\ BrkMax \in Nat
    BY HeapAssumption, BlockFacts
  <2> DEFINE a == blocks[i].at + k
  <2>2. /\ a \in HeapStart .. BrkMax - 1
        /\ blocks[i].at <= a /\ a < blocks[i].at + blocks[i].size
    BY ONLY <2>1, <1>3
  <2> HIDE DEF a
  <2>3. mem'[a] = mem[a]
    BY <2>2
  <2> QED
    BY <2>3 DEF a
<1> QED
  BY <1>1, <1>2, <1>3

(* Where a granted block lies. *)
LEMMA GrantedRoom ==
  ASSUME HeapInvariant, NEW n, Modest(n), NEW r \in HeapAlloc(n),
         r.at # NULL
  PROVE  /\ r.at \in Nat /\ HeapStart \in Nat /\ BrkMax \in Nat /\ n \in Nat
         /\ r.at >= HeapStart /\ r.at + n <= BrkMax /\ heap_next <= r.at
<1>1. HeapStart \in Nat /\ BrkMax \in Nat /\ n \in Nat
  BY HeapAssumption DEF Modest
<1>2. /\ r.next \in HeapStart .. BrkMax /\ r.at \in HeapStart .. BrkMax
      /\ heap_next <= r.at /\ r.at + n <= r.next
  BY HeapAllocOutcome DEF GoodOutcome
<1> QED
  BY ONLY <1>1, <1>2

(* A granted call, seen by the program: a block of n bytes appears, the
   blocks of b that are live stay as they were. *)
LEMMA GrantedSeen ==
  ASSUME ModestRequests, HeapInvariant, HeapInvariant',
         NEW n \in Request, NEW r \in HeapAlloc(n), r.at # NULL,
         NEW b, SamePlaces(b), blocks' = Append(b, Block(r.at, n)),
         \A j \in 1 .. Len(blocks) : b[j].live => blocks[j].live,
         \A a \in HeapStart .. BrkMax - 1 : a < r.at => mem'[a] = mem[a]
  PROVE  LET c == Len(blocks) + 1
             kept == {j \in 1 .. Len(blocks) : b[j].live}
         IN /\ c \notin DOMAIN Contents
            /\ DOMAIN Contents' = kept \union {c}
            /\ Contents'[c] = [k \in 0 .. n - 1 |-> mem'[r.at + k]]
            /\ Contents'[c] \in [0 .. n - 1 -> Value]
            /\ kept \subseteq DOMAIN Contents
            /\ \A j \in kept : Contents'[j] = Contents[j]
<1> DEFINE c == Len(blocks) + 1
           kept == {j \in 1 .. Len(blocks) : b[j].live}
<1>1. /\ DOMAIN blocks = 1 .. Len(blocks) /\ Len(blocks) \in Nat
      /\ heap_next \in Nat
      /\ \A i \in 1 .. Len(blocks) :
           /\ blocks[i].at \in Nat /\ blocks[i].size \in Nat
           /\ blocks[i].at + blocks[i].size <= heap_next
  BY PlacesTyped
<1>2. r.at \in Nat /\ heap_next <= r.at /\ r.at >= HeapStart /\ HeapStart \in Nat
      /\ n \in Nat /\ BrkMax \in Nat
  BY HeapAllocOutcome, RequestModest, HeapAssumption DEF GoodOutcome
<1>3. /\ b \in Seq(BlockRecord) /\ Len(b) = Len(blocks)
      /\ \A i \in 1 .. Len(blocks) :
           b[i].at = blocks[i].at /\ b[i].size = blocks[i].size
  BY DEF SamePlaces
<1>4. /\ DOMAIN blocks' = 1 .. Len(blocks) + 1
      /\ \A i \in 1 .. Len(blocks) : blocks'[i] = b[i]
      /\ blocks'[c] = Block(r.at, n)
  BY <1>1, <1>3
<1>5. c \notin DOMAIN Contents
  BY <1>1 DEF Contents, Live
<1>6. Live' = kept \union {c}
  BY <1>1, <1>4 DEF Live, Block
<1>7. DOMAIN Contents' = kept \union {c}
  BY <1>6 DEF Contents
<1>8. kept \subseteq Live
  BY <1>1 DEF Live
<1>9. Contents'[c] = [k \in 0 .. n - 1 |-> mem'[r.at + k]]
  BY <1>4, <1>6 DEF Contents, Block
<1>10. Contents'[c] \in [0 .. n - 1 -> Value]
  <2>1. mem' \in [HeapStart .. BrkMax - 1 -> Value]
    BY DEF HeapInvariant, TypeOK
  <2>2. mem' \in [HeapStart .. BrkMax - 1 -> Value] /\ r.at + n <= BrkMax
    BY <2>1, GrantedRoom, RequestModest
  <2>3. \A k \in 0 .. n - 1 : r.at + k \in HeapStart .. BrkMax - 1
    BY <1>2, <2>2
  <2> QED
    BY <1>9, <2>2, <2>3
<1>11. ASSUME NEW j \in kept PROVE Contents'[j] = Contents[j]
  <2>1. j \in Live /\ j \in Live' /\ j \in 1 .. Len(blocks)
    BY <1>6, <1>8
  <2>2. blocks'[j].at = blocks[j].at /\ blocks'[j].size = blocks[j].size
    BY <1>3, <1>4, <2>1
  <2>3. \A a \in HeapStart .. BrkMax - 1 :
          (blocks[j].at <= a /\ a < blocks[j].at + blocks[j].size) => mem'[a] = mem[a]
    BY <1>1, <1>2, <2>1, SMTT(30)
  <2> QED
    BY <2>1, <2>2, <2>3, BlockKept
<1>12. kept \subseteq DOMAIN Contents
  BY <1>8 DEF Contents
<1> QED
  BY <1>5, <1>7, <1>9, <1>10, <1>11, <1>12

----------------------------------------------------------------------------
(* One lemma for each call: the step it is of AbstractHeap. *)

LEMMA StoredBelow ==
  ASSUME HeapInvariant, NEW at, NEW n, NEW f, Stored(at, n, f),
         NEW a \in HeapStart .. BrkMax - 1, ~ (a >= at /\ a < at + n)
  PROVE  mem'[a] = mem[a]
<1>1. DOMAIN mem = HeapStart .. BrkMax - 1
  BY DEF HeapInvariant, TypeOK
<1> QED
  BY <1>1 DEF Stored

LEMMA MallocSeen ==
  ASSUME ModestRequests, HeapInvariant, HeapInvariant', NEW n \in Request, Malloc(n)
  PROVE  [Abstract!Next]_Contents
<1>1. PICK r \in HeapAlloc(n) :
        blocks' = IF r.at = NULL THEN blocks ELSE Append(blocks, Block(r.at, n))
  BY DEF Malloc
<1>2. mem' = mem
  BY DEF Malloc
<1>3. CASE r.at = NULL
  BY <1>1, <1>2, <1>3 DEF Contents, Live
<1>4. CASE r.at # NULL
  <2> DEFINE c == Len(blocks) + 1
             kept == {j \in 1 .. Len(blocks) : blocks[j].live}
  <2>1. SamePlaces(blocks)
    BY PlacesTyped DEF SamePlaces
  <2>2. /\ c \notin DOMAIN Contents
        /\ DOMAIN Contents' = kept \union {c}
        /\ Contents'[c] \in [0 .. n - 1 -> Value]
        /\ \A j \in kept : Contents'[j] = Contents[j]
    BY <1>1, <1>2, <1>4, <2>1, GrantedSeen
  <2>3. DOMAIN Contents = kept
    BY PlacesTyped DEF Contents, Live
  <2>4. Abstract!Allocate(c, n)
    BY <2>2, <2>3 DEF Abstract!Allocate, Abstract!OthersKept, Abstract!Bytes
  <2>5. c \in DOMAIN Contents' \ DOMAIN Contents
    BY <2>2
  <2> QED
    BY <2>4, <2>5 DEF Abstract!Next
<1> QED
  BY <1>3, <1>4

LEMMA CallocSeen ==
  ASSUME ModestRequests, HeapInvariant, HeapInvariant', NEW n \in Request, Calloc(n)
  PROVE  [Abstract!Next]_Contents
<1> DEFINE zeros == [k \in 0 .. n - 1 |-> 0]
<1>1. PICK r \in HeapAlloc(n) :
        IF r.at = NULL
          THEN UNCHANGED <<mem, fault, blocks>>
          ELSE /\ Stored(r.at, n, zeros)
               /\ Accessed({r.at}, n)
               /\ blocks' = Append(blocks, Block(r.at, n))
  BY DEF Calloc
<1>2. CASE r.at = NULL
  BY <1>1, <1>2 DEF Contents, Live
<1>3. CASE r.at # NULL
  <2> DEFINE c == Len(blocks) + 1
             kept == {j \in 1 .. Len(blocks) : blocks[j].live}
  <2>1. SamePlaces(blocks)
    BY PlacesTyped DEF SamePlaces
  <2>2. /\ r.at \in Nat /\ HeapStart \in Nat /\ BrkMax \in Nat /\ n \in Nat
        /\ r.at >= HeapStart /\ r.at + n <= BrkMax
    BY <1>3, GrantedRoom, RequestModest
  <2>3. \A a \in HeapStart .. BrkMax - 1 : a < r.at => mem'[a] = mem[a]
    BY <1>1, <1>3, <2>2, StoredBelow
  <2>4. /\ c \notin DOMAIN Contents
        /\ DOMAIN Contents' = kept \union {c}
        /\ Contents'[c] = [k \in 0 .. n - 1 |-> mem'[r.at + k]]
        /\ Contents'[c] \in [0 .. n - 1 -> Value]
        /\ \A j \in kept : Contents'[j] = Contents[j]
    BY <1>1, <1>3, <2>1, <2>3, GrantedSeen
  <2>5. DOMAIN Contents = kept
    BY PlacesTyped DEF Contents, Live
  <2>6. \A k \in 0 .. n - 1 : Contents'[c][k] = 0
    <3> SUFFICES ASSUME NEW k \in 0 .. n - 1 PROVE mem'[r.at + k] = 0
      BY <2>4
    <3>1. r.at + k \in DOMAIN mem /\ r.at + k >= r.at /\ r.at + k < r.at + n
      BY <2>2 DEF HeapInvariant, TypeOK
    <3>2. (r.at + k) - r.at = k
      BY <2>2
    <3> QED
      BY <1>1, <1>3, <3>1, <3>2 DEF Stored
  <2>7. Abstract!AllocateZeroed(c, n)
    BY <2>4, <2>5, <2>6
       DEF Abstract!AllocateZeroed, Abstract!Allocate, Abstract!OthersKept,
           Abstract!Bytes
  <2>8. c \in DOMAIN Contents' \ DOMAIN Contents
    BY <2>4
  <2> QED
    BY <2>7, <2>8 DEF Abstract!Next
<1> QED
  BY <1>2, <1>3

LEMMA FreeSeen ==
  ASSUME HeapInvariant, NEW i \in Live, Free(i)
  PROVE  [Abstract!Next]_Contents
<1>1. blocks \in Seq(BlockRecord) /\ i \in DOMAIN blocks
  BY BlockFacts DEF Live
<1>2. blocks' = [blocks EXCEPT ![i].live = FALSE] /\ mem' = mem
  BY DEF Free
<1>3. SamePlaces(blocks')
  BY <1>2, FreedPlaces
<1>4. Live' = Live \ {i}
  BY <1>1, <1>2 DEF Live
<1>5. ASSUME NEW j \in Live \ {i} PROVE Contents'[j] = Contents[j]
  <2>1. blocks'[j].at = blocks[j].at /\ blocks'[j].size = blocks[j].size
    BY <1>3, BlockFacts DEF SamePlaces
  <2> QED
    BY <1>2, <1>4, <2>1, BlockKept
<1>6. DOMAIN Contents = Live /\ DOMAIN Contents' = Live \ {i}
  BY <1>4 DEF Contents
<1>7. Abstract!Free(i)
  BY <1>5, <1>6 DEF Abstract!Free, Abstract!OthersKept
<1> QED
  BY <1>6, <1>7 DEF Abstract!Next

(* The copy loop reads the old bytes: the block lies wholly before the new
   one, so the bytes that repeat are those past its end. *)
LEMMA OldBytesCopied ==
  ASSUME HeapInvariant, NEW i \in Live, NEW new \in Nat, heap_next <= new,
         NEW n \in Nat, NEW k \in 0 .. n - 1, k < blocks[i].size
  PROVE  CopiedByte(blocks[i].at, new, n, k) = mem[blocks[i].at + k]
<1> DEFINE d == new - blocks[i].at
<1>1. d \in Nat \ {0} /\ k \in Nat /\ k < d
  BY BlockFacts
<1> HIDE DEF d
<1>2. k % d = k
  BY <1>1, SmallMod
<1> QED
  BY <1>2 DEF CopiedByte, d

LEMMA ReAllocSeen ==
  ASSUME ModestRequests, NoZeroing, HeapInvariant, HeapInvariant',
         NEW i \in Live, NEW n \in Request, NEW zero \in ZeroFlags,
         ReAlloc(i, n, zero)
  PROVE  [Abstract!Next]_Contents
<1> DEFINE p == blocks[i].at
           freed == [blocks EXCEPT ![i].live = FALSE]
<1>1. zero = FALSE
  BY DEF NoZeroing
<1>2. PICK r \in HeapAlloc(n) :
        IF r.at = NULL
          THEN UNCHANGED <<mem, fault, blocks>>
          ELSE /\ Stored(r.at, n, [k \in 0 .. n - 1 |-> CopiedByte(p, r.at, n, k)])
               /\ blocks' = Append(freed, Block(r.at, n))
  BY <1>1 DEF ReAlloc
<1>3. CASE r.at = NULL
  BY <1>2, <1>3 DEF Contents, Live
<1>4. CASE r.at # NULL
  <2> DEFINE c == Len(blocks) + 1
             kept == {j \in 1 .. Len(blocks) : freed[j].live}
  <2>1. SamePlaces(freed)
    BY FreedPlaces
  <2>2. /\ r.at \in Nat /\ HeapStart \in Nat /\ BrkMax \in Nat /\ n \in Nat
        /\ r.at >= HeapStart /\ r.at + n <= BrkMax /\ heap_next <= r.at
    BY <1>4, GrantedRoom, RequestModest
  <2>3. \A a \in HeapStart .. BrkMax - 1 : a < r.at => mem'[a] = mem[a]
    BY <1>2, <1>4, <2>2, StoredBelow
  <2>4. /\ i \in 1 .. Len(blocks)
        /\ \A j \in 1 .. Len(blocks) : freed[j].live => blocks[j].live
        /\ kept = Live \ {i}
    <3>1. /\ DOMAIN blocks = 1 .. Len(blocks) /\ i \in 1 .. Len(blocks)
          /\ \A j \in 1 .. Len(blocks) : blocks[j] \in BlockRecord
      BY PlacesTyped, BlockFacts
    <3>2. \A j \in 1 .. Len(blocks) :
            freed[j].live = IF j = i THEN FALSE ELSE blocks[j].live
      BY <3>1 DEF BlockRecord
    <3> QED
      BY <3>1, <3>2 DEF Live
  <2>5. /\ c \notin DOMAIN Contents
        /\ DOMAIN Contents' = kept \union {c}
        /\ Contents'[c] = [k \in 0 .. n - 1 |-> mem'[r.at + k]]
        /\ Contents'[c] \in [0 .. n - 1 -> Value]
        /\ \A j \in kept : Contents'[j] = Contents[j]
    <3> HIDE DEF freed
    <3> QED
      BY <1>2, <1>4, <2>1, <2>3, <2>4, GrantedSeen
  <2> HIDE DEF freed, kept
  <2>6. DOMAIN Contents = Live /\ DOMAIN Contents[i] = 0 .. blocks[i].size - 1
    BY ContentsFacts
  <2>7. ASSUME NEW k \in (0 .. n - 1) \intersect (0 .. blocks[i].size - 1)
        PROVE  Contents'[c][k] = Contents[i][k]
    <3>1. r.at + k \in DOMAIN mem /\ r.at + k >= r.at /\ r.at + k < r.at + n
      <4>1. DOMAIN mem = HeapStart .. BrkMax - 1 /\ k \in 0 .. n - 1
        BY DEF HeapInvariant, TypeOK
      <4> QED
        BY ONLY <2>2, <4>1
    <3>2. (r.at + k) - r.at = k /\ k < blocks[i].size
      BY <2>2, BlockFacts
    <3>3. mem'[r.at + k] = CopiedByte(p, r.at, n, k)
      BY <1>2, <1>4, <3>1, <3>2 DEF Stored
    <3>4. CopiedByte(p, r.at, n, k) = mem[p + k]
      BY <2>2, <3>2, OldBytesCopied
    <3>5. Contents[i][k] = mem[p + k]
      <4>1. /\ Contents[i] = [j \in 0 .. blocks[i].size - 1 |-> mem[blocks[i].at + j]]
            /\ k \in 0 .. blocks[i].size - 1
        BY <2>2, ContentsFacts
      <4> QED
        BY ONLY <4>1 DEF p
    <3> QED
      BY <2>5, <3>3, <3>4, <3>5
  <2>8. Abstract!Resize(i, c, n)
    <3>1. DOMAIN Contents' = (DOMAIN Contents \ {i}) \union {c}
      BY <2>4, <2>5, <2>6
    <3>2. Abstract!OthersKept({i})
      BY <2>4, <2>5, <2>6 DEF Abstract!OthersKept
    <3> QED
      BY <2>5, <2>6, <2>7, <3>1, <3>2 DEF Abstract!Resize, Abstract!Bytes
  <2>9. c \in DOMAIN Contents' \ DOMAIN Contents
    BY <2>5
  <2> QED
    BY <2>6, <2>8, <2>9 DEF Abstract!Next
<1> QED
  BY <1>3, <1>4

LEMMA WriteSeen ==
  ASSUME PromiseInvariant, NEW i \in Live, NEW k \in 0 .. blocks[i].size - 1,
         NEW v \in Value, Write(i, k, v)
  PROVE  [Abstract!Next]_Contents
<1> DEFINE at == blocks[i].at + k
<1>1. HeapInvariant
  BY DEF PromiseInvariant
<1>2. blocks' = blocks /\ mem' = [mem EXCEPT ![at] = v]
  BY DEF Write
<1>3. Live' = Live
  BY <1>2 DEF Live
<1>4. /\ at \in HeapStart .. BrkMax - 1
      /\ blocks[i].at <= at /\ at < blocks[i].at + blocks[i].size
      /\ blocks[i].at \in Nat /\ blocks[i].size \in Nat
  <2>1. /\ blocks[i].at \in Nat /\ blocks[i].size \in Nat
        /\ blocks[i].at >= HeapStart /\ HeapStart \in Nat /\ BrkMax \in Nat
        /\ blocks[i].at + blocks[i].size <= BrkMax
    BY <1>1, BlockFacts, HeapAssumption
  <2> QED
    BY ONLY <2>1, k \in 0 .. blocks[i].size - 1
<1>5. DOMAIN mem = HeapStart .. BrkMax - 1
  BY <1>1 DEF HeapInvariant, TypeOK
<1> HIDE DEF at
<1>6. ASSUME NEW j \in Live, j # i PROVE Contents'[j] = Contents[j]
  <2>1. /\ blocks[j].at \in Nat /\ blocks[j].size \in Nat
        /\ i \in Nat /\ j \in Nat
    BY <1>1, BlockFacts
  <2>2. \/ blocks[i].at + blocks[i].size <= blocks[j].at
        \/ blocks[j].at + blocks[j].size <= blocks[i].at
    BY <1>6, <2>1 DEF PromiseInvariant, BlocksApart, Live
  <2>3. \A a \in HeapStart .. BrkMax - 1 :
          (blocks[j].at <= a /\ a < blocks[j].at + blocks[j].size) => a # at
    BY <1>4, <2>1, <2>2, HeapAssumption
  <2>4. \A a \in HeapStart .. BrkMax - 1 :
          (blocks[j].at <= a /\ a < blocks[j].at + blocks[j].size) => mem'[a] = mem[a]
    BY <1>2, <1>5, <2>3
  <2> QED
    BY <1>1, <1>2, <1>3, <2>4, BlockKept
<1>7. Contents'[i] = [Contents[i] EXCEPT ![k] = v]
  <2> DEFINE old == [l \in 0 .. blocks[i].size - 1 |-> mem[blocks[i].at + l]]
             new == [l \in 0 .. blocks[i].size - 1 |-> mem'[blocks[i].at + l]]
  <2>1. Contents[i] = old /\ Contents'[i] = new
    BY <1>2, <1>3 DEF Contents
  <2>2. ASSUME NEW l \in 0 .. blocks[i].size - 1
        PROVE  new[l] = IF l = k THEN v ELSE old[l]
    <3>1. (blocks[i].at + l = at) <=> (l = k)
      BY <1>4 DEF at
    <3>2. CASE l = k
      BY <1>2, <1>4, <1>5, <3>1, <3>2
    <3>3. CASE l # k
      <4>1. blocks[i].at + l \in HeapStart .. BrkMax - 1
        <5>1. /\ blocks[i].at >= HeapStart /\ HeapStart \in Nat /\ BrkMax \in Nat
              /\ blocks[i].at + blocks[i].size <= BrkMax
          BY <1>1, BlockFacts, HeapAssumption
        <5> QED
          BY <1>4, <5>1
      <4> QED
        BY <1>2, <1>5, <3>1, <3>3, <4>1
    <3> QED
      BY <3>2, <3>3
  <2>3. new = [l \in 0 .. blocks[i].size - 1 |-> IF l = k THEN v ELSE old[l]]
    BY <2>2
  <2>4. [old EXCEPT ![k] = v]
          = [l \in 0 .. blocks[i].size - 1 |-> IF l = k THEN v ELSE old[l]]
    OBVIOUS
  <2> QED
    BY <2>1, <2>3, <2>4
<1>8. Contents' = [Contents EXCEPT ![i][k] = v]
  <2>1. /\ Contents = [j \in Live |-> Contents[j]]
        /\ Contents' = [j \in Live |-> Contents'[j]]
    BY <1>3 DEF Contents
  <2>2. [Contents EXCEPT ![i][k] = v]
          = [j \in Live |-> IF j = i THEN [Contents[i] EXCEPT ![k] = v] ELSE Contents[j]]
    BY DEF Contents
  <2>3. \A j \in Live :
          Contents'[j] = IF j = i THEN [Contents[i] EXCEPT ![k] = v] ELSE Contents[j]
    BY <1>6, <1>7
  <2> QED
    BY <2>1, <2>2, <2>3
<1>9. i \in DOMAIN Contents /\ k \in DOMAIN Contents[i]
  BY <1>1, ContentsFacts
<1> QED
  BY <1>8, <1>9 DEF Abstract!Next, Abstract!Write

----------------------------------------------------------------------------
LEMMA PromiseStep ==
  ASSUME ModestRequests, NoZeroing, PromiseInvariant, PromiseInvariant', [Next]_vars
  PROVE  [Abstract!Next]_Contents
<1>1. HeapInvariant /\ HeapInvariant'
  BY DEF PromiseInvariant
<1>2. ASSUME NEW n \in Request, Malloc(n) PROVE [Abstract!Next]_Contents
  BY <1>1, <1>2, MallocSeen
<1>3. ASSUME NEW n \in Request, Calloc(n) PROVE [Abstract!Next]_Contents
  BY <1>1, <1>3, CallocSeen
<1>4. ASSUME NEW i \in Live, Free(i) PROVE [Abstract!Next]_Contents
  BY <1>1, <1>4, FreeSeen
<1>5. ASSUME NEW i \in Live, NEW n \in Request, NEW zero \in ZeroFlags,
             ReAlloc(i, n, zero)
      PROVE  [Abstract!Next]_Contents
  BY <1>1, <1>5, ReAllocSeen
<1>6. ASSUME NEW i \in Live, NEW k \in 0 .. blocks[i].size - 1, NEW v \in Value,
             Write(i, k, v)
      PROVE  [Abstract!Next]_Contents
  BY <1>6, WriteSeen
<1>7. CASE UNCHANGED vars
  BY <1>7 DEF vars, Contents, Live
<1> QED
  BY <1>2, <1>3, <1>4, <1>5, <1>6, <1>7 DEF Next

(* For every heap, every alignment and every choice of the kernel: what the
   program sees of its blocks changes as AbstractHeap says, provided no
   request is near 2^32 and HeapReAlloc() is not asked to zero. *)
THEOREM HeapKeepsPromise == ModestRequests /\ NoZeroing => (Spec => KeepsPromise)
<1> SUFFICES ASSUME ModestRequests, NoZeroing PROVE Spec => KeepsPromise
  OBVIOUS
<1>1. Init => Abstract!Init
  BY DEF Init, Abstract!Init, Contents, Live
<1>2. PromiseInvariant /\ PromiseInvariant' /\ [Next]_vars => [Abstract!Next]_Contents
  BY PromiseStep
<1>3. Spec => []PromiseInvariant
  BY PromiseInvariantAlways
<1> QED
  BY <1>1, <1>2, <1>3, PTL DEF Spec, KeepsPromise, Abstract!Spec

----------------------------------------------------------------------------
(* The strings the shim makes for the program are whole and stay whole:      *)
(* they have room in the blocks they are written to, and no block of the     *)
(* program's is where they are.                                              *)

(* The strings of a process are short enough that addresses do not wrap. *)
ModestStrings ==
  \A ss \in Argvs \union Envps : BrkMax + Total(ss) + ALIGN < WORD

(* What is written for argv. *)
CommandLine(argv) == Append(Joined(argv), 0)

(* text stands at address in bytes, within one of the blocks bs. *)
TextIn(text, address, bs, bytes) ==
  /\ \E i \in DOMAIN bs : bs[i].at = address /\ Len(text) <= bs[i].size
  /\ \A k \in 1 .. Len(text) : bytes[address + k - 1] = text[k]

StringsTyped ==
  /\ shim_argv \in Argvs /\ shim_envp \in Envps
  /\ shim_argv \in Seq(Seq(Value)) /\ shim_envp \in Seq(Seq(Value))

StringsStand ==
  /\ shim_cmdline # NULL => TextIn(CommandLine(shim_argv), shim_cmdline, blocks, mem)
  /\ g_env_block # NULL => TextIn(Listed(shim_envp), g_env_block, blocks, mem)

EnvInvariant == PromiseInvariant /\ StringsTyped /\ StringsStand

----------------------------------------------------------------------------
(* The strings written for ss, and how much room they take. *)

Arguments(argv) ==
  [i \in DOMAIN argv |-> IF i > 1 THEN <<SPACE>> \o argv[i] ELSE argv[i]]
Items(envp) == [i \in DOMAIN envp |-> Append(envp[i], 0)]

LEMMA ArgumentsFacts ==
  ASSUME NEW argv \in Seq(Seq(Value))
  PROVE  /\ Arguments(argv) \in Seq(Seq(Value))
         /\ Longer(Arguments(argv), argv, 0)
         /\ CommandLine(argv) = Append(FlattenSeq(Arguments(argv)), 0)
<1> DEFINE n == Len(argv)
           part == Arguments(argv)
<1>1. SPACE \in Value
  BY StringsAssumption
<1>2. n \in Nat /\ DOMAIN argv = 1 .. n
  OBVIOUS
<1>3. \A i \in 1 .. n :
        /\ part[i] \in Seq(Value)
        /\ Len(part[i]) = Len(argv[i]) + (IF i = 1 THEN 0 ELSE 1)
  <2> TAKE i \in 1 .. n
  <2>1. argv[i] \in Seq(Value) /\ Len(argv[i]) + 0 = Len(argv[i])
    OBVIOUS
  <2>2. CASE i = 1
    <3>1. part[i] = argv[i]
      BY <1>2, <2>2 DEF Arguments
    <3> HIDE DEF part
    <3> QED
      BY <2>1, <2>2, <3>1
  <2>3. CASE i # 1
    <3>1. part[i] = <<SPACE>> \o argv[i]
      BY <1>2, <2>3 DEF Arguments
    <3>2. <<SPACE>> \in Seq(Value) /\ Len(<<SPACE>>) = 1
      BY <1>1
    <3>3. /\ <<SPACE>> \o argv[i] \in Seq(Value)
          /\ Len(<<SPACE>> \o argv[i]) = Len(argv[i]) + 1
      BY <2>1, <3>2
    <3> HIDE DEF part
    <3> QED
      BY ONLY <2>3, <3>1, <3>3
  <2> QED
    BY <2>2, <2>3
<1>4. part = [i \in 1 .. n |-> part[i]]
  BY <1>2 DEF Arguments
<1> HIDE DEF part, n
<1>5. part \in Seq(Seq(Value)) /\ Len(part) = n
  BY ONLY <1>2, <1>3, <1>4, ListTyped
<1>6. Longer(part, argv, 0)
  BY <1>3, <1>5 DEF Longer, n
<1>7. CommandLine(argv) = Append(FlattenSeq(part), 0)
  BY DEF CommandLine, Joined, Concat, Arguments, part
<1> QED
  BY <1>5, <1>6, <1>7 DEF part

LEMMA ItemsFacts ==
  ASSUME NEW envp \in Seq(Seq(Value))
  PROVE  /\ Items(envp) \in Seq(Seq(Value))
         /\ Longer(Items(envp), envp, 1)
         /\ Listed(envp) = Append(FlattenSeq(Items(envp)), 0)
<1> DEFINE n == Len(envp)
           item == Items(envp)
<1>1. 0 \in Value
  BY HeapAssumption
<1>2. n \in Nat /\ DOMAIN envp = 1 .. n
  OBVIOUS
<1>3. \A i \in 1 .. n :
        item[i] \in Seq(Value) /\ Len(item[i]) = Len(envp[i]) + (IF i = 1 THEN 1 ELSE 1)
  <2> TAKE i \in 1 .. n
  <2>1. envp[i] \in Seq(Value)
    OBVIOUS
  <2>2. item[i] = Append(envp[i], 0)
    BY <1>2 DEF Items
  <2> HIDE DEF item
  <2> QED
    BY <1>1, <2>1, <2>2
<1>4. item = [i \in 1 .. n |-> item[i]]
  BY <1>2 DEF Items
<1> HIDE DEF item, n
<1>5. item \in Seq(Seq(Value)) /\ Len(item) = n
  BY ONLY <1>2, <1>3, <1>4, ListTyped
<1>6. Longer(item, envp, 1)
  BY <1>3, <1>5 DEF Longer, n
<1>7. Listed(envp) = Append(FlattenSeq(item), 0)
  BY DEF Listed, Concat, Items, item
<1> QED
  BY <1>5, <1>6, <1>7 DEF item

(* "total" has room for either. *)
LEMMA TextFits ==
  ASSUME NEW ss \in Seq(Seq(Value)), NEW tt \in Seq(Seq(Value)), NEW first \in {0, 1},
         Longer(tt, ss, first)
  PROVE  /\ Append(FlattenSeq(tt), 0) \in Seq(Value)
         /\ Len(Append(FlattenSeq(tt), 0)) = Len(FlattenSeq(tt)) + 1
         /\ Len(Append(FlattenSeq(tt), 0)) <= Total(ss)
         /\ Total(ss) \in Nat
<1>1. FlattenSeq(tt) \in Seq(Value) /\ FlattenSeq(ss) \in Seq(Value) /\ 0 \in Value
  BY FlattenTyped, HeapAssumption
<1> DEFINE a == Len(FlattenSeq(ss))
           b == Len(FlattenSeq(tt))
           n == Len(ss)
<1>2. a \in Nat /\ b \in Nat /\ n \in Nat
  BY <1>1
<1>3. Append(FlattenSeq(tt), 0) \in Seq(Value) /\ Len(Append(FlattenSeq(tt), 0)) = b + 1
  BY <1>1
<1>4. /\ LengthTo(ss, n) = a /\ LengthTo(tt, n) = b
      /\ LengthTo(ss, 0) = 0 /\ LengthTo(tt, 0) = 0
  BY LengthsTo DEF Longer
<1>5. Total(ss) = 1 + a + n
  BY DEF Total, Concat
<1> HIDE DEF a, b, n
<1>6. b <= a + n
  <2>1. CASE n = 0
    BY ONLY <1>2, <1>4, <2>1
  <2>2. CASE n # 0
    <3>1. n \in 1 .. Len(ss)
      BY <1>2, <2>2 DEF n
    <3>2. LengthTo(tt, n) = LengthTo(ss, n) + n - 1 + first
      BY <3>1, LongerStrings
    <3> QED
      BY ONLY <1>2, <1>4, <3>2, first \in {0, 1}
  <2> QED
    BY <2>1, <2>2
<1> QED
  BY <1>2, <1>3, <1>5, <1>6 DEF b

LEMMA StringsFit ==
  ASSUME StringsTyped, ModestRequests, ModestStrings
  PROVE  /\ CommandLine(shim_argv) \in Seq(Value)
         /\ Len(CommandLine(shim_argv)) <= Total(shim_argv)
         /\ Modest(Total(shim_argv))
         /\ Listed(shim_envp) \in Seq(Value)
         /\ Len(Listed(shim_envp)) <= Total(shim_envp)
         /\ Modest(Total(shim_envp))
<1>1. shim_argv \in Seq(Seq(Value)) /\ shim_envp \in Seq(Seq(Value))
  BY DEF StringsTyped
<1>2. /\ CommandLine(shim_argv) \in Seq(Value) /\ Total(shim_argv) \in Nat
      /\ Len(CommandLine(shim_argv)) <= Total(shim_argv)
  BY <1>1, ArgumentsFacts, TextFits
<1>3. /\ Listed(shim_envp) \in Seq(Value) /\ Total(shim_envp) \in Nat
      /\ Len(Listed(shim_envp)) <= Total(shim_envp)
  BY <1>1, ItemsFacts, TextFits
<1> QED
  BY <1>2, <1>3 DEF Modest, ModestRequests, ModestStrings, StringsTyped

----------------------------------------------------------------------------
(* A text stays where no one writes. *)

BlocksStay ==
  \A i \in DOMAIN blocks :
    /\ i \in DOMAIN blocks'
    /\ blocks'[i].at = blocks[i].at /\ blocks'[i].size = blocks[i].size

LEMMA TextPlaced ==
  ASSUME HeapInvariant, NEW text \in Seq(Value), NEW address,
         TextIn(text, address, blocks, mem)
  PROVE  /\ address \in Nat
         /\ \A k \in 1 .. Len(text) :
              /\ address + k - 1 \in HeapStart .. BrkMax - 1
              /\ address + k - 1 < heap_next
<1>1. PICK i \in DOMAIN blocks : blocks[i].at = address /\ Len(text) <= blocks[i].size
  BY DEF TextIn
<1>2. /\ blocks[i].at \in Nat /\ blocks[i].size \in Nat /\ HeapStart <= blocks[i].at
      /\ blocks[i].at + blocks[i].size <= heap_next /\ heap_next \in Nat
  BY <1>1, PlacesTyped
<1>3. heap_next <= BrkMax /\ BrkMax \in Nat /\ HeapStart \in Nat /\ Len(text) \in Nat
  BY HeapAssumption DEF HeapInvariant, TypeOK
<1> QED
  BY ONLY <1>1, <1>2, <1>3

LEMMA TextStays ==
  ASSUME HeapInvariant, NEW text \in Seq(Value), NEW address,
         TextIn(text, address, blocks, mem), BlocksStay,
         \A a \in HeapStart .. BrkMax - 1 : a < heap_next => mem'[a] = mem[a]
  PROVE  TextIn(text, address, blocks', mem')
<1>1. \E i \in DOMAIN blocks' : blocks'[i].at = address /\ Len(text) <= blocks'[i].size
  BY DEF TextIn, BlocksStay
<1>2. \A k \in 1 .. Len(text) : mem'[address + k - 1] = text[k]
  BY TextPlaced DEF TextIn
<1> QED
  BY <1>1, <1>2 DEF TextIn

LEMMA AppendedStay ==
  ASSUME HeapInvariant, NEW b, SamePlaces(b), NEW x, blocks' = Append(b, x)
  PROVE  BlocksStay
<1>1. /\ DOMAIN blocks = 1 .. Len(blocks) /\ Len(blocks) \in Nat
      /\ b \in Seq(BlockRecord) /\ Len(b) = Len(blocks)
      /\ \A i \in 1 .. Len(blocks) : b[i].at = blocks[i].at /\ b[i].size = blocks[i].size
  BY PlacesTyped DEF SamePlaces
<1>2. /\ \A i \in 1 .. Len(blocks) : i \in DOMAIN blocks' /\ blocks'[i] = b[i]
  BY <1>1
<1> QED
  BY <1>1, <1>2 DEF BlocksStay

LEMMA MakesBlockKeeps ==
  ASSUME PromiseInvariant, NEW total, Modest(total), NEW text \in Seq(Value),
         Len(text) <= total, NEW address, MakesBlock(total, text, address)
  PROVE  /\ PromiseInvariant'
         /\ BlocksStay
         /\ \A a \in HeapStart .. BrkMax - 1 : a < heap_next => mem'[a] = mem[a]
         /\ address # NULL => TextIn(text, address, blocks', mem')
<1> DEFINE m == Len(text)
           f == [k \in 0 .. m - 1 |-> text[k + 1]]
<1>1. PICK r \in HeapAlloc(total) : Filled(r, total, m, f) /\ address = r.at
  BY DEF MakesBlock, Filled
<1>2. m \in Nat /\ f \in [0 .. m - 1 -> Value] /\ HeapInvariant
  BY DEF PromiseInvariant
<1>a. \A k \in 1 .. m : f[k - 1] = text[k]
  <2> TAKE k \in 1 .. m
  <2>1. k - 1 \in 0 .. m - 1 /\ (k - 1) + 1 = k
    BY <1>2
  <2> QED
    BY <2>1
<1> HIDE DEF f
<1>3. HeapInvariant'
  BY <1>1, <1>2, FilledKeeps DEF m
<1>4. SamePlaces(blocks)
  BY <1>2, PlacesTyped DEF SamePlaces
<1>5. CASE r.at = NULL
  <2>1. UNCHANGED <<mem, blocks>>
    BY <1>1, <1>5 DEF Filled
  <2> QED
    BY <1>1, <1>3, <1>4, <1>5, <2>1, SamePlacesApart DEF PromiseInvariant, BlocksStay
<1>6. CASE r.at # NULL
  <2>1. Stored(r.at, m, f) /\ blocks' = Append(blocks, Block(r.at, total))
    BY <1>1, <1>6 DEF Filled
  <2>2. BlocksApart' /\ BlocksStay
    BY <1>2, <1>4, <1>6, <2>1, GrantedApart, AppendedStay
  <2>3. /\ r.at \in Nat /\ HeapStart \in Nat /\ BrkMax \in Nat /\ total \in Nat
        /\ r.at >= HeapStart /\ r.at + total <= BrkMax /\ heap_next <= r.at
        /\ heap_next \in Nat
    BY <1>2, <1>6, GrantedRoom, PlacesTyped
  <2>4. \A a \in HeapStart .. BrkMax - 1 : a < heap_next => mem'[a] = mem[a]
    BY <1>2, <2>1, <2>3, StoredBelow
  <2>5. TextIn(text, r.at, blocks', mem')
    <3>1. /\ Len(blocks) + 1 \in DOMAIN blocks'
          /\ blocks'[Len(blocks) + 1].at = r.at /\ blocks'[Len(blocks) + 1].size = total
      BY <1>2, <2>1, PlacesTyped DEF Block
    <3>2. \A k \in 1 .. m : mem'[r.at + k - 1] = text[k]
      <4> TAKE k \in 1 .. m
      <4> DEFINE a == r.at + k - 1
      <4>1. /\ a \in HeapStart .. BrkMax - 1 /\ a >= r.at /\ a < r.at + m /\ a - r.at = k - 1
        BY <1>2, <2>3, SMTT(30) DEF m
      <4>2. DOMAIN mem = HeapStart .. BrkMax - 1
        BY <1>2 DEF HeapInvariant, TypeOK
      <4> HIDE DEF a, m
      <4>3. mem'[a] = f[a - r.at]
        BY <2>1, <4>1, <4>2 DEF Stored
      <4> QED
        BY <1>a, <4>1, <4>3 DEF a
    <3> QED
      BY <3>1, <3>2 DEF TextIn
  <2> QED
    BY <1>1, <1>3, <2>2, <2>4, <2>5 DEF PromiseInvariant
<1> QED
  BY <1>5, <1>6

(* The program's calls and its writes to its own blocks. *)
LEMMA ProgramSpares ==
  ASSUME ModestRequests, PromiseInvariant, NEW text \in Seq(Value), NEW address,
         TextIn(text, address, blocks, mem), address \in {shim_cmdline, g_env_block},
         Program
  PROVE  TextIn(text, address, blocks', mem')
<1>1. HeapInvariant /\ SamePlaces(blocks)
  BY PlacesTyped DEF PromiseInvariant, SamePlaces
<1>2. CASE UNCHANGED <<blocks, mem>>
  BY <1>2 DEF TextIn
<1>3. ASSUME NEW n \in Request, Malloc(n) \/ Calloc(n)
      PROVE  TextIn(text, address, blocks', mem')
  <2>1. PICK r \in HeapAlloc(n) :
          IF r.at = NULL
            THEN UNCHANGED <<mem, blocks>>
            ELSE /\ mem' = mem \/ Stored(r.at, n, [k \in 0 .. n - 1 |-> 0])
                 /\ blocks' = Append(blocks, Block(r.at, n))
    BY <1>3 DEF Malloc, Calloc
  <2>2. CASE r.at = NULL
    BY <1>2, <2>1, <2>2
  <2>3. CASE r.at # NULL
    <3>1. BlocksStay
      BY <1>1, <2>1, <2>3, AppendedStay
    <3>2. r.at \in Nat /\ heap_next <= r.at /\ heap_next \in Nat /\ HeapStart \in Nat
      BY <1>1, <2>3, GrantedRoom, RequestModest, PlacesTyped
    <3>3. \A a \in HeapStart .. BrkMax - 1 : a < heap_next => mem'[a] = mem[a]
      BY <1>1, <2>1, <2>3, <3>2, StoredBelow
    <3> QED
      BY <1>1, <3>1, <3>3, TextStays
  <2> QED
    BY <2>2, <2>3
<1>4. ASSUME NEW i \in Live, Free(i)
      PROVE  TextIn(text, address, blocks', mem')
  <2>1. SamePlaces(blocks') /\ mem' = mem
    BY <1>1, <1>4, FreedPlaces DEF Free
  <2>2. BlocksStay
    BY <1>1, <2>1, PlacesTyped DEF SamePlaces, BlocksStay
  <2> QED
    BY <1>1, <2>1, <2>2, TextStays
<1>5. ASSUME NEW i \in Live, NEW n \in Request, NEW zero \in ZeroFlags, ReAlloc(i, n, zero)
      PROVE  TextIn(text, address, blocks', mem')
  <2> DEFINE freed == [blocks EXCEPT ![i].live = FALSE]
  <2>1. PICK r \in HeapAlloc(n) :
          IF r.at = NULL
            THEN UNCHANGED <<mem, blocks>>
            ELSE /\ Stored(r.at, n,
                      [k \in 0 .. n - 1 |->
                         IF zero THEN 0 ELSE CopiedByte(blocks[i].at, r.at, n, k)])
                 /\ blocks' = Append(freed, Block(r.at, n))
    BY <1>5 DEF ReAlloc
  <2>2. SamePlaces(freed)
    BY <1>1, FreedPlaces
  <2> HIDE DEF freed
  <2>3. CASE r.at = NULL
    BY <1>2, <2>1, <2>3
  <2>4. CASE r.at # NULL
    <3>1. BlocksStay
      BY <1>1, <2>1, <2>2, <2>4, AppendedStay
    <3>2. r.at \in Nat /\ heap_next <= r.at /\ heap_next \in Nat /\ HeapStart \in Nat
      BY <1>1, <2>4, GrantedRoom, RequestModest, PlacesTyped
    <3>3. \A a \in HeapStart .. BrkMax - 1 : a < heap_next => mem'[a] = mem[a]
      BY <1>1, <2>1, <2>4, <3>2, StoredBelow
    <3> QED
      BY <1>1, <3>1, <3>3, TextStays
  <2> QED
    BY <2>3, <2>4
<1>6. ASSUME NEW i \in Owned, NEW k \in 0 .. blocks[i].size - 1, NEW v \in Value, Write(i, k, v)
      PROVE  TextIn(text, address, blocks', mem')
  <2> DEFINE at == blocks[i].at + k
  <2>1. mem' = [mem EXCEPT ![at] = v] /\ blocks' = blocks
    BY <1>6 DEF Write
  <2>2. PICK j \in DOMAIN blocks : blocks[j].at = address /\ Len(text) <= blocks[j].size
    BY DEF TextIn
  <2>3. i \in DOMAIN blocks /\ i # j
    BY <2>2 DEF Owned, Live
  <2>4. /\ blocks[i].at \in Nat /\ blocks[i].size \in Nat /\ i \in Nat
        /\ blocks[j].at \in Nat /\ blocks[j].size \in Nat /\ j \in Nat
    BY <1>1, <2>2, <2>3, PlacesTyped
  <2>5. \/ blocks[i].at + blocks[i].size <= blocks[j].at
        \/ blocks[j].at + blocks[j].size <= blocks[i].at
    BY <2>3, <2>4 DEF PromiseInvariant, BlocksApart
  <2>6. ASSUME NEW l \in 1 .. Len(text) PROVE mem'[address + l - 1] = text[l]
    <3> DEFINE a == address + l - 1
    <3>1. a # at
      <4>1. /\ k \in Int /\ 0 <= k /\ k < blocks[i].size
            /\ l \in Int /\ 1 <= l /\ l <= Len(text) /\ Len(text) \in Nat
        BY <2>4
      <4> DEFINE p == blocks[i].at
                 q == blocks[j].at
                 s == blocks[i].size
                 t == blocks[j].size
                 m == Len(text)
      <4>2. /\ p \in Nat /\ s \in Nat /\ q \in Nat /\ t \in Nat
            /\ p + s <= q \/ q + t <= p
            /\ q = address /\ m <= t
            /\ k \in Int /\ 0 <= k /\ k < s
            /\ l \in Int /\ 1 <= l /\ l <= m /\ m \in Nat
            /\ at = p + k /\ a = address + l - 1
        BY <2>2, <2>4, <2>5, <4>1
      <4> HIDE DEF p, q, s, t, m, a, at
      <4> QED
        BY ONLY <4>2
    <3>2. a \in DOMAIN mem
      BY <1>1, TextPlaced DEF HeapInvariant, TypeOK
    <3>3. mem[a] = text[l]
      BY DEF TextIn
    <3> HIDE DEF a, at
    <3>4. mem'[a] = mem[a]
      BY <2>1, <3>1, <3>2
    <3> QED
      BY <3>3, <3>4 DEF a
  <2> QED
    BY <2>1, <2>6 DEF TextIn
<1> QED
  BY <1>3, <1>4, <1>5, <1>6 DEF Program, Owned

----------------------------------------------------------------------------
LEMMA EnvStarts == EnvInit => EnvInvariant
<1> SUFFICES ASSUME EnvInit PROVE EnvInvariant
  OBVIOUS
<1>1. HeapInvariant
  BY InitHolds DEF EnvInit
<1>2. BlocksApart
  BY DEF EnvInit, Init, BlocksApart
<1>3. Seq(String) \subseteq Seq(Seq(Value))
  <2>1. String \subseteq Seq(Value)
    BY DEF String
  <2> QED
    BY <2>1
<1>4. Seq(String \ {<<>>}) \subseteq Seq(Seq(Value))
  <2>1. String \ {<<>>} \subseteq Seq(Value)
    BY DEF String
  <2> QED
    BY <2>1
<1>5. StringsTyped
  BY <1>3, <1>4, StringsAssumption DEF EnvInit, StringsTyped
<1>6. StringsStand
  BY DEF EnvInit, StringsStand
<1> QED
  BY <1>1, <1>2, <1>5, <1>6 DEF EnvInvariant, PromiseInvariant

LEMMA EnvStep ==
  ASSUME ModestRequests, ModestStrings, EnvInvariant, [EnvNext]_<<vars, strings>>
  PROVE  EnvInvariant'
<1>1. PromiseInvariant /\ HeapInvariant /\ StringsTyped /\ StringsStand
  BY DEF EnvInvariant, PromiseInvariant
<1>2. StringsTyped'
  <2>1. UNCHANGED <<shim_argv, shim_envp>>
    BY DEF EnvNext, Startup, GetEnvironmentStrings, strings
  <2> QED
    BY <1>1, <2>1 DEF StringsTyped
<1> DEFINE line == CommandLine(shim_argv)
           list == Listed(shim_envp)
<1>3. /\ line \in Seq(Value) /\ Len(line) <= Total(shim_argv) /\ Modest(Total(shim_argv))
      /\ list \in Seq(Value) /\ Len(list) <= Total(shim_envp) /\ Modest(Total(shim_envp))
  BY <1>1, StringsFit
<1>4. CASE Startup
  <2>1. /\ MakesBlock(Total(shim_argv), line, shim_cmdline')
        /\ UNCHANGED <<shim_argv, shim_envp, g_env_block>>
    BY <1>4 DEF Startup, CommandLine
  <2> HIDE DEF line, list
  <2>2. /\ PromiseInvariant' /\ BlocksStay
        /\ \A a \in HeapStart .. BrkMax - 1 : a < heap_next => mem'[a] = mem[a]
        /\ shim_cmdline' # NULL => TextIn(line, shim_cmdline', blocks', mem')
    BY <1>1, <1>3, <2>1, MakesBlockKeeps
  <2>3. g_env_block # NULL => TextIn(list, g_env_block, blocks', mem')
    BY <1>1, <1>3, <2>2, TextStays DEF StringsStand, list
  <2> QED
    BY <1>2, <2>1, <2>2, <2>3 DEF EnvInvariant, StringsStand, line, list
<1>5. CASE GetEnvironmentStrings
  <2>1. /\ MakesBlock(Total(shim_envp), list, g_env_block')
        /\ UNCHANGED <<shim_argv, shim_envp, shim_cmdline>>
    BY <1>5 DEF GetEnvironmentStrings
  <2> HIDE DEF line, list
  <2>2. /\ PromiseInvariant' /\ BlocksStay
        /\ \A a \in HeapStart .. BrkMax - 1 : a < heap_next => mem'[a] = mem[a]
        /\ g_env_block' # NULL => TextIn(list, g_env_block', blocks', mem')
    BY <1>1, <1>3, <2>1, MakesBlockKeeps
  <2>3. shim_cmdline # NULL => TextIn(line, shim_cmdline, blocks', mem')
    BY <1>1, <1>3, <2>2, TextStays DEF StringsStand, line
  <2> QED
    BY <1>2, <2>1, <2>2, <2>3 DEF EnvInvariant, StringsStand, line, list
<1>6. CASE Program /\ UNCHANGED strings
  <2>1. [Next]_vars
    BY <1>6 DEF Program, Next, Owned
  <2>2. PromiseInvariant'
    BY <1>1, <2>1, HeapInvariantInductive, ApartStep DEF PromiseInvariant
  <2>3. UNCHANGED <<shim_argv, shim_envp, shim_cmdline, g_env_block>>
    BY <1>6 DEF strings
  <2> HIDE DEF line, list
  <2>4. shim_cmdline # NULL => TextIn(line, shim_cmdline, blocks', mem')
    BY <1>1, <1>3, <1>6, ProgramSpares DEF StringsStand, line
  <2>5. g_env_block # NULL => TextIn(list, g_env_block, blocks', mem')
    BY <1>1, <1>3, <1>6, ProgramSpares DEF StringsStand, list
  <2> QED
    BY <1>2, <2>2, <2>3, <2>4, <2>5 DEF EnvInvariant, StringsStand, line, list
<1>7. CASE UNCHANGED <<vars, strings>>
  <2>1. [Next]_vars /\ UNCHANGED <<blocks, mem>>
    BY <1>7 DEF vars
  <2>2. PromiseInvariant'
    BY <1>1, <2>1, HeapInvariantInductive, ApartStep DEF PromiseInvariant
  <2> QED
    BY <1>1, <1>2, <1>7, <2>1, <2>2 DEF EnvInvariant, StringsStand, strings
<1> QED
  BY <1>4, <1>5, <1>6, <1>7 DEF EnvNext

LEMMA EnvInvariantAlways ==
  ModestRequests /\ ModestStrings => (EnvSpec => []EnvInvariant)
<1> SUFFICES ASSUME ModestRequests, ModestStrings PROVE EnvSpec => []EnvInvariant
  OBVIOUS
<1>1. EnvInvariant /\ [EnvNext]_<<vars, strings>> => EnvInvariant'
  BY EnvStep
<1> QED
  BY <1>1, EnvStarts, PTL DEF EnvSpec

(* The shim's own strings are allocated as the program's blocks are: the    *)
(* allocator's pointers stay in the heap, blocks do not overlap and nothing *)
(* outside the mapped heap is accessed (shim_heap_alloc() under             *)
(* shim_startup_init() and shim_env_block()).                               *)
THEOREM EnvTypeCorrect == ModestRequests /\ ModestStrings => (EnvSpec => []TypeOK)
<1>1. EnvInvariant => TypeOK
  BY DEF EnvInvariant, PromiseInvariant, HeapInvariant
<1> QED
  BY <1>1, EnvInvariantAlways, PTL

(* The strings' blocks and the program's lie apart, in order.               *)
THEOREM EnvBlocksSeparate ==
  ModestRequests /\ ModestStrings => (EnvSpec => []BlocksSeparate)
<1>1. EnvInvariant => BlocksSeparate
  BY DEF EnvInvariant, PromiseInvariant, HeapInvariant
<1> QED
  BY <1>1, EnvInvariantAlways, PTL

(* Copying argv or the environment into its block stays in mapped memory.   *)
THEOREM EnvNeverFaults == ModestRequests /\ ModestStrings => (EnvSpec => []NoFault)
<1>1. EnvInvariant => NoFault
  BY DEF EnvInvariant, PromiseInvariant, HeapInvariant
<1> QED
  BY <1>1, EnvInvariantAlways, PTL

----------------------------------------------------------------------------
(* An argument is where its offset says, with what ends it. *)
Ended(argv, i) == Append(argv[i], IF i = Len(argv) THEN 0 ELSE SPACE)

LEMMA ArgumentText ==
  ASSUME NEW argv \in Seq(Seq(Value)), NEW i \in 1 .. Len(argv)
  PROVE  LET o    == LengthTo(argv, i - 1) + i - 1
             flat == FlattenSeq(Arguments(argv))
         IN /\ o \in Nat
            /\ LengthTo(Arguments(argv), i) = o + Len(argv[i])
            /\ o + Len(argv[i]) <= Len(flat)
            /\ \A k \in 1 .. Len(argv[i]) : flat[o + k] = argv[i][k]
<1> DEFINE parts == Arguments(argv)
           flat == FlattenSeq(parts)
           o == LengthTo(argv, i - 1) + i - 1
           n == Len(argv)
           l == Len(argv[i])
           b == LengthTo(parts, i - 1)
           s(j) == LengthTo(argv, j)
<1>1. parts \in Seq(Seq(Value)) /\ Longer(parts, argv, 0) /\ Len(parts) = n
  BY ArgumentsFacts DEF Longer
<1>2. n \in Nat /\ i \in 1 .. n /\ i - 1 \in 0 .. n /\ l \in Nat /\ argv[i] \in Seq(Value)
  OBVIOUS
<1>3. s(i - 1) \in Nat /\ s(i) = s(i - 1) + l /\ s(0) = 0
  BY <1>2, LengthsTo
<1>4. LengthTo(parts, i) = s(i) + i - 1 + 0
  BY <1>1, <1>2, LongerStrings
<1>5. LengthTo(parts, 0) = 0
  BY <1>1, LengthsTo
<1>6. i > 1 => b = s(i - 1) + (i - 1) - 1 + 0
  <2> SUFFICES ASSUME i > 1 PROVE b = s(i - 1) + (i - 1) - 1 + 0
    OBVIOUS
  <2>1. i - 1 \in 1 .. Len(argv)
    BY <1>2
  <2> QED
    BY <1>1, <2>1, LongerStrings
<1>7. /\ b + Len(parts[i]) <= Len(flat)
      /\ \A k \in 1 .. Len(parts[i]) : flat[b + k] = parts[i][k]
  <2> HIDE DEF parts, n
  <2> QED
    BY <1>1, <1>2, StringPlaced
<1>8. parts[i] = IF i > 1 THEN <<SPACE>> \o argv[i] ELSE argv[i]
  BY <1>2 DEF Arguments
<1>9. flat \in Seq(Value) /\ Len(flat) \in Nat
  BY <1>1, FlattenTyped
<1> HIDE DEF parts, flat, n
<1>10. o \in Nat /\ LengthTo(parts, i) = o + l
  <2> HIDE DEF l, s
  <2> QED
    BY <1>2, <1>3, <1>4 DEF s
<1>11. CASE i = 1
  <2>1. b = 0 /\ o = 0 /\ parts[i] = argv[i]
    BY <1>3, <1>5, <1>8, <1>11
  <2> HIDE DEF b, o
  <2>2. l <= Len(flat) /\ \A k \in 1 .. l : flat[k] = argv[i][k]
    BY <1>7, <2>1, <1>2
  <2>3. o + l <= Len(flat) /\ \A k \in 1 .. l : flat[o + k] = argv[i][k]
    BY <1>2, <2>1, <2>2
  <2> QED
    BY <1>10, <2>3 DEF parts, flat, o
<1>12. CASE i > 1
  <2>1. b + 1 = o /\ b \in Nat
    <3>1. s(i - 1) \in Nat /\ i \in Nat /\ b = s(i - 1) + (i - 1) - 1 + 0 /\ o = s(i - 1) + i - 1
      BY <1>2, <1>3, <1>6, <1>12
    <3> HIDE DEF s, b, o
    <3> QED
      BY ONLY <1>12, <3>1
  <2>2. parts[i] = <<SPACE>> \o argv[i]
    BY <1>8, <1>12
  <2>3. SPACE \in Value /\ <<SPACE>> \in Seq(Value)
    BY StringsAssumption
  <2>4. /\ Len(parts[i]) = l + 1
        /\ \A k \in 1 .. l : k + 1 \in 1 .. l + 1 /\ parts[i][k + 1] = argv[i][k]
    BY <1>2, <2>2, <2>3
  <2> HIDE DEF b, o
  <2>5. o + l <= Len(flat)
    <3> HIDE DEF l
    <3> QED
      BY ONLY <1>2, <1>7, <1>9, <2>1, <2>4
  <2>6. \A k \in 1 .. l : flat[o + k] = argv[i][k]
    <3> TAKE k \in 1 .. l
    <3>1. flat[b + (k + 1)] = argv[i][k]
      BY <1>7, <2>4
    <3>2. b + (k + 1) = o + k
      BY <2>1
    <3> QED
      BY <3>1, <3>2
  <2> QED
    BY <1>10, <2>5, <2>6 DEF parts, flat, o
<1> QED
  BY <1>2, <1>11, <1>12

LEMMA ArgumentPlaced ==
  ASSUME NEW argv \in Seq(Seq(Value)), NEW i \in 1 .. Len(argv)
  PROVE  LET o == LengthTo(argv, i - 1) + i - 1
         IN /\ o \in Nat
            /\ \A k \in 1 .. Len(Ended(argv, i)) :
                 /\ o + k \in 1 .. Len(CommandLine(argv))
                 /\ CommandLine(argv)[o + k] = Ended(argv, i)[k]
<1> DEFINE parts == Arguments(argv)
           flat == FlattenSeq(parts)
           o == LengthTo(argv, i - 1) + i - 1
           n == Len(argv)
           l == Len(argv[i])
           z == IF i = n THEN 0 ELSE SPACE
           w == Len(flat)
           line == CommandLine(argv)
<1>1. parts \in Seq(Seq(Value)) /\ Len(parts) = n /\ line = Append(flat, 0)
  BY ArgumentsFacts DEF Longer
<1>2. n \in Nat /\ i \in 1 .. n /\ l \in Nat /\ argv[i] \in Seq(Value)
  OBVIOUS
<1>3. flat \in Seq(Value) /\ w \in Nat
  BY <1>1, FlattenTyped
<1>4. /\ o \in Nat /\ LengthTo(parts, i) = o + l /\ o + l <= w
      /\ \A k \in 1 .. l : flat[o + k] = argv[i][k]
  BY ArgumentText
<1>5. z \in Value
  BY StringsAssumption, HeapAssumption
<1>6. /\ Ended(argv, i) = Append(argv[i], z) /\ Len(Ended(argv, i)) = l + 1
      /\ \A k \in 1 .. l : Ended(argv, i)[k] = argv[i][k]
      /\ Ended(argv, i)[l + 1] = z
  BY <1>2, <1>5 DEF Ended
<1>7. /\ Len(line) = w + 1 /\ line[w + 1] = 0
      /\ \A j \in 1 .. w : line[j] = flat[j]
  <2> HIDE DEF flat, line
  <2> QED
    BY <1>1, <1>3, HeapAssumption
<1>8. i # n => o + l + 1 <= w /\ flat[o + l + 1] = SPACE
  <2> SUFFICES ASSUME i # n PROVE o + l + 1 <= w /\ flat[o + l + 1] = SPACE
    OBVIOUS
  <2>1. i + 1 \in 1 .. n /\ i + 1 > 1 /\ (i + 1) - 1 = i
    BY <1>2
  <2>2. /\ LengthTo(parts, i) + Len(parts[i + 1]) <= w
        /\ \A k \in 1 .. Len(parts[i + 1]) :
             flat[LengthTo(parts, i) + k] = parts[i + 1][k]
    <3> HIDE DEF parts, n
    <3>1. i + 1 \in 1 .. Len(parts)
      BY <1>1, <2>1
    <3> DEFINE j == i + 1
    <3> HIDE DEF j
    <3>2. /\ LengthTo(parts, j - 1) + Len(parts[j]) <= w
          /\ \A k \in 1 .. Len(parts[j]) : flat[LengthTo(parts, j - 1) + k] = parts[j][k]
      BY <1>1, <3>1, StringPlaced DEF j
    <3>3. j - 1 = i
      BY <2>1 DEF j
    <3> QED
      BY <3>2, <3>3 DEF j
  <2>3. parts[i + 1] = <<SPACE>> \o argv[i + 1]
    BY <2>1 DEF Arguments
  <2>4. argv[i + 1] \in Seq(Value) /\ SPACE \in Value /\ <<SPACE>> \in Seq(Value)
    BY <2>1, StringsAssumption
  <2>5. /\ Len(parts[i + 1]) \in Nat /\ 1 <= Len(parts[i + 1])
        /\ parts[i + 1][1] = SPACE
    BY <2>3, <2>4
  <2> DEFINE p == parts[i + 1]
             at == LengthTo(parts, i)
  <2>6. /\ at + Len(p) <= w /\ Len(p) \in Nat /\ 1 <= Len(p) /\ p[1] = SPACE
        /\ \A k \in 1 .. Len(p) : flat[at + k] = p[k]
    BY <2>2, <2>5
  <2>7. at = o + l
    BY <1>4
  <2> HIDE DEF parts, o, l, w, flat, p, at
  <2>8. 1 \in 1 .. Len(p)
    BY ONLY <2>6
  <2>9. flat[o + l + 1] = SPACE
    BY ONLY <2>6, <2>7, <2>8
  <2>10. o + l + 1 <= w
    BY ONLY <2>6, <2>7, <1>2, <1>3, <1>4
  <2> QED
    BY ONLY <2>9, <2>10
<1>9. i = n => o + l = w
  <2>1. LengthTo(parts, Len(parts)) = w
    BY <1>1, LengthsTo
  <2> QED
    BY <1>1, <1>4, <2>1
<1> HIDE DEF parts, flat, o, n, l, w, line
<1>10. ASSUME NEW k \in 1 .. l + 1
       PROVE  o + k \in 1 .. Len(line) /\ line[o + k] = Ended(argv, i)[k]
  <2>1. CASE k \in 1 .. l
    <3>1. o + k \in 1 .. w
      BY <1>2, <1>3, <1>4, <2>1
    <3> QED
      BY <1>3, <1>4, <1>6, <1>7, <2>1, <3>1
  <2>2. CASE k = l + 1
    <3>1. CASE i = n
      <4>1. o + k = w + 1 /\ w + 1 \in 1 .. Len(line) /\ z = 0
        BY <1>2, <1>3, <1>4, <1>7, <1>9, <2>2, <3>1
      <4> QED
        BY <1>6, <1>7, <2>2, <4>1
    <3>2. CASE i # n
      <4>1. o + l + 1 \in 1 .. w /\ o + k = o + l + 1
        BY <1>2, <1>3, <1>4, <1>8, <2>2, <3>2
      <4> QED
        BY <1>3, <1>6, <1>7, <1>8, <2>2, <3>2, <4>1
    <3> QED
      BY <3>1, <3>2
  <2> QED
    BY <1>2, <2>1, <2>2
<1> QED
  BY <1>4, <1>6, <1>10 DEF o, line

(* From shim_startup_init() on every argument is in its place in the        *)
(* command line, followed by a space or the terminator, whatever the        *)
(* program allocates, frees and writes.                                     *)
THEOREM EnvCommandLineKept ==
  ModestRequests /\ ModestStrings => (EnvSpec => []CommandLineKept)
<1>1. EnvInvariant => CommandLineKept
  <2> SUFFICES ASSUME EnvInvariant, shim_cmdline # NULL, NEW i \in DOMAIN shim_argv
               PROVE  Stands(Ended(shim_argv, i), shim_cmdline + Offset(i))
    BY DEF CommandLineKept, Ended
  <2> DEFINE line == CommandLine(shim_argv)
             o == LengthTo(shim_argv, i - 1) + i - 1
             text == Ended(shim_argv, i)
  <2>1. /\ HeapInvariant /\ TextIn(line, shim_cmdline, blocks, mem)
        /\ shim_argv \in Seq(Seq(Value)) /\ i \in 1 .. Len(shim_argv)
    BY DEF EnvInvariant, PromiseInvariant, StringsStand, StringsTyped
  <2>2. Offset(i) = o
    BY DEF Offset, Concat, LengthTo
  <2>3. /\ o \in Nat
        /\ \A k \in 1 .. Len(text) : o + k \in 1 .. Len(line) /\ line[o + k] = text[k]
    BY <2>1, ArgumentPlaced
  <2>4. line \in Seq(Value)
    BY <2>1, ArgumentsFacts, TextFits
  <2> HIDE DEF line, o, text
  <2>5. /\ shim_cmdline \in Nat
        /\ \A k \in 1 .. Len(line) :
             /\ shim_cmdline + k - 1 \in HeapStart .. BrkMax - 1
             /\ mem[shim_cmdline + k - 1] = line[k]
    BY <2>1, <2>4, TextPlaced DEF TextIn
  <2>6. DOMAIN mem = HeapStart .. BrkMax - 1
    BY <2>1 DEF HeapInvariant, TypeOK
  <2>7. ASSUME NEW k \in 1 .. Len(text)
        PROVE  /\ (shim_cmdline + o) + k - 1 \in DOMAIN mem
               /\ mem[(shim_cmdline + o) + k - 1] = text[k]
    <3>1. (shim_cmdline + o) + k - 1 = shim_cmdline + (o + k) - 1
      BY <2>3, <2>5
    <3> QED
      BY <2>3, <2>5, <2>6, <3>1
  <2> QED
    BY <2>2, <2>7 DEF Stands, text
<1> QED
  BY <1>1, EnvInvariantAlways, PTL

----------------------------------------------------------------------------
(* The environment as the program reads it out of bytes: where the string   *)
(* at a ends, where each string begins, and how many there are.             *)
EndIn(bytes, a) == Min({e \in a .. BrkMax - 1 : bytes[e] = 0} \union {BrkMax})
Begin(start, bytes, address) ==
  start = [i \in 0 .. BrkMax - HeapStart |->
             IF i = 0 THEN address ELSE EndIn(bytes, start[i - 1]) + 1]
StartsIn(bytes, address) == CHOOSE start : Begin(start, bytes, address)
CountIn(start, bytes) ==
  Min({i \in 0 .. BrkMax - HeapStart :
         start[i] >= BrkMax \/ EndIn(bytes, start[i]) = start[i]})
StringIn(start, bytes, i) ==
  [k \in 1 .. EndIn(bytes, start[i - 1]) - start[i - 1] |-> bytes[start[i - 1] + k - 1]]
ListIn(start, bytes) == [i \in 1 .. CountIn(start, bytes) |-> StringIn(start, bytes, i)]

LEMMA ReadAsList ==
  ASSUME NEW address
  PROVE  StringsAt(address) = ListIn(StartsIn(mem, address), mem)
BY DEF StringsAt, ListIn, StringIn, CountIn, StartsIn, Begin, EndIn

LEMMA EndFound ==
  ASSUME NEW bytes, NEW a \in Nat, NEW z \in Nat, a <= z, z < BrkMax, bytes[z] = 0,
         \A e \in Nat : a <= e /\ e < z => bytes[e] # 0
  PROVE  EndIn(bytes, a) = z
<1> DEFINE T == {e \in a .. BrkMax - 1 : bytes[e] = 0} \union {BrkMax}
<1>1. BrkMax \in Nat
  BY HeapAssumption
<1>2. T \subseteq Nat /\ z \in T
  BY <1>1
<1>3. \A k \in T : z <= k
  BY <1>1
<1> QED
  <2> HIDE DEF T
  <2>1. Min(T) = z
    BY <1>2, <1>3, LeastIs
  <2> QED
    BY <2>1 DEF EndIn, T

LEMMA EndTyped ==
  ASSUME NEW bytes, NEW a \in Nat
  PROVE  EndIn(bytes, a) \in Nat
<1> DEFINE T == {e \in a .. BrkMax - 1 : bytes[e] = 0} \union {BrkMax}
<1>1. T \subseteq Nat /\ T # {}
  BY HeapAssumption
<1> HIDE DEF T
<1>2. PICK m \in T : \A k \in T : m <= k
  BY <1>1, LeastElement
<1>3. Min(T) = m /\ m \in Nat
  BY <1>1, <1>2, LeastIs
<1> QED
  BY <1>3 DEF EndIn, T

LEMMA StartsFacts ==
  ASSUME NEW bytes, NEW address \in Nat
  PROVE  LET start == StartsIn(bytes, address)
         IN /\ start[0] = address
            /\ \A i \in 1 .. BrkMax - HeapStart : start[i] = EndIn(bytes, start[i - 1]) + 1
<1> DEFINE n == BrkMax - HeapStart
           step == [i \in 1 .. n |-> [a \in Nat |-> EndIn(bytes, a) + 1]]
           k == StartsIn(bytes, address)
<1>1. n \in Nat
  BY HeapAssumption
<1>2. \A a \in Nat : EndIn(bytes, a) + 1 \in Nat
  BY EndTyped
<1>3. Steps(step, n, Nat)
  BY <1>2 DEF Steps
<1>4. PICK f : Iterates(f, step, n, address, Nat)
  <2> HIDE DEF step, n
  <2> QED
    BY ONLY <1>1, <1>3, Iteration, address \in Nat
<1>5. /\ f[0] = address /\ f \in [0 .. n -> Nat]
      /\ \A i \in 1 .. n : f[i] = EndIn(bytes, f[i - 1]) + 1
  <2>1. f \in [0 .. n -> Nat] /\ f[0] = address /\ \A i \in 1 .. n : f[i] = step[i][f[i - 1]]
    BY ONLY <1>4 DEF Iterates
  <2>2. \A i \in 1 .. n : i - 1 \in 0 .. n
    BY ONLY <1>1
  <2>3. \A i \in 1 .. n : f[i - 1] \in Nat
    BY ONLY <2>1, <2>2
  <2>4. \A i \in 1 .. n, a \in Nat : step[i][a] = EndIn(bytes, a) + 1
    OBVIOUS
  <2> HIDE DEF step, n
  <2> QED
    BY ONLY <2>1, <2>3, <2>4
<1>6. Begin(f, bytes, address)
  <2>1. \A i \in 0 .. n : f[i] = IF i = 0 THEN address ELSE EndIn(bytes, f[i - 1]) + 1
    <3> HIDE DEF n
    <3> QED
      BY ONLY <1>1, <1>5
  <2>2. f = [i \in 0 .. n |-> IF i = 0 THEN address ELSE EndIn(bytes, f[i - 1]) + 1]
    <3> HIDE DEF n
    <3> QED
      BY ONLY <1>5, <2>1
  <2> QED
    BY <2>2 DEF Begin
<1>7. Begin(k, bytes, address)
  BY <1>6 DEF StartsIn
<1> HIDE DEF k
<1>8. k = [i \in 0 .. n |-> IF i = 0 THEN address ELSE EndIn(bytes, k[i - 1]) + 1]
  BY <1>7 DEF Begin
<1>9. k[0] = address /\ \A i \in 1 .. n : k[i] = EndIn(bytes, k[i - 1]) + 1
  <2> HIDE DEF n
  <2>1. 0 \in 0 .. n /\ \A i \in 1 .. n : i \in 0 .. n /\ i # 0
    BY ONLY <1>1
  <2> QED
    BY ONLY <1>8, <2>1
<1> QED
  BY <1>9 DEF k

----------------------------------------------------------------------------
(* The i-th string of envp in Listed(envp), and its terminator. *)
LEMMA ItemPlaced ==
  ASSUME NEW envp \in Seq(Seq(Value)), NEW i \in 1 .. Len(envp)
  PROVE  LET list == Listed(envp)
             p(j) == LengthTo(Items(envp), j)
         IN /\ p(i - 1) \in Nat
            /\ p(i) = p(i - 1) + Len(envp[i]) + 1
            /\ p(i) < Len(list)
            /\ \A k \in 1 .. Len(envp[i]) : list[p(i - 1) + k] = envp[i][k]
            /\ list[p(i - 1) + Len(envp[i]) + 1] = 0
<1> DEFINE item == Items(envp)
           flat == FlattenSeq(item)
           list == Listed(envp)
           p(j) == LengthTo(item, j)
           n == Len(envp)
           l == Len(envp[i])
           w == Len(flat)
<1>1. item \in Seq(Seq(Value)) /\ Len(item) = n /\ list = Append(flat, 0)
  BY ItemsFacts DEF Longer
<1>2. n \in Nat /\ i \in 1 .. n /\ l \in Nat /\ envp[i] \in Seq(Value) /\ i - 1 \in 0 .. n
  OBVIOUS
<1>3. flat \in Seq(Value) /\ w \in Nat
  BY <1>1, FlattenTyped
<1>4. item[i] = Append(envp[i], 0)
  BY <1>2 DEF Items
<1>5. /\ Len(item[i]) = l + 1 /\ item[i][l + 1] = 0
      /\ \A k \in 1 .. l : item[i][k] = envp[i][k]
  <2> HIDE DEF item
  <2> QED
    BY <1>2, <1>4, HeapAssumption
<1>6. /\ Len(list) = w + 1
      /\ \A j \in 1 .. w : list[j] = flat[j]
  <2> HIDE DEF flat, list
  <2> QED
    BY <1>1, <1>3, HeapAssumption
<1> HIDE DEF item, flat, list, n
<1>7. /\ p(i - 1) \in Nat /\ p(i) = p(i - 1) + Len(item[i])
  BY <1>1, <1>2, LengthsTo
<1>8. /\ p(i - 1) + Len(item[i]) <= w
      /\ \A k \in 1 .. Len(item[i]) : flat[p(i - 1) + k] = item[i][k]
  BY <1>1, <1>2, StringPlaced DEF flat
<1> DEFINE b == p(i - 1)
           e == p(i)
<1>9. /\ b \in Nat /\ e = b + (l + 1) /\ b + (l + 1) <= w
      /\ \A k \in 1 .. l + 1 : flat[b + k] = item[i][k]
  BY <1>5, <1>7, <1>8
<1> HIDE DEF b, e, l, w, p
<1>10. e = b + l + 1 /\ e < Len(list)
  BY ONLY <1>2, <1>3, <1>6, <1>9
<1>11. \A k \in 1 .. l + 1 : list[b + k] = item[i][k]
  <2> TAKE k \in 1 .. l + 1
  <2>1. b + k \in 1 .. w
    BY ONLY <1>2, <1>3, <1>9
  <2> QED
    BY <1>6, <1>9, <2>1
<1>12. \A k \in 1 .. l : list[b + k] = envp[i][k]
  <2> TAKE k \in 1 .. l
  <2>1. k \in 1 .. l + 1
    BY <1>2
  <2> QED
    BY <1>5, <1>11, <2>1
<1>13. list[b + l + 1] = 0
  <2>1. l + 1 \in 1 .. l + 1 /\ b + (l + 1) = b + l + 1
    BY ONLY <1>2, <1>9
  <2> QED
    BY <1>5, <1>11, <2>1
<1> QED
  BY <1>9, <1>10, <1>12, <1>13 DEF b, e, l, p, item, list

LEMMA ListEnds ==
  ASSUME NEW envp \in Seq(Seq(Value))
  PROVE  LET p(j) == LengthTo(Items(envp), j)
             m    == Len(envp)
         IN /\ p(0) = 0 /\ p(m) \in Nat /\ m <= p(m)
            /\ Len(Listed(envp)) = p(m) + 1
            /\ Listed(envp)[p(m) + 1] = 0
<1> DEFINE item == Items(envp)
           flat == FlattenSeq(item)
           m == Len(envp)
           e == LengthTo(item, m)
           q == LengthTo(envp, m)
<1>1. /\ item \in Seq(Seq(Value)) /\ Len(item) = m /\ Listed(envp) = Append(flat, 0)
      /\ Longer(item, envp, 1)
  BY ItemsFacts DEF Longer
<1>2. m \in Nat
  OBVIOUS
<1>3. flat \in Seq(Value)
  BY <1>1, FlattenTyped
<1>4. LengthTo(item, 0) = 0 /\ e = Len(flat)
  BY <1>1, LengthsTo
<1>5. Len(flat) \in Nat /\ Len(Listed(envp)) = Len(flat) + 1 /\ Listed(envp)[Len(flat) + 1] = 0
  <2> HIDE DEF flat
  <2> QED
    BY <1>1, <1>3, HeapAssumption
<1>6. m <= e
  <2>1. CASE m = 0
    BY <1>4, <1>5, <2>1
  <2>2. CASE m # 0
    <3>1. m \in 1 .. Len(envp) /\ m \in 0 .. Len(envp)
      BY <1>2, <2>2
    <3>2. e = q + m - 1 + 1
      <4> HIDE DEF item
      <4> QED
        BY <1>1, <3>1, LongerStrings
    <3>3. q \in Nat
      BY <3>1, LengthsTo
    <3> HIDE DEF m, e, q
    <3> QED
      BY ONLY <1>2, <3>2, <3>3
  <2> QED
    BY <2>1, <2>2
<1> HIDE DEF flat, e
<1> QED
  BY <1>4, <1>5, <1>6 DEF e

(* Reading the list gives the environment back. *)
Placed(text, address, bytes) ==
  \A k \in 1 .. Len(text) :
    /\ address + k - 1 \in HeapStart .. BrkMax - 1
    /\ bytes[address + k - 1] = text[k]

LEMMA StringEnds ==
  ASSUME NEW envp \in Seq(String \ {<<>>}), NEW address \in Nat, NEW bytes,
         Placed(Listed(envp), address, bytes), NEW i \in 1 .. Len(envp)
  PROVE  LET a == address + LengthTo(Items(envp), i - 1)
         IN /\ a \in Nat /\ a < BrkMax
            /\ EndIn(bytes, a) = a + Len(envp[i])
            /\ address + LengthTo(Items(envp), i) = a + Len(envp[i]) + 1
            /\ \A k \in 1 .. Len(envp[i]) : bytes[a + k - 1] = envp[i][k]
<1> DEFINE list == Listed(envp)
           b == LengthTo(Items(envp), i - 1)
           e == LengthTo(Items(envp), i)
           a == address + b
           l == Len(envp[i])
           w == Len(list)
<1>1. envp \in Seq(Seq(Value)) /\ envp[i] \in String /\ envp[i] \in Seq(Value) /\ l \in Nat
  <2>1. String \subseteq Seq(Value)
    BY DEF String
  <2>2. String \ {<<>>} \subseteq Seq(Value)
    BY <2>1
  <2>3. envp[i] \in String \ {<<>>}
    OBVIOUS
  <2> QED
    BY <2>1, <2>2, <2>3
<1>2. /\ b \in Nat /\ e = b + l + 1 /\ e < w
      /\ \A k \in 1 .. l : list[b + k] = envp[i][k]
      /\ list[b + l + 1] = 0
  BY <1>1, ItemPlaced
<1>3. w \in Nat
  BY <1>1, ListEnds
<1>4. \A k \in 1 .. w : address + k - 1 \in HeapStart .. BrkMax - 1 /\ bytes[address + k - 1] = list[k]
  BY DEF Placed
<1>5. \A k \in 1 .. l : envp[i][k] # 0
  BY <1>1 DEF String
<1>6. HeapStart \in Nat /\ BrkMax \in Nat
  BY HeapAssumption
<1> HIDE DEF list, b, e, l, w
<1>7. a \in Nat /\ e = b + (l + 1)
  BY <1>1, <1>2
<1>8. \A k \in 1 .. l + 1 : b + k \in 1 .. w /\ address + (b + k) - 1 = a + k - 1
  BY <1>1, <1>2, <1>3
<1>9. \A k \in 1 .. l : bytes[a + k - 1] = envp[i][k]
  <2> TAKE k \in 1 .. l
  <2>1. b + k \in 1 .. w /\ address + (b + k) - 1 = a + k - 1
    BY <1>1, <1>8
  <2> HIDE DEF a
  <2> QED
    BY <1>2, <1>4, <2>1
<1>10. a + l < BrkMax /\ bytes[a + l] = 0
  <2>1. l + 1 \in 1 .. l + 1 /\ b + (l + 1) = b + l + 1 /\ a + (l + 1) - 1 = a + l
    BY <1>1, <1>2, <1>7
  <2>2. b + (l + 1) \in 1 .. w /\ address + (b + (l + 1)) - 1 = a + l
    BY <1>8, <2>1
  <2>3. a + l \in HeapStart .. BrkMax - 1 /\ bytes[a + l] = list[b + (l + 1)]
    BY <1>4, <2>2
  <2> HIDE DEF a
  <2> QED
    BY <1>2, <1>6, <2>1, <2>3
<1> HIDE DEF a
<1>11. EndIn(bytes, a) = a + l
  <2>1. \A x \in Nat : a <= x /\ x < a + l => bytes[x] # 0
    <3> TAKE x \in Nat
    <3> HAVE a <= x /\ x < a + l
    <3> DEFINE k == x - a + 1
    <3>1. k \in 1 .. l /\ a + k - 1 = x
      BY <1>1, <1>7
    <3> HIDE DEF k
    <3> QED
      BY <1>5, <1>9, <3>1
  <2>2. a + l \in Nat /\ a <= a + l
    BY <1>1, <1>7
  <2> DEFINE z == a + l
  <2> HIDE DEF z
  <2>3. EndIn(bytes, a) = z
    BY <1>7, <1>10, <2>1, <2>2, EndFound DEF z
  <2> QED
    BY <2>3 DEF z
<1>12. a < BrkMax /\ address + e = a + l + 1
  BY <1>1, <1>2, <1>6, <1>7, <1>10 DEF a
<1> QED
  BY <1>7, <1>9, <1>11, <1>12 DEF a, b, e, l

LEMMA ListRead ==
  ASSUME NEW envp \in Seq(String \ {<<>>}), NEW address \in Nat, NEW bytes,
         Placed(Listed(envp), address, bytes)
  PROVE  ListIn(StartsIn(bytes, address), bytes) = envp
<1> DEFINE start == StartsIn(bytes, address)
           m == Len(envp)
           p(i) == LengthTo(Items(envp), i)
           last == address + p(m)
           room == BrkMax - HeapStart
           L(i) == Len(envp[i])
<1>1. envp \in Seq(Seq(Value)) /\ m \in Nat
  <2>1. String \ {<<>>} \subseteq Seq(Value)
    BY DEF String
  <2> QED
    BY <2>1
<1>2. \A i \in 1 .. m : L(i) \in Nat /\ L(i) # 0 /\ envp[i] \in Seq(Value)
  BY DEF String
<1>3. /\ p(0) = 0 /\ p(m) \in Nat /\ m <= p(m)
      /\ Len(Listed(envp)) = p(m) + 1 /\ Listed(envp)[p(m) + 1] = 0
  BY <1>1, ListEnds
<1>4. last \in HeapStart .. BrkMax - 1 /\ bytes[last] = 0
  <2> DEFINE e == p(m)
  <2>1. e \in Nat /\ e + 1 \in 1 .. Len(Listed(envp)) /\ address + (e + 1) - 1 = address + e
    BY <1>3
  <2> HIDE DEF e
  <2>2. address + e \in HeapStart .. BrkMax - 1 /\ bytes[address + e] = Listed(envp)[e + 1]
    BY <2>1 DEF Placed
  <2> QED
    BY <1>3, <2>2 DEF e
<1>5. \A i \in 1 .. m :
        LET a == address + p(i - 1)
        IN /\ a \in Nat /\ a < BrkMax
           /\ EndIn(bytes, a) = a + L(i)
           /\ address + p(i) = a + L(i) + 1
           /\ \A k \in 1 .. L(i) : bytes[a + k - 1] = envp[i][k]
  BY StringEnds
<1>6. start[0] = address /\ \A i \in 1 .. room : start[i] = EndIn(bytes, start[i - 1]) + 1
  BY StartsFacts
<1>7. room \in Nat /\ m <= room /\ HeapStart \in Nat /\ BrkMax \in Nat
  <2>1. HeapStart <= address
    <3>1. 1 \in 1 .. Len(Listed(envp))
      BY <1>3
    <3> HIDE DEF last
    <3> QED
      BY <3>1, HeapAssumption DEF Placed
  <2> DEFINE e == p(m)
  <2> HIDE DEF e
  <2> QED
    BY <1>1, <1>3, <1>4, <2>1, HeapAssumption DEF e
<1> HIDE DEF start, p, L, m, room
<1>8. \A i \in 0 .. m : start[i] = address + p(i)
  <2> DEFINE Bad == {i \in 0 .. m : start[i] # address + p(i)}
  <2>1. Bad \subseteq Nat
    OBVIOUS
  <2>2. Bad = {}
    <3> SUFFICES ASSUME Bad # {} PROVE FALSE
      OBVIOUS
    <3>1. PICK i \in Bad : \A k \in Bad : i <= k
      <4> HIDE DEF Bad
      <4> QED
        BY <2>1, LeastElement
    <3>2. i # 0 /\ i \in 0 .. m /\ start[i] # address + p(i)
      BY <1>3, <1>6, <3>1
    <3>3. i \in 1 .. m /\ i \in 1 .. room /\ i - 1 \in 0 .. m
      BY <1>1, <1>7, <3>2
    <3>4. start[i - 1] = address + p(i - 1)
      BY <3>1, <3>3
    <3>5. start[i] = address + p(i)
      BY <1>5, <1>6, <3>3, <3>4
    <3> QED
      BY <3>2, <3>5
  <2> QED
    BY <2>2
<1>9. \A i \in 1 .. m :
        /\ start[i - 1] \in Nat /\ start[i - 1] < BrkMax
        /\ EndIn(bytes, start[i - 1]) = start[i - 1] + L(i)
        /\ \A k \in 1 .. L(i) : bytes[start[i - 1] + k - 1] = envp[i][k]
  <2> TAKE i \in 1 .. m
  <2>1. i - 1 \in 0 .. m
    BY <1>1
  <2>2. start[i - 1] = address + p(i - 1)
    BY <1>8, <2>1
  <2> QED
    BY <1>5, <2>2
<1>10. EndIn(bytes, start[m]) = start[m]
  <2>1. start[m] = last
    BY <1>1, <1>8
  <2>2. last \in Nat /\ last < BrkMax
    <3> HIDE DEF last
    <3> QED
      BY <1>4, <1>7
  <2> HIDE DEF last
  <2>3. \A e \in Nat : ~ (last <= e /\ e < last)
    BY <2>2
  <2>4. EndIn(bytes, last) = last
    BY <1>4, <2>2, <2>3, EndFound
  <2> QED
    BY <2>1, <2>4
<1>11. CountIn(start, bytes) = m
  <2> DEFINE T == {i \in 0 .. room : start[i] >= BrkMax \/ EndIn(bytes, start[i]) = start[i]}
  <2>1. T \subseteq Nat /\ m \in T
    BY <1>1, <1>7, <1>10
  <2>2. \A i \in T : m <= i
    <3> SUFFICES ASSUME NEW i \in T, i < m PROVE FALSE
      BY <1>1, <2>1
    <3>1. i + 1 \in 1 .. m /\ (i + 1) - 1 = i
      BY <1>1, <2>1
    <3> DEFINE j == i + 1
    <3> HIDE DEF j
    <3>2. /\ start[j - 1] \in Nat /\ start[j - 1] < BrkMax
          /\ EndIn(bytes, start[j - 1]) = start[j - 1] + L(j)
          /\ L(j) \in Nat /\ L(j) # 0
      BY <1>2, <1>9, <3>1 DEF j
    <3>3. j - 1 = i
      BY <3>1 DEF j
    <3>4. start[i] >= BrkMax \/ EndIn(bytes, start[i]) = start[i]
      OBVIOUS
    <3>5. /\ start[i] \in Nat /\ start[i] < BrkMax
          /\ EndIn(bytes, start[i]) = start[i] + L(j)
      BY <3>2, <3>3
    <3> DEFINE x == start[i]
               y == L(j)
    <3> HIDE DEF x, y
    <3> QED
      BY ONLY <1>7, <3>2, <3>4, <3>5 DEF x, y
  <2> HIDE DEF T
  <2>3. Min(T) = m
    BY <2>1, <2>2, LeastIs
  <2> QED
    BY <2>3 DEF CountIn, T, room
<1>12. \A i \in 1 .. m : StringIn(start, bytes, i) = envp[i]
  <2> TAKE i \in 1 .. m
  <2>1. /\ start[i - 1] \in Nat
        /\ EndIn(bytes, start[i - 1]) = start[i - 1] + L(i)
        /\ \A k \in 1 .. L(i) : bytes[start[i - 1] + k - 1] = envp[i][k]
    BY <1>9
  <2>2. L(i) \in Nat /\ envp[i] \in Seq(Value)
    BY <1>2
  <2>3. EndIn(bytes, start[i - 1]) - start[i - 1] = L(i)
    BY <2>1, <2>2
  <2>4. StringIn(start, bytes, i) = [k \in 1 .. L(i) |-> bytes[start[i - 1] + k - 1]]
    BY <2>3 DEF StringIn
  <2>5. envp[i] = [k \in 1 .. L(i) |-> envp[i][k]]
    BY <2>2 DEF L
  <2> QED
    BY <2>1, <2>4, <2>5
<1>13. ListIn(start, bytes) = [i \in 1 .. m |-> envp[i]]
  BY <1>11, <1>12 DEF ListIn
<1>14. envp = [i \in 1 .. m |-> envp[i]]
  BY DEF m
<1> QED
  BY <1>13, <1>14 DEF start

(* GetEnvironmentStrings() answers with a block in which a program finds the *)
(* whole environment and nothing else, whenever the block was made and       *)
(* whatever happened to the heap since.                                      *)
THEOREM EnvEnvironmentKept ==
  ModestRequests /\ ModestStrings => (EnvSpec => []EnvironmentKept)
<1>1. EnvInvariant => EnvironmentKept
  <2> SUFFICES ASSUME EnvInvariant, g_env_block # NULL
               PROVE  StringsAt(g_env_block) = shim_envp
    BY DEF EnvironmentKept
  <2>1. /\ HeapInvariant /\ TextIn(Listed(shim_envp), g_env_block, blocks, mem)
        /\ shim_envp \in Seq(Seq(Value)) /\ shim_envp \in Seq(String \ {<<>>})
    BY StringsAssumption DEF EnvInvariant, PromiseInvariant, StringsStand, StringsTyped
  <2>2. Listed(shim_envp) \in Seq(Value)
    BY <2>1, ItemsFacts, TextFits
  <2>3. g_env_block \in Nat /\ Placed(Listed(shim_envp), g_env_block, mem)
    BY <2>1, <2>2, TextPlaced DEF TextIn, Placed
  <2>4. ListIn(StartsIn(mem, g_env_block), mem) = shim_envp
    BY <2>1, <2>3, ListRead
  <2> QED
    BY <2>4, ReadAsList
<1> QED
  BY <1>1, EnvInvariantAlways, PTL

----------------------------------------------------------------------------
(* The strings are blocks like others when their sizes are sizes a program   *)
(* may ask for.                                                              *)
StringsRequested == \A ss \in Argvs \union Envps : Total(ss) \in Request

LEMMA MakesBlockSeen ==
  ASSUME ModestRequests, HeapInvariant, HeapInvariant', NEW total \in Request,
         NEW text \in Seq(Value), Len(text) <= total, NEW address,
         MakesBlock(total, text, address)
  PROVE  [Abstract!Next]_Contents
<1> DEFINE m == Len(text)
           f == [k \in 0 .. m - 1 |-> text[k + 1]]
<1>1. PICK r \in HeapAlloc(total) :
        IF r.at = NULL
          THEN UNCHANGED <<mem, fault, blocks>>
          ELSE Stored(r.at, m, f) /\ blocks' = Append(blocks, Block(r.at, total))
  BY DEF MakesBlock
<1>2. CASE r.at = NULL
  BY <1>1, <1>2 DEF Contents, Live
<1>3. CASE r.at # NULL
  <2> DEFINE c == Len(blocks) + 1
             kept == {j \in 1 .. Len(blocks) : blocks[j].live}
  <2>1. SamePlaces(blocks)
    BY PlacesTyped DEF SamePlaces
  <2>2. r.at \in Nat /\ HeapStart \in Nat
    BY <1>3, GrantedRoom, RequestModest
  <2>3. \A a \in HeapStart .. BrkMax - 1 : a < r.at => mem'[a] = mem[a]
    BY <1>1, <1>3, <2>2, StoredBelow
  <2>4. /\ c \notin DOMAIN Contents
        /\ DOMAIN Contents' = kept \union {c}
        /\ Contents'[c] \in [0 .. total - 1 -> Value]
        /\ \A j \in kept : Contents'[j] = Contents[j]
    BY <1>1, <1>3, <2>1, <2>3, GrantedSeen
  <2>5. DOMAIN Contents = kept
    BY PlacesTyped DEF Contents, Live
  <2>6. Abstract!Allocate(c, total)
    BY <2>4, <2>5 DEF Abstract!Allocate, Abstract!OthersKept, Abstract!Bytes
  <2>7. c \in DOMAIN Contents' \ DOMAIN Contents
    BY <2>4
  <2> QED
    BY <2>6, <2>7 DEF Abstract!Next
<1> QED
  BY <1>2, <1>3

(* With the shim's strings among them the blocks still behave as            *)
(* AbstractHeap promises: making a string changes no other block's bytes,   *)
(* and neither string is touched by what the program does.                  *)
THEOREM EnvKeepsPromise ==
  ModestRequests /\ ModestStrings /\ NoZeroing /\ StringsRequested
    => (EnvSpec => KeepsPromise)
<1> SUFFICES ASSUME ModestRequests, ModestStrings, NoZeroing, StringsRequested
             PROVE  EnvSpec => KeepsPromise
  OBVIOUS
<1>1. EnvInit => Abstract!Init
  BY DEF EnvInit, Init, Abstract!Init, Contents, Live
<1>2. ASSUME EnvInvariant, EnvInvariant', [EnvNext]_<<vars, strings>>
      PROVE  [Abstract!Next]_Contents
  <2>1. /\ PromiseInvariant /\ PromiseInvariant' /\ HeapInvariant /\ HeapInvariant'
        /\ StringsTyped
    BY <1>2 DEF EnvInvariant, PromiseInvariant
  <2>2. /\ CommandLine(shim_argv) \in Seq(Value)
        /\ Len(CommandLine(shim_argv)) <= Total(shim_argv)
        /\ Total(shim_argv) \in Request
        /\ Listed(shim_envp) \in Seq(Value)
        /\ Len(Listed(shim_envp)) <= Total(shim_envp)
        /\ Total(shim_envp) \in Request
    BY <2>1, StringsFit DEF StringsTyped, StringsRequested
  <2>3. CASE Startup
    BY <2>1, <2>2, <2>3, MakesBlockSeen DEF Startup, CommandLine
  <2>4. CASE GetEnvironmentStrings
    BY <2>1, <2>2, <2>4, MakesBlockSeen DEF GetEnvironmentStrings
  <2>5. CASE Program
    <3>1. [Next]_vars
      BY <2>5 DEF Program, Next, Owned
    <3> QED
      BY <2>1, <3>1, PromiseStep
  <2>6. CASE UNCHANGED <<vars, strings>>
    BY <2>6 DEF vars, Contents, Live
  <2> QED
    BY <1>2, <2>3, <2>4, <2>5, <2>6 DEF EnvNext
<1>3. EnvInvariant /\ EnvInvariant' /\ [EnvNext]_<<vars, strings>>
        => [Abstract!Next]_Contents
  BY <1>2
<1>4. EnvSpec => []EnvInvariant
  BY EnvInvariantAlways
<1> QED
  BY <1>1, <1>3, <1>4, PTL DEF EnvSpec, KeepsPromise, Abstract!Spec
=============================================================================
