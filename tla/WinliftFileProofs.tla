-------------------------- MODULE WinliftFileProofs --------------------------
(***************************************************************************)
(* The file elf_write() completes: whatever the segments, their program    *)
(* headers and their bytes stand where the headers say.  The stream grows  *)
(* piece by piece, so the argument is about sequences: a piece, once       *)
(* written, stays where it is, and the next one starts at the end.         *)
(***************************************************************************)
EXTENDS WinliftProofs, SequenceTheorems

----------------------------------------------------------------------------
(* Sequences of bytes of any kind. *)

IsSeq(s) == \E S : s \in Seq(S)

(* piece stands in s after the first `off` bytes. *)
Holds(s, off, piece) ==
  /\ off + Len(piece) <= Len(s)
  /\ \A k \in 1 .. Len(piece) : s[off + k] = piece[k]

LEMMA SeqLen ==
  ASSUME NEW s, IsSeq(s)
  PROVE  Len(s) \in Nat /\ DOMAIN s = 1 .. Len(s)
BY DEF IsSeq

LEMMA TableIsSeq ==
  ASSUME NEW n \in Nat, NEW f, f = [k \in 1 .. n |-> f[k]]
  PROVE  IsSeq(f) /\ Len(f) = n
<1> DEFINE S == {f[k] : k \in 1 .. n}
<1>1. f \in [1 .. n -> S]
  OBVIOUS
<1> HIDE DEF S
<1>2. f \in Seq(S) /\ Len(f) = n
  BY <1>1
<1> QED
  BY <1>2 DEF IsSeq

LEMMA JoinFacts ==
  ASSUME NEW s, NEW t, IsSeq(s), IsSeq(t)
  PROVE  /\ IsSeq(s \o t)
         /\ Len(s) \in Nat /\ Len(t) \in Nat
         /\ Len(s \o t) = Len(s) + Len(t)
         /\ \A k \in 1 .. Len(s) : (s \o t)[k] = s[k]
         /\ \A k \in 1 .. Len(t) : (s \o t)[Len(s) + k] = t[k]
<1>1. PICK S : s \in Seq(S)
  BY DEF IsSeq
<1>2. PICK T : t \in Seq(T)
  BY DEF IsSeq
<1> DEFINE U == S \union T
<1>3. s \in Seq(U) /\ t \in Seq(U)
  <2>1. S \subseteq U /\ T \subseteq U
    OBVIOUS
  <2> HIDE DEF U
  <2> QED
    BY <1>1, <1>2, <2>1, SeqMonotonic
<1> HIDE DEF U
<1>4. /\ s \o t \in Seq(U)
      /\ Len(s \o t) = Len(s) + Len(t)
      /\ \A i \in 1 .. Len(s) + Len(t) :
           (s \o t)[i] = IF i <= Len(s) THEN s[i] ELSE t[i - Len(s)]
  BY <1>3, ConcatProperties
<1>5. Len(s) \in Nat /\ Len(t) \in Nat
  BY <1>3
<1>6. \A k \in 1 .. Len(s) : (s \o t)[k] = s[k]
  BY <1>4, <1>5
<1>7. ASSUME NEW k \in 1 .. Len(t) PROVE (s \o t)[Len(s) + k] = t[k]
  <2>1. /\ Len(s) + k \in 1 .. Len(s) + Len(t)
        /\ ~ (Len(s) + k <= Len(s)) /\ (Len(s) + k) - Len(s) = k
    BY <1>5
  <2> QED
    BY <1>4, <2>1
<1> QED
  BY <1>4, <1>5, <1>6, <1>7 DEF IsSeq

LEMMA JoinAssociative ==
  ASSUME NEW s, NEW t, NEW u, IsSeq(s), IsSeq(t), IsSeq(u)
  PROVE  (s \o t) \o u = s \o (t \o u)
<1>1. PICK S : s \in Seq(S)
  BY DEF IsSeq
<1>2. PICK T : t \in Seq(T)
  BY DEF IsSeq
<1>3. PICK V : u \in Seq(V)
  BY DEF IsSeq
<1> DEFINE U == S \union T \union V
<1>4. s \in Seq(U) /\ t \in Seq(U) /\ u \in Seq(U)
  <2>1. S \subseteq U /\ T \subseteq U /\ V \subseteq U
    OBVIOUS
  <2> HIDE DEF U
  <2> QED
    BY <1>1, <1>2, <1>3, <2>1, SeqMonotonic
<1> HIDE DEF U
<1> QED
  BY <1>4, ConcatAssociative

(* What was written stays. *)
LEMMA StillHeld ==
  ASSUME NEW s, NEW t, IsSeq(s), IsSeq(t),
         NEW off \in Nat, NEW piece, IsSeq(piece), Holds(s, off, piece)
  PROVE  Holds(s \o t, off, piece)
<1>1. /\ Len(s) \in Nat /\ Len(t) \in Nat /\ Len(piece) \in Nat
      /\ Len(s \o t) = Len(s) + Len(t)
      /\ \A k \in 1 .. Len(s) : (s \o t)[k] = s[k]
  BY JoinFacts, SeqLen
<1>2. \A k \in 1 .. Len(piece) : off + k \in 1 .. Len(s)
  BY <1>1 DEF Holds
<1> QED
  BY <1>1, <1>2 DEF Holds

(* What is written now stands at the end. *)
LEMMA NowHeld ==
  ASSUME NEW s, NEW t, IsSeq(s), IsSeq(t)
  PROVE  Holds(s \o t, Len(s), t)
<1>1. /\ Len(s) \in Nat /\ Len(t) \in Nat
      /\ Len(s \o t) = Len(s) + Len(t)
      /\ \A k \in 1 .. Len(t) : (s \o t)[Len(s) + k] = t[k]
  BY JoinFacts
<1> QED
  BY <1>1 DEF Holds

LEMMA HeldIsSubSeq ==
  ASSUME NEW s, NEW piece, IsSeq(s), IsSeq(piece), NEW off \in Nat,
         Holds(s, off, piece)
  PROVE  SubSeq(s, off + 1, off + Len(piece)) = piece
<1> DEFINE m == off + 1
           n == off + Len(piece)
           sub == SubSeq(s, m, n)
<1>1. Len(piece) \in Nat /\ Len(s) \in Nat
  BY SeqLen
<1>2. PICK S : s \in Seq(S)
  BY DEF IsSeq
<1>3. PICK T : piece \in Seq(T)
  BY DEF IsSeq
<1>4. \A i \in m .. n : s[i] \in S
  <2>1. \A i \in m .. n : i \in 1 .. Len(s)
    BY <1>1 DEF Holds
  <2> QED
    BY <1>2, <2>1
<1>5. /\ sub \in Seq(S)
      /\ Len(sub) = IF m <= n THEN n - m + 1 ELSE 0
      /\ \A i \in 1 .. n - m + 1 : sub[i] = s[m + i - 1]
  <2>1. m \in Int /\ n \in Int
    BY <1>1
  <2> HIDE DEF m, n
  <2> QED
    BY <1>4, <2>1, SubSeqProperties
<1>6. Len(sub) = Len(piece) /\ n - m + 1 = Len(piece)
  BY <1>1, <1>5
<1> HIDE DEF sub
<1>7. \A i \in 1 .. Len(sub) : sub[i] = piece[i]
  <2> SUFFICES ASSUME NEW i \in 1 .. Len(piece) PROVE sub[i] = piece[i]
    BY <1>6
  <2>1. m + i - 1 = off + i
    BY <1>1
  <2>2. sub[i] = s[off + i]
    BY <1>5, <1>6, <2>1
  <2> QED
    BY <2>2 DEF Holds
<1>8. sub = piece
  <2> DEFINE U == S \union T
  <2>1. sub \in Seq(U) /\ piece \in Seq(U)
    <3>1. S \subseteq U /\ T \subseteq U
      OBVIOUS
    <3> HIDE DEF U
    <3> QED
      BY <1>3, <1>5, <3>1, SeqMonotonic
  <2> HIDE DEF U
  <2> QED
    BY <1>6, <1>7, <2>1, SeqEqual
<1> QED
  BY <1>8 DEF sub, m, n

----------------------------------------------------------------------------
(* What the stream holds at each stage of elf_write(). *)

(* No segment's file range passes the end of the 32-bit offsets. *)
Fits == \A i \in DOMAIN segs : segs[i].fileOff + segs[i].filesz < WORD

PhdrAt(i) == EHSIZE + (i - 1) * PHSIZE

HeadersIn(s, n) ==
  /\ Holds(s, 0, Ehdr)
  /\ \A i \in 1 .. n : Holds(s, PhdrAt(i), Phdr(segs[i]))

DataIn(s, n) ==
  \A i \in 1 .. n :
    segs[i].filesz > 0 => Holds(s, segs[i].fileOff, SegmentData(segs[i]))

FileInvariant ==
  /\ pc = "phdrs" =>
       /\ IsSeq(stream) /\ w \in 1 .. Len(segs) + 1
       /\ Len(stream) = PhdrAt(w)
       /\ HeadersIn(stream, w - 1)
  /\ pc = "data" =>
       /\ IsSeq(stream) /\ w \in 1 .. Len(segs) + 1
       /\ HeadersIn(stream, Len(segs))
       /\ Fits => Len(stream) = cur /\ DataIn(stream, w - 1)
  /\ pc = "chmod" =>
       /\ IsSeq(stream)
       /\ HeadersIn(stream, Len(segs))
       /\ Fits => DataIn(stream, Len(segs))
       /\ io = "ok" => ondisk = Len(stream)

(* The pieces elf_write() writes. *)
LEMMA Pieces ==
  /\ IsSeq(Ehdr) /\ Len(Ehdr) = EHSIZE
  /\ \A s \in Segment :
       /\ IsSeq(Phdr(s)) /\ Len(Phdr(s)) = PHSIZE
       /\ IsSeq(SegmentData(s)) /\ Len(SegmentData(s)) = s.filesz
<1>1. EHSIZE \in Nat /\ PHSIZE \in Nat
  BY HeaderAssumption
<1>2. IsSeq(Ehdr) /\ Len(Ehdr) = EHSIZE
  BY <1>1, TableIsSeq DEF Ehdr
<1>3. ASSUME NEW s \in Segment
      PROVE  /\ IsSeq(Phdr(s)) /\ Len(Phdr(s)) = PHSIZE
             /\ IsSeq(SegmentData(s)) /\ Len(SegmentData(s)) = s.filesz
  <2>1. s.filesz \in Nat
    BY PageAssumption DEF Segment, Address
  <2>2. IsSeq(Phdr(s)) /\ Len(Phdr(s)) = PHSIZE
    BY <1>1, TableIsSeq DEF Phdr
  <2>3. IsSeq(SegmentData(s)) /\ Len(SegmentData(s)) = s.filesz
    BY <2>1, TableIsSeq DEF SegmentData
  <2> QED
    BY <2>2, <2>3
<1> QED
  BY <1>2, <1>3

LEMMA PhdrAtFacts ==
  ASSUME NEW i \in Nat \ {0}
  PROVE  /\ PhdrAt(i) \in Nat
         /\ PhdrAt(i + 1) = PhdrAt(i) + PHSIZE
         /\ PhdrAt(1) = EHSIZE
<1>1. EHSIZE \in Nat /\ PHSIZE \in Nat
  BY HeaderAssumption
<1>2. (i - 1) * PHSIZE \in Nat
  BY <1>1
<1>3. ((i + 1) - 1) * PHSIZE = (i - 1) * PHSIZE + PHSIZE
  BY <1>1
<1>4. (1 - 1) * PHSIZE = 0
  BY <1>1
<1> QED
  BY <1>1, <1>2, <1>3, <1>4 DEF PhdrAt

LEMMA SegmentNumbers ==
  ASSUME NEW s \in Segment
  PROVE  /\ s.fileOff \in Nat /\ s.filesz \in Nat /\ s.memsz \in Nat /\ s.vaddr \in Nat
         /\ s.fileOff < WORD /\ s.filesz < WORD
BY PageAssumption DEF Segment, Address

(* What is held stays held when something is written behind it. *)
LEMMA HeadersStay ==
  ASSUME NEW s, NEW more, IsSeq(s), IsSeq(more),
         segs \in Seq(Segment), NEW n \in 0 .. Len(segs), HeadersIn(s, n)
  PROVE  HeadersIn(s \o more, n)
<1>1. Holds(s \o more, 0, Ehdr)
  BY Pieces, StillHeld DEF HeadersIn
<1>2. ASSUME NEW i \in 1 .. n PROVE Holds(s \o more, PhdrAt(i), Phdr(segs[i]))
  <2>1. segs[i] \in Segment /\ i \in Nat \ {0}
    OBVIOUS
  <2> QED
    BY <2>1, Pieces, PhdrAtFacts, StillHeld DEF HeadersIn
<1> QED
  BY <1>1, <1>2 DEF HeadersIn

LEMMA DataStays ==
  ASSUME NEW s, NEW more, IsSeq(s), IsSeq(more),
         segs \in Seq(Segment), NEW n \in 0 .. Len(segs), DataIn(s, n)
  PROVE  DataIn(s \o more, n)
<1>1. ASSUME NEW i \in 1 .. n, segs[i].filesz > 0
      PROVE  Holds(s \o more, segs[i].fileOff, SegmentData(segs[i]))
  <2>1. segs[i] \in Segment
    OBVIOUS
  <2>2. segs[i].fileOff \in Nat
    BY <2>1, SegmentNumbers
  <2> QED
    BY <1>1, <2>1, <2>2, Pieces, StillHeld DEF DataIn
<1> QED
  BY <1>1 DEF DataIn

(* elf_write() changes nothing its pieces are made of: what the new stream
   holds of them it holds in the next state. *)
LEMMA HeadersNext ==
  ASSUME UNCHANGED specVars
  PROVE  HeadersIn(stream', Len(segs)) => HeadersIn(stream, Len(segs))'
<1>1. segs' = segs /\ entry' = entry
  BY DEF specVars
<1>2. Ehdr' = Ehdr
  BY <1>1 DEF Ehdr
<1> SUFFICES ASSUME HeadersIn(stream', Len(segs))
             PROVE  HeadersIn(stream, Len(segs))'
  OBVIOUS
<1>3. Holds(stream, 0, Ehdr)'
  BY <1>2 DEF HeadersIn, Holds
<1>4. ASSUME NEW i \in 1 .. Len(segs)
      PROVE  Holds(stream, PhdrAt(i), Phdr(segs[i]))'
  <2>1. Phdr(segs[i])' = Phdr(segs[i])
    BY <1>1 DEF Phdr
  <2>2. Holds(stream', PhdrAt(i), Phdr(segs[i]))
    BY <1>4 DEF HeadersIn
  <2> QED
    BY <2>1, <2>2 DEF Holds, PhdrAt
<1> QED
  BY <1>1, <1>3, <1>4 DEF HeadersIn

LEMMA DataNext ==
  ASSUME UNCHANGED specVars
  PROVE  DataIn(stream', Len(segs)) => DataIn(stream, Len(segs))'
<1>1. segs' = segs /\ mem' = mem
  BY DEF specVars, stubVars
<1>2. SUFFICES ASSUME DataIn(stream', Len(segs)), NEW i \in 1 .. Len(segs), segs[i].filesz > 0
               PROVE  Holds(stream, segs[i].fileOff, SegmentData(segs[i]))'
  BY <1>1 DEF DataIn
<1>3. Holds(stream', segs[i].fileOff, SegmentData(segs[i]))
  BY <1>2 DEF DataIn
<1>4. SegmentData(segs[i])' = SegmentData(segs[i])
  BY <1>1 DEF SegmentData, Read
<1> QED
  BY <1>1, <1>3, <1>4 DEF Holds

LEMMA HeadersNextLoop ==
  ASSUME UNCHANGED specVars
  PROVE  HeadersIn(stream', w' - 1) => HeadersIn(stream, w - 1)'
<1>1. segs' = segs /\ entry' = entry
  BY DEF specVars
<1>2. Ehdr' = Ehdr
  BY <1>1 DEF Ehdr
<1> SUFFICES ASSUME HeadersIn(stream', w' - 1)
             PROVE  HeadersIn(stream, w - 1)'
  OBVIOUS
<1>3. Holds(stream, 0, Ehdr)'
  BY <1>2 DEF HeadersIn, Holds
<1>4. ASSUME NEW i \in 1 .. w' - 1
      PROVE  Holds(stream, PhdrAt(i), Phdr(segs[i]))'
  <2>1. Phdr(segs[i])' = Phdr(segs[i])
    BY <1>1 DEF Phdr
  <2>2. Holds(stream', PhdrAt(i), Phdr(segs[i]))
    BY <1>4 DEF HeadersIn
  <2> QED
    BY <2>1, <2>2 DEF Holds, PhdrAt
<1> QED
  BY <1>3, <1>4 DEF HeadersIn

LEMMA DataNextLoop ==
  ASSUME UNCHANGED specVars
  PROVE  DataIn(stream', w' - 1) => DataIn(stream, w - 1)'
<1>1. segs' = segs /\ mem' = mem
  BY DEF specVars, stubVars
<1>2. SUFFICES ASSUME DataIn(stream', w' - 1), NEW i \in 1 .. w' - 1, segs[i].filesz > 0
               PROVE  Holds(stream, segs[i].fileOff, SegmentData(segs[i]))'
  BY <1>1 DEF DataIn
<1>3. Holds(stream', segs[i].fileOff, SegmentData(segs[i]))
  BY <1>2 DEF DataIn
<1>4. SegmentData(segs[i])' = SegmentData(segs[i])
  BY <1>1 DEF SegmentData, Read
<1> QED
  BY <1>1, <1>3, <1>4 DEF Holds

LEMMA EhdrHeld ==
  ASSUME WriteEhdr, segs \in Seq(Segment)
  PROVE  FileInvariant'
<1>1. /\ stream' = Ehdr /\ w' = 1 /\ pc' = "phdrs" /\ UNCHANGED specVars
      /\ segs' = segs
  BY DEF WriteEhdr, specVars
<1>2. IsSeq(Ehdr) /\ Len(Ehdr) = EHSIZE /\ Len(Ehdr) \in Nat
  BY Pieces, SeqLen
<1>3. HeadersIn(stream', w' - 1)
  <2>1. 1 .. w' - 1 = {}
    BY <1>1
  <2> QED
    BY <1>1, <1>2, <2>1 DEF HeadersIn, Holds
<1>4. HeadersIn(stream, w - 1)'
  BY <1>1, <1>3, HeadersNextLoop
<1>5. Len(stream') = PhdrAt(w)'
  <2>1. PhdrAt(1) = EHSIZE
    BY PhdrAtFacts
  <2> QED
    BY <1>1, <1>2, <2>1 DEF PhdrAt
<1>6. IsSeq(stream)'
  BY <1>1, <1>2 DEF IsSeq
<1>7. w' \in 1 .. Len(segs') + 1
  BY <1>1
<1> QED
  BY <1>1, <1>4, <1>5, <1>6, <1>7 DEF FileInvariant

LEMMA PhdrHeld ==
  ASSUME WritePhdr, segs \in Seq(Segment), FileInvariant
  PROVE  FileInvariant'
<1> DEFINE piece == Phdr(segs[w])
<1>1. /\ stream' = stream \o piece /\ w' = w + 1 /\ pc = "phdrs" /\ pc' = pc
      /\ UNCHANGED specVars /\ segs' = segs /\ w <= Len(segs)
  BY DEF WritePhdr, specVars
<1>2. /\ IsSeq(stream) /\ w \in 1 .. Len(segs) /\ Len(segs) \in Nat
      /\ Len(stream) = PhdrAt(w) /\ HeadersIn(stream, w - 1)
  BY <1>1 DEF FileInvariant
<1>3. segs[w] \in Segment /\ w \in Nat \ {0}
  BY <1>2
<1>4. IsSeq(piece) /\ Len(piece) = PHSIZE
  BY <1>3, Pieces
<1> HIDE DEF piece
<1>5. /\ IsSeq(stream') /\ Len(stream') = PhdrAt(w) + PHSIZE
      /\ Holds(stream', PhdrAt(w), piece)
  BY <1>1, <1>2, <1>4, JoinFacts, NowHeld
<1>6. HeadersIn(stream', w - 1)
  <2>1. w - 1 \in 0 .. Len(segs)
    BY <1>2
  <2> QED
    BY <1>1, <1>2, <1>4, <2>1, HeadersStay
<1>7. HeadersIn(stream', w' - 1)
  <2>1. w' - 1 = w /\ \A i \in 1 .. w : i \in 1 .. w - 1 \/ i = w
    BY <1>1, <1>2
  <2> QED
    BY <1>5, <1>6, <2>1 DEF HeadersIn, piece
<1>8. HeadersIn(stream, w - 1)'
  BY <1>1, <1>7, HeadersNextLoop
<1>9. Len(stream') = PhdrAt(w)'
  <2>1. PhdrAt(w + 1) = PhdrAt(w) + PHSIZE
    BY <1>3, PhdrAtFacts
  <2> QED
    BY <1>1, <1>5, <2>1 DEF PhdrAt
<1>10. IsSeq(stream)' /\ w' \in 1 .. Len(segs') + 1
  BY <1>1, <1>2, <1>5 DEF IsSeq
<1> QED
  BY <1>1, <1>8, <1>9, <1>10 DEF FileInvariant

LEMMA StartDataHeld ==
  ASSUME StartData, segs \in Seq(Segment), FileInvariant
  PROVE  FileInvariant'
<1>1. /\ stream' = stream /\ w' = 1 /\ pc = "phdrs" /\ pc' = "data"
      /\ UNCHANGED specVars /\ segs' = segs /\ w > Len(segs) /\ cur' = phdrs_end
  BY DEF StartData, specVars
<1>2. /\ IsSeq(stream) /\ w = Len(segs) + 1 /\ Len(segs) \in Nat
      /\ Len(stream) = PhdrAt(w) /\ HeadersIn(stream, w - 1)
  BY <1>1 DEF FileInvariant
<1>3. HeadersIn(stream', Len(segs)) /\ w - 1 = Len(segs)
  BY <1>1, <1>2
<1>4. HeadersIn(stream, Len(segs))'
  BY <1>1, <1>3, HeadersNext
<1>5. DataIn(stream, w - 1)'
  <2>1. 1 .. w' - 1 = {}
    BY <1>1
  <2>2. DataIn(stream', w' - 1)
    BY <2>1 DEF DataIn
  <2> QED
    BY <1>1, <2>2, DataNextLoop
<1>6. Len(stream') = cur'
  BY <1>1, <1>2, <1>3 DEF PhdrAt, phdrs_end
<1>7. IsSeq(stream)' /\ w' \in 1 .. Len(segs') + 1
  BY <1>1, <1>2 DEF IsSeq
<1> QED
  BY <1>1, <1>4, <1>5, <1>6, <1>7 DEF FileInvariant

LEMMA SkipHeld ==
  ASSUME SkipEmpty, segs \in Seq(Segment), FileInvariant
  PROVE  FileInvariant'
<1>1. /\ stream' = stream /\ w' = w + 1 /\ pc = "data" /\ pc' = pc /\ cur' = cur
      /\ UNCHANGED specVars /\ segs' = segs /\ w <= Len(segs) /\ segs[w].filesz = 0
  BY DEF SkipEmpty, specVars
<1>2. /\ IsSeq(stream) /\ w \in 1 .. Len(segs) /\ Len(segs) \in Nat
      /\ HeadersIn(stream, Len(segs))
      /\ Fits => Len(stream) = cur /\ DataIn(stream, w - 1)
  BY <1>1 DEF FileInvariant
<1>3. HeadersIn(stream, Len(segs))'
  BY <1>1, <1>2, HeadersNext
<1>4. ASSUME Fits' PROVE Len(stream') = cur' /\ DataIn(stream, w - 1)'
  <2>1. Fits
    BY <1>1, <1>4 DEF Fits
  <2>2. \A i \in 1 .. w' - 1 : i \in 1 .. w - 1 \/ i = w
    BY <1>1, <1>2
  <2>3. ~ (segs[w].filesz > 0)
    BY <1>1
  <2>4. DataIn(stream', w' - 1)
    BY <1>1, <1>2, <2>1, <2>2, <2>3 DEF DataIn
  <2> QED
    BY <1>1, <1>2, <2>1, <2>4, DataNextLoop
<1>5. IsSeq(stream)' /\ w' \in 1 .. Len(segs') + 1
  BY <1>1, <1>2 DEF IsSeq
<1> QED
  BY <1>1, <1>3, <1>4, <1>5 DEF FileInvariant

LEMMA SegmentHeld ==
  ASSUME WriteSegment, segs \in Seq(Segment), cur \in Nat, FileInvariant
  PROVE  FileInvariant'
<1> DEFINE s == segs[w]
           gap == s.fileOff - cur
           bytes == SegmentData(s)
           more == Zeros(gap) \o bytes
<1>1. /\ stream' = stream \o more /\ w' = w + 1 /\ pc = "data" /\ pc' = pc
      /\ cur' = (s.fileOff + s.filesz) % WORD
      /\ UNCHANGED specVars /\ segs' = segs /\ w <= Len(segs)
      /\ s.fileOff >= cur
  BY DEF WriteSegment, WritableSegment, PaddedData, specVars
<1>2. /\ IsSeq(stream) /\ w \in 1 .. Len(segs) /\ Len(segs) \in Nat
      /\ HeadersIn(stream, Len(segs))
      /\ Fits => Len(stream) = cur /\ DataIn(stream, w - 1)
  BY <1>1 DEF FileInvariant
<1>3. s \in Segment
  BY <1>2
<1>4. s.fileOff \in Nat /\ s.filesz \in Nat
  BY <1>3, SegmentNumbers
<1>5. gap \in Nat /\ cur + gap = s.fileOff
  BY <1>1, <1>4
<1>6. IsSeq(Zeros(gap)) /\ Len(Zeros(gap)) = gap
  BY <1>5, TableIsSeq DEF Zeros
<1>7. IsSeq(bytes) /\ Len(bytes) = s.filesz
  BY <1>3, Pieces
<1> HIDE DEF gap, bytes
<1>8. IsSeq(more) /\ Len(more) = gap + s.filesz
  BY <1>6, <1>7, JoinFacts, SMTT(30)
<1>9. stream' = (stream \o Zeros(gap)) \o bytes
  <2> DEFINE zeros == Zeros(gap)
  <2>1. IsSeq(stream) /\ IsSeq(zeros) /\ IsSeq(bytes)
    BY <1>2, <1>6, <1>7
  <2>2. stream' = stream \o (zeros \o bytes)
    BY <1>1
  <2> HIDE DEF zeros
  <2>3. (stream \o zeros) \o bytes = stream \o (zeros \o bytes)
    BY ONLY <2>1, JoinAssociative
  <2>4. stream' = (stream \o zeros) \o bytes
    BY ONLY <2>2, <2>3
  <2> QED
    BY <2>4 DEF zeros
<1>10. IsSeq(stream \o Zeros(gap)) /\ Len(stream \o Zeros(gap)) = Len(stream) + gap
  BY <1>2, <1>6, JoinFacts
<1>11. Holds(stream', Len(stream) + gap, bytes)
  BY <1>7, <1>9, <1>10, NowHeld
<1> HIDE DEF more
<1>12. IsSeq(stream') /\ Len(stream') = Len(stream) + gap + s.filesz
  <2>1. Len(stream) \in Nat
    BY <1>2, SeqLen
  <2> DEFINE before == stream \o Zeros(gap)
  <2>2. IsSeq(before) /\ Len(before) = Len(stream) + gap /\ stream' = before \o bytes
    BY <1>9, <1>10
  <2> HIDE DEF before
  <2>3. IsSeq(before \o bytes) /\ Len(before \o bytes) = Len(before) + Len(bytes)
    BY <1>7, <2>2, JoinFacts
  <2> QED
    BY <1>4, <1>5, <1>7, <2>1, <2>2, <2>3
<1>13. HeadersIn(stream, Len(segs))'
  <2>1. Len(segs) \in 0 .. Len(segs)
    BY <1>2
  <2>2. HeadersIn(stream', Len(segs))
    BY <1>1, <1>2, <1>8, <2>1, HeadersStay
  <2> QED
    BY <1>1, <2>2, HeadersNext
<1>14. ASSUME Fits' PROVE Len(stream') = cur' /\ DataIn(stream, w - 1)'
  <2>1. Fits
    BY <1>1, <1>14 DEF Fits
  <2>2. Len(stream) = cur /\ DataIn(stream, w - 1) /\ s.fileOff + s.filesz < WORD
    BY <1>2, <2>1 DEF Fits
  <2>3. Len(stream') = cur'
    <3>1. (s.fileOff + s.filesz) % WORD = s.fileOff + s.filesz
      <4> DEFINE end == s.fileOff + s.filesz
      <4>1. end \in Nat /\ end < WORD
        BY <1>4, <2>2
      <4> HIDE DEF end
      <4>2. end % WORD = end
        BY <4>1, SmallMod, PageAssumption
      <4> QED
        BY <4>2 DEF end
    <3> QED
      BY <1>1, <1>4, <1>5, <1>12, <2>2, <3>1
  <2>4. Holds(stream', s.fileOff, bytes)
    BY <1>5, <1>11, <2>2
  <2>5. DataIn(stream', w - 1)
    <3>1. w - 1 \in 0 .. Len(segs)
      BY <1>2
    <3> QED
      BY <1>1, <1>2, <1>8, <2>2, <3>1, DataStays
  <2>6. DataIn(stream', w' - 1)
    <3>1. \A i \in 1 .. w' - 1 : i \in 1 .. w - 1 \/ i = w
      BY <1>1, <1>2
    <3> QED
      BY <2>4, <2>5, <3>1 DEF DataIn, bytes
  <2> QED
    BY <1>1, <2>3, <2>6, DataNextLoop
<1>15. IsSeq(stream)' /\ w' \in 1 .. Len(segs') + 1
  BY <1>1, <1>2, <1>12 DEF IsSeq
<1> QED
  BY <1>1, <1>13, <1>14, <1>15 DEF FileInvariant

LEMMA CloseHeld ==
  ASSUME CloseOutput, segs \in Seq(Segment), FileInvariant
  PROVE  FileInvariant'
<1>1. /\ stream' = stream /\ pc = "data" /\ pc' = "chmod"
      /\ UNCHANGED specVars /\ segs' = segs /\ w > Len(segs)
      /\ io' = IF ondisk' = Len(stream) THEN "ok" ELSE "lost"
  BY DEF CloseOutput, specVars
<1>2. /\ IsSeq(stream) /\ w = Len(segs) + 1 /\ Len(segs) \in Nat
      /\ HeadersIn(stream, Len(segs))
      /\ Fits => DataIn(stream, w - 1)
  BY <1>1 DEF FileInvariant
<1>3. HeadersIn(stream, Len(segs))'
  BY <1>1, <1>2, HeadersNext
<1>4. Fits' => DataIn(stream, Len(segs))'
  <2>1. Fits' => Fits
    BY <1>1 DEF Fits
  <2>2. w - 1 = Len(segs)
    BY <1>2
  <2>3. Fits' => DataIn(stream', Len(segs))
    BY <1>1, <1>2, <2>1, <2>2
  <2> QED
    BY <1>1, <2>3, DataNext
<1>5. io' = "ok" => ondisk' = Len(stream')
  BY <1>1
<1> QED
  BY <1>1, <1>2, <1>3, <1>4, <1>5 DEF FileInvariant, IsSeq

LEMMA FileStep ==
  ASSUME Typing, FileInvariant, [Next]_vars
  PROVE  FileInvariant'
<1>1. segs \in Seq(Segment) /\ cur \in Nat
  BY DEF Typing, TypeOK
<1>2. CASE LayoutStep
  BY <1>2 DEF LayoutStep, LayoutRejects, LayoutHeaders, LayoutSection, SectionRejects,
              LayoutDone, FileInvariant
<1>3. CASE StubStep
  <2>1. pc' \in {"patch", "imports", "embed", "open", "reject"}
    BY <1>3 DEF StubStep, PatchRejects, StartPatching, PatchImport, ImportRejects,
                CopyShim, CopyRejects, EmbedSegment, SkipHeader, EmbedRejects,
                EnterShim, layoutVars
  <2> QED
    BY <2>1 DEF FileInvariant
<1>4. CASE WriteStep
  <2>1. CASE WriteRejects \/ OpenOutput \/ SegmentRejected \/ ShortWrite
    BY <2>1 DEF WriteRejects, OpenOutput, SegmentRejected, ShortWrite, FileInvariant
  <2> QED
    BY <1>1, <1>4, <2>1, EhdrHeld, PhdrHeld, StartDataHeld, SkipHeld, SegmentHeld,
       CloseHeld DEF WriteStep
<1>5. CASE Usage \/ Load \/ LoadFails \/ Inspect \/ CopyImage \/ CopyFails \/ Reject
           \/ Succeed
  BY <1>5 DEF Usage, Load, LoadFails, Inspect, CopyImage, CopyFails, Reject, Succeed,
              FileInvariant
<1>6. CASE UNCHANGED vars
  <2>1. UNCHANGED specVars /\ UNCHANGED <<pc, stream, ondisk, io, w, cur>>
    BY <1>6 DEF vars, specVars, writerVars
  <2>2. segs' = segs
    BY <2>1 DEF specVars
  <2>3. CASE pc = "phdrs"
    <3>1. IsSeq(stream') /\ w' \in 1 .. Len(segs') + 1 /\ Len(stream') = PhdrAt(w)'
      BY <2>1, <2>2, <2>3 DEF FileInvariant, PhdrAt
    <3>2. HeadersIn(stream', w' - 1)
      BY <2>1, <2>3 DEF FileInvariant
    <3>3. HeadersIn(stream, w - 1)'
      BY <2>1, <3>2, HeadersNextLoop
    <3> QED
      BY <2>1, <2>3, <3>1, <3>3 DEF FileInvariant, IsSeq
  <2>4. CASE pc = "data"
    <3>1. /\ IsSeq(stream') /\ w' \in 1 .. Len(segs') + 1
          /\ Fits' => Fits /\ Len(stream') = cur'
      BY <2>1, <2>2, <2>4 DEF FileInvariant, Fits
    <3>2. HeadersIn(stream', Len(segs)) /\ (Fits => DataIn(stream', w' - 1))
      BY <2>1, <2>4 DEF FileInvariant
    <3>3. HeadersIn(stream, Len(segs))' /\ (Fits => DataIn(stream, w - 1)')
      BY <2>1, <3>2, HeadersNext, DataNextLoop
    <3> QED
      BY <2>1, <2>4, <3>1, <3>3 DEF FileInvariant, IsSeq
  <2>5. CASE pc = "chmod"
    <3>1. /\ IsSeq(stream') /\ (Fits' => Fits)
          /\ io' = "ok" => ondisk' = Len(stream')
      BY <2>1, <2>2, <2>5 DEF FileInvariant, Fits
    <3>2. HeadersIn(stream', Len(segs)) /\ (Fits => DataIn(stream', Len(segs)))
      BY <2>1, <2>5 DEF FileInvariant
    <3>3. HeadersIn(stream, Len(segs))' /\ (Fits => DataIn(stream, Len(segs))')
      BY <2>1, <3>2, HeadersNext, DataNext
    <3> QED
      BY <2>1, <2>5, <3>1, <3>3 DEF FileInvariant, IsSeq
  <2>6. CASE pc \notin {"phdrs", "data", "chmod"}
    BY <2>1, <2>6 DEF FileInvariant
  <2> QED
    BY <2>3, <2>4, <2>5, <2>6
<1> QED
  BY <1>2, <1>3, <1>4, <1>5, <1>6 DEF Next, Exited

LEMMA FileInvariantAlways == Spec => []FileInvariant
<1>1. MainInit => FileInvariant
  BY DEF MainInit, Init, FileInvariant
<1>2. Typing /\ FileInvariant /\ [Next]_vars => FileInvariant'
  BY FileStep
<1> QED
  BY <1>1, <1>2, TypingInvariant, PTL DEF Spec

(* A file elf_write() completes holds its header, its program headers and
   every segment's bytes at the offsets they announce, for every image and
   every shim, well-formed or not, as long as no offset passes 2^32. *)
THEOREM SegmentsAlwaysPlaced == Spec => []SegmentsPlaced
<1>1. Typing /\ FileInvariant => SegmentsPlaced
  <2> SUFFICES ASSUME Typing, FileInvariant, pc = "chmod", Fits
               PROVE
                 /\ SubSeq(stream, 1, EHSIZE) = Ehdr
                 /\ \A i \in DOMAIN segs :
                      LET from == EHSIZE + (i - 1) * PHSIZE
                      IN /\ SubSeq(stream, from + 1, from + PHSIZE) = Phdr(segs[i])
                         /\ SubSeq(stream, segs[i].fileOff + 1,
                                   segs[i].fileOff + segs[i].filesz)
                              = SegmentData(segs[i])
    BY DEF SegmentsPlaced, Fits
  <2>1. /\ IsSeq(stream) /\ HeadersIn(stream, Len(segs)) /\ DataIn(stream, Len(segs))
        /\ segs \in Seq(Segment)
    BY DEF FileInvariant, Typing, TypeOK
  <2>2. SubSeq(stream, 1, EHSIZE) = Ehdr
    <3>1. IsSeq(Ehdr) /\ Len(Ehdr) = EHSIZE /\ EHSIZE \in Nat /\ Holds(stream, 0, Ehdr)
      BY <2>1, Pieces, HeaderAssumption DEF HeadersIn
    <3>2. SubSeq(stream, 0 + 1, 0 + Len(Ehdr)) = Ehdr
      BY <2>1, <3>1, HeldIsSubSeq
    <3> QED
      BY <3>1, <3>2
  <2>3. ASSUME NEW i \in DOMAIN segs
        PROVE  SubSeq(stream, PhdrAt(i) + 1, PhdrAt(i) + PHSIZE) = Phdr(segs[i])
    <3>1. segs[i] \in Segment /\ i \in 1 .. Len(segs) /\ i \in Nat \ {0}
      BY <2>1
    <3>2. /\ IsSeq(Phdr(segs[i])) /\ Len(Phdr(segs[i])) = PHSIZE
          /\ PhdrAt(i) \in Nat /\ Holds(stream, PhdrAt(i), Phdr(segs[i]))
      BY <2>1, <3>1, Pieces, PhdrAtFacts DEF HeadersIn
    <3>3. SubSeq(stream, PhdrAt(i) + 1, PhdrAt(i) + Len(Phdr(segs[i]))) = Phdr(segs[i])
      BY <2>1, <3>2, HeldIsSubSeq
    <3> QED
      BY <3>2, <3>3
  <2>4. ASSUME NEW i \in DOMAIN segs
        PROVE  SubSeq(stream, segs[i].fileOff + 1, segs[i].fileOff + segs[i].filesz)
                 = SegmentData(segs[i])
    <3> DEFINE s == segs[i]
               bytes == SegmentData(s)
    <3>1. s \in Segment /\ i \in 1 .. Len(segs)
      BY <2>1
    <3>2. s.fileOff \in Nat /\ s.filesz \in Nat
      BY <3>1, SegmentNumbers
    <3>3. IsSeq(bytes) /\ Len(bytes) = s.filesz
      BY <3>1, Pieces
    <3> HIDE DEF bytes
    <3>4. CASE s.filesz > 0
      <4>1. Holds(stream, s.fileOff, bytes)
        BY <2>1, <3>1, <3>4 DEF DataIn, bytes
      <4>2. SubSeq(stream, s.fileOff + 1, s.fileOff + Len(bytes)) = bytes
        BY <2>1, <3>2, <3>3, <4>1, HeldIsSubSeq
      <4> QED
        BY <3>3, <4>2 DEF bytes
    <3>5. CASE s.filesz = 0
      <4>1. bytes = <<>>
        BY <3>3, <3>5, EmptySeq DEF IsSeq
      <4>2. SubSeq(stream, s.fileOff + 1, s.fileOff + s.filesz) = <<>>
        <5> DEFINE m == s.fileOff + 1
                   n == s.fileOff + s.filesz
        <5>1. m \in Int /\ n \in Int /\ n < m
          BY <3>2, <3>5
        <5> HIDE DEF m, n
        <5>2. SubSeq(stream, m, n) = <<>>
          BY <5>1, SubSeqEmpty
        <5> QED
          BY <5>2 DEF m, n
      <4> QED
        BY <4>1, <4>2 DEF bytes
    <3> QED
      BY <3>2, <3>4, <3>5
  <2> QED
    BY <2>2, <2>3, <2>4 DEF PhdrAt
<1> QED
  BY <1>1, FileInvariantAlways, TypingInvariant, PTL

----------------------------------------------------------------------------
(***************************************************************************)
(* The output is the program: for every well-formed image below the shim,  *)
(* each byte is followed from the input, through the patched copy, the     *)
(* segment that points at it and the place in the file it is written to,   *)
(* to the address the kernel maps it at.                                   *)
(***************************************************************************)

(* Well-formed as the loader returns it: what the first lemmas assume of an
   image. *)
Sound(image) == Loadable(image) /\ WellFormed(image)

SlotOf(image, j) == pe_rva_to_ptr(image, image.imports[j].iatRva, SLOT_SIZE)

(* Where an import's slot lies: in the headers, or in the raw bytes of one
   section. *)
InHeaders(image, j) ==
  LET r == image.imports[j].iatRva
  IN /\ r + SLOT_SIZE <= image.sizeOfHeaders
     /\ r + SLOT_SIZE <= image.rawSize
     /\ SlotOf(image, j) = r

InSection(image, j, i) ==
  LET r == image.imports[j].iatRva
      s == image.sections[i]
  IN /\ i \in DOMAIN image.sections
     /\ s.rva <= r
     /\ r + SLOT_SIZE <= s.rva + s.vsize
     /\ r + SLOT_SIZE <= s.rva + s.fsize
     /\ SlotOf(image, j) = s.fileOff + (r - s.rva)

LEMMA ImageTypes ==
  ASSUME NEW image, Loadable(image)
  PROVE  /\ image.sizeOfHeaders \in Nat /\ image.rawSize \in Nat
         /\ image.base \in Nat /\ image.sizeOfImage \in Nat
         /\ image.sections \in Seq(Section) /\ image.imports \in Seq(Import)
         /\ \A i \in DOMAIN image.sections :
              LET s == image.sections[i]
              IN /\ s \in Section
                 /\ s.rva \in Nat /\ s.vsize \in Nat
                 /\ s.fileOff \in Nat /\ s.fsize \in Nat
                 /\ s.fileOff + s.fsize <= image.rawSize
         /\ \A j \in DOMAIN image.imports : image.imports[j].iatRva \in Nat
         /\ SLOT_SIZE \in Nat /\ SLOT_SIZE > 0
<1>1. Address \subseteq Nat
  BY PageAssumption DEF Address
<1>2. /\ image.sections \in Seq(Section) /\ image.imports \in Seq(Import)
      /\ image.sizeOfHeaders \in Nat /\ image.rawSize \in Nat
      /\ image.base \in Nat /\ image.sizeOfImage \in Nat
  BY <1>1 DEF Loadable
<1>3. ASSUME NEW i \in DOMAIN image.sections
      PROVE  LET s == image.sections[i]
             IN /\ s \in Section
                /\ s.rva \in Nat /\ s.vsize \in Nat
                /\ s.fileOff \in Nat /\ s.fsize \in Nat
                /\ s.fileOff + s.fsize <= image.rawSize
  <2>1. image.sections[i] \in Section
    BY <1>2
  <2> QED
    BY <1>1, <2>1 DEF Section, Loadable
<1>4. ASSUME NEW j \in DOMAIN image.imports
      PROVE  image.imports[j].iatRva \in Nat
  <2>1. image.imports[j] \in Import
    BY <1>2
  <2> QED
    BY <1>1, <2>1 DEF Import
<1> QED
  BY <1>2, <1>3, <1>4, PageAssumption

LEMMA SlotPlaced ==
  ASSUME NEW image, Loadable(image), NEW j \in DOMAIN image.imports,
         SlotOf(image, j) # NULL
  PROVE  InHeaders(image, j) \/ \E i \in DOMAIN image.sections : InSection(image, j, i)
<1> DEFINE r == image.imports[j].iatRva
           C == Covering(image, r, SLOT_SIZE)
           i == CHOOSE i \in C : \A k \in C : i <= k
           s == image.sections[i]
<1>1. r \in Nat /\ SLOT_SIZE \in Nat /\ SLOT_SIZE > 0
  BY ImageTypes
<1>2. CASE r < image.sizeOfHeaders
  <2>1. InHeaders(image, j)
    BY <1>1, <1>2, ImageTypes DEF InHeaders, SlotOf, pe_rva_to_ptr
  <2> QED
    BY <2>1
<1>3. CASE ~ (r < image.sizeOfHeaders)
  <2>1. C # {} /\ SlotOf(image, j) = SectionOffset(image, s, r, SLOT_SIZE)
    BY <1>3 DEF SlotOf, pe_rva_to_ptr
  <2>2. i \in C
    <3> HIDE DEF C
    <3>1. \E m \in C : \A k \in C : m <= k
      <4>1. C \subseteq DOMAIN image.sections
        BY DEF C, Covering
      <4>2. DOMAIN image.sections \subseteq Nat
        BY ImageTypes
      <4> QED
        BY <2>1, <4>1, <4>2, LeastElement
    <3> QED
      BY <3>1
  <2> HIDE DEF i
  <2>3. /\ i \in DOMAIN image.sections
        /\ r >= s.rva /\ r + SLOT_SIZE <= s.rva + s.vsize
    BY <2>2 DEF Covering
  <2>4. s.rva \in Nat /\ s.fsize \in Nat /\ s.fileOff \in Nat /\ image.rawSize \in Nat
    BY <2>3, ImageTypes
  <2>5. /\ ~ (r - s.rva + SLOT_SIZE > s.fsize)
        /\ SlotOf(image, j) = s.fileOff + (r - s.rva)
    BY <2>1 DEF SectionOffset
  <2>6. r + SLOT_SIZE <= s.rva + s.fsize
    BY <1>1, <2>4, <2>5
  <2>7. InSection(image, j, i)
    BY <2>3, <2>5, <2>6 DEF InSection
  <2> QED
    BY <2>3, <2>7
<1> QED
  BY <1>2, <1>3
----------------------------------------------------------------------------
(* The bytes of the private copy while the imports are patched. *)

Covers(image, j, k) == SlotOf(image, j) <= k /\ k < SlotOf(image, j) + SLOT_SIZE

LEMMA SlotRange ==
  ASSUME NEW image, Loadable(image), NEW j \in DOMAIN image.imports,
         SlotOf(image, j) # NULL
  PROVE  /\ SlotOf(image, j) \in Nat
         /\ SlotOf(image, j) + SLOT_SIZE <= image.rawSize
<1>1. CASE InHeaders(image, j)
  BY <1>1, ImageTypes DEF InHeaders
<1>2. ASSUME NEW i \in DOMAIN image.sections, InSection(image, j, i)
      PROVE  /\ SlotOf(image, j) \in Nat
             /\ SlotOf(image, j) + SLOT_SIZE <= image.rawSize
  <2> DEFINE r == image.imports[j].iatRva
             s == image.sections[i]
  <2>1. /\ r \in Nat /\ s.rva \in Nat /\ s.fsize \in Nat /\ s.fileOff \in Nat
        /\ image.rawSize \in Nat /\ SLOT_SIZE \in Nat
        /\ s.fileOff + s.fsize <= image.rawSize
    BY ImageTypes
  <2>2. /\ s.rva <= r /\ r + SLOT_SIZE <= s.rva + s.fsize
        /\ SlotOf(image, j) = s.fileOff + (r - s.rva)
    BY <1>2 DEF InSection
  <2> QED
    BY <2>1, <2>2
<1> QED
  BY <1>1, <1>2, SlotPlaced

(* A file byte under a slot is a byte of the headers or of the section the
   slot is in. *)
LEMMA SlotBytes ==
  ASSUME NEW image, Sound(image), NEW j \in DOMAIN image.imports,
         SlotOf(image, j) # NULL, NEW k \in Nat, Covers(image, j, k)
  PROVE  \/ /\ InHeaders(image, j)
            /\ k < image.sizeOfHeaders
         \/ \E i \in DOMAIN image.sections :
              /\ InSection(image, j, i)
              /\ image.sizeOfHeaders <= k
              /\ image.sections[i].fileOff <= k
              /\ k < image.sections[i].fileOff + image.sections[i].fsize
<1> USE DEF Sound
<1>1. CASE InHeaders(image, j)
  BY <1>1, ImageTypes DEF InHeaders, Covers
<1>2. ASSUME NEW i \in DOMAIN image.sections, InSection(image, j, i)
      PROVE  /\ image.sizeOfHeaders <= k
             /\ image.sections[i].fileOff <= k
             /\ k < image.sections[i].fileOff + image.sections[i].fsize
  <2> DEFINE r == image.imports[j].iatRva
             s == image.sections[i]
  <2>1. /\ r \in Nat /\ s.rva \in Nat /\ s.fsize \in Nat /\ s.fileOff \in Nat
        /\ SLOT_SIZE \in Nat /\ SLOT_SIZE > 0 /\ image.sizeOfHeaders \in Nat
    BY ImageTypes
  <2>2. /\ s.rva <= r /\ r + SLOT_SIZE <= s.rva + s.fsize
        /\ SlotOf(image, j) = s.fileOff + (r - s.rva)
    BY <1>2 DEF InSection
  <2>3. s.fsize > 0
    BY <2>1, <2>2
  <2>4. s.fileOff >= image.sizeOfHeaders
    BY <2>3 DEF WellFormed, FileRangesDisjoint
  <2> QED
    BY <2>1, <2>2, <2>4 DEF Covers
<1> QED
  BY <1>1, <1>2, SlotPlaced

(* Two sections with raw bytes share none. *)
LEMMA SectionsApart ==
  ASSUME NEW image, Sound(image),
         NEW i \in DOMAIN image.sections, NEW m \in DOMAIN image.sections, NEW k \in Nat,
         image.sections[i].fileOff <= k,
         k < image.sections[i].fileOff + image.sections[i].fsize,
         image.sections[m].fileOff <= k,
         k < image.sections[m].fileOff + image.sections[m].fsize
  PROVE  i = m
<1> DEFINE s == image.sections[i]
           t == image.sections[m]
<1>1. /\ s.fileOff \in Nat /\ s.fsize \in Nat /\ t.fileOff \in Nat /\ t.fsize \in Nat
  BY ImageTypes DEF Sound
<1>2. s.fsize > 0 /\ t.fsize > 0
  BY <1>1
<1>3. i # m => \/ s.fileOff + s.fsize <= t.fileOff
               \/ t.fileOff + t.fsize <= s.fileOff
  BY <1>2 DEF Sound, WellFormed, FileRangesDisjoint
<1> QED
  BY <1>1, <1>3

(* Slots that do not overlap in memory do not overlap in the file. *)
LEMMA SlotsApart ==
  ASSUME NEW image, Sound(image),
         NEW i \in DOMAIN image.imports, NEW j \in DOMAIN image.imports, i # j,
         SlotOf(image, i) # NULL, SlotOf(image, j) # NULL,
         NEW k \in Nat, Covers(image, i, k), Covers(image, j, k)
  PROVE  FALSE
<1> DEFINE a == image.imports[i].iatRva
           b == image.imports[j].iatRva
<1>1. a \in Nat /\ b \in Nat /\ SLOT_SIZE \in Nat /\ image.sizeOfHeaders \in Nat
  BY ImageTypes DEF Sound
<1>2. a + SLOT_SIZE <= b \/ b + SLOT_SIZE <= a
  BY DEF Sound, WellFormed, SlotsDisjoint
<1>3. CASE k < image.sizeOfHeaders
  <2>1. InHeaders(image, i) /\ InHeaders(image, j)
    BY <1>1, <1>3, SlotBytes
  <2> QED
    BY <1>1, <1>2, <2>1 DEF InHeaders, Covers
<1>4. CASE ~ (k < image.sizeOfHeaders)
  <2>1. PICK m \in DOMAIN image.sections :
          /\ InSection(image, i, m)
          /\ image.sections[m].fileOff <= k
          /\ k < image.sections[m].fileOff + image.sections[m].fsize
    BY <1>4, SlotBytes
  <2>2. PICK n \in DOMAIN image.sections :
          /\ InSection(image, j, n)
          /\ image.sections[n].fileOff <= k
          /\ k < image.sections[n].fileOff + image.sections[n].fsize
    BY <1>4, SlotBytes
  <2>3. m = n
    BY <2>1, <2>2, SectionsApart
  <2> DEFINE s == image.sections[m]
  <2>4. s.rva \in Nat /\ s.fileOff \in Nat
    BY ImageTypes DEF Sound
  <2>5. SlotOf(image, i) = s.fileOff + (a - s.rva) /\ SlotOf(image, j) = s.fileOff + (b - s.rva)
    BY <2>1, <2>2, <2>3 DEF InSection
  <2> QED
    BY <1>1, <1>2, <2>4, <2>5 DEF Covers
<1> QED
  BY <1>3, <1>4

(* The first n imports are patched: their slots hold the addresses they
   resolve to, every other byte is the input's. *)
Patched(image, bytes, n) ==
  /\ DOMAIN bytes = 0 .. image.rawSize - 1
  /\ \A j \in 1 .. n :
       /\ SlotOf(image, j) # NULL
       /\ \A k \in Nat :
            Covers(image, j, k) =>
              bytes[k] = AddressByte(ImportAddress(image.imports[j]), k - SlotOf(image, j))
  /\ \A k \in 0 .. image.rawSize - 1 :
       (\A j \in 1 .. n : ~ Covers(image, j, k)) => bytes[k] = Byte("pe", k)

LEMMA NothingPatched ==
  ASSUME NEW image, Loadable(image)
  PROVE  Patched(image, Fresh("pe", image.rawSize), 0)
<1>1. 1 .. 0 = {}
  OBVIOUS
<1> QED
  BY <1>1 DEF Patched, Fresh

LEMMA PatchStep ==
  ASSUME NEW image, Sound(image), NEW n \in Nat, n + 1 \in DOMAIN image.imports,
         NEW bytes, Patched(image, bytes, n), SlotOf(image, n + 1) # NULL
  PROVE  Patched(image,
                 Store(bytes, SlotOf(image, n + 1), ImportAddress(image.imports[n + 1])),
                 n + 1)
<1> DEFINE m == n + 1
           at == SlotOf(image, m)
           address == ImportAddress(image.imports[m])
           new == Store(bytes, at, address)
<1>1. /\ DOMAIN image.imports = 1 .. Len(image.imports) /\ Len(image.imports) \in Nat
      /\ image.rawSize \in Nat /\ SLOT_SIZE \in Nat
  BY ImageTypes DEF Sound
<1>2. at \in Nat /\ at + SLOT_SIZE <= image.rawSize
  BY SlotRange DEF Sound
<1>3. DOMAIN new = 0 .. image.rawSize - 1
  BY DEF Store, Patched
<1>4. ASSUME NEW k \in 0 .. image.rawSize - 1, Covers(image, m, k)
      PROVE  new[k] = AddressByte(address, k - at)
  BY <1>4 DEF Store, Patched, Covers
<1>5. ASSUME NEW k \in 0 .. image.rawSize - 1, ~ Covers(image, m, k)
      PROVE  new[k] = bytes[k]
  BY <1>5 DEF Store, Patched, Covers
<1> HIDE DEF new
<1>6. ASSUME NEW j \in 1 .. m
      PROVE  /\ SlotOf(image, j) # NULL
             /\ \A k \in Nat :
                  Covers(image, j, k) =>
                    new[k] = AddressByte(ImportAddress(image.imports[j]),
                                         k - SlotOf(image, j))
  <2>1. CASE j = m
    <3>1. \A k \in Nat : Covers(image, m, k) => k \in 0 .. image.rawSize - 1
      BY <1>1, <1>2 DEF Covers
    <3> QED
      BY <1>4, <2>1, <3>1
  <2>2. CASE j # m
    <3>1. j \in 1 .. n /\ j \in DOMAIN image.imports
      BY <1>1, <2>2
    <3>2. SlotOf(image, j) # NULL
      BY <3>1 DEF Patched
    <3> SUFFICES ASSUME NEW k \in Nat, Covers(image, j, k)
                 PROVE  new[k] = AddressByte(ImportAddress(image.imports[j]),
                                             k - SlotOf(image, j))
      BY <3>2
    <3>3. ~ Covers(image, m, k)
      BY <2>2, <3>1, <3>2, SlotsApart
    <3>4. k \in 0 .. image.rawSize - 1
      <4>1. SlotOf(image, j) \in Nat /\ SlotOf(image, j) + SLOT_SIZE <= image.rawSize
        BY <3>1, <3>2, SlotRange DEF Sound
      <4> QED
        BY <1>1, <4>1 DEF Covers
    <3>5. new[k] = bytes[k]
      BY <1>5, <3>3, <3>4
    <3> QED
      BY <3>1, <3>5 DEF Patched
  <2> QED
    BY <2>1, <2>2
<1>7. ASSUME NEW k \in 0 .. image.rawSize - 1, \A j \in 1 .. m : ~ Covers(image, j, k)
      PROVE  new[k] = Byte("pe", k)
  <2>1. \A j \in 1 .. n : j \in 1 .. m
    OBVIOUS
  <2>2. ~ Covers(image, m, k) /\ \A j \in 1 .. n : ~ Covers(image, j, k)
    BY <1>7, <2>1
  <2> QED
    BY <1>5, <2>2 DEF Patched
<1>8. Patched(image, new, m)
  BY <1>3, <1>6, <1>7 DEF Patched
<1> QED
  BY <1>8 DEF new
----------------------------------------------------------------------------
(* What lies in ascending order one after the other lies in ascending order. *)
LEMMA Ascending ==
  ASSUME NEW n \in Nat, NEW lo \in [1 .. n -> Nat], NEW hi \in [1 .. n -> Nat],
         \A i \in 1 .. n : lo[i] <= hi[i],
         \A i \in 1 .. n : i > 1 => hi[i - 1] <= lo[i]
  PROVE  \A i, j \in 1 .. n : i < j => hi[i] <= lo[j]
<1> SUFFICES ASSUME NEW i \in 1 .. n
             PROVE  \A j \in 1 .. n : i < j => hi[i] <= lo[j]
  OBVIOUS
<1> DEFINE T == {j \in 1 .. n : i < j /\ ~ (hi[i] <= lo[j])}
<1>1. T \subseteq Nat
  OBVIOUS
<1>2. ASSUME T # {} PROVE FALSE
  <2> HIDE DEF T
  <2>1. PICK m \in T : \A k \in T : m <= k
    BY <1>1, <1>2, LeastElement
  <2> USE DEF T
  <2>2. m \in 1 .. n /\ i < m /\ ~ (hi[i] <= lo[m])
    BY <2>1
  <2>3. m > 1 /\ m - 1 \in 1 .. n
    BY <2>2
  <2>4. hi[m - 1] <= lo[m] /\ lo[m - 1] <= hi[m - 1]
    BY <2>2, <2>3
  <2>5. CASE m = i + 1
    BY <2>2, <2>4, <2>5
  <2>6. CASE m # i + 1
    <3>1. i < m - 1
      BY <2>2, <2>3, <2>6
    <3>2. hi[i] <= lo[m - 1]
      BY <2>1, <2>3, <3>1
    <3>3. hi[i] \in Nat /\ lo[m - 1] \in Nat /\ hi[m - 1] \in Nat /\ lo[m] \in Nat
      BY <2>2, <2>3
    <3> QED
      BY <2>2, <2>4, <3>2, <3>3
  <2> QED
    BY <2>5, <2>6
<1> QED
  BY <1>2

(* Sections take separate ranges of memory, behind the headers. *)
LEMMA SectionsInOrder ==
  ASSUME NEW image, Sound(image)
  PROVE  /\ \A i \in DOMAIN image.sections :
              image.sizeOfHeaders <= image.sections[i].rva
         /\ \A i, m \in DOMAIN image.sections :
              i < m => image.sections[i].rva + SectionSize(image.sections[i])
                         <= image.sections[m].rva
<1> DEFINE n == Len(image.sections)
           start(i) == image.sections[i].rva
           end(i) == image.sections[i].rva + SectionSize(image.sections[i])
           lo == [i \in 1 .. n |-> start(i)]
           hi == [i \in 1 .. n |-> end(i)]
<1>1. DOMAIN image.sections = 1 .. n /\ n \in Nat
  BY ImageTypes DEF Sound
<1>2. ASSUME NEW i \in 1 .. n
      PROVE  start(i) \in Nat /\ end(i) \in Nat /\ start(i) <= end(i)
  <2>1. /\ image.sections[i].rva \in Nat /\ image.sections[i].vsize \in Nat
        /\ image.sections[i].fsize \in Nat
    BY <1>1, ImageTypes DEF Sound
  <2> QED
    BY <2>1 DEF SectionSize, Larger
<1>3. image.sizeOfHeaders <= PageUp(image.sizeOfHeaders) /\ PageUp(image.sizeOfHeaders) \in Nat
  BY ImageTypes, PageUpFacts DEF Sound
<1>4. \A i \in 1 .. n : image.sizeOfHeaders <= start(i)
  <2> SUFFICES ASSUME NEW i \in 1 .. n PROVE image.sizeOfHeaders <= start(i)
    OBVIOUS
  <2>1. PageUp(image.sizeOfHeaders) <= start(i)
    BY <1>1 DEF Sound, WellFormed, PagesAscend
  <2> QED
    BY <1>2, <1>3, <2>1, ImageTypes DEF Sound
<1>5. ASSUME NEW i \in 1 .. n, i > 1
      PROVE  end(i - 1) <= start(i)
  <2>1. i - 1 \in 1 .. n
    BY <1>1, <1>5
  <2>2. PageUp(end(i - 1)) <= start(i)
    BY <1>1, <1>5, <2>1 DEF Sound, WellFormed, PagesAscend
  <2>3. end(i - 1) \in Nat /\ start(i) \in Nat
    BY <1>2, <2>1
  <2> HIDE DEF start, end
  <2>4. end(i - 1) <= PageUp(end(i - 1)) /\ PageUp(end(i - 1)) \in Nat
    BY <2>3, PageUpFacts
  <2> QED
    BY <2>2, <2>3, <2>4
<1> HIDE DEF start, end
<1>6. lo \in [1 .. n -> Nat] /\ hi \in [1 .. n -> Nat]
  BY <1>2
<1>7. \A i \in 1 .. n : lo[i] <= hi[i]
  BY <1>2
<1>8. \A i \in 1 .. n : i > 1 => hi[i - 1] <= lo[i]
  <2> SUFFICES ASSUME NEW i \in 1 .. n, i > 1 PROVE hi[i - 1] <= lo[i]
    OBVIOUS
  <2>1. i - 1 \in 1 .. n
    BY <1>1
  <2> QED
    BY <1>5, <2>1
<1> HIDE DEF lo, hi, n
<1>9. \A i, j \in 1 .. n : i < j => hi[i] <= lo[j]
  BY <1>1, <1>6, <1>7, <1>8, Ascending
<1>10. \A i, m \in 1 .. n : i < m => end(i) <= start(m)
  BY <1>9 DEF lo, hi
<1> QED
  BY <1>1, <1>4, <1>10 DEF start, end

(* The file byte an address of the image comes from. *)
Maps(image, rva, k) ==
  \/ rva = k /\ k < image.sizeOfHeaders
  \/ \E i \in DOMAIN image.sections :
       LET s == image.sections[i]
       IN s.rva <= rva /\ rva < s.rva + s.fsize /\ k = s.fileOff + (rva - s.rva)

OverSlot(image, j, rva) ==
  image.imports[j].iatRva <= rva /\ rva < image.imports[j].iatRva + SLOT_SIZE

(* The file byte an address comes from is under a slot exactly when the
   address is, and at the same place in it. *)
LEMMA SlotHere ==
  ASSUME NEW image, Sound(image), NEW j \in DOMAIN image.imports,
         SlotOf(image, j) # NULL,
         NEW rva \in Nat, NEW k \in Nat, Maps(image, rva, k)
  PROVE  /\ OverSlot(image, j, rva) <=> Covers(image, j, k)
         /\ Covers(image, j, k) =>
              k - SlotOf(image, j) = rva - image.imports[j].iatRva
<1> DEFINE r == image.imports[j].iatRva
<1>1. r \in Nat /\ SLOT_SIZE \in Nat /\ SLOT_SIZE > 0 /\ image.sizeOfHeaders \in Nat
  BY ImageTypes DEF Sound
<1>2. CASE rva = k /\ k < image.sizeOfHeaders
  <2>1. CASE InHeaders(image, j)
    BY <1>1, <1>2, <2>1 DEF InHeaders, OverSlot, Covers
  <2>2. ASSUME NEW m \in DOMAIN image.sections, InSection(image, j, m)
        PROVE  ~ OverSlot(image, j, rva) /\ ~ Covers(image, j, k)
    <3> DEFINE s == image.sections[m]
    <3>1. /\ s.rva \in Nat /\ s.fsize \in Nat /\ s.fileOff \in Nat
          /\ image.sizeOfHeaders <= s.rva
      BY ImageTypes, SectionsInOrder DEF Sound
    <3>2. s.rva <= r /\ r + SLOT_SIZE <= s.rva + s.fsize
          /\ SlotOf(image, j) = s.fileOff + (r - s.rva)
      BY <2>2 DEF InSection
    <3>3. s.fsize > 0
      BY <1>1, <3>1, <3>2
    <3>4. s.fileOff >= image.sizeOfHeaders
      BY <3>3 DEF Sound, WellFormed, FileRangesDisjoint
    <3> QED
      BY <1>1, <1>2, <3>1, <3>2, <3>4 DEF OverSlot, Covers
  <2> QED
    BY <2>1, <2>2, SlotPlaced DEF Sound
<1>3. ASSUME NEW i \in DOMAIN image.sections,
             image.sections[i].rva <= rva,
             rva < image.sections[i].rva + image.sections[i].fsize,
             k = image.sections[i].fileOff + (rva - image.sections[i].rva)
      PROVE  /\ OverSlot(image, j, rva) <=> Covers(image, j, k)
             /\ Covers(image, j, k) => k - SlotOf(image, j) = rva - r
  <2> DEFINE s == image.sections[i]
  <2>1. /\ s.rva \in Nat /\ s.fsize \in Nat /\ s.vsize \in Nat /\ s.fileOff \in Nat
        /\ image.sizeOfHeaders <= s.rva
    BY ImageTypes, SectionsInOrder DEF Sound
  <2>2. s.fileOff >= image.sizeOfHeaders
    <3>1. s.fsize > 0
      BY <1>3, <2>1
    <3> QED
      BY <3>1 DEF Sound, WellFormed, FileRangesDisjoint
  <2>3. CASE InHeaders(image, j)
    BY <1>1, <1>3, <2>1, <2>2, <2>3 DEF InHeaders, OverSlot, Covers
  <2>4. ASSUME NEW m \in DOMAIN image.sections, InSection(image, j, m)
        PROVE  /\ OverSlot(image, j, rva) <=> Covers(image, j, k)
               /\ Covers(image, j, k) => k - SlotOf(image, j) = rva - r
    <3> DEFINE t == image.sections[m]
    <3>1. /\ t.rva \in Nat /\ t.fsize \in Nat /\ t.vsize \in Nat /\ t.fileOff \in Nat
      BY ImageTypes DEF Sound
    <3>2. /\ t.rva <= r /\ r + SLOT_SIZE <= t.rva + t.fsize
          /\ SlotOf(image, j) = t.fileOff + (r - t.rva)
      BY <2>4 DEF InSection
    <3>3. CASE i = m
      BY <1>1, <1>3, <2>1, <3>2, <3>3 DEF OverSlot, Covers
    <3>4. CASE i # m
      <4>1. ~ Covers(image, j, k)
        <5>1. ASSUME Covers(image, j, k) PROVE FALSE
          <6>1. t.fileOff <= k /\ k < t.fileOff + t.fsize
            BY <1>1, <3>1, <3>2, <5>1 DEF Covers
          <6>2. s.fileOff <= k /\ k < s.fileOff + s.fsize
            BY <1>3, <2>1
          <6> QED
            BY <3>4, <6>1, <6>2, SectionsApart
        <5> QED
          BY <5>1
      <4>2. ~ OverSlot(image, j, rva)
        <5>1. /\ s.rva + SectionSize(s) <= t.rva \/ t.rva + SectionSize(t) <= s.rva
          <6>1. i \in Nat /\ m \in Nat
            BY ImageTypes DEF Sound
          <6>2. i < m \/ m < i
            BY <3>4, <6>1
          <6> QED
            BY <6>2, SectionsInOrder
        <5>2. /\ SectionSize(s) \in Nat /\ s.fsize <= SectionSize(s)
              /\ SectionSize(t) \in Nat /\ t.fsize <= SectionSize(t)
          BY <2>1, <3>1 DEF SectionSize, Larger
        <5> QED
          BY <1>1, <1>3, <2>1, <3>1, <3>2, <5>1, <5>2 DEF OverSlot
      <4> QED
        BY <4>1, <4>2
    <3> QED
      BY <3>3, <3>4
  <2> QED
    BY <2>3, <2>4, SlotPlaced DEF Sound
<1> QED
  BY <1>2, <1>3 DEF Maps

(* b is the byte the program should find at an address that comes from byte k
   of the file. *)
IsExpected(image, rva, k, b) ==
  /\ (\A j \in DOMAIN image.imports : ~ OverSlot(image, j, rva)) => b = Byte("pe", k)
  /\ \A j \in DOMAIN image.imports :
       OverSlot(image, j, rva) =>
         b = AddressByte(ImportAddress(image.imports[j]), rva - image.imports[j].iatRva)

LEMMA PatchedAsExpected ==
  ASSUME NEW image, Sound(image), NEW bytes,
         Patched(image, bytes, Len(image.imports)),
         NEW rva \in Nat, NEW k \in 0 .. image.rawSize - 1, Maps(image, rva, k)
  PROVE  IsExpected(image, rva, k, bytes[k])
<1>1. DOMAIN image.imports = 1 .. Len(image.imports) /\ image.rawSize \in Nat
  BY ImageTypes DEF Sound
<1>2. ASSUME NEW j \in DOMAIN image.imports
      PROVE  /\ SlotOf(image, j) # NULL
             /\ OverSlot(image, j, rva) <=> Covers(image, j, k)
             /\ Covers(image, j, k) =>
                  /\ k - SlotOf(image, j) = rva - image.imports[j].iatRva
                  /\ bytes[k] = AddressByte(ImportAddress(image.imports[j]),
                                            k - SlotOf(image, j))
  <2>1. SlotOf(image, j) # NULL /\ k \in Nat
    BY <1>1 DEF Patched
  <2> QED
    BY <1>1, <2>1, SlotHere DEF Patched
<1>3. (\A j \in DOMAIN image.imports : ~ Covers(image, j, k)) => bytes[k] = Byte("pe", k)
  BY <1>1 DEF Patched
<1> QED
  BY <1>2, <1>3 DEF IsExpected
----------------------------------------------------------------------------
(* What the segments are made of, and what the buffers they point at hold. *)

IsHeader(image, s) ==
  /\ s.vaddr = image.base
  /\ s.filesz = image.sizeOfHeaders /\ s.memsz = image.sizeOfHeaders
  /\ s.data = DataAt("copy", 0, image.sizeOfHeaders)

IsSection(image, s, t) ==
  /\ s.vaddr = (image.base + t.rva) % WORD
  /\ s.flags = SectionFlags(t.characteristics)
  /\ s.filesz = t.fsize /\ s.memsz = SectionSize(t)
  /\ s.data = DataAt("copy", t.fileOff, t.fsize)

IsShim(s, p) ==
  /\ s.vaddr = p.vaddr
  /\ s.filesz = p.filesz /\ s.memsz = p.memsz
  /\ s.data = DataAt("shim", p.off, p.filesz)

ImageSegments(image, ss) ==
  /\ Len(ss) >= 1
  /\ IsHeader(image, ss[1])
  /\ \A i \in DOMAIN image.sections :
       i < Len(ss) => IsSection(image, ss[i + 1], image.sections[i])

ShimSegments(ss, n) ==
  \A i \in ShimLoads : i < n => \E j \in DOMAIN ss : IsShim(ss[j], ShimPhdrs[i])

EntryWord == Symbol("shim_pe_entry_target")

ShimCopy(image) ==
  Store(Fresh("shim", ShimSize), ShimOffset(EntryWord),
        (image.base + image.entryRva) % WORD)

Embedded == pc = "embed" \/ Writing

OutputInvariant ==
  /\ pc = "loaded" => mem["loaded"] = Fresh("pe", img.rawSize)
  /\ pc \in {"layout", "sections", "patch"} => mem["copy"] = Fresh("pe", img.rawSize)
  /\ Laying => ImageSegments(img, segs)
  /\ (pc \in {"patch", "imports"} \/ Embedded) => Len(segs) > Len(img.sections)
  /\ pc = "imports" =>
       /\ imp \in 1 .. Len(img.imports) + 1
       /\ WellFormed(img) => Patched(img, mem["copy"], imp - 1)
  /\ Embedded =>
       /\ ShimUsable
       /\ mem["shim"] = ShimCopy(img)
       /\ WellFormed(img) => Patched(img, mem["copy"], Len(img.imports))
  /\ pc = "embed" => ShimSegments(segs, ph)
  /\ Writing => ShimSegments(segs, Len(ShimPhdrs) + 1) /\ entry = Symbol("_start")

LEMMA AppendOne ==
  ASSUME segs \in Seq(Segment), NEW s \in Segment, AppendSegment(s)
  PROVE  /\ Len(segs) \in Nat
         /\ DOMAIN segs = 1 .. Len(segs)
         /\ Len(segs') = Len(segs) + 1
         /\ DOMAIN segs' = 1 .. Len(segs) + 1
         /\ segs'[Len(segs) + 1] = s
         /\ \A i \in 1 .. Len(segs) : segs'[i] = segs[i]
BY DEF AppendSegment

(* Image segments stay in front. *)
LEMMA ImageSegmentsStay ==
  ASSUME segs \in Seq(Segment), NEW s \in Segment, AppendSegment(s),
         NEW image, Loadable(image), ImageSegments(image, segs),
         Len(segs) \in DOMAIN image.sections =>
           IsSection(image, s, image.sections[Len(segs)])
  PROVE  ImageSegments(image, segs')
<1>1. /\ Len(segs) \in Nat
      /\ Len(segs') = Len(segs) + 1
      /\ segs'[Len(segs) + 1] = s
      /\ \A i \in 1 .. Len(segs) : segs'[i] = segs[i]
  BY AppendOne
<1>2. Len(segs) >= 1 /\ IsHeader(image, segs[1])
  BY DEF ImageSegments
<1>3. Len(segs') >= 1 /\ IsHeader(image, segs'[1])
  BY <1>1, <1>2
<1>4. ASSUME NEW i \in DOMAIN image.sections, i < Len(segs')
      PROVE  IsSection(image, segs'[i + 1], image.sections[i])
  <2>1. i \in Nat \ {0}
    BY ImageTypes
  <2>2. CASE i < Len(segs)
    <3>1. i + 1 \in 1 .. Len(segs)
      BY <1>1, <2>1, <2>2
    <3> QED
      BY <1>1, <2>2, <3>1 DEF ImageSegments
  <2>3. CASE i = Len(segs)
    BY <1>1, <2>3
  <2> QED
    BY <1>1, <1>4, <2>1, <2>2, <2>3
<1> QED
  BY <1>3, <1>4 DEF ImageSegments

LEMMA ShimSegmentsStay ==
  ASSUME segs \in Seq(Segment), NEW i \in ShimLoads, NEW s \in Segment,
         AppendSegment(s), IsShim(s, ShimPhdrs[i]), ShimSegments(segs, i)
  PROVE  ShimSegments(segs', i + 1)
<1>1. /\ Len(segs) \in Nat
      /\ DOMAIN segs = 1 .. Len(segs)
      /\ DOMAIN segs' = 1 .. Len(segs) + 1
      /\ segs'[Len(segs) + 1] = s
      /\ \A j \in 1 .. Len(segs) : segs'[j] = segs[j]
  BY AppendOne
<1> SUFFICES ASSUME NEW m \in ShimLoads, m < i + 1
             PROVE  \E j \in DOMAIN segs' : IsShim(segs'[j], ShimPhdrs[m])
  BY DEF ShimSegments
<1>2. m \in Nat /\ i \in Nat
  BY ShimAssumption DEF ShimLoads
<1>3. CASE m = i
  <2>1. Len(segs) + 1 \in DOMAIN segs'
    BY <1>1
  <2> QED
    BY <1>1, <1>3, <2>1
<1>4. CASE m < i
  <2>1. PICK j \in DOMAIN segs : IsShim(segs[j], ShimPhdrs[m])
    BY <1>4 DEF ShimSegments
  <2>2. j \in DOMAIN segs' /\ segs'[j] = segs[j]
    BY <1>1, <2>1
  <2> QED
    BY <2>1, <2>2
<1> QED
  BY <1>2, <1>3, <1>4

LEMMA LoadedSound ==
  ASSUME Typing, pc \notin {"load", "exit"}
  PROVE  Loadable(img) /\ img \in Images
BY ImagesAssumption DEF Typing, StageChecked

----------------------------------------------------------------------------
(* The invariant, step by step. *)

LEMMA HeadersOutput ==
  ASSUME Typing, OutputInvariant, LayoutHeaders, UNCHANGED stubVars
  PROVE  OutputInvariant'
<1>1. /\ pc = "layout" /\ pc' = "sections" /\ img' = img /\ mem' = mem
      /\ raw = "copy" /\ segs = <<>> /\ segs \in Seq(Segment)
      /\ AppendSegment(HeaderSegment)
  BY DEF LayoutHeaders, stubVars, Typing, TypeOK, BuffersOwned, StageChecked
<1>2. Loadable(img) /\ img \in Images
  BY <1>1, LoadedSound
<1>3. HeaderSegment \in Segment
  BY <1>1, <1>2, HeaderSegmentTyping
<1>4. Len(segs') = 1 /\ segs'[1] = HeaderSegment
  BY <1>1, <1>3, AppendOne
<1>5. IsHeader(img, HeaderSegment)
  BY <1>1 DEF IsHeader, HeaderSegment
<1>6. ImageSegments(img, segs')
  <2>1. \A i \in DOMAIN img.sections : ~ (i < 1)
    BY <1>2, ImageTypes
  <2> QED
    BY <1>4, <1>5, <2>1 DEF ImageSegments
<1> QED
  BY <1>1, <1>6 DEF OutputInvariant, Laying, Embedded, Writing

LEMMA SectionOutput ==
  ASSUME Typing, OutputInvariant, LayoutSection, UNCHANGED stubVars
  PROVE  OutputInvariant'
<1> DEFINE s == SectionSegment(NextSection)
<1>1. /\ pc = "sections" /\ pc' = pc /\ img' = img /\ mem' = mem
      /\ raw = "copy" /\ segs \in Seq(Segment) /\ segs # <<>> /\ curOff \in Address
      /\ Len(segs) <= Len(img.sections)
      /\ AppendSegment(s)
  BY DEF LayoutSection, stubVars, Typing, TypeOK, BuffersOwned, StageChecked
<1>2. Loadable(img) /\ img \in Images /\ ImageSegments(img, segs)
  BY <1>1, LoadedSound DEF OutputInvariant, Laying
<1>3. Len(segs) \in DOMAIN img.sections
  BY <1>1, <1>2, ImageTypes
<1>4. NextSection = img.sections[Len(segs)] /\ NextSection \in Section
  BY <1>2, <1>3, ImageTypes DEF NextSection
<1>5. s \in Segment
  BY <1>1, <1>2, <1>4, SectionSegmentTyping
<1>6. IsSection(img, s, img.sections[Len(segs)])
  BY <1>1, <1>4 DEF IsSection, SectionSegment, SectionSize
<1> HIDE DEF s
<1>7. ImageSegments(img, segs')
  BY <1>1, <1>2, <1>5, <1>6, ImageSegmentsStay
<1> QED
  BY <1>1, <1>7 DEF OutputInvariant, Laying, Embedded, Writing

LEMMA PatchOutput ==
  ASSUME Typing, OutputInvariant, PatchImport
  PROVE  OutputInvariant'
<1> DEFINE fn == img.imports[imp]
           new == Store(mem["copy"], Slot(fn), ImportAddress(fn))
<1>1. /\ pc = "imports" /\ pc' = pc /\ img' = img /\ segs' = segs
      /\ raw = "copy" /\ DOMAIN mem = {"copy"}
      /\ imp <= Len(img.imports) /\ imp' = imp + 1
      /\ Slot(fn) # NULL
      /\ mem' = [mem EXCEPT !["copy"] = new]
  BY DEF PatchImport, layoutVars, Typing, BuffersOwned
<1>2. Loadable(img) /\ imp \in 1 .. Len(img.imports) + 1
  BY <1>1, LoadedSound DEF OutputInvariant
<1>3. mem'["copy"] = new
  BY <1>1
<1>4. imp \in DOMAIN img.imports /\ imp' \in 1 .. Len(img.imports) + 1
  BY <1>1, <1>2, ImageTypes
<1>5. ASSUME WellFormed(img) PROVE Patched(img, new, imp' - 1)
  <2>1. Patched(img, mem["copy"], imp - 1) /\ Sound(img)
    BY <1>1, <1>2, <1>5 DEF OutputInvariant, Sound
  <2>2. imp - 1 \in Nat /\ (imp - 1) + 1 = imp /\ imp' - 1 = imp
    BY <1>1, <1>2
  <2>3. Slot(fn) = SlotOf(img, imp)
    BY DEF Slot, SlotOf
  <2>4. SlotOf(img, (imp - 1) + 1) # NULL /\ (imp - 1) + 1 \in DOMAIN img.imports
    BY <1>1, <1>4, <2>2, <2>3
  <2>5. Patched(img, Store(mem["copy"], SlotOf(img, (imp - 1) + 1),
                           ImportAddress(img.imports[(imp - 1) + 1])), (imp - 1) + 1)
    BY <2>1, <2>2, <2>4, PatchStep
  <2> QED
    BY <2>2, <2>3, <2>5
<1> HIDE DEF new
<1> QED
  BY <1>1, <1>3, <1>4, <1>5 DEF OutputInvariant, Laying, Embedded, Writing

LEMMA CopyShimOutput ==
  ASSUME Typing, OutputInvariant, CopyShim
  PROVE  OutputInvariant'
<1>1. /\ pc = "imports" /\ pc' = "embed" /\ img' = img /\ segs' = segs
      /\ DOMAIN mem = {"copy"} /\ ShimUsable /\ ph' = 1
      /\ imp > Len(img.imports)
      /\ mem'["shim"] = ShimCopy(img) /\ mem'["copy"] = mem["copy"]
  BY DEF CopyShim, ShimCopy, EntryWord, PeEntry, Typing, BuffersOwned
<1>2. Loadable(img) /\ imp \in 1 .. Len(img.imports) + 1
  BY <1>1, LoadedSound DEF OutputInvariant
<1>3. imp - 1 = Len(img.imports)
  BY <1>1, <1>2, ImageTypes
<1>4. WellFormed(img) => Patched(img, mem["copy"], Len(img.imports))
  BY <1>1, <1>3 DEF OutputInvariant
<1>5. ShimSegments(segs, 1)
  BY ShimAssumption DEF ShimSegments, ShimLoads
<1> QED
  BY <1>1, <1>4, <1>5 DEF OutputInvariant, Laying, Embedded, Writing, ShimUsable

LEMMA EmbedOutput ==
  ASSUME Typing, OutputInvariant, EmbedSegment
  PROVE  OutputInvariant'
<1> DEFINE s == ShimSegment(ShimPhdrs[ph])
<1>1. /\ pc = "embed" /\ pc' = pc /\ img' = img /\ mem' = mem /\ ph' = ph + 1
      /\ segs \in Seq(Segment) /\ curOff \in Address /\ ph \in ShimLoads
      /\ AppendSegment(s)
  BY ShimAssumption
  DEF EmbedSegment, Typing, TypeOK, StageChecked, ShimLoads
<1>2. Loadable(img) /\ img \in Images
  BY <1>1, LoadedSound
<1>3. s \in Segment /\ IsShim(s, ShimPhdrs[ph])
  BY <1>1, ShimSegmentTyping DEF IsShim, ShimSegment
<1> HIDE DEF s
<1>4. ImageSegments(img, segs) /\ Len(segs) > Len(img.sections) /\ ShimSegments(segs, ph)
  BY <1>1 DEF OutputInvariant, Laying, Embedded
<1>5. Len(segs') = Len(segs) + 1 /\ Len(segs) \in Nat
  BY <1>1, <1>3, AppendOne
<1>6. ImageSegments(img, segs')
  <2>1. Len(segs) \notin DOMAIN img.sections
    BY <1>2, <1>4, <1>5, ImageTypes
  <2> QED
    BY <1>1, <1>2, <1>3, <1>4, <2>1, ImageSegmentsStay
<1>7. ShimSegments(segs', ph + 1)
  BY <1>1, <1>3, <1>4, ShimSegmentsStay
<1>8. Len(segs') > Len(img.sections)
  BY <1>2, <1>4, <1>5, ImageTypes
<1> QED
  BY <1>1, <1>6, <1>7, <1>8 DEF OutputInvariant, Laying, Embedded, Writing, ShimUsable

LEMMA SkipHeaderOutput ==
  ASSUME Typing, OutputInvariant, SkipHeader
  PROVE  OutputInvariant'
<1>1. /\ pc = "embed" /\ pc' = pc /\ img' = img /\ segs' = segs /\ mem' = mem
      /\ ph' = ph + 1 /\ ph \notin ShimLoads /\ ph \in Nat
  BY DEF SkipHeader, layoutVars, ShimLoads, Typing, TypeOK
<1>2. ShimSegments(segs, ph + 1)
  <2>1. \A i \in ShimLoads : i < ph + 1 => i < ph
    BY <1>1, ShimAssumption DEF ShimLoads
  <2> QED
    BY <1>1, <2>1 DEF OutputInvariant, ShimSegments
<1> QED
  BY <1>1, <1>2 DEF OutputInvariant, Laying, Embedded, Writing, ShimUsable

LEMMA EnterOutput ==
  ASSUME Typing, OutputInvariant, EnterShim
  PROVE  OutputInvariant'
<1>1. /\ pc = "embed" /\ pc' = "open" /\ img' = img /\ segs' = segs /\ mem' = mem
      /\ ph > Len(ShimPhdrs) /\ ph \in Nat /\ entry' = Symbol("_start")
  BY DEF EnterShim, stubVars, Typing, TypeOK
<1>2. ShimSegments(segs, Len(ShimPhdrs) + 1)
  <2>1. \A i \in ShimLoads : i < ph
    BY <1>1, ShimAssumption DEF ShimLoads
  <2> QED
    BY <1>1, <2>1 DEF OutputInvariant, ShimSegments
<1> QED
  BY <1>1, <1>2 DEF OutputInvariant, Laying, Embedded, Writing, ShimUsable

LEMMA OutputStep ==
  ASSUME Typing, OutputInvariant, [Next]_vars
  PROVE  OutputInvariant'
<1> USE DEF Laying, Embedded, Writing
<1>1. CASE pc' \in {"reject", "exit"}
  BY <1>1 DEF OutputInvariant
<1>2. CASE LayoutStep /\ UNCHANGED <<stubVars, writerVars, mainVars>>
  <2>1. CASE LayoutDone
    <3>1. /\ pc = "sections" /\ pc' = "patch" /\ img' = img /\ segs' = segs
          /\ mem' = mem /\ Len(segs) > Len(img.sections)
      BY <1>2, <2>1 DEF LayoutDone, stubVars
    <3> QED
      BY <3>1 DEF OutputInvariant
  <2>2. LayoutRejects \/ SectionRejects => pc' = "reject"
    BY DEF LayoutRejects, SectionRejects
  <2> QED
    BY <1>1, <1>2, <2>1, <2>2, HeadersOutput, SectionOutput DEF LayoutStep
<1>3. CASE StubStep
  <2>1. CASE StartPatching
    <3>1. /\ pc = "patch" /\ pc' = "imports" /\ img' = img /\ segs' = segs
          /\ mem' = mem /\ imp' = 1
      BY <2>1 DEF StartPatching
    <3>2. Loadable(img)
      BY <3>1, LoadedSound
    <3>3. Patched(img, mem["copy"], 0)
      BY <3>1, <3>2, NothingPatched DEF OutputInvariant
    <3>4. imp' \in 1 .. Len(img.imports) + 1 /\ imp' - 1 = 0
      BY <3>1, <3>2, ImageTypes
    <3> QED
      BY <3>1, <3>3, <3>4 DEF OutputInvariant
  <2>2. PatchRejects \/ ImportRejects \/ CopyRejects \/ EmbedRejects => pc' = "reject"
    BY DEF PatchRejects, ImportRejects, CopyRejects, EmbedRejects
  <2> QED
    BY <1>1, <1>3, <2>1, <2>2, PatchOutput, CopyShimOutput, EmbedOutput,
       SkipHeaderOutput, EnterOutput DEF StubStep
<1>4. CASE WriteStep
  <2>1. /\ Writing /\ (Writing' \/ pc' = "reject")
        /\ img' = img /\ segs' = segs /\ mem' = mem /\ entry' = entry
    BY <1>4 DEF WriteStep, WriteRejects, OpenOutput, WriteEhdr, WritePhdr, StartData,
                SkipEmpty, WriteSegment, SegmentRejected, ShortWrite, CloseOutput,
                specVars, stubVars
  <2> QED
    BY <1>1, <2>1 DEF OutputInvariant, ShimUsable
<1>5. CASE Load
  <2>1. pc' = "loaded" /\ mem'["loaded"] = Fresh("pe", img'.rawSize)
    BY <1>5 DEF Load
  <2> QED
    BY <2>1 DEF OutputInvariant
<1>6. CASE CopyImage
  <2>1. /\ pc = "loaded" /\ pc' = "layout" /\ img' = img
        /\ mem'["copy"] = mem["loaded"]
    BY <1>6 DEF CopyImage, ReplaceBytes, Typing, BuffersOwned
  <2> QED
    BY <2>1 DEF OutputInvariant
<1>7. CASE Usage \/ LoadFails \/ Inspect \/ CopyFails \/ Reject \/ Succeed
  BY <1>1, <1>7 DEF Usage, LoadFails, Inspect, CopyFails, Reject, Succeed
<1>8. CASE UNCHANGED vars
  <2>1. /\ pc' = pc /\ img' = img /\ segs' = segs /\ mem' = mem /\ entry' = entry
        /\ imp' = imp /\ ph' = ph
    BY <1>8 DEF vars, specVars, stubVars
  <2> QED
    BY <2>1 DEF OutputInvariant, ShimUsable
<1> QED
  BY <1>2, <1>3, <1>4, <1>5, <1>6, <1>7, <1>8 DEF Next, Exited

LEMMA OutputInvariantAlways == Spec => []OutputInvariant
<1>1. MainInit => OutputInvariant
  BY DEF MainInit, Init, OutputInvariant, Laying, Embedded, Writing
<1>2. Typing /\ OutputInvariant /\ [Next]_vars => OutputInvariant'
  BY OutputStep
<1> QED
  BY <1>1, <1>2, TypingInvariant, PTL DEF Spec
----------------------------------------------------------------------------
(* What a completed file holds, in the words of the kernel that loads it. *)

PhdrOf(s) ==
  [off |-> s.fileOff, vaddr |-> s.vaddr, filesz |-> s.filesz, memsz |-> s.memsz,
   flags |-> s.flags]

(* The bytes a data pointer of a segment reads. *)
Bytes(copy, shim, buf) == IF buf = "shim" THEN shim ELSE copy

Stored(ss, e, file, copy, shim) ==
  /\ Len(file) \in Nat \ {0}
  /\ file[1][2] = [entry |-> e, phnum |-> Len(ss)]
  /\ \A i \in DOMAIN ss :
       /\ PhdrAt(i) \in Nat /\ PhdrAt(i) < Len(file)
       /\ file[PhdrAt(i) + 1][2] = PhdrOf(ss[i])
       /\ \A k \in 0 .. ss[i].filesz - 1 :
            LET data == ss[i].data
                from == Bytes(copy, shim, data.buf)
            IN /\ ss[i].fileOff + k < Len(file)
               /\ data.at + k \in DOMAIN from =>
                    file[ss[i].fileOff + k + 1] = from[data.at + k]

PagesApart(ss) ==
  \A i, j \in DOMAIN ss : i < j => End(ss[i]) <= ss[j].vaddr

Delivered(image, ss, e, file) ==
  /\ image \in Images
  /\ ss \in Seq(Segment)
  /\ ImageSegments(image, ss) /\ Len(ss) > Len(image.sections)
  /\ ShimSegments(ss, Len(ShimPhdrs) + 1)
  /\ PagesApart(ss)
  /\ ShimUsable /\ e = Symbol("_start")
  /\ \E copy : /\ Patched(image, copy, Len(image.imports))
               /\ Stored(ss, e, file, copy, ShimCopy(image))

LEMMA OffsetsFit ==
  ASSUME Typing, LaidOutSoFar
  PROVE  Fits
<1>1. segs \in Seq(Segment) /\ curOff \in Address /\ Len(segs) \in Nat
  BY DEF Typing, TypeOK
<1> SUFFICES ASSUME NEW i \in DOMAIN segs
             PROVE  segs[i].fileOff + segs[i].filesz < WORD
  BY DEF Fits
<1>2. i \in 1 .. Len(segs) /\ segs[i] \in Segment
  BY <1>1
<1>3. CASE i = Len(segs)
  BY <1>1, <1>2, <1>3, SegmentNumbers, PageAssumption
  DEF LaidOutSoFar, OffsetsBehindAddresses, LastSegment, Address
<1>4. CASE i < Len(segs)
  <2>1. i + 1 \in 1 .. Len(segs) /\ (i + 1) - 1 = i /\ i + 1 > 1
    BY <1>1, <1>2, <1>4
  <2>2. segs[i + 1] \in Segment
    BY <1>1, <2>1
  <2>3. segs[i].fileOff + segs[i].filesz <= segs[i + 1].fileOff
    BY <1>1, <2>1 DEF LaidOutSoFar, SegmentsLaidOut, FileSorted
  <2> QED
    BY <1>2, <2>2, <2>3, SegmentNumbers, PageAssumption
<1> QED
  BY <1>1, <1>2, <1>3, <1>4

LEMMA SegmentsApart ==
  ASSUME segs \in Seq(Segment), PagesSorted
  PROVE  PagesApart(segs)
<1> DEFINE n == Len(segs)
           lo == [i \in 1 .. n |-> segs[i].vaddr]
           hi == [i \in 1 .. n |-> End(segs[i])]
<1>1. n \in Nat /\ DOMAIN segs = 1 .. n
  OBVIOUS
<1>2. ASSUME NEW i \in 1 .. n
      PROVE  /\ segs[i].vaddr \in Nat /\ End(segs[i]) \in Nat
             /\ segs[i].vaddr <= End(segs[i])
  <2>1. segs[i].vaddr \in Nat /\ segs[i].memsz \in Nat
    <3>1. segs[i] \in Segment
      OBVIOUS
    <3> QED
      BY <3>1, SegmentNumbers
  <2>2. segs[i].vaddr + segs[i].memsz \in Nat
    BY <2>1
  <2>3. /\ PageUp(segs[i].vaddr + segs[i].memsz) \in Nat
        /\ PageUp(segs[i].vaddr + segs[i].memsz) >= segs[i].vaddr + segs[i].memsz
    BY <2>2, PageUpFacts
  <2> QED
    BY <2>1, <2>3 DEF End
<1>3. lo \in [1 .. n -> Nat] /\ hi \in [1 .. n -> Nat]
  BY <1>2
<1>4. \A i \in 1 .. n : lo[i] <= hi[i]
  BY <1>2
<1>5. \A i \in 1 .. n : i > 1 => hi[i - 1] <= lo[i]
  <2> SUFFICES ASSUME NEW i \in 1 .. n, i > 1 PROVE hi[i - 1] <= lo[i]
    OBVIOUS
  <2>1. i - 1 \in 1 .. n
    BY <1>1
  <2> QED
    BY <1>1, <2>1 DEF PagesSorted, End
<1> HIDE DEF lo, hi, n
<1>6. \A i, j \in 1 .. n : i < j => hi[i] <= lo[j]
  BY <1>1, <1>3, <1>4, <1>5, Ascending
<1> QED
  BY <1>1, <1>6 DEF lo, hi, PagesApart

LEMMA FileStored ==
  ASSUME Typing, FileInvariant, Fits, pc = "chmod", DOMAIN mem = {"copy", "shim"},
         DataOwned
  PROVE  Stored(segs, entry, stream, mem["copy"], mem["shim"])
<1>1. /\ IsSeq(stream) /\ HeadersIn(stream, Len(segs)) /\ DataIn(stream, Len(segs))
      /\ segs \in Seq(Segment) /\ DOMAIN segs = 1 .. Len(segs)
      /\ Len(stream) \in Nat
  BY SeqLen DEF FileInvariant, Typing, TypeOK
<1>2. Len(stream) \in Nat \ {0} /\ stream[1][2] = [entry |-> entry, phnum |-> Len(segs)]
  <2>1. EHSIZE \in Nat \ {0} /\ Len(Ehdr) = EHSIZE
    BY HeaderAssumption, Pieces
  <2>2. 0 + EHSIZE <= Len(stream) /\ stream[0 + 1] = Ehdr[1]
    BY <1>1, <2>1 DEF HeadersIn, Holds
  <2>3. Ehdr[1][2] = [entry |-> entry, phnum |-> Len(segs)]
    BY <2>1 DEF Ehdr
  <2> QED
    BY <1>1, <2>1, <2>2, <2>3
<1>3. ASSUME NEW i \in DOMAIN segs
      PROVE  /\ PhdrAt(i) \in Nat /\ PhdrAt(i) < Len(stream)
             /\ stream[PhdrAt(i) + 1][2] = PhdrOf(segs[i])
  <2>1. segs[i] \in Segment /\ i \in Nat \ {0} /\ i \in 1 .. Len(segs)
    BY <1>1
  <2>2. PHSIZE \in Nat \ {0} /\ Len(Phdr(segs[i])) = PHSIZE /\ PhdrAt(i) \in Nat
    BY <2>1, HeaderAssumption, Pieces, PhdrAtFacts
  <2>3. /\ PhdrAt(i) + PHSIZE <= Len(stream)
        /\ stream[PhdrAt(i) + 1] = Phdr(segs[i])[1]
    BY <1>1, <2>1, <2>2 DEF HeadersIn, Holds
  <2>4. Phdr(segs[i])[1][2] = PhdrOf(segs[i])
    BY <2>2 DEF Phdr, PhdrOf
  <2> QED
    BY <1>1, <2>2, <2>3, <2>4
<1>4. ASSUME NEW i \in DOMAIN segs, NEW k \in 0 .. segs[i].filesz - 1
      PROVE  LET data == segs[i].data
                 from == Bytes(mem["copy"], mem["shim"], data.buf)
             IN /\ segs[i].fileOff + k < Len(stream)
                /\ data.at + k \in DOMAIN from =>
                     stream[segs[i].fileOff + k + 1] = from[data.at + k]
  <2> DEFINE s == segs[i]
             data == s.data
             from == Bytes(mem["copy"], mem["shim"], data.buf)
  <2>1. s \in Segment /\ i \in 1 .. Len(segs)
    BY <1>1
  <2>2. s.filesz \in Nat /\ s.fileOff \in Nat /\ data.at \in Nat
    BY <2>1, SegmentNumbers DEF Segment
  <2>3. s.filesz > 0 /\ k + 1 \in 1 .. s.filesz /\ Len(SegmentData(s)) = s.filesz
    BY <2>1, <2>2, Pieces
  <2>4. /\ s.fileOff + s.filesz <= Len(stream)
        /\ stream[s.fileOff + (k + 1)] = SegmentData(s)[k + 1]
    BY <1>1, <2>1, <2>3 DEF DataIn, Holds
  <2>5. s.fileOff + (k + 1) = s.fileOff + k + 1 /\ data.at + (k + 1) - 1 = data.at + k
    BY <2>2
  <2>6. SegmentData(s)[k + 1] = Read(data.buf, data.at + k)
    BY <2>3, <2>5 DEF SegmentData
  <2>7. data.buf \in {"copy", "shim"} /\ from = mem[data.buf]
    BY <2>3 DEF DataOwned, Bytes
  <2>8. data.at + k \in DOMAIN from => Read(data.buf, data.at + k) = from[data.at + k]
    BY <2>7 DEF Read
  <2>9. s.fileOff + k < Len(stream)
    BY <1>1, <2>2, <2>3, <2>4
  <2> QED
    BY <2>4, <2>5, <2>6, <2>8, <2>9
<1> QED
  BY <1>2, <1>3, <1>4 DEF Stored

LEMMA DeliveredAtEnd ==
  ASSUME Typing, LayoutInvariant, FileInvariant, OutputInvariant, DataOwned,
         pc = "chmod", Convertible
  PROVE  Delivered(img, segs, entry, stream)
<1>1. Writing /\ Laying /\ Embedded
  BY DEF Writing, Laying, Embedded
<1>2. /\ LaidOutSoFar /\ img \in Images /\ segs \in Seq(Segment)
      /\ DOMAIN mem = {"copy", "shim"} /\ WellFormed(img)
  BY <1>1, LoadedSound DEF LayoutInvariant, Typing, TypeOK, BuffersOwned, Convertible
<1>3. /\ ImageSegments(img, segs) /\ Len(segs) > Len(img.sections)
      /\ ShimUsable /\ mem["shim"] = ShimCopy(img)
      /\ Patched(img, mem["copy"], Len(img.imports))
      /\ ShimSegments(segs, Len(ShimPhdrs) + 1) /\ entry = Symbol("_start")
  BY <1>1, <1>2 DEF OutputInvariant
<1>4. PagesApart(segs)
  BY <1>2, SegmentsApart DEF LaidOutSoFar, SegmentsLaidOut
<1>5. Stored(segs, entry, stream, mem["copy"], ShimCopy(img))
  BY <1>2, <1>3, OffsetsFit, FileStored
<1> QED
  BY <1>2, <1>3, <1>4, <1>5 DEF Delivered

(* A file handed over at exit is complete and as it was written. *)
ExitInvariant ==
  /\ exit = 0 => pc = "exit"
  /\ Converted => Delivered(img, segs, entry, stream) /\ ondisk = Len(stream)

LEMMA ExitStep ==
  ASSUME Typing, LayoutInvariant, FileInvariant, OutputInvariant, DataOwned,
         ExitInvariant, [Next]_vars
  PROVE  ExitInvariant'
<1>1. CASE Succeed
  <2>1. /\ pc = "chmod" /\ pc' = "exit" /\ img' = img /\ segs' = segs /\ entry' = entry
        /\ stream' = stream /\ ondisk' = ondisk /\ io' = io
    BY <1>1 DEF Succeed, writerVars
  <2>2. ASSUME Converted' PROVE Convertible /\ io = "ok"
    BY <2>1, <2>2, ConvertibleStable DEF Converted
  <2>3. Converted' => Delivered(img', segs', entry', stream') /\ ondisk' = Len(stream')
    BY <2>1, <2>2, DeliveredAtEnd DEF FileInvariant
  <2>4. ShimUsable' = ShimUsable
    BY DEF ShimUsable
  <2> QED
    BY <2>1, <2>3 DEF ExitInvariant
<1>2. CASE UNCHANGED vars
  <2>1. /\ pc' = pc /\ img' = img /\ segs' = segs /\ entry' = entry /\ exit' = exit
        /\ stream' = stream /\ ondisk' = ondisk /\ io' = io /\ mode' = mode
    BY <1>2 DEF vars, specVars, writerVars, mainVars
  <2>2. Converted' => Converted
    BY <2>1, ConvertibleStable DEF Converted
  <2> QED
    BY <2>1, <2>2 DEF ExitInvariant
<1>3. CASE pc # "exit" /\ exit' = exit
  <2>1. exit' # 0
    BY <1>3 DEF ExitInvariant
  <2> QED
    BY <2>1 DEF ExitInvariant, Converted
<1>4. CASE Usage \/ LoadFails \/ Reject
  <2>1. exit' # 0
    BY <1>4 DEF Usage, LoadFails, Reject
  <2> QED
    BY <2>1 DEF ExitInvariant, Converted
<1>5. CASE Inspect
  <2>1. pc' = "exit" /\ mode' # "convert"
    BY <1>5 DEF Inspect
  <2> QED
    BY <2>1 DEF ExitInvariant, Converted
<1>6. CASE LayoutStep /\ UNCHANGED <<stubVars, writerVars, mainVars>>
  BY <1>3, <1>6 DEF LayoutStep, LayoutRejects, LayoutHeaders, LayoutSection,
                    SectionRejects, LayoutDone, mainVars
<1>7. CASE StubStep /\ UNCHANGED <<writerVars, mainVars>>
  <2>1. pc \in {"patch", "imports", "embed"}
    BY <1>7 DEF StubStep, PatchRejects, StartPatching, PatchImport, ImportRejects,
                CopyShim, CopyRejects, EmbedSegment, SkipHeader, EmbedRejects, EnterShim
  <2> QED
    BY <1>3, <1>7, <2>1 DEF mainVars
<1>8. CASE WriteStep /\ UNCHANGED mainVars
  <2>1. pc \in {"open", "ehdr", "phdrs", "data"}
    BY <1>8 DEF WriteStep, WriteRejects, OpenOutput, WriteEhdr, WritePhdr, StartData,
                SkipEmpty, WriteSegment, SegmentRejected, ShortWrite, CloseOutput
  <2> QED
    BY <1>3, <1>8, <2>1 DEF mainVars
<1>9. CASE Load \/ CopyImage \/ CopyFails
  BY <1>3, <1>9 DEF Load, CopyImage, CopyFails, mainVars
<1> QED
  BY <1>1, <1>2, <1>4, <1>5, <1>6, <1>7, <1>8, <1>9 DEF Next, Exited

LEMMA ExitInvariantAlways == Spec => []ExitInvariant
<1>1. MainInit => LayoutInvariant /\ DataOwned /\ ExitInvariant
  BY DEF MainInit, Init, LayoutInvariant, Laying, Writing, DataOwned, ExitInvariant,
         Converted
<1>2. Typing /\ LayoutInvariant /\ DataOwned /\ [Next]_vars => LayoutInvariant' /\ DataOwned'
  BY LayoutInvariantStep, DataOwnedStep
<1>3. /\ Typing /\ LayoutInvariant /\ FileInvariant /\ OutputInvariant /\ DataOwned
      /\ ExitInvariant /\ [Next]_vars
      => ExitInvariant'
  BY ExitStep
<1> QED
  BY <1>1, <1>2, <1>3, TypingInvariant, FileInvariantAlways, OutputInvariantAlways, PTL
  DEF Spec
----------------------------------------------------------------------------
(* What the kernel makes of it. *)

LEMMA PhdrsRead ==
  ASSUME Delivered(img, segs, entry, stream), ondisk = Len(stream)
  PROVE  /\ FileEntry = Symbol("_start")
         /\ FilePhdrs = [i \in DOMAIN segs |-> PhdrOf(segs[i])]
<1>1. PICK copy : Stored(segs, entry, stream, copy, ShimCopy(img))
  BY DEF Delivered
<1>2. FileByte(0) = stream[1] /\ Len(stream) \in Nat \ {0}
  BY <1>1 DEF FileByte, Stored
<1>3. FileByte(0)[2] = [entry |-> entry, phnum |-> Len(segs)]
  BY <1>1, <1>2 DEF Stored
<1>4. FileEntry = entry /\ FileByte(0)[2].phnum = Len(segs)
  BY <1>3 DEF FileEntry
<1>5. DOMAIN segs = 1 .. Len(segs)
  BY DEF Delivered
<1>6. ASSUME NEW i \in DOMAIN segs
      PROVE  FileByte(EHSIZE + (i - 1) * PHSIZE)[2] = PhdrOf(segs[i])
  <2>1. PhdrAt(i) < ondisk /\ stream[PhdrAt(i) + 1][2] = PhdrOf(segs[i])
    BY <1>1 DEF Stored
  <2>2. FileByte(PhdrAt(i)) = stream[PhdrAt(i) + 1]
    BY <2>1 DEF FileByte
  <2> QED
    BY <2>1, <2>2 DEF PhdrAt
<1>7. FilePhdrs = [i \in DOMAIN segs |-> PhdrOf(segs[i])]
  BY <1>4, <1>5, <1>6 DEF FilePhdrs
<1> QED
  BY <1>4, <1>7 DEF Delivered

(* Each address of a segment is mapped by its program header alone. *)
LEMMA MappedOnce ==
  ASSUME NEW ss, ss \in Seq(Segment), PagesApart(ss),
         NEW i \in DOMAIN ss, NEW a \in Nat,
         ss[i].vaddr <= a, a < ss[i].vaddr + ss[i].memsz
  PROVE  LET phdrs == [j \in DOMAIN ss |-> PhdrOf(ss[j])]
         IN MappedBy(phdrs, a) = {i} /\ MappingOf(phdrs, a) = PhdrOf(ss[i])
<1> DEFINE phdrs == [j \in DOMAIN ss |-> PhdrOf(ss[j])]
<1>1. ASSUME NEW j \in DOMAIN ss
      PROVE  /\ ss[j].vaddr \in Nat /\ ss[j].memsz \in Nat
             /\ End(ss[j]) \in Nat /\ ss[j].vaddr + ss[j].memsz <= End(ss[j])
             /\ phdrs[j].vaddr = ss[j].vaddr /\ phdrs[j].memsz = ss[j].memsz
             /\ PageUp(phdrs[j].vaddr + phdrs[j].memsz) = End(ss[j])
  <2>1. ss[j] \in Segment
    OBVIOUS
  <2>2. ss[j].vaddr \in Nat /\ ss[j].memsz \in Nat
    BY <2>1, SegmentNumbers
  <2>3. ss[j].vaddr + ss[j].memsz \in Nat
    BY <2>2
  <2> QED
    BY <2>2, <2>3, PageUpFacts DEF End, PhdrOf
<1>2. DOMAIN phdrs = DOMAIN ss /\ DOMAIN ss \subseteq Nat
  OBVIOUS
<1>3. phdrs[i] = PhdrOf(ss[i])
  OBVIOUS
<1> HIDE DEF phdrs
<1>4. i \in MappedBy(phdrs, a)
  BY <1>1, <1>2 DEF MappedBy
<1>5. ASSUME NEW j \in MappedBy(phdrs, a) PROVE j = i
  <2>1. j \in DOMAIN ss /\ a >= ss[j].vaddr /\ a < End(ss[j])
    BY <1>1, <1>2 DEF MappedBy
  <2>2. a < End(ss[i])
    BY <1>1
  <2>3. ~ (i < j) /\ ~ (j < i)
    BY <1>1, <2>1, <2>2 DEF PagesApart
  <2> QED
    BY <1>2, <2>1, <2>3
<1>6. MappedBy(phdrs, a) = {i}
  BY <1>4, <1>5
<1>7. (CHOOSE k \in {i} : \A j \in {i} : j <= k) = i
  BY <1>2
<1>8. MappingOf(phdrs, a) = PhdrOf(ss[i])
  BY <1>3, <1>6, <1>7 DEF MappingOf
<1> QED
  BY <1>6, <1>8 DEF phdrs

LEMMA ByteLoaded ==
  ASSUME Delivered(img, segs, entry, stream), ondisk = Len(stream),
         NEW copy, Stored(segs, entry, stream, copy, ShimCopy(img)),
         NEW i \in DOMAIN segs, NEW k \in 0 .. segs[i].memsz - 1
  PROVE  LET a == segs[i].vaddr + k
             from == Bytes(copy, ShimCopy(img), segs[i].data.buf)
             at == segs[i].data.at + k
         IN /\ MappingOf(FilePhdrs, a).flags = segs[i].flags
            /\ k < segs[i].filesz /\ at \in DOMAIN from =>
                 LoadedByte(FilePhdrs, a) = from[at]
            /\ ~ (k < segs[i].filesz) => LoadedByte(FilePhdrs, a) = <<"zero">>
<1> DEFINE s == segs[i]
           a == s.vaddr + k
           phdrs == FilePhdrs
           from == Bytes(copy, ShimCopy(img), s.data.buf)
           at == s.data.at + k
<1>1. segs \in Seq(Segment) /\ s \in Segment /\ PagesApart(segs)
  BY DEF Delivered
<1>2. s.vaddr \in Nat /\ s.memsz \in Nat /\ s.filesz \in Nat /\ s.fileOff \in Nat
  BY <1>1, SegmentNumbers
<1>3. k \in Nat /\ k < s.memsz /\ a \in Nat /\ s.vaddr <= a /\ a < s.vaddr + s.memsz
      /\ a - s.vaddr = k
  BY <1>2
<1>4. MappedBy(phdrs, a) = {i} /\ MappingOf(phdrs, a) = PhdrOf(s)
  BY <1>1, <1>3, MappedOnce, PhdrsRead
<1> HIDE DEF phdrs, a
<1>5. LoadedByte(phdrs, a) =
        IF a < s.vaddr + s.filesz THEN FileByte(s.fileOff + k) ELSE <<"zero">>
  BY <1>3, <1>4 DEF LoadedByte, PhdrOf
<1>6. a < s.vaddr + s.filesz <=> k < s.filesz
  BY <1>2, <1>3
<1>7. ASSUME k < s.filesz, at \in DOMAIN from
      PROVE  FileByte(s.fileOff + k) = from[at]
  <2>1. k \in 0 .. s.filesz - 1
    BY <1>2, <1>3, <1>7
  <2>2. s.fileOff + k < ondisk /\ stream[s.fileOff + k + 1] = from[at]
    BY <1>7, <2>1 DEF Stored
  <2> QED
    BY <1>2, <1>3, <2>2 DEF FileByte
<1>8. MappingOf(phdrs, a).flags = s.flags
  BY <1>4 DEF PhdrOf
<1> QED
  BY <1>5, <1>6, <1>7, <1>8 DEF phdrs, a

(* Slots do not overlap, so the byte expected at an address is determined. *)
LEMMA ExpectedUnique ==
  ASSUME Loadable(img), NEW rva \in Nat, NEW k, NEW b, IsExpected(img, rva, k, b)
  PROVE  b = ExpectedByte(rva, k)
<1>1. PatchedBy(rva) = {j \in DOMAIN img.imports : OverSlot(img, j, rva)}
  BY DEF PatchedBy, OverSlot
<1>2. CASE PatchedBy(rva) = {}
  BY <1>1, <1>2 DEF IsExpected, ExpectedByte
<1>3. CASE PatchedBy(rva) # {}
  <2> DEFINE j == CHOOSE j \in PatchedBy(rva) : TRUE
  <2>1. j \in PatchedBy(rva)
    BY <1>3
  <2> HIDE DEF j
  <2>2. b = AddressByte(ImportAddress(img.imports[j]), rva - img.imports[j].iatRva)
    BY <1>1, <2>1 DEF IsExpected
  <2> QED
    BY <1>3, <2>2 DEF ExpectedByte, j
<1> QED
  BY <1>2, <1>3

(* Whatever the image, the shim and the environment: when a conversion of a
   well-formed image below the shim reports success and every write reached
   the disk, the file maps, at the PE's own addresses, the headers, every
   section with the imports resolved and zeros behind it, and the sections'
   permissions. *)
THEOREM ConversionFaithful == Spec => []FaithfulImage
<1>1. ASSUME Converted, Delivered(img, segs, entry, stream), ondisk = Len(stream)
      PROVE  FaithfulImage
  <2>1. PICK copy : /\ Patched(img, copy, Len(img.imports))
                    /\ Stored(segs, entry, stream, copy, ShimCopy(img))
    BY <1>1 DEF Delivered
  <2>2. /\ img \in Images /\ Sound(img) /\ Loadable(img)
        /\ segs \in Seq(Segment) /\ DOMAIN segs = 1 .. Len(segs) /\ Len(segs) \in Nat
        /\ ImageSegments(img, segs) /\ Len(segs) > Len(img.sections)
    BY <1>1, ImagesAssumption DEF Converted, Convertible, Sound, Delivered
  <2>3. DOMAIN copy = 0 .. img.rawSize - 1 /\ img.rawSize \in Nat
        /\ img.sizeOfHeaders \in Nat /\ img.sizeOfHeaders <= img.rawSize
        /\ img.base \in Nat
    BY <2>1, <2>2, ImageTypes DEF Patched, Sound, WellFormed
  <2>4. ASSUME NEW k \in 0 .. img.sizeOfHeaders - 1
        PROVE  LoadedByte(FilePhdrs, img.base + k) = ExpectedByte(k, k)
    <3>1. 1 \in DOMAIN segs /\ IsHeader(img, segs[1])
      BY <2>2 DEF ImageSegments
    <3>2. /\ segs[1].vaddr = img.base
          /\ segs[1].filesz = img.sizeOfHeaders /\ segs[1].memsz = img.sizeOfHeaders
          /\ segs[1].data.buf = "copy" /\ segs[1].data.at = 0
      BY <2>3, <3>1 DEF IsHeader, DataAt
    <3>3. k \in Nat /\ k < img.sizeOfHeaders /\ k \in 0 .. img.rawSize - 1 /\ 0 + k = k
      BY <2>3
    <3>4. LoadedByte(FilePhdrs, img.base + k) = copy[k]
      BY <1>1, <2>1, <2>3, <3>1, <3>2, <3>3, ByteLoaded DEF Bytes
    <3>5. IsExpected(img, k, k, copy[k])
      BY <2>1, <2>2, <3>3, PatchedAsExpected DEF Maps
    <3> QED
      BY <2>2, <3>3, <3>4, <3>5, ExpectedUnique
  <2>5. ASSUME NEW i \in DOMAIN img.sections,
               NEW k \in 0 .. SectionSize(img.sections[i]) - 1
        PROVE  LET s == img.sections[i]
                   a == img.base + s.rva + k
               IN /\ MappingOf(FilePhdrs, a).flags = SectionFlags(s.characteristics)
                  /\ LoadedByte(FilePhdrs, a) =
                       IF k < s.fsize THEN ExpectedByte(s.rva + k, s.fileOff + k)
                                      ELSE <<"zero">>
    <3> DEFINE s == img.sections[i]
               t == segs[i + 1]
    <3>1. /\ s.rva \in Nat /\ s.vsize \in Nat /\ s.fsize \in Nat /\ s.fileOff \in Nat
          /\ s.fileOff + s.fsize <= img.rawSize
          /\ DOMAIN img.sections = 1 .. Len(img.sections) /\ Len(img.sections) \in Nat
      BY <2>2, ImageTypes
    <3>2. i + 1 \in DOMAIN segs /\ IsSection(img, t, s)
      BY <2>2, <3>1, SMTT(30) DEF ImageSegments
    <3>3. SectionSize(s) \in Nat /\ k \in Nat /\ k < SectionSize(s)
      BY <3>1 DEF SectionSize, Larger
    <3>4. (img.base + s.rva) % WORD = img.base + s.rva
      <4>1. PageUp(s.rva + SectionSize(s)) <= img.sizeOfImage
        BY <2>2 DEF Sound, WellFormed, PagesAscend
      <4> DEFINE e == PageUp(s.rva + SectionSize(s))
      <4>2. e \in Nat /\ s.rva <= e
        <5>1. s.rva + SectionSize(s) \in Nat
          BY <3>1, <3>3
        <5>2. e \in Nat /\ e >= s.rva + SectionSize(s)
          BY <5>1, PageUpFacts
        <5> QED
          BY <3>1, <3>3, <5>2
      <4>3. img.base + img.sizeOfImage + 2 * PAGE_SIZE <= WORD
        BY <1>1, <2>2, ImageRoom DEF Converted
      <4>4. img.sizeOfImage \in Nat /\ PAGE_SIZE \in Nat \ {0} /\ WORD \in Nat
        BY <2>2, ImageTypes, PageAssumption
      <4> HIDE DEF e
      <4>5. e <= img.sizeOfImage
        BY <4>1 DEF e
      <4> DEFINE b == img.base
                 z == img.sizeOfImage
                 r == s.rva
      <4>6. /\ b \in Nat /\ z \in Nat /\ r \in Nat /\ e \in Nat /\ r <= e /\ e <= z
            /\ b + z + 2 * PAGE_SIZE <= WORD
        BY <2>3, <3>1, <4>2, <4>3, <4>4, <4>5
      <4> HIDE DEF b, z, r
      <4>7. b + r \in Nat /\ b + r < WORD
        BY <4>4, <4>6
      <4> QED
        BY <4>4, <4>7, SmallMod DEF b, r
    <3>5. /\ t.vaddr = img.base + s.rva /\ t.memsz = SectionSize(s)
          /\ t.filesz = s.fsize /\ t.flags = SectionFlags(s.characteristics)
          /\ s.fsize > 0 => t.data.buf = "copy" /\ t.data.at = s.fileOff
      BY <3>2, <3>4 DEF IsSection, DataAt
    <3>6. k \in 0 .. t.memsz - 1
      BY <3>3, <3>5
    <3> HIDE DEF s, t
    <3> DEFINE a == img.base + s.rva + k
    <3>7. /\ MappingOf(FilePhdrs, a).flags = SectionFlags(s.characteristics)
          /\ ~ (k < s.fsize) => LoadedByte(FilePhdrs, a) = <<"zero">>
      BY <1>1, <2>1, <3>2, <3>5, <3>6, ByteLoaded DEF t
    <3>8. ASSUME k < s.fsize
          PROVE  LoadedByte(FilePhdrs, a) = ExpectedByte(s.rva + k, s.fileOff + k)
      <4>1. s.fsize > 0 /\ s.fileOff + k \in 0 .. img.rawSize - 1
        BY <2>3, <3>1, <3>3, <3>8, SMTT(30)
      <4>2. LoadedByte(FilePhdrs, a) = copy[s.fileOff + k]
        BY <1>1, <2>1, <2>3, <3>2, <3>5, <3>6, <3>8, <4>1, ByteLoaded DEF t, Bytes
      <4>3. Maps(img, s.rva + k, s.fileOff + k)
        <5>1. /\ s.rva <= s.rva + k /\ s.rva + k < s.rva + s.fsize
              /\ s.fileOff + k = s.fileOff + ((s.rva + k) - s.rva)
          BY <3>1, <3>3, <3>8
        <5> QED
          BY <5>1 DEF Maps, s
      <4>4. s.rva + k \in Nat
        BY <3>1, <3>3
      <4>5. IsExpected(img, s.rva + k, s.fileOff + k, copy[s.fileOff + k])
        BY <2>1, <2>2, <4>1, <4>3, <4>4, PatchedAsExpected
      <4> QED
        BY <2>2, <4>2, <4>4, <4>5, ExpectedUnique
    <3> QED
      BY <3>7, <3>8 DEF s
  <2> QED
    BY <2>4, <2>5 DEF FaithfulImage
<1>2. ~ Converted => FaithfulImage
  BY DEF FaithfulImage
<1>3. ExitInvariant => FaithfulImage
  BY <1>1, <1>2 DEF ExitInvariant
<1> QED
  BY <1>3, ExitInvariantAlways, PTL

----------------------------------------------------------------------------
(* The word _start jumps through. *)

LEMMA ShimNumbers ==
  ASSUME NEW i \in ShimLoads
  PROVE  LET p == ShimPhdrs[i]
         IN /\ p.vaddr \in Nat /\ p.off \in Nat /\ p.filesz \in Nat /\ p.memsz \in Nat
            /\ p.filesz <= p.memsz /\ p.off + p.filesz <= ShimSize
            /\ ShimSize \in Nat
            /\ i \in Nat /\ i < Len(ShimPhdrs) + 1
BY ShimAssumption, ShimSegmentsAssumption, PageAssumption DEF Address, ShimLoads

LEMMA EntryWordPlaced ==
  ASSUME ShimUsable
  PROVE  /\ EntryWord \in Nat
         /\ \E m \in ShimLoads :
              LET p == ShimPhdrs[m]
              IN /\ p.vaddr <= EntryWord
                 /\ EntryWord + SLOT_SIZE <= p.vaddr + p.filesz
                 /\ ShimOffset(EntryWord) = p.off + (EntryWord - p.vaddr)
<1> DEFINE H == Holding(EntryWord)
           m == CHOOSE i \in H : \A j \in H : i <= j
           p == ShimPhdrs[m]
<1>1. EntryWord \in Nat
  BY ShimAssumption, PageAssumption DEF ShimUsable, EntryWord, Symbol, Address
<1>2. H # {} /\ ShimOffset(EntryWord) = p.off + (EntryWord - p.vaddr)
  BY DEF ShimUsable, ShimOffset, EntryWord
<1>3. m \in H
  <2>1. H \subseteq Nat
    BY ShimAssumption DEF Holding
  <2> HIDE DEF H
  <2>2. \E i \in H : \A j \in H : i <= j
    BY <1>2, <2>1, LeastElement
  <2> QED
    BY <2>2
<1> HIDE DEF m
<1>4. /\ m \in ShimLoads /\ EntryWord >= p.vaddr
      /\ EntryWord + SLOT_SIZE <= p.vaddr + p.filesz
  BY <1>3 DEF Holding, ShimLoads
<1>5. p.vaddr <= EntryWord
  BY <1>1, <1>4, ShimNumbers
<1> QED
  BY <1>1, <1>2, <1>4, <1>5

(* Every byte of the shim's segments is loaded from its copy. *)
LEMMA ShimLoaded ==
  ASSUME Delivered(img, segs, entry, stream), ondisk = Len(stream),
         NEW i \in ShimLoads, NEW k \in 0 .. ShimPhdrs[i].memsz - 1
  PROVE  LET p == ShimPhdrs[i]
         IN LoadedByte(FilePhdrs, p.vaddr + k) =
              IF k < p.filesz THEN ShimCopy(img)[p.off + k] ELSE <<"zero">>
<1> DEFINE p == ShimPhdrs[i]
<1>1. PICK copy : Stored(segs, entry, stream, copy, ShimCopy(img))
  BY DEF Delivered
<1>2. /\ p.vaddr \in Nat /\ p.off \in Nat /\ p.filesz \in Nat /\ p.memsz \in Nat
      /\ p.off + p.filesz <= ShimSize /\ ShimSize \in Nat /\ i < Len(ShimPhdrs) + 1
  BY ShimNumbers
<1>3. PICK j \in DOMAIN segs : IsShim(segs[j], p)
  BY <1>2 DEF Delivered, ShimSegments
<1>4. /\ segs[j].vaddr = p.vaddr /\ segs[j].filesz = p.filesz /\ segs[j].memsz = p.memsz
      /\ p.filesz > 0 => segs[j].data.buf = "shim" /\ segs[j].data.at = p.off
  BY <1>3 DEF IsShim, DataAt
<1> HIDE DEF p
<1>5. k \in 0 .. segs[j].memsz - 1 /\ k \in Nat
  BY <1>2, <1>4 DEF p
<1>6. CASE ~ (k < p.filesz)
  BY <1>1, <1>4, <1>5, <1>6, ByteLoaded DEF p
<1>7. CASE k < p.filesz
  <2>1. p.filesz > 0 /\ p.off + k \in 0 .. ShimSize - 1
    BY <1>2, <1>5, <1>7
  <2>2. p.off + k \in DOMAIN ShimCopy(img)
    BY <2>1 DEF ShimCopy, Store, Fresh
  <2>3. Bytes(copy, ShimCopy(img), segs[j].data.buf) = ShimCopy(img)
    BY <1>4, <2>1 DEF Bytes
  <2>4. LoadedByte(FilePhdrs, p.vaddr + k) = ShimCopy(img)[p.off + k]
    BY <1>1, <1>4, <1>5, <1>7, <2>1, <2>2, <2>3, ByteLoaded
  <2> QED
    BY <1>7, <2>4 DEF p
<1> QED
  BY <1>6, <1>7

(* A converted program is entered at the shim's _start with all of the shim
   loaded as it was built, but for the one word _start jumps through, which
   holds the PE's entry point. *)
THEOREM ConversionEntersThroughShim == Spec => []EntersThroughShim
<1> DEFINE copy == ShimCopy(img)
           at == ShimOffset(EntryWord)
<1>1. ASSUME Delivered(img, segs, entry, stream), ondisk = Len(stream)
      PROVE  EntersThroughShim
  <2>1. SLOT_SIZE \in Nat \ {0}
    BY PageAssumption
  <2>2. PICK m \in ShimLoads :
          LET p == ShimPhdrs[m]
          IN /\ p.vaddr <= EntryWord
             /\ EntryWord + SLOT_SIZE <= p.vaddr + p.filesz
             /\ at = p.off + (EntryWord - p.vaddr)
    BY <1>1, EntryWordPlaced DEF Delivered
  <2>3. EntryWord \in Nat
    BY <1>1, EntryWordPlaced DEF Delivered
  <2> DEFINE q == ShimPhdrs[m]
  <2>4. /\ q.vaddr \in Nat /\ q.off \in Nat /\ q.filesz \in Nat /\ q.memsz \in Nat
        /\ q.filesz <= q.memsz /\ q.off + q.filesz <= ShimSize /\ ShimSize \in Nat
    BY ShimNumbers
  <2>5. /\ at \in Nat /\ q.off <= at /\ at + SLOT_SIZE <= q.off + q.filesz
    BY <2>1, <2>2, <2>3, <2>4
  <2>6. ASSUME NEW x \in 0 .. ShimSize - 1
        PROVE  copy[x] = IF x >= at /\ x < at + SLOT_SIZE
                           THEN AddressByte(PeEntry, x - at)
                           ELSE Byte("shim", x)
    BY DEF ShimCopy, Store, Fresh, PeEntry
  <2> HIDE DEF at, copy
  <2>7. FileEntry = Symbol("_start")
    BY <1>1, PhdrsRead
  <2>8. ASSUME NEW k \in 0 .. SLOT_SIZE - 1
        PROVE  LoadedByte(FilePhdrs, EntryWord + k) = AddressByte(PeEntry, k)
    <3> DEFINE n == (EntryWord - q.vaddr) + k
    <3>1. /\ n \in 0 .. q.memsz - 1 /\ n < q.filesz
          /\ q.vaddr + n = EntryWord + k /\ q.off + n = at + k
          /\ at + k \in 0 .. ShimSize - 1
          /\ at + k >= at /\ at + k < at + SLOT_SIZE /\ (at + k) - at = k
      BY <2>1, <2>2, <2>3, <2>4, <2>5
    <3> HIDE DEF n
    <3>2. LoadedByte(FilePhdrs, q.vaddr + n) = copy[q.off + n]
      BY <1>1, <3>1, ShimLoaded DEF copy
    <3> QED
      BY <2>6, <3>1, <3>2
  <2>9. ASSUME NEW i \in ShimLoads,
               NEW a \in ShimPhdrs[i].vaddr .. ShimPhdrs[i].vaddr + ShimPhdrs[i].memsz - 1,
               a \notin EntryWord .. EntryWord + SLOT_SIZE - 1
        PROVE  LET p == ShimPhdrs[i]
               IN LoadedByte(FilePhdrs, a) =
                    IF a < p.vaddr + p.filesz
                      THEN Byte("shim", p.off + (a - p.vaddr))
                      ELSE <<"zero">>
    <3> DEFINE p == ShimPhdrs[i]
               n == a - p.vaddr
    <3>1. /\ p.vaddr \in Nat /\ p.off \in Nat /\ p.filesz \in Nat /\ p.memsz \in Nat
          /\ p.filesz <= p.memsz /\ p.off + p.filesz <= ShimSize /\ i \in Nat /\ m \in Nat
      BY ShimNumbers
    <3>2. /\ n \in 0 .. p.memsz - 1 /\ p.vaddr + n = a /\ n \in Nat
          /\ a < p.vaddr + p.filesz <=> n < p.filesz
      BY <3>1
    <3>3. LoadedByte(FilePhdrs, p.vaddr + n) =
            IF n < p.filesz THEN copy[p.off + n] ELSE <<"zero">>
      <4> HIDE DEF n
      <4> QED
        BY <1>1, <3>2, ShimLoaded DEF copy
    <3>4. ASSUME n < p.filesz
          PROVE  copy[p.off + n] = Byte("shim", p.off + n)
      <4>1. p.off + n \in 0 .. ShimSize - 1
        BY <2>4, <3>1, <3>2, <3>4
      <4>2. ~ (p.off + n >= at /\ p.off + n < at + SLOT_SIZE)
        <5>1. CASE i = m
          <6>1. ~ (EntryWord <= a /\ a < EntryWord + SLOT_SIZE)
            BY <2>1, <2>3, <2>9, <3>1, <3>2
          <6> QED
            BY <2>1, <2>2, <2>3, <2>4, <3>1, <3>2, <5>1, <6>1
        <5>2. CASE i # m
          <6>1. p.off + p.filesz <= q.off \/ q.off + q.filesz <= p.off
            <7>1. i < m \/ m < i
              BY <3>1, <5>2
            <7> QED
              BY <7>1, ShimSegmentsAssumption
          <6> QED
            BY <2>1, <2>4, <2>5, <3>1, <3>2, <3>4, <6>1
        <5> QED
          BY <5>1, <5>2
      <4> QED
        BY <2>6, <4>1, <4>2
    <3> QED
      BY <3>2, <3>3, <3>4
  <2> QED
    BY <2>7, <2>8, <2>9 DEF EntersThroughShim, EntryWord
<1>2. ~ Converted => EntersThroughShim
  BY DEF EntersThroughShim
<1>3. ExitInvariant => EntersThroughShim
  BY <1>1, <1>2 DEF ExitInvariant
<1> QED
  BY <1>3, ExitInvariantAlways, PTL
=============================================================================
