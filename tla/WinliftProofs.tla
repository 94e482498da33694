---------------------------- MODULE WinliftProofs ----------------------------
(***************************************************************************)
(* What holds of a conversion for every image, every shim and every size   *)
(* of page and word.                                                       *)
(***************************************************************************)
EXTENDS Winlift, Arithmetic

(* Rounding up to a page: the result is on a boundary, not below the number
   and less than a page above it. *)
LEMMA PageUpFacts ==
  ASSUME NEW n \in Nat
  PROVE  /\ PageUp(n) \in Nat
         /\ PageUp(n) >= n
         /\ PageUp(n) < n + PAGE_SIZE
         /\ PageUp(n) % PAGE_SIZE = 0
<1> DEFINE m == n + PAGE_SIZE - 1
           q == m \div PAGE_SIZE
<1>1. m \in Nat /\ PAGE_SIZE \in Nat \ {0}
  BY PageAssumption
<1>2. /\ q \in Nat
      /\ m % PAGE_SIZE \in 0 .. PAGE_SIZE - 1
      /\ m = q * PAGE_SIZE + (m % PAGE_SIZE)
  BY <1>1, DivMod
<1>3. (q * PAGE_SIZE) % PAGE_SIZE = 0 /\ q * PAGE_SIZE \in Nat
  BY <1>1, <1>2, MultipleMod
<1>4. PageUp(n) = q * PAGE_SIZE
  BY DEF PageUp
<1> HIDE DEF q
<1> QED
  BY <1>1, <1>2, <1>3, <1>4

(* ... and the least boundary that is not below the number. *)
LEMMA PageUpLeast ==
  ASSUME NEW n \in Nat, NEW m \in Nat, m % PAGE_SIZE = 0, n <= m
  PROVE  PageUp(n) <= m
<1>1. PAGE_SIZE \in Nat \ {0}
  BY PageAssumption
<1> DEFINE k == n + PAGE_SIZE - 1
           q == k \div PAGE_SIZE
           b == m \div PAGE_SIZE
<1>2. b \in Nat /\ m = b * PAGE_SIZE
  BY <1>1, DivMod
<1>3. q \in Nat
  <2>1. k \in Nat
    BY <1>1
  <2> HIDE DEF k
  <2> QED
    BY <1>1, <2>1, DivMod
<1>4. PageUp(n) = q * PAGE_SIZE
  BY DEF PageUp
<1>5. PageUp(n) < m + PAGE_SIZE
  BY <1>1, PageUpFacts
<1> HIDE DEF q, b
<1>6. q * PAGE_SIZE < b * PAGE_SIZE + PAGE_SIZE
  BY ONLY <1>2, <1>4, <1>5
<1>7. q * PAGE_SIZE <= b * PAGE_SIZE
  BY <1>1, <1>2, <1>3, <1>6, MulReflects
<1> QED
  BY <1>2, <1>4, <1>7

(* align_up() is that rounding as long as it does not wrap. *)
LEMMA AlignUpIsPageUp ==
  ASSUME NEW n \in Nat, n + PAGE_SIZE <= WORD
  PROVE  align_up(n % WORD) = PageUp(n)
<1>1. PAGE_SIZE \in Nat \ {0} /\ WORD \in Nat \ {0}
  BY PageAssumption
<1>2. n % WORD = n
  BY <1>1, SmallMod
<1>3. n + PAGE_SIZE - 1 \in Nat /\ n + PAGE_SIZE - 1 < WORD
  BY <1>1
<1>4. (n + PAGE_SIZE - 1) % WORD = n + PAGE_SIZE - 1
  BY <1>1, <1>3, SmallMod
<1> QED
  BY <1>2, <1>4 DEF align_up, PageUp

(* align_up() never leaves uint32_t. *)
LEMMA AlignUpType ==
  ASSUME NEW n \in Address
  PROVE  align_up(n) \in Address
<1>1. PAGE_SIZE \in Nat \ {0} /\ WORD \in Nat \ {0}
  BY PageAssumption
<1> DEFINE k == n + PAGE_SIZE - 1
           m == k % WORD
<1>2. m \in Address
  <2>1. k \in Nat
    BY <1>1 DEF Address
  <2> HIDE DEF k
  <2> QED
    BY <1>1, <2>1, DivMod DEF Address
<1>4. align_up(n) = (m \div PAGE_SIZE) * PAGE_SIZE
  BY DEF align_up
<1> HIDE DEF m
<1>3. m \in Nat /\ m < WORD
  BY <1>1, <1>2 DEF Address
<1>5. /\ m \div PAGE_SIZE \in Nat
      /\ m = (m \div PAGE_SIZE) * PAGE_SIZE + (m % PAGE_SIZE)
      /\ m % PAGE_SIZE \in Nat
  BY <1>1, <1>3, DivMod
<1> DEFINE r == (m \div PAGE_SIZE) * PAGE_SIZE
           y == m % PAGE_SIZE
<1>6. r \in Nat
  BY <1>1, <1>5, MultipleMod
<1>7. m = r + y /\ y \in Nat
  BY <1>5
<1> HIDE DEF r, y
<1>8. r \in Nat /\ r < WORD
  BY <1>1, <1>3, <1>6, <1>7
<1>9. align_up(n) = r
  BY <1>4 DEF r
<1> QED
  BY <1>1, <1>8, <1>9 DEF Address

----------------------------------------------------------------------------
(* The page that follows a segment, and the last segment emitted. *)
End(s) == PageUp(s.vaddr + s.memsz)
LastSegment == segs[Len(segs)]

(* File offsets never run ahead of addresses: the offset the next segment
   gets is at most one page past the address the last one ends at.  This is
   why 32-bit offsets do not wrap for an image that fits its own range. *)
OffsetsBehindAddresses ==
  /\ curOff % PAGE_SIZE = 0
  /\ PAGE_SIZE <= curOff
  /\ LastSegment.fileOff + LastSegment.filesz <= curOff
  /\ curOff <= PAGE_SIZE + End(LastSegment)

(* Rounding the end of a segment's file bytes up keeps that bound. *)
LEMMA OffsetStep ==
  ASSUME NEW off \in Nat, NEW vaddr \in Nat, NEW filesz \in Nat,
         NEW memsz \in Nat,
         off <= PAGE_SIZE + vaddr,
         filesz <= memsz,
         PageUp(vaddr + memsz) + 2 * PAGE_SIZE <= WORD
  PROVE  LET next == align_up((off + filesz) % WORD)
         IN /\ next \in Nat
            /\ next % PAGE_SIZE = 0
            /\ off + filesz <= next
            /\ next <= PAGE_SIZE + PageUp(vaddr + memsz)
<1> DEFINE n == off + filesz
           e == PageUp(vaddr + memsz)
<1>1. PAGE_SIZE \in Nat \ {0} /\ WORD \in Nat \ {0}
  BY PageAssumption
<1>2. e \in Nat /\ e >= vaddr + memsz /\ e % PAGE_SIZE = 0
  <2>1. vaddr + memsz \in Nat
    OBVIOUS
  <2> QED
    BY <2>1, PageUpFacts
<1> HIDE DEF e
<1>3. n \in Nat /\ n <= PAGE_SIZE + e
  BY <1>1, <1>2
<1>4. n + PAGE_SIZE <= WORD
  <2>1. e + 2 * PAGE_SIZE <= WORD
    BY DEF e
  <2> QED
    BY <1>1, <1>2, <1>3, <2>1
<1> HIDE DEF n
<1>5. align_up(n % WORD) = PageUp(n)
  BY <1>3, <1>4, AlignUpIsPageUp
<1>6. PageUp(n) \in Nat /\ n <= PageUp(n) /\ PageUp(n) % PAGE_SIZE = 0
  BY <1>3, PageUpFacts
<1>7. PageUp(n) <= PAGE_SIZE + e
  <2>1. PAGE_SIZE % PAGE_SIZE = 0
    <3>1. (1 * PAGE_SIZE) % PAGE_SIZE = 0
      BY <1>1, MultipleMod
    <3> QED
      BY <1>1, <3>1
  <2>2. (PAGE_SIZE + e) % PAGE_SIZE = 0 /\ PAGE_SIZE + e \in Nat
    BY <1>1, <1>2, <2>1, SumMod
  <2> QED
    BY <1>3, <2>2, PageUpLeast
<1> QED
  BY <1>5, <1>6, <1>7 DEF n, e

(* Appending a segment that lies behind the last one keeps the list laid
   out, and the offsets behind the addresses. *)
LEMMA AppendLaidOut ==
  ASSUME segs \in Seq(Segment), NEW s \in Segment, AppendSegment(s),
         SegmentsLaidOut,
         segs = <<>> => s.fileOff = PAGE_SIZE,
         segs # <<>> => /\ OffsetsBehindAddresses
                        /\ s.fileOff = curOff
                        /\ End(LastSegment) <= s.vaddr,
         s.vaddr % PAGE_SIZE = 0,
         s.filesz <= s.memsz,
         End(s) + 2 * PAGE_SIZE <= WORD
  PROVE  SegmentsLaidOut' /\ OffsetsBehindAddresses' /\ LastSegment' = s
<1> DEFINE n == Len(segs)
<1>1. /\ n \in Nat
      /\ segs' = Append(segs, s)
      /\ segs' \in Seq(Segment)
      /\ Len(segs') = n + 1
      /\ DOMAIN segs = 1 .. n
      /\ DOMAIN segs' = 1 .. n + 1
      /\ segs'[n + 1] = s
      /\ \A i \in 1 .. n : segs'[i] = segs[i]
  BY DEF AppendSegment
<1>2. /\ s.vaddr \in Nat /\ s.fileOff \in Nat /\ s.filesz \in Nat
      /\ s.memsz \in Nat /\ WORD \in Nat /\ PAGE_SIZE \in Nat \ {0}
  BY PageAssumption DEF Segment, Address
<1>3. /\ s.fileOff <= PAGE_SIZE + s.vaddr
      /\ s.fileOff % PAGE_SIZE = 0
      /\ PAGE_SIZE <= s.fileOff
      /\ n # 0 => LastSegment.fileOff + LastSegment.filesz <= s.fileOff
  <2>1. CASE segs = <<>>
    <3>1. s.fileOff = PAGE_SIZE /\ n = 0
      BY <2>1
    <3>2. (1 * PAGE_SIZE) % PAGE_SIZE = 0
      BY <1>2, MultipleMod
    <3> QED
      BY <1>2, <3>1, <3>2
  <2>2. CASE segs # <<>>
    <3>1. LastSegment \in Segment
      BY <1>1, <2>2 DEF LastSegment
    <3>2. LastSegment.vaddr + LastSegment.memsz \in Nat
      BY <3>1, PageAssumption DEF Segment, Address
    <3>3. End(LastSegment) \in Nat
      BY <3>2, PageUpFacts DEF End
    <3> QED
      BY <1>2, <2>2, <3>3 DEF OffsetsBehindAddresses
  <2> QED
    BY <2>1, <2>2
<1>4. /\ curOff' \in Nat
      /\ curOff' % PAGE_SIZE = 0
      /\ s.fileOff + s.filesz <= curOff'
      /\ curOff' <= PAGE_SIZE + End(s)
  BY <1>2, <1>3, OffsetStep DEF AppendSegment, End
<1>5. LastSegment' = s
  BY <1>1 DEF LastSegment
<1>6. OffsetsBehindAddresses'
  <2>1. PAGE_SIZE <= curOff'
    BY <1>2, <1>3, <1>4
  <2> QED
    BY <1>4, <1>5, <2>1 DEF OffsetsBehindAddresses, End
<1>7. PageAligned'
  BY <1>1, <1>3 DEF SegmentsLaidOut, PageAligned
<1>8. FileSorted'
  <2> SUFFICES ASSUME NEW i \in 1 .. n + 1
               PROVE  /\ segs'[i].fileOff >= PAGE_SIZE
                      /\ i > 1 => segs'[i - 1].fileOff + segs'[i - 1].filesz
                                    <= segs'[i].fileOff
    BY <1>1 DEF FileSorted
  <2>1. CASE i \in 1 .. n
    <3>1. i > 1 => i - 1 \in 1 .. n
      BY <1>1, <2>1
    <3> QED
      BY <1>1, <2>1, <3>1 DEF SegmentsLaidOut, FileSorted
  <2>2. CASE i = n + 1
    <3>1. segs'[i] = s
      BY <1>1, <2>2
    <3>2. ASSUME i > 1
          PROVE  n # 0 /\ segs'[i - 1] = LastSegment
      <4>1. i - 1 = n /\ n \in 1 .. n
        BY <1>1, <2>2, <3>2
      <4> QED
        BY <1>1, <4>1 DEF LastSegment
    <3> QED
      BY <1>3, <3>1, <3>2
  <2> QED
    BY <1>1, <2>1, <2>2
<1>9. PagesSorted'
  <2> SUFFICES ASSUME NEW i \in 1 .. n + 1, i > 1
               PROVE  End(segs'[i - 1]) <= segs'[i].vaddr
    BY <1>1 DEF PagesSorted, End
  <2>1. CASE i \in 1 .. n
    <3>1. i - 1 \in 1 .. n
      BY <1>1, <2>1
    <3> QED
      BY <1>1, <2>1, <3>1 DEF SegmentsLaidOut, PagesSorted, End
  <2>2. CASE i = n + 1
    <3>1. segs # <<>> /\ i - 1 = n /\ n \in 1 .. n
      BY <1>1, <2>2
    <3> QED
      BY <1>1, <2>2, <3>1 DEF LastSegment
  <2> QED
    BY <1>1, <2>1, <2>2
<1> QED
  BY <1>5, <1>6, <1>7, <1>8, <1>9 DEF SegmentsLaidOut

----------------------------------------------------------------------------
(* Which buffer img.raw points at and which buffers are live, by the point  *)
(* the program has reached.                                                 *)
BuffersOwned ==
  /\ pc = "load" => raw = "NULL" /\ DOMAIN mem = {}
  /\ pc = "loaded" => raw = "loaded" /\ DOMAIN mem = {"loaded"}
  /\ pc \in {"layout", "sections", "patch", "imports"} =>
       raw = "copy" /\ DOMAIN mem = {"copy"}
  /\ (pc = "embed" \/ Writing) =>
       raw = "copy" /\ DOMAIN mem = {"copy", "shim"}
  /\ pc = "reject" =>
       raw \in {"loaded", "copy"} /\ DOMAIN mem \subseteq {raw, "shim"}
  /\ pc = "exit" => raw = "NULL" /\ DOMAIN mem \subseteq {"shim"}

(* An image has been loaded, the header segment emitted, and the shim's     *)
(* symbols found, when the program is past the statement that does it.      *)
StageChecked ==
  /\ pc \notin {"load", "exit"} => img \in Images
  /\ pc \in {"load", "loaded", "layout"} => segs = <<>>
  /\ pc = "sections" => segs # <<>> /\ Len(img.sections) < ELF_MAX_SEGMENTS
  /\ pc = "embed" => ShimUsable /\ ph >= 1
  /\ pc \in {"phdrs", "data"} => w >= 1

Typing == TypeOK /\ BuffersOwned /\ StageChecked

LEMMA ModType ==
  ASSUME NEW n \in Nat
  PROVE  n % WORD \in Address
BY PageAssumption, DivMod DEF Address

LEMMA LoadedImage ==
  ASSUME img \in Images
  PROVE  /\ img.base \in Address
         /\ img.entryRva \in Address
         /\ img.sizeOfImage \in Address
         /\ img.sizeOfHeaders \in Address
         /\ img.sections \in Seq(Section)
         /\ img.imports \in Seq(Import)
BY ImagesAssumption DEF Loadable

(* Appending a segment keeps the types of the list and of the offset. *)
LEMMA AppendTyping ==
  ASSUME NEW s \in Segment, segs \in Seq(Segment), AppendSegment(s)
  PROVE  segs' \in Seq(Segment) /\ curOff' \in Address
<1>1. segs' \in Seq(Segment)
  BY DEF AppendSegment
<1>2. s.fileOff + s.filesz \in Nat
  BY PageAssumption DEF Segment, Address
<1>3. (s.fileOff + s.filesz) % WORD \in Address
  BY <1>2, ModType
<1> QED
  BY <1>1, <1>3, AlignUpType DEF AppendSegment

LEMMA HeaderSegmentTyping ==
  ASSUME img \in Images, raw \in {"loaded", "copy"}
  PROVE  HeaderSegment \in Segment
<1>1. PAGE_SIZE \in Address
  BY PageAssumption DEF Address
<1>2. DataAt(raw, 0, img.sizeOfHeaders) \in
        [buf : {"NULL", "loaded", "copy", "shim"}, at : Nat]
  BY DEF DataAt, NoData
<1> QED
  BY <1>1, <1>2, LoadedImage DEF HeaderSegment, Segment, Flag

LEMMA SectionSegmentTyping ==
  ASSUME img \in Images, raw \in {"loaded", "copy"}, curOff \in Address,
         NEW s \in Section
  PROVE  SectionSegment(s) \in Segment
<1>1. (img.base + s.rva) % WORD \in Address
  <2>1. img.base + s.rva \in Nat
    BY LoadedImage, PageAssumption DEF Section, Address
  <2> QED
    BY <2>1, ModType
<1>2. SectionFlags(s.characteristics) \in SUBSET Flag
  BY DEF SectionFlags, Section, Flag
<1>3. Larger(s.vsize, s.fsize) \in Address /\ s.fsize \in Address
  BY DEF Larger, Section
<1>4. s.fileOff \in Nat
  BY PageAssumption DEF Section, Address
<1>5. DataAt(raw, s.fileOff, s.fsize) \in
        [buf : {"NULL", "loaded", "copy", "shim"}, at : Nat]
  BY <1>4 DEF DataAt, NoData
<1> QED
  BY <1>1, <1>2, <1>3, <1>5 DEF SectionSegment, Segment

LEMMA ShimSegmentTyping ==
  ASSUME NEW i \in ShimLoads, curOff \in Address
  PROVE  ShimSegment(ShimPhdrs[i]) \in Segment
<1> DEFINE p == ShimPhdrs[i]
<1>1. /\ p.vaddr \in Address /\ p.off \in Nat /\ p.flags \in SUBSET Flag
      /\ p.filesz \in Address /\ p.memsz \in Address
  BY ShimSegmentsAssumption
<1> HIDE DEF p
<1>2. DataAt("shim", p.off, p.filesz) \in
        [buf : {"NULL", "loaded", "copy", "shim"}, at : Nat]
  BY <1>1 DEF DataAt, NoData
<1>3. ShimSegment(p) \in Segment
  BY <1>1, <1>2 DEF ShimSegment, Segment
<1> QED
  BY <1>3 DEF p

----------------------------------------------------------------------------
(* Each stage keeps the types and the ownership of the buffers. *)
LEMMA LayoutTyping ==
  ASSUME Typing, LayoutStep, UNCHANGED <<stubVars, writerVars, mainVars>>
  PROVE  Typing'
<1> USE DEF Typing, stubVars, writerVars, mainVars, heldVars
<1>1. CASE LayoutRejects
  BY <1>1 DEF LayoutRejects, TypeOK, BuffersOwned, StageChecked, Writing
<1>2. CASE LayoutHeaders
  <2>1. img \in Images /\ raw = "copy"
    BY <1>2 DEF LayoutHeaders, BuffersOwned, StageChecked
  <2>2. segs' \in Seq(Segment) /\ curOff' \in Address
    BY <1>2, <2>1, HeaderSegmentTyping, AppendTyping DEF LayoutHeaders, TypeOK
  <2>3. entry' \in Address
    <3>1. img.base + img.entryRva \in Nat
      BY <2>1, LoadedImage, PageAssumption DEF Address
    <3> QED
      BY <1>2, <3>1, ModType DEF LayoutHeaders
  <2>4. segs' # <<>> /\ Len(segs') <= ELF_MAX_SEGMENTS
    <3>1. segs = <<>>
      BY <1>2 DEF LayoutHeaders, StageChecked
    <3>2. Len(segs') = 1 /\ segs' # <<>>
      BY <1>2, <3>1 DEF LayoutHeaders, AppendSegment
    <3> QED
      BY <3>2, SegmentsAssumption
  <2>5. Len(img.sections) < ELF_MAX_SEGMENTS
    BY <1>2, <2>1, LoadedImage, SegmentsAssumption DEF LayoutHeaders
  <2> QED
    BY <1>2, <2>1, <2>2, <2>3, <2>4, <2>5
    DEF LayoutHeaders, TypeOK, BuffersOwned, StageChecked, Writing
<1>3. CASE LayoutSection
  <2>1. img \in Images /\ raw = "copy" /\ curOff \in Address
    BY <1>3 DEF LayoutSection, TypeOK, BuffersOwned, StageChecked
  <2>2. NextSection \in Section
    <3>1. Len(segs) \in DOMAIN img.sections
      BY <1>3, <2>1, LoadedImage DEF LayoutSection, TypeOK, StageChecked
    <3> QED
      BY <1>3, <2>1, <3>1, LoadedImage DEF LayoutSection, NextSection
  <2>3. segs' \in Seq(Segment) /\ curOff' \in Address
    BY <1>3, <2>1, <2>2, SectionSegmentTyping, AppendTyping
    DEF LayoutSection, TypeOK
  <2>4. segs' # <<>> /\ Len(segs') <= ELF_MAX_SEGMENTS
    <3>1. segs' # <<>> /\ Len(segs') = Len(segs) + 1
      BY <1>3 DEF LayoutSection, AppendSegment, TypeOK
    <3>2. Len(segs) <= Len(img.sections) /\ Len(img.sections) < ELF_MAX_SEGMENTS
      BY <1>3 DEF LayoutSection, StageChecked
    <3> QED
      BY <2>1, <3>1, <3>2, LoadedImage, SegmentsAssumption DEF TypeOK
  <2> QED
    BY <1>3, <2>1, <2>3, <2>4
    DEF LayoutSection, TypeOK, BuffersOwned, StageChecked, Writing
<1>4. CASE SectionRejects
  BY <1>4 DEF SectionRejects, TypeOK, BuffersOwned, StageChecked, Writing
<1>5. CASE LayoutDone
  BY <1>5 DEF LayoutDone, TypeOK, BuffersOwned, StageChecked, Writing
<1> QED
  BY <1>1, <1>2, <1>3, <1>4, <1>5 DEF LayoutStep

LEMMA StubTyping ==
  ASSUME Typing, StubStep, UNCHANGED <<writerVars, mainVars>>
  PROVE  Typing'
<1> USE DEF Typing, stubVars, layoutVars, writerVars, mainVars, heldVars
<1>1. CASE PatchRejects
  BY <1>1 DEF PatchRejects, TypeOK, BuffersOwned, StageChecked, Writing
<1>2. CASE StartPatching
  BY <1>2 DEF StartPatching, TypeOK, BuffersOwned, StageChecked, Writing
<1>3. CASE PatchImport
  <2>1. DOMAIN mem' = DOMAIN mem /\ imp' \in Nat
    BY <1>3 DEF PatchImport, TypeOK
  <2> QED
    BY <1>3, <2>1 DEF PatchImport, TypeOK, BuffersOwned, StageChecked, Writing
<1>4. CASE ImportRejects
  BY <1>4 DEF ImportRejects, TypeOK, BuffersOwned, StageChecked, Writing
<1>5. CASE CopyShim
  <2>1. DOMAIN mem' = DOMAIN mem \union {"shim"}
    BY <1>5 DEF CopyShim
  <2>2. curOff' \in Address
    <3>1. segs # <<>> => segs[Len(segs)] \in Segment
      BY DEF TypeOK
    <3>2. CASE segs = <<>>
      BY <1>5, <3>2, PageAssumption DEF CopyShim, NextFileOff, Address
    <3>3. CASE segs # <<>>
      <4> DEFINE n == segs[Len(segs)].fileOff + segs[Len(segs)].filesz
      <4>1. n \in Nat
        BY <3>1, <3>3, PageAssumption DEF Segment, Address
      <4>2. align_up(n % WORD) \in Address
        BY <4>1, ModType, AlignUpType
      <4> QED
        BY <1>5, <3>3, <4>2 DEF CopyShim, NextFileOff
    <3> QED
      BY <3>2, <3>3
  <2> QED
    BY <1>5, <2>1, <2>2
    DEF CopyShim, TypeOK, BuffersOwned, StageChecked, Writing, ShimUsable
<1>6. CASE CopyRejects
  BY <1>6 DEF CopyRejects, TypeOK, BuffersOwned, StageChecked, Writing
<1>7. CASE EmbedSegment
  <2>1. ph \in ShimLoads /\ ph' \in Nat
    BY <1>7, ShimAssumption DEF EmbedSegment, ShimLoads, TypeOK, StageChecked
  <2>2. segs' \in Seq(Segment) /\ curOff' \in Address
    BY <1>7, <2>1, ShimSegmentTyping, AppendTyping DEF EmbedSegment, TypeOK
  <2>3. Len(segs') <= ELF_MAX_SEGMENTS
    BY <1>7, SegmentsAssumption DEF EmbedSegment, AppendSegment, TypeOK
  <2> QED
    BY <1>7, <2>1, <2>2, <2>3
    DEF EmbedSegment, TypeOK, BuffersOwned, StageChecked, Writing
<1>8. CASE SkipHeader
  BY <1>8 DEF SkipHeader, TypeOK, BuffersOwned, StageChecked, Writing
<1>9. CASE EmbedRejects
  BY <1>9 DEF EmbedRejects, TypeOK, BuffersOwned, StageChecked, Writing
<1>10. CASE EnterShim
  <2>1. entry' \in Address
    BY <1>10, ShimAssumption DEF EnterShim, StageChecked, ShimUsable, Symbol
  <2> QED
    BY <1>10, <2>1
    DEF EnterShim, TypeOK, BuffersOwned, StageChecked, Writing
<1> QED
  BY <1>1, <1>2, <1>3, <1>4, <1>5, <1>6, <1>7, <1>8, <1>9, <1>10 DEF StubStep

LEMMA WriterTyping ==
  ASSUME Typing, WriteStep, UNCHANGED mainVars
  PROVE  Typing'
<1> USE DEF Typing, specVars, stubVars, mainVars, heldVars
<1>1. phdrs_end \in Nat
  <2>1. Len(segs) * PHSIZE \in Nat
    BY HeaderAssumption DEF TypeOK
  <2> QED
    BY <2>1, HeaderAssumption DEF phdrs_end
<1>2. CASE WriteRejects
  BY <1>2 DEF WriteRejects, writerVars, TypeOK, BuffersOwned, StageChecked, Writing
<1>3. CASE OpenOutput
  BY <1>3 DEF OpenOutput, TypeOK, BuffersOwned, StageChecked, Writing
<1>4. CASE WriteEhdr
  BY <1>4 DEF WriteEhdr, TypeOK, BuffersOwned, StageChecked, Writing
<1>5. CASE WritePhdr
  BY <1>5 DEF WritePhdr, TypeOK, BuffersOwned, StageChecked, Writing
<1>6. CASE StartData
  BY <1>1, <1>6 DEF StartData, TypeOK, BuffersOwned, StageChecked, Writing
<1>7. CASE SkipEmpty
  BY <1>7 DEF SkipEmpty, TypeOK, BuffersOwned, StageChecked, Writing
<1>8. CASE WriteSegment
  <2>1. w \in 1 .. Len(segs) /\ segs \in Seq(Segment)
    BY <1>8 DEF WriteSegment, TypeOK, StageChecked
  <2>2. segs[w] \in Segment
    BY <2>1
  <2>3. segs[w].fileOff + segs[w].filesz \in Nat
    BY <2>2, PageAssumption DEF Segment, Address
  <2>4. (segs[w].fileOff + segs[w].filesz) % WORD \in Nat
    BY <2>3, ModType, PageAssumption DEF Address
  <2>5. cur' \in Nat /\ w' >= 1 /\ w' \in Nat
    BY <1>8, <2>1, <2>4 DEF WriteSegment
  <2> QED
    BY <1>8, <2>5 DEF WriteSegment, TypeOK, BuffersOwned, StageChecked, Writing
<1>9. CASE SegmentRejected
  BY <1>9 DEF SegmentRejected, TypeOK, BuffersOwned, StageChecked, Writing
<1>10. CASE ShortWrite
  BY <1>10 DEF ShortWrite, TypeOK, BuffersOwned, StageChecked, Writing
<1>11. CASE CloseOutput
  BY <1>11 DEF CloseOutput, TypeOK, BuffersOwned, StageChecked, Writing
<1> QED
  BY <1>2, <1>3, <1>4, <1>5, <1>6, <1>7, <1>8, <1>9, <1>10, <1>11 DEF WriteStep

(* What copying the bytes does to the count of each buffer. *)
LEMMA CopyHeld ==
  ASSUME held \in [{"loaded", "copy", "tables"} -> Int], raw = "loaded", ReplaceBytes
  PROVE  /\ held' \in [{"loaded", "copy", "tables"} -> Int]
         /\ held'["copy"] = held["copy"] + 1
         /\ held'["loaded"] = held["loaded"] - 1
         /\ held'["tables"] = held["tables"]
<1> DEFINE one == [held EXCEPT !["copy"] = held["copy"] + 1]
<1>1. /\ one \in [{"loaded", "copy", "tables"} -> Int]
      /\ one["copy"] = held["copy"] + 1
      /\ one["loaded"] = held["loaded"]
      /\ one["tables"] = held["tables"]
  OBVIOUS
<1>2. held' = [one EXCEPT !["loaded"] = one["loaded"] - 1]
  BY DEF ReplaceBytes
<1> HIDE DEF one
<1> QED
  BY <1>1, <1>2

LEMMA FreeTyping ==
  ASSUME TypeOK, FreeImage
  PROVE  /\ tables' \in {"NULL", "tables"}
         /\ held' \in [{"loaded", "copy", "tables"} -> Int]
BY DEF TypeOK, FreeImage

LEMMA MainTyping ==
  ASSUME Typing,
         \/ Usage \/ Load \/ LoadFails \/ Inspect \/ CopyImage \/ CopyFails
         \/ Reject \/ Succeed \/ Exited
  PROVE  Typing'
<1> USE DEF Typing, specVars, stubVars, writerVars, mainVars, heldVars
<1>1. CASE Usage
  BY <1>1 DEF Usage, TypeOK, BuffersOwned, StageChecked, Writing
<1>2. CASE Load
  <2>1. tables' \in {"NULL", "tables"}
        /\ held' \in [{"loaded", "copy", "tables"} -> Int]
    BY <1>2 DEF Load, TypeOK
  <2> QED
    BY <1>2, <2>1 DEF Load, TypeOK, BuffersOwned, StageChecked, Writing
<1>3. CASE LoadFails
  BY <1>3 DEF LoadFails, TypeOK, BuffersOwned, StageChecked, Writing
<1>4. CASE Inspect
  BY <1>4, FreeTyping
  DEF Inspect, FreeImage, Without, TypeOK, BuffersOwned, StageChecked, Writing
<1>5. CASE CopyImage
  <2>1. held' \in [{"loaded", "copy", "tables"} -> Int]
    BY <1>5, CopyHeld DEF CopyImage, TypeOK, BuffersOwned
  <2> QED
    BY <1>5, <2>1
    DEF CopyImage, ReplaceBytes, TypeOK, BuffersOwned, StageChecked, Writing
<1>6. CASE CopyFails
  BY <1>6 DEF CopyFails, TypeOK, BuffersOwned, StageChecked, Writing
<1>7. CASE Reject
  BY <1>7, FreeTyping
  DEF Reject, FreeImage, Without, TypeOK, BuffersOwned, StageChecked, Writing
<1>8. CASE Succeed
  BY <1>8, FreeTyping
  DEF Succeed, FreeImage, Without, TypeOK, BuffersOwned, StageChecked, Writing
<1>9. CASE Exited
  BY <1>9 DEF Exited, vars, TypeOK, BuffersOwned, StageChecked, Writing
<1> QED
  BY <1>1, <1>2, <1>3, <1>4, <1>5, <1>6, <1>7, <1>8, <1>9

LEMMA TypingInit == MainInit => Typing
<1> SUFFICES ASSUME MainInit
             PROVE  Typing
  OBVIOUS
<1> USE DEF MainInit, Init, StubInit, WriterInit
<1>1. /\ segs \in Seq(Segment) /\ Len(segs) <= ELF_MAX_SEGMENTS
      /\ curOff \in Address /\ entry \in Address
  BY PageAssumption, SegmentsAssumption DEF Address
<1>2. DOMAIN mem = {}
  OBVIOUS
<1>3. tables \in {"NULL", "tables"} /\ held \in [{"loaded", "copy", "tables"} -> Int]
  OBVIOUS
<1>4. exit \in {-1, 0, 1, 2}
  OBVIOUS
<1> HIDE DEF MainInit, Init, StubInit, WriterInit
<1>5. TypeOK
  BY <1>1, <1>2, <1>3, <1>4 DEF TypeOK, MainInit, Init, StubInit, WriterInit
<1>6. BuffersOwned /\ StageChecked
  BY <1>2 DEF BuffersOwned, StageChecked, Writing, MainInit, Init, StubInit, WriterInit
<1> QED
  BY <1>5, <1>6 DEF Typing

LEMMA TypingStep == Typing /\ [Next]_vars => Typing'
<1> SUFFICES ASSUME Typing, [Next]_vars
             PROVE  Typing'
  OBVIOUS
<1>1. CASE LayoutStep /\ UNCHANGED <<stubVars, writerVars, mainVars>>
  BY <1>1, LayoutTyping
<1>2. CASE StubStep /\ UNCHANGED <<writerVars, mainVars>>
  BY <1>2, StubTyping
<1>3. CASE WriteStep /\ UNCHANGED mainVars
  BY <1>3, WriterTyping
<1>4. CASE \/ Usage \/ Load \/ LoadFails \/ Inspect \/ CopyImage \/ CopyFails
           \/ Reject \/ Succeed \/ Exited
  BY <1>4, MainTyping
<1>5. CASE UNCHANGED vars
  BY <1>5 DEF vars, specVars, stubVars, writerVars, mainVars, heldVars, Typing, TypeOK,
              BuffersOwned, StageChecked, Writing
<1> QED
  BY <1>1, <1>2, <1>3, <1>4, <1>5 DEF Next

LEMMA TypingInvariant == Spec => []Typing
BY TypingInit, TypingStep, PTL DEF Spec

(* Every variable keeps its type, uint32_t values included.               *)
THEOREM TypeCorrect == Spec => []TypeOK
<1>1. Typing => TypeOK
  BY DEF Typing
<1> QED
  BY <1>1, TypingInvariant, PTL

(* From loading to the exit, what img.raw points at and the loader's arrays *)
(* are held once, and nothing else is.                                      *)
Held(b) == IF b \in {raw, "tables"} THEN 1 ELSE 0

HeldOnce ==
  /\ pc \in {"load", "exit"} => \A b \in {"loaded", "copy", "tables"} : held[b] = 0
  /\ pc \notin {"load", "exit"} =>
       /\ tables = "tables"
       /\ \A b \in {"loaded", "copy", "tables"} : held[b] = Held(b)

LEMMA HeldKept ==
  ASSUME HeldOnce, UNCHANGED <<raw, heldVars>>,
         pc' \in {"load", "exit"} <=> pc \in {"load", "exit"}
  PROVE  HeldOnce'
BY DEF HeldOnce, Held, heldVars

LEMMA FreedOnce ==
  ASSUME Typing, HeldOnce, FreeImage, pc \notin {"load", "exit"}, pc' = "exit"
  PROVE  HeldOnce'
<1>1. /\ DOMAIN held = {"loaded", "copy", "tables"} /\ tables = "tables"
      /\ \A b \in {"loaded", "copy", "tables"} : held[b] = Held(b)
  BY DEF Typing, TypeOK, HeldOnce
<1>2. \A b \in {"loaded", "copy", "tables"} : held'[b] = 0
  BY <1>1 DEF FreeImage, Held
<1> QED
  BY <1>2 DEF HeldOnce

LEMMA HeldStep == Typing /\ HeldOnce /\ [Next]_vars => HeldOnce'
<1> SUFFICES ASSUME Typing, HeldOnce, [Next]_vars
             PROVE  HeldOnce'
  OBVIOUS
<1>1. CASE LayoutStep /\ UNCHANGED <<stubVars, writerVars, mainVars>>
  BY <1>1, HeldKept DEF LayoutStep, LayoutRejects, LayoutHeaders, LayoutSection,
                        SectionRejects, LayoutDone, mainVars
<1>2. CASE StubStep /\ UNCHANGED <<writerVars, mainVars>>
  BY <1>2, HeldKept
  DEF StubStep, PatchRejects, StartPatching, PatchImport, ImportRejects, CopyShim,
      CopyRejects, EmbedSegment, SkipHeader, EmbedRejects, EnterShim, layoutVars,
      mainVars
<1>3. CASE WriteStep /\ UNCHANGED mainVars
  BY <1>3, HeldKept
  DEF WriteStep, WriteRejects, OpenOutput, WriteEhdr, WritePhdr, StartData, SkipEmpty,
      WriteSegment, SegmentRejected, ShortWrite, CloseOutput, specVars, mainVars
<1>4. CASE Usage \/ LoadFails
  BY <1>4 DEF Usage, LoadFails, HeldOnce, heldVars
<1>5. CASE Load
  BY <1>5 DEF Load, HeldOnce, Held, Typing, TypeOK
<1>6. CASE Inspect \/ Reject \/ Succeed
  BY <1>6, FreedOnce DEF Inspect, Reject, Succeed
<1>7. CASE CopyImage
  <2>1. raw = "loaded" /\ pc = "loaded" /\ pc' = "layout" /\ raw' = "copy"
        /\ tables' = tables /\ held \in [{"loaded", "copy", "tables"} -> Int]
    BY <1>7 DEF CopyImage, Typing, TypeOK, BuffersOwned
  <2>2. \A b \in {"loaded", "copy", "tables"} : held[b] = Held(b)
    BY <2>1 DEF HeldOnce
  <2>3. held["loaded"] = 1 /\ held["copy"] = 0 /\ held["tables"] = 1
    BY <2>1, <2>2 DEF Held
  <2>4. held'["loaded"] = 0 /\ held'["copy"] = 1 /\ held'["tables"] = 1
    BY <1>7, <2>1, <2>3, CopyHeld DEF CopyImage
  <2> QED
    BY <2>1, <2>4 DEF HeldOnce, Held
<1>8. CASE CopyFails
  BY <1>8, HeldKept DEF CopyFails, specVars, mainVars
<1>9. CASE UNCHANGED vars
  BY <1>9, HeldKept DEF vars, specVars, mainVars
<1> QED
  BY <1>1, <1>2, <1>3, <1>4, <1>5, <1>6, <1>7, <1>8, <1>9 DEF Next, Exited

(* However a run ends, the image's bytes and the loader's arrays were each *)
(* freed exactly once and only the copy of the shim may be left.           *)
THEOREM ImageAlwaysFreed == Spec => []ImageFreed
<1>1. MainInit => HeldOnce
  BY DEF MainInit, Init, HeldOnce
<1>2. Typing /\ HeldOnce => ImageFreed
  BY DEF Typing, TypeOK, BuffersOwned, HeldOnce, ImageFreed
<1> QED
  BY <1>1, <1>2, HeldStep, TypingInvariant, PTL DEF Spec

----------------------------------------------------------------------------
(* Data pointers: what a segment with file bytes points at.               *)
DataOwned ==
  \A i \in DOMAIN segs : segs[i].filesz > 0 => segs[i].data.buf \in {"copy", "shim"}

LEMMA AppendDataOwned ==
  ASSUME segs \in Seq(Segment), NEW s \in Segment, AppendSegment(s), DataOwned,
         s.filesz > 0 => s.data.buf \in {"copy", "shim"}
  PROVE  DataOwned'
<1>1. /\ segs' = Append(segs, s)
      /\ Len(segs) \in Nat
      /\ DOMAIN segs = 1 .. Len(segs)
      /\ DOMAIN segs' = 1 .. Len(segs) + 1
  BY DEF AppendSegment
<1> SUFFICES ASSUME NEW i \in DOMAIN segs', segs'[i].filesz > 0
             PROVE  segs'[i].data.buf \in {"copy", "shim"}
  BY DEF DataOwned
<1>2. CASE i \in DOMAIN segs
  BY <1>1, <1>2 DEF DataOwned
<1>3. CASE i = Len(segs) + 1
  BY <1>1, <1>3
<1> QED
  BY <1>1, <1>2, <1>3

LEMMA DataOwnedStep ==
  ASSUME Typing, DataOwned, [Next]_vars
  PROVE  DataOwned'
<1> USE DEF Typing
<1>1. CASE LayoutHeaders
  <2>1. img \in Images /\ raw = "copy"
    BY <1>1 DEF LayoutHeaders, BuffersOwned, StageChecked
  <2>2. HeaderSegment.filesz > 0 => HeaderSegment.data.buf \in {"copy", "shim"}
    BY <2>1 DEF HeaderSegment, DataAt
  <2> QED
    BY <1>1, <2>1, <2>2, HeaderSegmentTyping, AppendDataOwned
    DEF LayoutHeaders, TypeOK
<1>2. CASE LayoutSection
  <2>1. img \in Images /\ raw = "copy" /\ curOff \in Address
    BY <1>2 DEF LayoutSection, TypeOK, BuffersOwned, StageChecked
  <2>2. NextSection \in Section
    <3>1. Len(segs) \in DOMAIN img.sections
      BY <1>2, <2>1, LoadedImage DEF LayoutSection, TypeOK, StageChecked
    <3> QED
      BY <2>1, <3>1, LoadedImage DEF NextSection
  <2> DEFINE s == SectionSegment(NextSection)
  <2>3. s \in Segment
    BY <2>1, <2>2, SectionSegmentTyping
  <2>4. s.filesz > 0 => s.data.buf \in {"copy", "shim"}
    BY <2>1 DEF SectionSegment, DataAt
  <2>5. AppendSegment(s) /\ segs \in Seq(Segment)
    BY <1>2 DEF LayoutSection, TypeOK
  <2> HIDE DEF s
  <2> QED
    BY <2>3, <2>4, <2>5, AppendDataOwned
<1>3. CASE EmbedSegment
  <2> DEFINE s == ShimSegment(ShimPhdrs[ph])
  <2>1. ph \in ShimLoads /\ curOff \in Address
    BY <1>3, ShimAssumption DEF EmbedSegment, ShimLoads, TypeOK, StageChecked
  <2>2. s \in Segment
    BY <2>1, ShimSegmentTyping
  <2>3. s.filesz > 0 => s.data.buf \in {"copy", "shim"}
    BY DEF ShimSegment, DataAt
  <2>4. AppendSegment(s) /\ segs \in Seq(Segment)
    BY <1>3 DEF EmbedSegment, TypeOK
  <2> HIDE DEF s
  <2> QED
    BY <2>2, <2>3, <2>4, AppendDataOwned
<1>4. CASE segs' = segs
  BY <1>4 DEF DataOwned
<1>5. \/ LayoutHeaders \/ LayoutSection \/ EmbedSegment \/ segs' = segs
  BY DEF Next, LayoutStep, LayoutRejects, SectionRejects, LayoutDone, StubStep,
         PatchRejects, StartPatching, PatchImport, ImportRejects, CopyShim,
         CopyRejects, SkipHeader, EmbedRejects, EnterShim, WriteStep,
         WriteRejects, OpenOutput, WriteEhdr, WritePhdr, StartData, SkipEmpty,
         WriteSegment, SegmentRejected, ShortWrite, CloseOutput, Usage, Load,
         LoadFails, Inspect, CopyImage, CopyFails, Reject, Succeed, Exited,
         vars, layoutVars, specVars, stubVars, writerVars, mainVars
<1> QED
  BY <1>1, <1>2, <1>3, <1>4, <1>5

(* Whatever the image, elf_write() reads segment data only from buffers    *)
(* that are still live: the image's private copy, or the leaked copy of    *)
(* the shim.                                                               *)
THEOREM SegmentDataAlways == Spec => []SegmentDataAlive
<1>1. MainInit => DataOwned
  BY DEF MainInit, Init, DataOwned
<1>2. Typing /\ DataOwned /\ [Next]_vars => DataOwned'
  BY DataOwnedStep
<1>3. Typing /\ DataOwned => SegmentDataAlive
  BY DEF Typing, BuffersOwned, DataOwned, SegmentDataAlive
<1> QED
  BY <1>1, <1>2, <1>3, TypingInvariant, PTL DEF Spec

----------------------------------------------------------------------------
(* Shifting by a whole number of pages: the image's base.                 *)
LEMMA ShiftedPageUp ==
  ASSUME NEW b \in Nat, NEW n \in Nat, b % PAGE_SIZE = 0
  PROVE  PageUp(b + n) <= b + PageUp(n)
<1>1. PageUp(n) \in Nat /\ n <= PageUp(n) /\ PageUp(n) % PAGE_SIZE = 0
  BY PageUpFacts
<1>2. (b + PageUp(n)) % PAGE_SIZE = 0
  BY <1>1, PageAssumption, SumMod
<1> QED
  BY <1>1, <1>2, PageUpLeast

(* An image below the shim leaves two pages below 2^32.                   *)
LEMMA ImageRoom ==
  ASSUME img \in Images, Convertible
  PROVE  img.base + img.sizeOfImage + 2 * PAGE_SIZE <= WORD
<1>1. PICK i \in ShimLoads : TRUE
  BY ShimAssumption
<1> DEFINE p == ShimPhdrs[i]
<1>2. /\ p.vaddr \in Nat /\ p.memsz \in Nat
      /\ PageUp(p.vaddr + p.memsz) + 2 * PAGE_SIZE <= WORD
  BY ShimSegmentsAssumption, PageAssumption DEF Address
<1>3. img.base + img.sizeOfImage <= p.vaddr
  BY <1>1 DEF Convertible, ImageBelowShim
<1> HIDE DEF p
<1>4. p.vaddr + p.memsz \in Nat
  BY <1>2
<1>5. PageUp(p.vaddr + p.memsz) \in Nat /\ p.vaddr + p.memsz <= PageUp(p.vaddr + p.memsz)
  BY <1>4, PageUpFacts
<1> QED
  BY <1>2, <1>3, <1>5, LoadedImage, PageAssumption, SMTT(30) DEF Address

(* Where the last segment may end: before the segment that comes next.     *)
RoomAhead ==
  /\ pc = "sections" =>
       /\ img.base % PAGE_SIZE = 0
       /\ Len(segs) <= Len(img.sections) + 1
       /\ End(LastSegment) <= img.base + img.sizeOfImage
       /\ Len(segs) <= Len(img.sections) =>
            End(LastSegment) <= img.base + NextSection.rva
  /\ pc \in {"patch", "imports"} =>
       End(LastSegment) <= img.base + img.sizeOfImage
  /\ pc = "embed" =>
       \A i \in ShimLoads : i >= ph => End(LastSegment) <= ShimPhdrs[i].vaddr

LaidOutSoFar ==
  /\ segs # <<>>
  /\ SegmentsLaidOut
  /\ OffsetsBehindAddresses
  /\ RoomAhead

Laying == pc \in {"sections", "patch", "imports", "embed"} \/ Writing

LayoutInvariant == (Laying /\ Convertible) => LaidOutSoFar

LEMMA HeadersLaidOut ==
  ASSUME Typing, Convertible, LayoutHeaders
  PROVE  LaidOutSoFar'
<1> DEFINE s == HeaderSegment
<1>1. /\ img \in Images /\ raw = "copy" /\ segs = <<>>
      /\ segs \in Seq(Segment) /\ AppendSegment(s)
  BY DEF LayoutHeaders, Typing, TypeOK, BuffersOwned, StageChecked
<1>2. s \in Segment
  BY <1>1, HeaderSegmentTyping
<1>3. /\ s.vaddr = img.base /\ s.fileOff = PAGE_SIZE
      /\ s.filesz = img.sizeOfHeaders /\ s.memsz = img.sizeOfHeaders
  BY DEF HeaderSegment
<1>4. /\ img.base \in Nat /\ img.base % PAGE_SIZE = 0
      /\ img.sizeOfHeaders \in Nat /\ img.sizeOfImage \in Nat
      /\ PAGE_SIZE \in Nat /\ WORD \in Nat
      /\ img.sections \in Seq(Section) /\ img.sections # <<>>
  BY <1>1, LoadedImage, PageAssumption DEF LayoutHeaders, Address
<1>5. /\ PageUp(img.sizeOfHeaders) <= img.sizeOfImage
      /\ PageUp(img.sizeOfHeaders) <= img.sections[1].rva
      /\ img.sections[1] \in Section
  BY <1>4 DEF Convertible, WellFormed, PagesAscend
<1>6. End(s) <= img.base + PageUp(img.sizeOfHeaders)
  BY <1>3, <1>4, ShiftedPageUp DEF End
<1>7. PageUp(img.sizeOfHeaders) \in Nat
  BY <1>4, PageUpFacts
<1>8. End(s) \in Nat
  <2>1. s.vaddr + s.memsz \in Nat
    BY <1>3, <1>4
  <2> QED
    BY <2>1, PageUpFacts DEF End
<1>9. End(s) + 2 * PAGE_SIZE <= WORD
  BY <1>1, <1>4, <1>5, <1>6, <1>7, <1>8, ImageRoom
<1>10. SegmentsLaidOut
  BY <1>1 DEF SegmentsLaidOut, PageAligned, FileSorted, PagesSorted
<1> HIDE DEF s
<1>11. SegmentsLaidOut' /\ OffsetsBehindAddresses' /\ LastSegment' = s
  BY <1>1, <1>2, <1>3, <1>4, <1>9, <1>10, AppendLaidOut
<1>12. segs' # <<>> /\ Len(segs') = 1
  BY <1>1, <1>2 DEF AppendSegment
<1>13. /\ End(s) <= img.base + img.sizeOfImage
       /\ End(s) <= img.base + img.sections[1].rva
  <2>1. img.sections[1].rva \in Nat
    BY <1>4, <1>5 DEF Section, Address
  <2> QED
    BY <1>4, <1>5, <1>6, <1>7, <1>8, <2>1
<1>14. RoomAhead'
  <2>1. img' = img /\ pc' = "sections"
    BY DEF LayoutHeaders
  <2>2. End(LastSegment)' = End(s)
    BY <1>11 DEF End, PageUp
  <2>3. NextSection' = img.sections[1]
    BY <1>12, <2>1 DEF NextSection
  <2> QED
    BY <1>4, <1>12, <1>13, <2>1, <2>2, <2>3 DEF RoomAhead
<1> QED
  BY <1>11, <1>12, <1>14 DEF LaidOutSoFar

LEMMA SectionLaidOut ==
  ASSUME Typing, Convertible, LaidOutSoFar, LayoutSection
  PROVE  LaidOutSoFar'
<1> DEFINE n == Len(segs)
           t == NextSection
           s == SectionSegment(t)
           e == PageUp(t.rva + SectionSize(t))
<1>1. /\ img \in Images /\ raw = "copy" /\ curOff \in Address
      /\ segs \in Seq(Segment) /\ segs # <<>> /\ AppendSegment(s)
      /\ pc = "sections" /\ pc' = "sections" /\ img' = img
  BY DEF LayoutSection, Typing, TypeOK, BuffersOwned, StageChecked
<1>2. /\ n \in 1 .. Len(img.sections) /\ DOMAIN img.sections = 1 .. Len(img.sections)
      /\ Len(img.sections) \in Nat
      /\ t = img.sections[n] /\ t \in Section
  BY <1>1, LoadedImage DEF LayoutSection, NextSection
<1>3. s \in Segment
  BY <1>1, <1>2, SectionSegmentTyping
<1>4. /\ img.base \in Nat /\ img.sizeOfImage \in Nat
      /\ PAGE_SIZE \in Nat /\ WORD \in Nat \ {0}
      /\ t.rva \in Nat /\ t.fsize \in Nat /\ SectionSize(t) \in Nat
      /\ t.fsize <= SectionSize(t)
  <2>1. t.rva \in Address /\ t.fsize \in Address /\ t.vsize \in Address
    BY <1>2 DEF Section
  <2> HIDE DEF t
  <2>2. t.rva \in Nat /\ t.fsize \in Nat /\ t.vsize \in Nat
    BY <2>1 DEF Address
  <2>3. SectionSize(t) \in Nat /\ t.fsize <= SectionSize(t)
    BY <2>2 DEF SectionSize, Larger
  <2> QED
    BY <1>1, <2>2, <2>3, LoadedImage, PageAssumption DEF Address
<1>5. img.base % PAGE_SIZE = 0 /\ t.rva % PAGE_SIZE = 0
  BY <1>1 DEF LaidOutSoFar, RoomAhead, LayoutSection
<1>6. e <= img.sizeOfImage
  BY <1>2 DEF Convertible, WellFormed, PagesAscend
<1>7. e \in Nat /\ t.rva + SectionSize(t) <= e
  <2>1. t.rva + SectionSize(t) \in Nat
    BY <1>4
  <2> QED
    BY <2>1, PageUpFacts
<1>8. n + 1 <= Len(img.sections) => e <= img.sections[n + 1].rva
  <2> SUFFICES ASSUME n + 1 <= Len(img.sections)
               PROVE  e <= img.sections[n + 1].rva
    OBVIOUS
  <2>1. n + 1 \in DOMAIN img.sections /\ n + 1 > 1 /\ (n + 1) - 1 = n
    BY <1>2
  <2> QED
    BY <1>2, <2>1 DEF Convertible, WellFormed, PagesAscend
<1>9. img.base + img.sizeOfImage + 2 * PAGE_SIZE <= WORD
  BY <1>1, ImageRoom
<1> HIDE DEF e
<1>10. /\ s.vaddr = img.base + t.rva /\ s.fileOff = curOff
       /\ s.filesz = t.fsize /\ s.memsz = SectionSize(t)
  <2>1. img.base + t.rva \in Nat /\ img.base + t.rva < WORD
    BY <1>4, <1>6, <1>7, <1>9, PageAssumption
  <2>2. (img.base + t.rva) % WORD = img.base + t.rva
    BY <1>4, <2>1, SmallMod
  <2> QED
    BY <2>2 DEF SectionSegment, SectionSize
<1> HIDE DEF s, t
<1>11. s.vaddr % PAGE_SIZE = 0
  BY <1>4, <1>5, <1>10, PageAssumption, SumMod
<1>12. End(s) <= img.base + e /\ End(s) \in Nat
  <2>1. t.rva + SectionSize(t) \in Nat
    BY <1>4
  <2>2. s.vaddr + s.memsz = img.base + (t.rva + SectionSize(t))
    BY <1>4, <1>10
  <2>3. PageUp(img.base + (t.rva + SectionSize(t))) <= img.base + e
    BY <1>4, <1>5, <2>1, ShiftedPageUp DEF e
  <2>4. img.base + (t.rva + SectionSize(t)) \in Nat
    BY <1>4, <2>1
  <2> QED
    BY <2>2, <2>3, <2>4, PageUpFacts DEF End
<1>13. End(s) + 2 * PAGE_SIZE <= WORD
  BY <1>4, <1>6, <1>7, <1>9, <1>12
<1>14. SegmentsLaidOut /\ OffsetsBehindAddresses /\ End(LastSegment) <= s.vaddr
  BY <1>1, <1>2, <1>10 DEF LaidOutSoFar, RoomAhead, t
<1>15. SegmentsLaidOut' /\ OffsetsBehindAddresses' /\ LastSegment' = s
  BY <1>1, <1>3, <1>4, <1>10, <1>11, <1>13, <1>14, AppendLaidOut
<1>16. segs' # <<>> /\ Len(segs') = n + 1
  BY <1>1, <1>3 DEF AppendSegment
<1>17. RoomAhead'
  <2>1. End(LastSegment)' = End(s)
    BY <1>15 DEF End, PageUp
  <2>2. End(s) <= img.base + img.sizeOfImage
    BY <1>4, <1>6, <1>7, <1>12
  <2>3. ASSUME n + 1 <= Len(img.sections)
        PROVE  End(s) <= img.base + (NextSection').rva
    <3>1. NextSection' = img.sections[n + 1]
      BY <1>1, <1>16 DEF NextSection
    <3>2. img.sections[n + 1] \in Section
      BY <1>1, <1>2, <2>3, LoadedImage
    <3>3. img.sections[n + 1].rva \in Nat
      BY <3>2 DEF Section, Address
    <3> QED
      BY <1>4, <1>7, <1>8, <1>12, <2>3, <3>1, <3>3
  <2> QED
    BY <1>1, <1>2, <1>5, <1>16, <2>1, <2>2, <2>3 DEF RoomAhead
<1> QED
  BY <1>15, <1>16, <1>17 DEF LaidOutSoFar

LEMMA CopyKeepsLayout ==
  ASSUME Typing, Convertible, LaidOutSoFar, CopyShim
  PROVE  LaidOutSoFar'
<1> DEFINE t == LastSegment
           n == t.fileOff + t.filesz
<1>1. /\ img \in Images /\ segs \in Seq(Segment) /\ segs # <<>>
      /\ segs' = segs /\ pc = "imports" /\ pc' = "embed"
  BY DEF CopyShim, LaidOutSoFar, Typing, TypeOK, StageChecked
<1>2. t \in Segment
  BY <1>1 DEF LastSegment
<1>3. /\ n \in Nat /\ curOff \in Nat /\ t.vaddr + t.memsz \in Nat
      /\ PAGE_SIZE \in Nat \ {0}
  BY <1>2, PageAssumption DEF Segment, Address, Typing, TypeOK
<1>4. n <= curOff /\ curOff % PAGE_SIZE = 0 /\ curOff <= PAGE_SIZE + End(t)
  BY DEF LaidOutSoFar, OffsetsBehindAddresses
<1>5. PAGE_SIZE <= n
  <2>1. Len(segs) \in DOMAIN segs
    BY <1>1
  <2>2. t.fileOff >= PAGE_SIZE
    BY <2>1 DEF LaidOutSoFar, SegmentsLaidOut, FileSorted, LastSegment
  <2> QED
    BY <1>2, <2>2, PageAssumption DEF Segment, Address
<1>6. End(t) \in Nat
  BY <1>3, PageUpFacts DEF End
<1>7. End(t) <= img.base + img.sizeOfImage
  BY <1>1 DEF LaidOutSoFar, RoomAhead
<1>8. img.base \in Nat /\ img.sizeOfImage \in Nat
  BY <1>1, LoadedImage DEF Address
<1>9. n + PAGE_SIZE <= WORD
  BY <1>1, <1>3, <1>4, <1>6, <1>7, <1>8, ImageRoom, PageAssumption
<1>10. curOff' = align_up(n % WORD)
  BY <1>1 DEF CopyShim, NextFileOff, LastSegment
<1> HIDE DEF n
<1>11. curOff' = PageUp(n)
  BY <1>3, <1>9, <1>10, AlignUpIsPageUp
<1>12. /\ PageUp(n) \in Nat /\ n <= PageUp(n) /\ PageUp(n) % PAGE_SIZE = 0
       /\ PageUp(n) <= curOff
  BY <1>3, <1>4, PageUpFacts, PageUpLeast
<1>13. LastSegment' = t
  BY <1>1 DEF LastSegment
<1>14. OffsetsBehindAddresses'
  <2>1. PAGE_SIZE <= PageUp(n) /\ PageUp(n) <= PAGE_SIZE + End(t)
    BY <1>3, <1>4, <1>5, <1>6, <1>12
  <2> HIDE DEF t
  <2> QED
    BY <1>11, <1>12, <1>13, <2>1 DEF OffsetsBehindAddresses, End, n
<1>15. SegmentsLaidOut'
  BY <1>1 DEF LaidOutSoFar, SegmentsLaidOut, PageAligned, FileSorted, PagesSorted
<1>16. RoomAhead'
  <2> SUFFICES ASSUME NEW i \in ShimLoads
               PROVE  End(LastSegment)' <= ShimPhdrs[i].vaddr
    BY <1>1 DEF RoomAhead
  <2>1. End(LastSegment)' = End(t)
    BY <1>13 DEF End, PageUp
  <2>2. img.base + img.sizeOfImage <= ShimPhdrs[i].vaddr
    BY DEF Convertible, ImageBelowShim
  <2>3. ShimPhdrs[i].vaddr \in Nat
    BY ShimSegmentsAssumption DEF Address
  <2> QED
    BY <1>6, <1>7, <1>8, <2>1, <2>2, <2>3
<1> QED
  BY <1>1, <1>14, <1>15, <1>16 DEF LaidOutSoFar

LEMMA ShimLaidOut ==
  ASSUME Typing, LaidOutSoFar, EmbedSegment
  PROVE  LaidOutSoFar'
<1> DEFINE p == ShimPhdrs[ph]
           s == ShimSegment(p)
<1>1. /\ ph \in ShimLoads /\ curOff \in Address /\ segs \in Seq(Segment)
      /\ segs # <<>> /\ AppendSegment(s) /\ pc = "embed" /\ pc' = "embed"
      /\ ph' = ph + 1 /\ ph \in Nat
  BY ShimAssumption
  DEF EmbedSegment, ShimLoads, Typing, TypeOK, StageChecked, LaidOutSoFar
<1>2. s \in Segment
  BY <1>1, ShimSegmentTyping
<1>3. /\ p.vaddr % PAGE_SIZE = 0 /\ p.filesz <= p.memsz
      /\ PageUp(p.vaddr + p.memsz) + 2 * PAGE_SIZE <= WORD
      /\ \A j \in ShimLoads :
           ph < j => PageUp(p.vaddr + p.memsz) <= ShimPhdrs[j].vaddr
  BY <1>1, ShimSegmentsAssumption
<1>4. /\ s.vaddr = p.vaddr /\ s.filesz = p.filesz /\ s.memsz = p.memsz
      /\ s.fileOff = curOff
  BY DEF ShimSegment
<1>5. /\ SegmentsLaidOut /\ OffsetsBehindAddresses
      /\ End(LastSegment) <= p.vaddr
  BY <1>1 DEF LaidOutSoFar, RoomAhead
<1> HIDE DEF s, p
<1>6. SegmentsLaidOut' /\ OffsetsBehindAddresses' /\ LastSegment' = s
  BY <1>1, <1>2, <1>3, <1>4, <1>5, AppendLaidOut DEF End
<1>7. segs' # <<>>
  BY <1>1, <1>2 DEF AppendSegment
<1>8. RoomAhead'
  <2>1. End(LastSegment)' = PageUp(p.vaddr + p.memsz)
    BY <1>4, <1>6 DEF End, PageUp
  <2> SUFFICES ASSUME NEW j \in ShimLoads, j >= ph + 1
               PROVE  End(LastSegment)' <= ShimPhdrs[j].vaddr
    BY <1>1 DEF RoomAhead
  <2>2. j \in Nat
    BY ShimAssumption DEF ShimLoads
  <2>3. ph < j
    BY <1>1, <2>2
  <2> QED
    BY <1>3, <2>1, <2>3
<1> QED
  BY <1>6, <1>7, <1>8 DEF LaidOutSoFar

(* Steps that only move on: the segments stay as they are.                 *)
LEMMA MovingOn ==
  ASSUME Typing, Laying, LaidOutSoFar,
         UNCHANGED <<img, segs, curOff>>,
         \/ LayoutDone \/ StartPatching \/ PatchImport \/ SkipHeader
         \/ EnterShim \/ WriteStep \/ (pc' = pc /\ ph' = ph)
  PROVE  Laying' => LaidOutSoFar'
<1>1. LastSegment' = LastSegment /\ End(LastSegment)' = End(LastSegment)
  BY DEF LastSegment, End, PageUp
<1>2. SegmentsLaidOut' /\ OffsetsBehindAddresses'
  BY <1>1 DEF LaidOutSoFar, SegmentsLaidOut, PageAligned, FileSorted, PagesSorted,
              OffsetsBehindAddresses, LastSegment, End, PageUp
<1> SUFFICES ASSUME Laying'
             PROVE  RoomAhead'
  BY <1>2 DEF LaidOutSoFar
<1> USE DEF LaidOutSoFar
<1>3. CASE LayoutDone
  BY <1>1, <1>3 DEF LayoutDone, RoomAhead
<1>4. CASE StartPatching
  BY <1>1, <1>4 DEF StartPatching, RoomAhead
<1>5. CASE PatchImport
  BY <1>1, <1>5 DEF PatchImport, layoutVars, RoomAhead
<1>6. CASE SkipHeader
  <2>1. \A i \in ShimLoads : i >= ph + 1 => i >= ph
    BY <1>6, ShimAssumption DEF ShimLoads, Typing, TypeOK
  <2> QED
    BY <1>1, <1>6, <2>1 DEF SkipHeader, layoutVars, RoomAhead
<1>7. CASE EnterShim
  BY <1>7 DEF EnterShim, RoomAhead
<1>8. CASE WriteStep
  BY <1>8 DEF WriteStep, WriteRejects, OpenOutput, WriteEhdr, WritePhdr, StartData,
              SkipEmpty, WriteSegment, SegmentRejected, ShortWrite, CloseOutput,
              RoomAhead
<1>9. CASE pc' = pc /\ ph' = ph
  BY <1>1, <1>9 DEF RoomAhead, NextSection
<1> QED
  BY <1>3, <1>4, <1>5, <1>6, <1>7, <1>8, <1>9

(* Which steps leave the segments alone.                                   *)
LEMMA StepKinds ==
  ASSUME Typing, [Next]_vars, Laying'
  PROVE  \/ LayoutHeaders /\ img' = img
         \/ Laying /\ img' = img /\ (LayoutSection \/ CopyShim \/ EmbedSegment)
         \/ /\ Laying
            /\ UNCHANGED <<img, segs, curOff>>
            /\ \/ LayoutDone \/ StartPatching \/ PatchImport \/ SkipHeader
               \/ EnterShim \/ WriteStep \/ (pc' = pc /\ ph' = ph)
<1> USE DEF Laying, Writing
<1>1. CASE LayoutStep
  BY <1>1 DEF LayoutStep, LayoutRejects, LayoutHeaders, LayoutSection,
              SectionRejects, LayoutDone
<1>2. CASE StubStep
  <2>1. CASE PatchRejects \/ ImportRejects \/ CopyRejects \/ EmbedRejects
    BY <2>1 DEF PatchRejects, ImportRejects, CopyRejects, EmbedRejects
  <2>2. CASE StartPatching
    BY <2>2 DEF StartPatching
  <2>3. CASE PatchImport
    BY <2>3 DEF PatchImport, layoutVars
  <2>4. CASE CopyShim
    BY <2>4 DEF CopyShim
  <2>5. CASE EmbedSegment
    BY <2>5 DEF EmbedSegment
  <2>6. CASE SkipHeader
    BY <2>6 DEF SkipHeader, layoutVars
  <2>7. CASE EnterShim
    BY <2>7 DEF EnterShim
  <2> QED
    BY <1>2, <2>1, <2>2, <2>3, <2>4, <2>5, <2>6, <2>7 DEF StubStep
<1>3. CASE WriteStep
  <2>1. UNCHANGED specVars
    BY <1>3 DEF WriteStep, WriteRejects, OpenOutput, WriteEhdr, WritePhdr, StartData,
                SkipEmpty, WriteSegment, SegmentRejected, ShortWrite, CloseOutput
  <2>2. Writing
    BY <1>3 DEF WriteStep, WriteRejects, OpenOutput, WriteEhdr, WritePhdr, StartData,
                SkipEmpty, WriteSegment, SegmentRejected, ShortWrite, CloseOutput
  <2> QED
    BY <1>3, <2>1, <2>2 DEF specVars
<1>4. CASE Usage \/ Load \/ LoadFails \/ Inspect \/ CopyImage \/ CopyFails
  BY <1>4 DEF Usage, Load, LoadFails, Inspect, CopyImage, CopyFails
<1>5. CASE Reject \/ Succeed
  BY <1>5 DEF Reject, Succeed
<1>6. CASE UNCHANGED vars
  BY <1>6 DEF vars, specVars, stubVars
<1> QED
  BY <1>1, <1>2, <1>3, <1>4, <1>5, <1>6 DEF Next, Exited

LEMMA ConvertibleStable ==
  ASSUME img' = img
  PROVE  Convertible' = Convertible
BY DEF Convertible, WellFormed, ImageBelowShim, PagesAscend, FileRangesDisjoint,
       SlotsDisjoint, SectionSize, Larger, PageUp, ShimLoads

LEMMA LayoutInvariantStep ==
  ASSUME Typing, LayoutInvariant, [Next]_vars
  PROVE  LayoutInvariant'
<1> SUFFICES ASSUME Laying', Convertible'
             PROVE  LaidOutSoFar'
  BY DEF LayoutInvariant
<1>1. img' = img
  BY StepKinds
<1>2. Convertible
  BY <1>1, ConvertibleStable
<1>3. CASE LayoutHeaders
  BY <1>2, <1>3, HeadersLaidOut
<1>4. CASE Laying /\ (LayoutSection \/ CopyShim \/ EmbedSegment)
  <2>1. LaidOutSoFar
    BY <1>2, <1>4 DEF LayoutInvariant
  <2> QED
    BY <1>2, <1>4, <2>1, SectionLaidOut, CopyKeepsLayout, ShimLaidOut
<1>5. CASE /\ Laying
           /\ UNCHANGED <<img, segs, curOff>>
           /\ \/ LayoutDone \/ StartPatching \/ PatchImport \/ SkipHeader
              \/ EnterShim \/ WriteStep \/ (pc' = pc /\ ph' = ph)
  <2>1. LaidOutSoFar
    BY <1>2, <1>5 DEF LayoutInvariant
  <2> QED
    BY <1>5, <2>1, MovingOn
<1> QED
  BY <1>3, <1>4, <1>5, StepKinds

(* For every well-formed image below the shim, elf_write() is handed       *)
(* segments that are page-aligned, sorted and disjoint in the file, and    *)
(* disjoint in memory, the shim's own included: its internal errors cannot *)
(* occur and no segment overwrites another when the result is loaded.      *)
THEOREM WriterPreconditionHolds == Spec => []WriterPrecondition
<1>1. MainInit => LayoutInvariant
  BY DEF MainInit, Init, LayoutInvariant, Laying, Writing
<1>2. Typing /\ LayoutInvariant /\ [Next]_vars => LayoutInvariant'
  BY LayoutInvariantStep
<1>3. LayoutInvariant => WriterPrecondition
  BY DEF LayoutInvariant, Laying, LaidOutSoFar, WriterPrecondition
<1> QED
  BY <1>1, <1>2, <1>3, TypingInvariant, PTL DEF Spec


----------------------------------------------------------------------------
(***************************************************************************)
(* Two more facts about every conversion: an accepted image keeps out of   *)
(* the shim's range, and a rejected one leaves the output path alone.      *)
(***************************************************************************)

(* The reserved range. *)

InRange == WellFormed(img) /\ img.base + img.sizeOfImage < WORD

(* The segments of the image, as far as they have been emitted. *)
EmittedSegments == {i \in DOMAIN segs : i <= Len(img.sections) + 1}

InsideImage == \A i \in EmittedSegments : End(segs[i]) <= img.base + img.sizeOfImage

RangeInvariant ==
  /\ Laying /\ InRange => img.base % PAGE_SIZE = 0 /\ InsideImage
  /\ Laying /\ pc # "sections" => Len(segs) >= Len(img.sections) + 1
  /\ pc \in {"imports", "embed"} \/ Writing => ClearOfShim

(* A segment inside the image is as good as the ones before it. *)
LEMMA AppendInside ==
  ASSUME segs \in Seq(Segment), NEW s \in Segment, AppendSegment(s), img' = img,
         InsideImage,
         End(s) <= img.base + img.sizeOfImage \/ Len(segs) > Len(img.sections)
  PROVE  InsideImage'
<1>1. /\ segs' = Append(segs, s)
      /\ Len(segs) \in Nat
      /\ DOMAIN segs = 1 .. Len(segs)
      /\ DOMAIN segs' = 1 .. Len(segs) + 1
  BY DEF AppendSegment
<1> SUFFICES ASSUME NEW i \in EmittedSegments'
             PROVE  End(segs'[i]) <= img.base + img.sizeOfImage
  BY DEF InsideImage, End, PageUp
<1>2. CASE i \in DOMAIN segs
  BY <1>1, <1>2 DEF InsideImage, EmittedSegments
<1>3. CASE i = Len(segs) + 1
  <2>1. segs'[i] = s
    BY <1>1, <1>3
  <2>2. Len(img.sections) >= Len(segs)
    BY <1>1, <1>3 DEF EmittedSegments
  <2> QED
    BY <1>1, <2>1, <2>2
<1> QED
  BY <1>1, <1>2, <1>3 DEF EmittedSegments

LEMMA HeadersInside ==
  ASSUME Typing, InRange, LayoutHeaders
  PROVE  InsideImage'
<1> DEFINE s == HeaderSegment
<1>1. /\ img \in Images /\ raw = "copy" /\ segs = <<>> /\ img' = img
      /\ segs \in Seq(Segment) /\ AppendSegment(s)
      /\ img.base % PAGE_SIZE = 0
  BY DEF LayoutHeaders, Typing, TypeOK, BuffersOwned, StageChecked
<1>2. s \in Segment
  BY <1>1, HeaderSegmentTyping
<1>3. s.vaddr = img.base /\ s.memsz = img.sizeOfHeaders
  BY DEF HeaderSegment
<1>4. img.base \in Nat /\ img.sizeOfHeaders \in Nat /\ img.sizeOfImage \in Nat
  BY <1>1, LoadedImage, PageAssumption DEF Address
<1>5. PageUp(img.sizeOfHeaders) <= img.sizeOfImage
  BY DEF InRange, WellFormed, PagesAscend
<1>6. End(s) <= img.base + PageUp(img.sizeOfHeaders)
  BY <1>1, <1>3, <1>4, ShiftedPageUp DEF End
<1>7. PageUp(img.sizeOfHeaders) \in Nat
  BY <1>4, PageUpFacts
<1>8. End(s) \in Nat
  BY <1>3, <1>4, PageUpFacts DEF End
<1>9. InsideImage
  BY <1>1 DEF InsideImage, EmittedSegments
<1>10. End(s) <= img.base + img.sizeOfImage
  BY <1>4, <1>5, <1>6, <1>7, <1>8
<1> HIDE DEF s
<1> QED
  BY <1>1, <1>2, <1>9, <1>10, AppendInside

LEMMA SectionInside ==
  ASSUME Typing, InRange, LayoutSection, InsideImage, img.base % PAGE_SIZE = 0
  PROVE  InsideImage'
<1> DEFINE t == NextSection
           s == SectionSegment(t)
           z == SectionSize(t)
           e == PageUp(t.rva + z)
<1>1. /\ img \in Images /\ raw = "copy" /\ curOff \in Address /\ img' = img
      /\ segs \in Seq(Segment) /\ segs # <<>> /\ AppendSegment(s)
  BY DEF LayoutSection, Typing, TypeOK, BuffersOwned, StageChecked
<1>2. Len(segs) \in DOMAIN img.sections /\ t = img.sections[Len(segs)] /\ t \in Section
  BY <1>1, LoadedImage DEF LayoutSection, NextSection
<1>3. s \in Segment
  BY <1>1, <1>2, SectionSegmentTyping
<1>4. /\ img.base \in Nat /\ img.sizeOfImage \in Nat /\ WORD \in Nat \ {0}
      /\ t.rva \in Nat /\ z \in Nat
  <2>1. t.rva \in Address /\ t.fsize \in Address /\ t.vsize \in Address
    BY <1>2 DEF Section
  <2> HIDE DEF t
  <2>2. t.rva \in Nat /\ t.fsize \in Nat /\ t.vsize \in Nat
    BY <2>1 DEF Address
  <2> QED
    BY <1>1, <2>2, LoadedImage, PageAssumption DEF Address, SectionSize, Larger
<1>5. e <= img.sizeOfImage
  BY <1>2 DEF InRange, WellFormed, PagesAscend
<1>6. t.rva + z \in Nat
  BY <1>4
<1>7. e \in Nat /\ t.rva + z <= e
  BY <1>6, PageUpFacts
<1>8. s.memsz = z
  BY DEF SectionSegment, SectionSize
<1>9. s.vaddr = (img.base + t.rva) % WORD
  BY DEF SectionSegment
<1> HIDE DEF e, s, t, z
<1>10. s.vaddr = img.base + t.rva
  <2>1. img.base + t.rva \in Nat /\ img.base + t.rva < WORD
    BY <1>4, <1>5, <1>7 DEF InRange
  <2> QED
    BY <1>4, <1>9, <2>1, SmallMod
<1>11. End(s) <= img.base + e /\ End(s) \in Nat
  <2>1. s.vaddr + s.memsz = img.base + (t.rva + z)
    BY <1>4, <1>8, <1>10
  <2>2. PageUp(img.base + (t.rva + z)) <= img.base + e
    BY <1>4, <1>6, ShiftedPageUp DEF e
  <2>3. img.base + (t.rva + z) \in Nat
    BY <1>4, <1>6
  <2> QED
    BY <2>1, <2>2, <2>3, PageUpFacts DEF End
<1>12. End(s) <= img.base + img.sizeOfImage
  BY <1>4, <1>5, <1>7, <1>11
<1> QED
  BY <1>1, <1>3, <1>12, AppendInside

(* The shim's segments come after those of the image. *)
LEMMA ShimOutside ==
  ASSUME Typing, EmbedSegment, InsideImage, Len(segs) >= Len(img.sections) + 1
  PROVE  InsideImage'
<1> DEFINE s == ShimSegment(ShimPhdrs[ph])
<1>1. /\ ph \in ShimLoads /\ curOff \in Address /\ segs \in Seq(Segment)
      /\ AppendSegment(s) /\ img' = img /\ img \in Images
  BY ShimAssumption
  DEF EmbedSegment, ShimLoads, Typing, TypeOK, StageChecked
<1>2. s \in Segment
  BY <1>1, ShimSegmentTyping
<1>3. Len(img.sections) \in Nat /\ Len(segs) \in Nat
  BY <1>1, LoadedImage
<1> HIDE DEF s
<1> QED
  BY <1>1, <1>2, <1>3, AppendInside

LEMMA RangeStep ==
  ASSUME Typing, RangeInvariant, [Next]_vars
  PROVE  RangeInvariant'
<1> SUFFICES ASSUME Laying'
             PROVE  RangeInvariant'
  BY DEF RangeInvariant, Laying, Writing
<1>1. img' = img
  BY StepKinds
<1>2. /\ InRange' = InRange /\ ClearOfShim' = ClearOfShim
      /\ (img.base % PAGE_SIZE)' = img.base % PAGE_SIZE
  BY <1>1 DEF InRange, WellFormed, PagesAscend, FileRangesDisjoint, SlotsDisjoint,
              SectionSize, Larger, PageUp, ClearOfShim
<1>3. CASE LayoutHeaders
  <2>1. pc' = "sections" /\ img.base % PAGE_SIZE = 0
    BY <1>3 DEF LayoutHeaders
  <2>2. InRange => InsideImage'
    BY <1>3, HeadersInside
  <2> QED
    BY <1>2, <2>1, <2>2 DEF RangeInvariant, Writing
<1>4. CASE Laying /\ LayoutSection
  <2>1. pc' = "sections"
    BY <1>4 DEF LayoutSection
  <2>2. InRange => img.base % PAGE_SIZE = 0 /\ InsideImage'
    BY <1>4, SectionInside DEF RangeInvariant
  <2> QED
    BY <1>2, <2>1, <2>2 DEF RangeInvariant, Writing
<1>5. CASE Laying /\ EmbedSegment
  <2>1. pc = "embed" /\ pc' = "embed"
    BY <1>5 DEF EmbedSegment
  <2>2. Len(segs) >= Len(img.sections) + 1 /\ ClearOfShim
    BY <1>5, <2>1 DEF RangeInvariant
  <2>3. InRange => img.base % PAGE_SIZE = 0 /\ InsideImage'
    BY <1>5, <2>2, ShimOutside DEF RangeInvariant
  <2>4. Len(segs)' >= Len(img.sections)' + 1
    <3> DEFINE s == ShimSegment(ShimPhdrs[ph])
    <3>1. AppendSegment(s) /\ segs \in Seq(Segment) /\ img \in Images
      BY <1>5, <2>1 DEF EmbedSegment, Typing, TypeOK, StageChecked
    <3> HIDE DEF s
    <3>2. Len(segs') = Len(segs) + 1 /\ Len(segs) \in Nat
      BY <3>1 DEF AppendSegment
    <3>3. Len(img.sections) \in Nat
      BY <3>1, LoadedImage
    <3> QED
      BY <1>1, <2>2, <3>2, <3>3
  <2> QED
    BY <1>2, <2>1, <2>2, <2>3, <2>4 DEF RangeInvariant, Writing
<1>6. ASSUME Laying, UNCHANGED segs
      PROVE  /\ InRange => img.base % PAGE_SIZE = 0 /\ InsideImage'
             /\ pc # "sections" => Len(segs') >= Len(img'.sections) + 1
  BY <1>1, <1>6 DEF RangeInvariant, InsideImage, EmittedSegments, End, PageUp
<1>7. CASE Laying /\ CopyShim
  BY <1>2, <1>6, <1>7 DEF CopyShim, RangeInvariant, Writing
<1>8. CASE Laying /\ UNCHANGED <<img, segs, curOff>> /\ LayoutDone
  <2>1. pc = "sections" /\ pc' = "patch" /\ Len(segs) > Len(img.sections)
    BY <1>8 DEF LayoutDone
  <2>2. Len(segs') >= Len(img'.sections) + 1
    <3>1. segs \in Seq(Segment) /\ img \in Images
      BY <2>1 DEF Typing, TypeOK, StageChecked
    <3> QED
      BY <1>1, <1>8, <2>1, <3>1, LoadedImage
  <2> QED
    BY <1>2, <1>6, <1>8, <2>1, <2>2 DEF RangeInvariant, Writing
<1>9. CASE Laying /\ UNCHANGED <<img, segs, curOff>> /\ StartPatching
  BY <1>2, <1>6, <1>9 DEF StartPatching, RangeInvariant, Writing
<1>10. CASE /\ Laying /\ UNCHANGED <<img, segs, curOff>>
            /\ PatchImport \/ SkipHeader \/ EnterShim \/ WriteStep \/ pc' = pc
  <2>1. /\ pc' = "sections" => pc = "sections"
        /\ pc = "sections" => pc' = "sections"
        /\ pc' \in {"imports", "embed"} \/ Writing' => pc \in {"imports", "embed"} \/ Writing
    BY <1>10
    DEF PatchImport, SkipHeader, EnterShim, layoutVars, Laying, Writing, WriteStep,
        WriteRejects, OpenOutput, WriteEhdr, WritePhdr, StartData, SkipEmpty,
        WriteSegment, SegmentRejected, ShortWrite, CloseOutput
  <2>2. pc' # "sections" => Len(segs') >= Len(img'.sections) + 1
    BY <1>6, <1>10, <2>1
  <2>3. InRange' => (img.base % PAGE_SIZE)' = 0 /\ InsideImage'
    BY <1>2, <1>6, <1>10
  <2>4. pc' \in {"imports", "embed"} \/ Writing' => ClearOfShim'
    BY <1>2, <2>1 DEF RangeInvariant
  <2> QED
    BY <2>2, <2>3, <2>4 DEF RangeInvariant
<1> QED
  BY <1>3, <1>4, <1>5, <1>7, <1>8, <1>9, <1>10, StepKinds

(* An accepted, well-formed image that ends below 2^32 has no page in the
   range SHIM_MIN_BASE keeps for the shim, for any image and any base. *)
THEOREM AcceptedKeepRange == Spec => []ReservedRangeKept
<1>1. MainInit => RangeInvariant
  BY DEF MainInit, Init, RangeInvariant, Laying, Writing
<1>2. Typing /\ RangeInvariant /\ [Next]_vars => RangeInvariant'
  BY RangeStep
<1>3. Typing /\ RangeInvariant => ReservedRangeKept
  <2> SUFFICES ASSUME Typing, RangeInvariant, Writing, InRange,
                      NEW i \in 1 .. Len(img.sections) + 1
               PROVE  PageUp(segs[i].vaddr + segs[i].memsz) <= SHIM_MIN_BASE
    BY DEF ReservedRangeKept, InRange
  <2>1. /\ InsideImage /\ Len(segs) >= Len(img.sections) + 1 /\ ClearOfShim
    BY DEF RangeInvariant, Laying, Writing
  <2>2. img \in Images /\ segs \in Seq(Segment)
    BY DEF Typing, TypeOK, StageChecked, Writing
  <2>3. Len(img.sections) \in Nat /\ img.base \in Nat /\ img.sizeOfImage \in Nat
    BY <2>2, LoadedImage, PageAssumption DEF Address
  <2>4. i \in EmittedSegments /\ segs[i] \in Segment
    BY <2>1, <2>2, <2>3 DEF EmittedSegments
  <2>5. (img.base + img.sizeOfImage) % WORD = img.base + img.sizeOfImage
    BY <2>3, SmallMod, PageAssumption DEF InRange
  <2>6. End(segs[i]) <= img.base + img.sizeOfImage
    BY <2>1, <2>4 DEF InsideImage
  <2>7. segs[i].vaddr + segs[i].memsz \in Nat
    BY <2>4, PageAssumption DEF Segment, Address
  <2>8. End(segs[i]) \in Nat
    BY <2>7, PageUpFacts DEF End
  <2>9. SHIM_MIN_BASE \in Nat
    BY ShimAssumption, PageAssumption DEF Address
  <2> QED
    BY <2>1, <2>3, <2>5, <2>6, <2>8, <2>9 DEF ClearOfShim, End
<1> QED
  BY <1>1, <1>2, <1>3, TypingInvariant, PTL DEF Spec

----------------------------------------------------------------------------
(* Rejection. *)

Untouched == out # "ours"

(* What a failure at this point would leave behind. *)
Clean == (io = "ok" /\ FileSorted) => Untouched

(* The writer has not passed the segment it is about to write. *)
BehindSegment == w <= Len(segs) => cur <= segs[w].fileOff

RejectionInvariant ==
  /\ pc \in {"load", "loaded", "layout", "sections", "patch", "imports", "embed",
             "open"} => Untouched /\ io = "ok"
  /\ pc # "exit" => exit = -1
  /\ pc = "reject" => Clean
  /\ exit \in {1, 2} => Clean
  /\ pc \in {"ehdr", "phdrs", "data"} =>
       segs # <<>> /\ Len(segs) <= ELF_MAX_SEGMENTS /\ io = "ok"
  /\ (pc = "data" /\ FileSorted) => BehindSegment

(* The headers end within the first page. *)
LEMMA HeadersInFirstPage ==
  ASSUME segs \in Seq(Segment), Len(segs) <= ELF_MAX_SEGMENTS
  PROVE  phdrs_end \in Nat /\ phdrs_end <= PAGE_SIZE
<1> DEFINE n == Len(segs) * PHSIZE
           m == ELF_MAX_SEGMENTS * PHSIZE
<1>1. /\ Len(segs) \in Nat /\ ELF_MAX_SEGMENTS \in Nat
      /\ PHSIZE \in Nat \ {0} /\ EHSIZE \in Nat /\ PAGE_SIZE \in Nat
  BY HeaderAssumption, SegmentsAssumption, PageAssumption
<1>2. n \in Nat /\ m \in Nat
  BY <1>1
<1>3. n <= m
  BY <1>1, SMT
<1>4. EHSIZE + m <= PAGE_SIZE
  BY HeaderAssumption
<1>5. phdrs_end = EHSIZE + n
  BY DEF phdrs_end
<1> HIDE DEF n, m
<1> QED
  BY <1>1, <1>2, <1>3, <1>4, <1>5

(* In a sorted list the segment after w starts where w ends, or later. *)
LEMMA NextBehind ==
  ASSUME segs \in Seq(Segment), FileSorted, NEW k \in 1 .. Len(segs),
         k + 1 <= Len(segs)
  PROVE  segs[k].fileOff + segs[k].filesz <= segs[k + 1].fileOff
<1>1. k + 1 \in DOMAIN segs /\ k + 1 > 1 /\ (k + 1) - 1 = k
  OBVIOUS
<1> QED
  BY <1>1 DEF FileSorted

(* So elf_write() turns none of its segments away: its checks can only fail
   before the file is opened. *)
LEMMA NoSegmentRejected ==
  ASSUME Typing, DataOwned, RejectionInvariant, FileSorted, SegmentRejected
  PROVE  FALSE
<1>1. /\ pc = "data" /\ w \in 1 .. Len(segs) /\ segs \in Seq(Segment)
      /\ segs[w].filesz > 0
  BY DEF SegmentRejected, Typing, TypeOK, StageChecked
<1>2. segs[w].data.buf \in {"copy", "shim"}
  BY <1>1 DEF DataOwned
<1>3. segs[w].data # NoData
  BY <1>2 DEF NoData
<1>4. segs[w] \in Segment /\ cur \in Nat
  BY <1>1 DEF Typing, TypeOK
<1>5. segs[w].fileOff >= cur
  BY <1>1, <1>4, PageAssumption
  DEF RejectionInvariant, BehindSegment, Segment, Address
<1> QED
  BY <1>1, <1>3, <1>5 DEF SegmentRejected, WritableSegment

LEMMA WriteKeepsBehind ==
  ASSUME Typing, RejectionInvariant, FileSorted, pc' = "data",
         StartData \/ SkipEmpty \/ WriteSegment
  PROVE  BehindSegment'
<1>1. segs \in Seq(Segment) /\ segs' = segs /\ Len(segs) \in Nat /\ w \in Nat
  BY DEF StartData, SkipEmpty, WriteSegment, specVars, Typing, TypeOK
<1> SUFFICES ASSUME w' <= Len(segs)
             PROVE  cur' <= segs[w'].fileOff
  BY <1>1 DEF BehindSegment
<1>2. CASE StartData
  <2>1. w' = 1 /\ cur' = phdrs_end /\ 1 \in DOMAIN segs /\ Len(segs) <= ELF_MAX_SEGMENTS
    BY <1>1, <1>2 DEF StartData, RejectionInvariant
  <2>2. segs[1].fileOff >= PAGE_SIZE /\ segs[1] \in Segment
    BY <1>1, <2>1 DEF FileSorted
  <2>3. segs[1].fileOff \in Nat /\ PAGE_SIZE \in Nat
    BY <2>2, PageAssumption DEF Segment, Address
  <2>4. phdrs_end \in Nat /\ phdrs_end <= PAGE_SIZE
    BY <1>1, <2>1, HeadersInFirstPage
  <2> QED
    BY <2>1, <2>2, <2>3, <2>4
<1>3. CASE SkipEmpty \/ WriteSegment
  <2>1. /\ w' = w + 1 /\ pc = "data" /\ w \in 1 .. Len(segs)
    BY <1>1, <1>3 DEF SkipEmpty, WriteSegment, Typing, StageChecked
  <2> DEFINE s == segs[w]
             t == segs[w + 1]
  <2>2. s \in Segment /\ t \in Segment
    BY <1>1, <2>1
  <2> DEFINE end == s.fileOff + s.filesz
  <2>3. end <= t.fileOff
    BY <1>1, <2>1, NextBehind
  <2>4. s.fileOff \in Nat /\ s.filesz \in Nat /\ t.fileOff \in Nat /\ t.fileOff < WORD
    BY <2>2, PageAssumption, SMTT(30) DEF Segment, Address
  <2>5. cur' <= end
    <3>1. CASE SkipEmpty
      <4>1. cur' = cur /\ cur <= s.fileOff /\ cur \in Nat
        BY <2>1, <3>1 DEF SkipEmpty, RejectionInvariant, BehindSegment, Typing, TypeOK
      <4> HIDE DEF s
      <4> QED
        BY <2>4, <4>1
    <3>2. CASE WriteSegment
      <4>1. cur' = end % WORD
        BY <3>2 DEF WriteSegment
      <4> HIDE DEF s, t
      <4>2. end \in Nat /\ end < WORD
        BY <2>3, <2>4, PageAssumption
      <4> HIDE DEF end
      <4>3. end % WORD = end
        BY <4>2, SmallMod, PageAssumption
      <4> QED
        BY <4>1, <4>2, <4>3
    <3> QED
      BY <1>3, <3>1, <3>2
  <2>6. cur' \in Nat
    <3>1. CASE SkipEmpty
      BY <3>1 DEF SkipEmpty, Typing, TypeOK
    <3>2. CASE WriteSegment
      <4>1. end \in Nat /\ cur' = end % WORD
        BY <2>4, <3>2 DEF WriteSegment
      <4> HIDE DEF end
      <4>2. end % WORD \in Address
        BY <4>1, ModType
      <4> QED
        BY <4>1, <4>2, PageAssumption DEF Address
    <3> QED
      BY <1>3, <3>1, <3>2
  <2> HIDE DEF s
  <2>7. cur' <= t.fileOff
    BY <2>3, <2>4, <2>5, <2>6
  <2> QED
    BY <2>1, <2>7
<1> QED
  BY <1>2, <1>3

LEMMA FileSortedStable == segs' = segs => FileSorted' = FileSorted
BY DEF FileSorted

LEMMA RejectionStep ==
  ASSUME Typing, DataOwned, RejectionInvariant, [Next]_vars
  PROVE  RejectionInvariant'
<1> USE DEF RejectionInvariant, Clean, Untouched
<1>1. CASE LayoutStep /\ UNCHANGED <<stubVars, writerVars, mainVars>>
  BY <1>1 DEF LayoutStep, LayoutRejects, LayoutHeaders, LayoutSection, SectionRejects,
              LayoutDone, writerVars, mainVars
<1>2. CASE StubStep /\ UNCHANGED <<writerVars, mainVars>>
  <2>1. /\ pc \in {"patch", "imports", "embed"}
        /\ pc' \in {"patch", "imports", "embed", "open", "reject"}
    BY <1>2 DEF StubStep, PatchRejects, StartPatching, PatchImport, ImportRejects,
                CopyShim, CopyRejects, EmbedSegment, SkipHeader, EmbedRejects,
                EnterShim, layoutVars
  <2>2. out' = out /\ io' = io /\ exit' = exit
    BY <1>2 DEF writerVars, mainVars
  <2> QED
    BY <2>1, <2>2
<1>3. CASE WriteStep /\ UNCHANGED mainVars
  <2>1. segs' = segs /\ FileSorted' = FileSorted /\ exit' = exit /\ pc # "exit"
    BY <1>3, FileSortedStable
    DEF WriteStep, WriteRejects, OpenOutput, WriteEhdr, WritePhdr, StartData,
        SkipEmpty, WriteSegment, SegmentRejected, ShortWrite, CloseOutput, specVars,
        mainVars
  <2>2. CASE WriteRejects
    BY <1>3, <2>1, <2>2 DEF WriteRejects, writerVars, mainVars
  <2>3. CASE OpenOutput
    <3>1. Len(segs) \in Nat /\ ELF_MAX_SEGMENTS \in Nat
      BY SegmentsAssumption DEF Typing, TypeOK
    <3>2. segs # <<>> /\ Len(segs) <= ELF_MAX_SEGMENTS
      BY <2>3, <3>1 DEF OpenOutput, BadSegmentCount
    <3> QED
      BY <2>1, <2>3, <3>2 DEF OpenOutput
  <2>4. CASE WriteEhdr \/ WritePhdr
    BY <2>1, <2>4 DEF WriteEhdr, WritePhdr
  <2>5. CASE StartData \/ SkipEmpty \/ WriteSegment
    <3>1. pc' = "data" /\ io' = io /\ pc \in {"phdrs", "data"}
      BY <2>5 DEF StartData, SkipEmpty, WriteSegment
    <3>2. FileSorted => BehindSegment'
      BY <2>5, <3>1, WriteKeepsBehind
    <3> QED
      BY <2>1, <3>1, <3>2
  <2>6. CASE SegmentRejected
    <3>1. ~ FileSorted
      BY <2>6, NoSegmentRejected
    <3> QED
      BY <2>1, <2>6, <3>1 DEF SegmentRejected
  <2>7. CASE ShortWrite
    BY <2>1, <2>7 DEF ShortWrite
  <2>8. CASE CloseOutput
    BY <2>1, <2>8 DEF CloseOutput
  <2> QED
    BY <1>3, <2>2, <2>3, <2>4, <2>5, <2>6, <2>7, <2>8 DEF WriteStep
<1>4. CASE Usage \/ Load \/ LoadFails \/ Inspect \/ CopyImage \/ CopyFails
  BY <1>4 DEF Usage, Load, LoadFails, Inspect, CopyImage, CopyFails, FreeImage,
              specVars, writerVars, mainVars
<1>5. CASE Reject
  BY <1>5, FileSortedStable DEF Reject, FreeImage, writerVars
<1>6. CASE Succeed
  BY <1>6 DEF Succeed, FreeImage, writerVars
<1>7. CASE UNCHANGED vars
  BY <1>7, FileSortedStable DEF vars, specVars, writerVars, mainVars, BehindSegment
<1> QED
  BY <1>1, <1>2, <1>3, <1>4, <1>5, <1>6, <1>7 DEF Next, Exited

(* A run that fails without a failed write, for any image and any shim, has
   not opened the output file, unless 32-bit file offsets wrapped. *)
THEOREM RejectionLeavesPath == Spec => []RejectionWritesNothing
<1>1. MainInit => RejectionInvariant /\ DataOwned
  BY DEF MainInit, Init, WriterInit, RejectionInvariant, Untouched, DataOwned
<1>2. Typing /\ DataOwned /\ RejectionInvariant /\ [Next]_vars
        => RejectionInvariant' /\ DataOwned'
  BY RejectionStep, DataOwnedStep
<1>3. RejectionInvariant => RejectionWritesNothing
  BY DEF RejectionInvariant, Clean, Untouched, RejectionWritesNothing
<1> QED
  BY <1>1, <1>2, <1>3, TypingInvariant, PTL DEF Spec
=============================================================================
