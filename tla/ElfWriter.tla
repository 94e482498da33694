------------------------------ MODULE ElfWriter ------------------------------
(***************************************************************************)
(* elf_writer.c: the segments written out as an ELF32 executable through   *)
(* stdio.  The stream is everything fwrite() was handed; how much of it    *)
(* reached the disk is known when the file is closed.  A write, and the    *)
(* flush of fclose(), may fail.                                            *)
(***************************************************************************)
EXTENDS StubPatch

CONSTANTS EHSIZE, PHSIZE    \* sizes of elf32_ehdr_t and elf32_phdr_t

ASSUME HeaderAssumption ==
  /\ EHSIZE \in Nat \ {0}
  /\ PHSIZE \in Nat \ {0}
  /\ EHSIZE + ELF_MAX_SEGMENTS * PHSIZE <= PAGE_SIZE

VARIABLES
  out,      \* the file at the output path: "absent", "previous" or "ours"
  stream,   \* the bytes written to it so far
  ondisk,   \* how many of them reached the disk
  io,       \* what the environment did: "ok", "short" (a failed write) or
            \* "lost" (fclose() failed to flush)
  w,        \* loop index over the segments
  cur       \* file position the writer believes it is at

writerVars == <<out, stream, ondisk, io, w, cur>>
specVars == <<img, raw, segs, entry, curOff, stubVars>>

WriterInit ==
  /\ out \in {"absent", "previous"}
  /\ stream = <<>>
  /\ ondisk = 0
  /\ io = "ok"
  /\ w = 0
  /\ cur = 0

phdrs_end == EHSIZE + Len(segs) * PHSIZE

Zeros(n) == [k \in 1 .. n |-> <<"zero">>]

Ehdr == [k \in 1 .. EHSIZE |->
           <<"ehdr", [entry |-> entry, phnum |-> Len(segs)], k>>]

Phdr(s) ==
  [k \in 1 .. PHSIZE |->
     <<"phdr", [off |-> s.fileOff, vaddr |-> s.vaddr, filesz |-> s.filesz,
                memsz |-> s.memsz, flags |-> s.flags], k>>]

(* What a data pointer reads: garbage outside a live buffer. *)
Garbage == <<"garbage">>
Read(buf, k) ==
  IF buf \in DOMAIN mem
    THEN IF k \in DOMAIN mem[buf] THEN mem[buf][k] ELSE Garbage
    ELSE Garbage

SegmentData(s) == [k \in 1 .. s.filesz |-> Read(s.data.buf, s.data.at + k - 1)]

----------------------------------------------------------------------------
HeadersOverlap ==
  \E i \in DOMAIN segs : segs[i].filesz > 0 /\ segs[i].fileOff < phdrs_end

BadSegmentCount == segs = <<>> \/ Len(segs) > ELF_MAX_SEGMENTS

(* A check fails before the file is opened, or fopen() fails. *)
WriteRejects ==
  /\ pc = "open"
  /\ pc' = "reject"
  /\ UNCHANGED <<specVars, writerVars>>

OpenOutput ==
  /\ pc = "open"
  /\ ~ BadSegmentCount
  /\ ~ HeadersOverlap
  /\ out' = "ours"
  /\ pc' = "ehdr"
  /\ UNCHANGED <<specVars, stream, ondisk, io, w, cur>>

WriteEhdr ==
  /\ pc = "ehdr"
  /\ stream' = Ehdr
  /\ w' = 1
  /\ pc' = "phdrs"
  /\ UNCHANGED <<specVars, out, ondisk, io, cur>>

WritePhdr ==
  /\ pc = "phdrs"
  /\ w <= Len(segs)
  /\ stream' = stream \o Phdr(segs[w])
  /\ w' = w + 1
  /\ UNCHANGED <<pc, specVars, out, ondisk, io, cur>>

StartData ==
  /\ pc = "phdrs"
  /\ w > Len(segs)
  /\ w' = 1
  /\ cur' = phdrs_end
  /\ pc' = "data"
  /\ UNCHANGED <<specVars, out, stream, ondisk, io>>

SkipEmpty ==
  /\ pc = "data"
  /\ w <= Len(segs)
  /\ segs[w].filesz = 0
  /\ w' = w + 1
  /\ UNCHANGED <<pc, specVars, out, stream, ondisk, io, cur>>

(* Zero padding up to the segment's offset, then its bytes if it has any. *)
PaddedData(s) ==
  Zeros(s.fileOff - cur) \o IF s.data = NoData THEN <<>> ELSE SegmentData(s)

(* A fault: only segments that start in the headers are turned away. *)
OverlapUnchecked(s) ==
  /\ s.filesz > 0
  /\ s.fileOff >= phdrs_end
  /\ s.data # NoData

WritableSegment(s) ==
  /\ s.filesz > 0
  /\ s.fileOff >= cur
  /\ s.data # NoData

WriteSegment ==
  /\ pc = "data"
  /\ w <= Len(segs)
  /\ WritableSegment(segs[w])
  /\ stream' = stream \o PaddedData(segs[w])
  /\ cur' = (segs[w].fileOff + segs[w].filesz) % WORD
  /\ w' = w + 1
  /\ UNCHANGED <<pc, specVars, out, ondisk, io>>

(* "overlapping segment file ranges", or "filesz but no data" once the padding
   is written: the file is closed as far as it was written. *)
SegmentRejected ==
  /\ pc = "data"
  /\ w <= Len(segs)
  /\ segs[w].filesz > 0
  /\ ~ WritableSegment(segs[w])
  /\ stream' = IF segs[w].fileOff < cur THEN stream
                                        ELSE stream \o PaddedData(segs[w])
  /\ ondisk' \in 0 .. Len(stream')
  /\ pc' = "reject"
  /\ UNCHANGED <<specVars, out, io, w, cur>>

(* write_fail: a write stores only part of its bytes. *)
ShortWrite ==
  /\ \/ pc = "ehdr" /\ stream' = Ehdr
     \/ /\ pc = "phdrs"
        /\ w <= Len(segs)
        /\ stream' = stream \o Phdr(segs[w])
     \/ /\ pc = "data"
        /\ w <= Len(segs)
        /\ segs[w].filesz > 0 /\ segs[w].fileOff >= cur
        /\ PaddedData(segs[w]) # <<>>
        /\ stream' = stream \o PaddedData(segs[w])
  /\ ondisk' \in 0 .. Len(stream') - 1
  /\ io' = "short"
  /\ pc' = "reject"
  /\ UNCHANGED <<specVars, out, w, cur>>

(* fclose() flushes what is still buffered; its result is not looked at. *)
CloseOutput ==
  /\ pc = "data"
  /\ w > Len(segs)
  /\ ondisk' \in 0 .. Len(stream)
  /\ io' = IF ondisk' = Len(stream) THEN "ok" ELSE "lost"
  /\ pc' = "chmod"
  /\ UNCHANGED <<specVars, out, stream, w, cur>>

WriteStep ==
  \/ WriteRejects \/ OpenOutput \/ WriteEhdr \/ WritePhdr \/ StartData
  \/ SkipEmpty \/ WriteSegment \/ SegmentRejected \/ ShortWrite \/ CloseOutput

----------------------------------------------------------------------------
(* elf_write() on its own: whatever segments it is handed, as long as their
   file ranges end below 2^32, a file it completes holds its headers and
   every segment's bytes at the offsets the program headers announce. *)
SegmentsPlaced ==
  (pc = "chmod" /\ io = "ok" /\ \A i \in DOMAIN segs :
                                 segs[i].fileOff + segs[i].filesz < WORD)
    => /\ SubSeq(stream, 1, EHSIZE) = Ehdr
       /\ \A i \in DOMAIN segs :
            LET from == EHSIZE + (i - 1) * PHSIZE
            IN /\ SubSeq(stream, from + 1, from + PHSIZE) = Phdr(segs[i])
               /\ SubSeq(stream, segs[i].fileOff + 1,
                         segs[i].fileOff + segs[i].filesz) = SegmentData(segs[i])

----------------------------------------------------------------------------
(* The kernel's ELF loader, as far as the converted program depends on it:
   it maps every PT_LOAD of the file at its address, page by page, a later
   one over an earlier one, and zero-fills up to p_memsz. *)
FileByte(k) == IF k < ondisk THEN stream[k + 1] ELSE <<"missing">>
FileEntry == FileByte(0)[2].entry
FilePhdrs == [i \in 1 .. FileByte(0)[2].phnum |->
                FileByte(EHSIZE + (i - 1) * PHSIZE)[2]]

MappedBy(phdrs, a) ==
  {i \in DOMAIN phdrs :
     /\ phdrs[i].memsz > 0
     /\ a >= phdrs[i].vaddr
     /\ a < PageUp(phdrs[i].vaddr + phdrs[i].memsz)}

MappingOf(phdrs, a) ==
  phdrs[CHOOSE i \in MappedBy(phdrs, a) :
          \A j \in MappedBy(phdrs, a) : j <= i]

LoadedByte(phdrs, a) ==
  LET p == MappingOf(phdrs, a)
  IN IF MappedBy(phdrs, a) = {}
       THEN <<"unmapped">>
       ELSE IF a < p.vaddr + p.filesz
              THEN FileByte(p.off + (a - p.vaddr))
              ELSE <<"zero">>
=============================================================================
