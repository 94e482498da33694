-------------------------------- MODULE Layout --------------------------------
(***************************************************************************)
(* layout.c: the PE image laid out as the flat list of ELF segments that   *)
(* elf_writer.h takes.  Sections keep the PE's own addresses; only file    *)
(* offsets are chosen here, one page after another.                        *)
(***************************************************************************)
EXTENDS PeImage

CONSTANT ELF_MAX_SEGMENTS

ASSUME SegmentsAssumption == ELF_MAX_SEGMENTS \in Nat \ {0}

VARIABLES
  pc,      \* the statement main() has reached
  img,     \* pe_image_t img
  raw,     \* the buffer img.raw points at
  segs,    \* elf_image_spec_t spec: its segments ...
  entry,   \* ... and its entry point
  curOff   \* cur_file_off, then next_file_off in stub_patch.c

layoutVars == <<pc, img, raw, segs, entry, curOff>>

(* A data pointer: a buffer and an offset in it, or NULL. *)
NoData == [buf |-> "NULL", at |-> 0]

(* A fault: offset 0 is taken for "no data". *)
DataPastZero(buf, at, size) ==
  IF at > 0 THEN [buf |-> buf, at |-> at] ELSE NoData

DataAt(buf, at, size) ==
  IF size > 0 THEN [buf |-> buf, at |-> at] ELSE NoData

Segment ==
  [vaddr : Address, flags : SUBSET Flag, fileOff : Address,
   filesz : Address, memsz : Address,
   data : [buf : {"NULL", "loaded", "copy", "shim"}, at : Nat]]

Init ==
  /\ pc = "load"
  /\ img = <<>>
  /\ raw = "NULL"
  /\ segs = <<>>
  /\ entry = 0
  /\ curOff = 0

----------------------------------------------------------------------------
SectionFlags(characteristics) ==    \* never a segment with no permission
  IF characteristics = {} THEN {"R"} ELSE characteristics

HeaderSegment ==
  [vaddr |-> img.base, flags |-> {"R"}, fileOff |-> PAGE_SIZE,
   filesz |-> img.sizeOfHeaders, memsz |-> img.sizeOfHeaders,
   data |-> DataAt(raw, 0, img.sizeOfHeaders)]

(* A fault: the address of a section is computed in 64 bits. *)
WideSectionSegment(s) ==
  [vaddr |-> img.base + s.rva,
   flags |-> SectionFlags(s.characteristics),
   fileOff |-> curOff,
   filesz |-> s.fsize,
   memsz |-> Larger(s.vsize, s.fsize),
   data |-> DataAt(raw, s.fileOff, s.fsize)]

SectionSegment(s) ==
  [vaddr |-> (img.base + s.rva) % WORD,
   flags |-> SectionFlags(s.characteristics),
   fileOff |-> curOff,
   filesz |-> s.fsize,
   memsz |-> Larger(s.vsize, s.fsize),
   data |-> DataAt(raw, s.fileOff, s.fsize)]

(* A fault: the file offset advances by the section's size, unaligned. *)
UnalignedAppend(seg) ==
  /\ segs' = Append(segs, seg)
  /\ curOff' = (seg.fileOff + seg.filesz) % WORD

(* Emit a segment and advance to the page boundary after its file bytes. *)
AppendSegment(seg) ==
  /\ segs' = Append(segs, seg)
  /\ curOff' = align_up((seg.fileOff + seg.filesz) % WORD)

LayoutRejects ==
  /\ pc = "layout"
  /\ \/ img.sections = <<>>
     \/ Len(img.sections) + 1 > ELF_MAX_SEGMENTS
     \/ img.base % PAGE_SIZE # 0
  /\ pc' = "reject"
  /\ UNCHANGED <<img, raw, segs, entry, curOff>>

LayoutHeaders ==
  /\ pc = "layout"
  /\ img.sections # <<>>
  /\ Len(img.sections) + 1 <= ELF_MAX_SEGMENTS
  /\ img.base % PAGE_SIZE = 0
  /\ entry' = (img.base + img.entryRva) % WORD
  /\ AppendSegment(HeaderSegment)
  /\ pc' = "sections"
  /\ UNCHANGED <<img, raw>>

(* The loop over the sections: segs already holds the headers and the
   sections before s. *)
NextSection == img.sections[Len(segs)]

LayoutSection ==
  /\ pc = "sections"
  /\ Len(segs) <= Len(img.sections)
  /\ NextSection.rva % PAGE_SIZE = 0
  /\ AppendSegment(SectionSegment(NextSection))
  /\ UNCHANGED <<pc, img, raw, entry>>

SectionRejects ==
  /\ pc = "sections"
  /\ Len(segs) <= Len(img.sections)
  /\ NextSection.rva % PAGE_SIZE # 0
  /\ pc' = "reject"
  /\ UNCHANGED <<img, raw, segs, entry, curOff>>

LayoutDone ==
  /\ pc = "sections"
  /\ Len(segs) > Len(img.sections)
  /\ pc' = "patch"
  /\ UNCHANGED <<img, raw, segs, entry, curOff>>

LayoutStep ==
  LayoutRejects \/ LayoutHeaders \/ LayoutSection \/ SectionRejects \/ LayoutDone

----------------------------------------------------------------------------
(* What elf_writer.h requires of the segments it is handed: page-aligned,
   sorted by file offset, file ranges disjoint, after the ELF headers. *)
PageAligned ==
  \A i \in DOMAIN segs :
    segs[i].vaddr % PAGE_SIZE = 0 /\ segs[i].fileOff % PAGE_SIZE = 0

FileSorted ==
  \A i \in DOMAIN segs :
    /\ segs[i].fileOff >= PAGE_SIZE
    /\ i > 1 => segs[i - 1].fileOff + segs[i - 1].filesz <= segs[i].fileOff

(* No two segments share a page once loaded. *)
PagesSorted ==
  \A i \in DOMAIN segs :
    i > 1 => PageUp(segs[i - 1].vaddr + segs[i - 1].memsz) <= segs[i].vaddr

SegmentsLaidOut == PageAligned /\ FileSorted /\ PagesSorted
=============================================================================
