------------------------------- MODULE PeImage -------------------------------
(***************************************************************************)
(* The parsed PE image winlift converts (include/pe_image.h) and the       *)
(* address arithmetic every later stage relies on.                         *)
(*                                                                         *)
(* Addresses, RVAs and file offsets are uint32_t in the code: here they    *)
(* are numbers below WORD.  The size_t/uint64_t sums of the code (64-bit   *)
(* host) are plain sums.                                                   *)
(***************************************************************************)
EXTENDS Integers, Sequences

CONSTANTS
  WORD,        \* 2^32: arithmetic on uint32_t wraps modulo WORD
  PAGE_SIZE,   \* 0x1000
  SLOT_SIZE,   \* bytes of an IAT slot and of a pointer: 4
  Name         \* names of DLLs and functions

ASSUME PageAssumption ==
  /\ PAGE_SIZE \in Nat \ {0}
  /\ SLOT_SIZE \in Nat \ {0}
  /\ WORD \in Nat \ {0}
  /\ WORD > PAGE_SIZE

Address == 0 .. WORD - 1
NULL == -1    \* a NULL pointer, where offsets are expected

(* align_up() of layout.c and stub_patch.c, on uint32_t. *)
align_up(n) == (((n + PAGE_SIZE - 1) % WORD) \div PAGE_SIZE) * PAGE_SIZE

(* The same on unbounded numbers, for use in properties. *)
PageUp(n) == ((n + PAGE_SIZE - 1) \div PAGE_SIZE) * PAGE_SIZE

Larger(m, n) == IF m > n THEN m ELSE n

----------------------------------------------------------------------------
Flag == {"R", "W", "X"}

Section ==
  [rva : Address, vsize : Address, fileOff : Address, fsize : Address,
   characteristics : SUBSET Flag]

(* The imports of all DLLs, in the order the nested loops visit them. *)
Import == [dll : Name, func : Name, iatRva : Address]

(* What pe_image_load() has checked of an image it returns: every section's
   raw bytes are in the file, a zero VirtualSize was replaced by the raw
   size, ImageBase is not 0.  SizeOfHeaders and SizeOfImage are unchecked. *)
Loadable(img) ==
  /\ img.base \in Address \ {0}
  /\ {img.entryRva, img.sizeOfImage, img.sizeOfHeaders} \subseteq Address
  /\ img.rawSize \in Nat \ {0}
  /\ img.sections \in Seq(Section)
  /\ img.imports \in Seq(Import)
  /\ \A i \in DOMAIN img.sections :
       LET s == img.sections[i]
       IN /\ s.fileOff + s.fsize <= img.rawSize
          /\ s.vsize = 0 => s.fsize = 0

----------------------------------------------------------------------------
(* Indices of the sections whose virtual range contains [rva, rva+len). *)
Covering(img, rva, len) ==
  {i \in DOMAIN img.sections :
     /\ rva >= img.sections[i].rva
     /\ rva + len <= img.sections[i].rva + img.sections[i].vsize}

(* Offset in img->raw of an RVA that section s covers, or NULL when the
   bytes are in the zero-filled tail or past the end of the file. *)
SectionOffset(img, s, rva, len) ==
  LET within == rva - s.rva
  IN IF \/ within >= s.fsize
        \/ within + len > s.fsize
        \/ s.fileOff + within + len > img.rawSize
       THEN NULL
       ELSE s.fileOff + within

(* A fault: file offsets taken for RVAs. *)
FlatRvaToPtr(img, rva, len) ==
  IF rva + len > img.rawSize THEN NULL ELSE rva

(* pe_rva_to_ptr(): the header region maps to itself; otherwise only the
   first covering section is ever consulted. *)
pe_rva_to_ptr(img, rva, len) ==
  IF rva < img.sizeOfHeaders
    THEN IF rva + len > img.sizeOfHeaders \/ rva + len > img.rawSize
           THEN NULL
           ELSE rva
    ELSE LET C == Covering(img, rva, len)
         IN IF C = {}
              THEN NULL
              ELSE SectionOffset(img,
                     img.sections[CHOOSE i \in C : \A j \in C : i <= j],
                     rva, len)

----------------------------------------------------------------------------
(* What a linker guarantees of a valid image.  The code checks only part of
   it; properties of the converted program assume it, the model never. *)

SectionSize(s) == Larger(s.vsize, s.fsize)

FileRangesDisjoint(img) ==
  \A i, j \in DOMAIN img.sections :
    LET s == img.sections[i]
        t == img.sections[j]
    IN (s.fsize > 0 /\ t.fsize > 0) =>
         /\ s.fileOff >= img.sizeOfHeaders
         /\ i # j => \/ s.fileOff + s.fsize <= t.fileOff
                     \/ t.fileOff + t.fsize <= s.fileOff

SlotsDisjoint(img) ==
  \A i, j \in DOMAIN img.imports :
    LET a == img.imports[i].iatRva
        b == img.imports[j].iatRva
    IN i # j => a + SLOT_SIZE <= b \/ b + SLOT_SIZE <= a

(* The headers and the sections take ascending, disjoint page ranges within
   SizeOfImage. *)
PagesAscend(img) ==
  /\ PageUp(img.sizeOfHeaders) <= img.sizeOfImage
  /\ \A i \in DOMAIN img.sections :
       LET s == img.sections[i]
       IN /\ PageUp(img.sizeOfHeaders) <= s.rva
          /\ PageUp(s.rva + SectionSize(s)) <= img.sizeOfImage
          /\ i > 1 => LET t == img.sections[i - 1]
                      IN PageUp(t.rva + SectionSize(t)) <= s.rva

WellFormed(img) ==
  /\ img.sizeOfHeaders <= img.rawSize
  /\ img.sizeOfImage % PAGE_SIZE = 0
  /\ PagesAscend(img)
  /\ FileRangesDisjoint(img)
  /\ SlotsDisjoint(img)
=============================================================================
