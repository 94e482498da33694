------------------------------ MODULE StubPatch ------------------------------
(***************************************************************************)
(* stub_patch.c: imports resolved against the embedded shim blob and       *)
(* patched into the image's IAT slots, the PE entry point poked into a     *)
(* copy of the blob, the blob's PT_LOAD segments appended to the layout.   *)
(*                                                                         *)
(* A byte is named by where it comes from; one "slot" of SLOT_SIZE bytes   *)
(* holds a little-endian address.                                          *)
(***************************************************************************)
EXTENDS Layout

CONSTANTS
  SHIM_MIN_BASE,
  ShimPhdrs,    \* program headers of shim.elf
  ShimSize,     \* g_shim_blob_size
  ShimSyms,     \* its symbol table: name -> address
  ShimTable,    \* g_shim_imports: <<dll in lower case, function>> -> symbol
  LowerCase     \* tolower() of a DLL name: ci_streq() compares through it

ShimLoads == {i \in DOMAIN ShimPhdrs : ShimPhdrs[i].type = "LOAD"}

ASSUME ShimAssumption ==
  /\ SHIM_MIN_BASE \in Address
  /\ SHIM_MIN_BASE % PAGE_SIZE = 0
  /\ ShimSize \in Nat
  /\ DOMAIN ShimPhdrs = 1 .. Len(ShimPhdrs)
  /\ Len(ShimPhdrs) \in Nat
  /\ ShimLoads # {}
  /\ \A name \in DOMAIN ShimSyms : ShimSyms[name] \in Address

(* What ld makes of the shim (Makefile: -Ttext): PT_LOADs on page boundaries,
   in ascending order and disjoint pages, far enough below 2^32, no byte of
   the file in two of them. *)
ASSUME ShimSegmentsAssumption ==
  \A i \in ShimLoads :
    LET p == ShimPhdrs[i]
    IN /\ p.vaddr \in Address /\ p.off \in Nat
       /\ p.filesz \in Address /\ p.memsz \in Address
       /\ p.flags \subseteq Flag
       /\ p.vaddr % PAGE_SIZE = 0
       /\ p.filesz <= p.memsz
       /\ p.off + p.filesz <= ShimSize
       /\ PageUp(p.vaddr + p.memsz) + 2 * PAGE_SIZE <= WORD
       /\ \A j \in ShimLoads :
            i < j => /\ PageUp(p.vaddr + p.memsz) <= ShimPhdrs[j].vaddr
                     /\ p.off + p.filesz <= ShimPhdrs[j].off

VARIABLES
  mem,     \* live heap buffers and their bytes
  imp,     \* the import the nested loops stand at
  ph       \* the program header of the blob the embedding loop stands at

stubVars == <<mem, imp, ph>>

Byte(source, k) == <<source, k>>
Fresh(source, size) == [k \in 0 .. size - 1 |-> Byte(source, k)]
AddressByte(address, k) == <<"address", address, k>>

StubInit ==
  /\ mem = <<>>
  /\ imp = 0
  /\ ph = 0

----------------------------------------------------------------------------
Symbol(name) == IF name \in DOMAIN ShimSyms THEN ShimSyms[name] ELSE NULL

Key(fn) == <<LowerCase[fn.dll], fn.func>>

(* shim_lookup_import() and shim_find_symbol(): NULL when either fails. *)
ImportAddress(fn) ==
  IF Key(fn) \in DOMAIN ShimTable THEN Symbol(ShimTable[Key(fn)]) ELSE NULL

(* Store a 32-bit address at an offset of a buffer. *)
Store(bytes, at, address) ==
  [k \in DOMAIN bytes |->
     IF k >= at /\ k < at + SLOT_SIZE
       THEN AddressByte(address, k - at)
       ELSE bytes[k]]

(* A fault: the range check forgets SizeOfImage. *)
BaseBelowShim == img.base % WORD <= SHIM_MIN_BASE

ClearOfShim == (img.base + img.sizeOfImage) % WORD <= SHIM_MIN_BASE

PatchRejects ==
  /\ pc = "patch"
  /\ ~ ClearOfShim
  /\ pc' = "reject"
  /\ UNCHANGED <<img, raw, segs, entry, curOff, stubVars>>

StartPatching ==
  /\ pc = "patch"
  /\ ClearOfShim
  /\ pc' = "imports"
  /\ imp' = 1
  /\ UNCHANGED <<img, raw, segs, entry, curOff, mem, ph>>

Slot(fn) == pe_rva_to_ptr(img, fn.iatRva, SLOT_SIZE)

PatchImport ==
  /\ pc = "imports"
  /\ imp <= Len(img.imports)
  /\ LET fn == img.imports[imp]
     IN /\ ImportAddress(fn) # NULL
        /\ Slot(fn) # NULL
        /\ mem' = [mem EXCEPT ![raw] = Store(@, Slot(fn), ImportAddress(fn))]
  /\ imp' = imp + 1
  /\ UNCHANGED <<layoutVars, ph>>

ImportRejects ==
  /\ pc = "imports"
  /\ imp <= Len(img.imports)
  /\ LET fn == img.imports[imp]
     IN ImportAddress(fn) = NULL \/ Slot(fn) = NULL
  /\ pc' = "reject"
  /\ UNCHANGED <<img, raw, segs, entry, curOff, stubVars>>

----------------------------------------------------------------------------
(* shim_poke32(): the file offset, in the first PT_LOAD whose file bytes
   hold the word at vaddr. *)
Holding(vaddr) ==
  {i \in DOMAIN ShimPhdrs :
     LET p == ShimPhdrs[i]
     IN /\ p.type = "LOAD"
        /\ vaddr >= p.vaddr
        /\ vaddr + SLOT_SIZE <= p.vaddr + p.filesz}

ShimOffset(vaddr) ==
  IF Holding(vaddr) = {}
    THEN NULL
    ELSE LET p == ShimPhdrs[CHOOSE i \in Holding(vaddr) :
                              \A j \in Holding(vaddr) : i <= j]
         IN p.off + (vaddr - p.vaddr)

ShimUsable ==
  /\ Symbol("shim_pe_entry_target") # NULL
  /\ Symbol("_start") # NULL
  /\ ShimOffset(Symbol("shim_pe_entry_target")) # NULL

PeEntry == (img.base + img.entryRva) % WORD

NextFileOff ==
  IF segs = <<>>
    THEN PAGE_SIZE
    ELSE LET last == segs[Len(segs)]
         IN align_up((last.fileOff + last.filesz) % WORD)

CopyShim ==
  /\ pc = "imports"
  /\ imp > Len(img.imports)
  /\ ShimUsable
  /\ LET at == ShimOffset(Symbol("shim_pe_entry_target"))
         copy == Store(Fresh("shim", ShimSize), at, PeEntry)
     IN mem' = [b \in DOMAIN mem \union {"shim"} |->
                  IF b = "shim" THEN copy ELSE mem[b]]
  /\ curOff' = NextFileOff
  /\ ph' = 1
  /\ pc' = "embed"
  /\ UNCHANGED <<img, raw, segs, entry, imp>>

(* malloc fails, or a symbol is missing and the copy is freed again. *)
CopyRejects ==
  /\ pc = "imports"
  /\ imp > Len(img.imports)
  /\ pc' = "reject"
  /\ UNCHANGED <<img, raw, segs, entry, curOff, stubVars>>

ShimSegment(p) ==
  [vaddr |-> p.vaddr, flags |-> p.flags, fileOff |-> curOff,
   filesz |-> p.filesz, memsz |-> p.memsz,
   data |-> DataAt("shim", p.off, p.filesz)]

EmbedSegment ==
  /\ pc = "embed"
  /\ ph <= Len(ShimPhdrs)
  /\ ShimPhdrs[ph].type = "LOAD"
  /\ Len(segs) < ELF_MAX_SEGMENTS
  /\ AppendSegment(ShimSegment(ShimPhdrs[ph]))
  /\ ph' = ph + 1
  /\ UNCHANGED <<pc, img, raw, entry, mem, imp>>

(* A fault: the loop does not advance past a header it skips. *)
SkipHeaderForEver ==
  /\ pc = "embed"
  /\ ph <= Len(ShimPhdrs)
  /\ ShimPhdrs[ph].type # "LOAD"
  /\ UNCHANGED <<layoutVars, stubVars>>

SkipHeader ==
  /\ pc = "embed"
  /\ ph <= Len(ShimPhdrs)
  /\ ShimPhdrs[ph].type # "LOAD"
  /\ ph' = ph + 1
  /\ UNCHANGED <<layoutVars, mem, imp>>

EmbedRejects ==    \* too many segments: the copy of the blob is freed
  /\ pc = "embed"
  /\ ph <= Len(ShimPhdrs)
  /\ ShimPhdrs[ph].type = "LOAD"
  /\ Len(segs) >= ELF_MAX_SEGMENTS
  /\ mem' = [b \in DOMAIN mem \ {"shim"} |-> mem[b]]
  /\ pc' = "reject"
  /\ UNCHANGED <<img, raw, segs, entry, curOff, imp, ph>>

(* A fault: e_entry stays the PE's own entry point. *)
KeepPeEntry ==
  /\ pc = "embed"
  /\ ph > Len(ShimPhdrs)
  /\ pc' = "open"
  /\ UNCHANGED <<img, raw, segs, entry, curOff, stubVars>>

EnterShim ==
  /\ pc = "embed"
  /\ ph > Len(ShimPhdrs)
  /\ entry' = Symbol("_start")
  /\ pc' = "open"
  /\ UNCHANGED <<img, raw, segs, curOff, stubVars>>

StubStep ==
  \/ PatchRejects \/ StartPatching \/ PatchImport \/ ImportRejects
  \/ CopyShim \/ CopyRejects
  \/ EmbedSegment \/ SkipHeader \/ EmbedRejects \/ EnterShim
=============================================================================
