------------------------------- MODULE Winlift -------------------------------
(***************************************************************************)
(* main.c: one conversion from start to exit.  The stages of Layout,       *)
(* StubPatch and ElfWriter are composed here with loading, the private     *)
(* copy of the image, and every error path out of the program.             *)
(*                                                                         *)
(* Images is the set of images the loader may return.  The environment     *)
(* chooses among them, and chooses which malloc(), fopen(), fwrite(),      *)
(* fclose() and chmod() fail.                                              *)
(***************************************************************************)
EXTENDS ElfWriter

CONSTANT Images

ASSUME ImagesAssumption == \A i \in Images : Loadable(i)

VARIABLES
  mode,        \* "usage", "dump", "bare" (neither --dump nor -o), "convert"
  exit,        \* exit code, -1 while running
  executable,  \* the mode bits chmod() gives the output file
  tables,      \* img.sections, img.imports and img.relocs, allocated and freed
               \* together: "NULL" or "tables"
  held         \* of each buffer of the image, its allocations less its frees

heldVars == <<tables, held>>
mainVars == <<mode, exit, executable, heldVars>>
vars == <<pc, specVars, writerVars, mainVars>>

MainInit ==
  /\ Init
  /\ StubInit
  /\ WriterInit
  /\ mode \in {"usage", "dump", "bare", "convert"}
  /\ exit = -1
  /\ executable = FALSE
  /\ tables = "NULL"
  /\ held = [b \in {"loaded", "copy", "tables"} |-> 0]

Without(buf) == [b \in DOMAIN mem \ {buf} |-> mem[b]]

(* pe_image_free(): the bytes raw points at and the loader's arrays.  Freeing
   NULL does nothing. *)
FreeImage ==
  /\ mem' = Without(raw)
  /\ raw' = "NULL"
  /\ tables' = "NULL"
  /\ held' = [b \in DOMAIN held |-> IF b \in {raw, tables} THEN held[b] - 1
                                                         ELSE held[b]]

Usage ==
  /\ pc = "load"
  /\ mode = "usage"
  /\ exit' = 2
  /\ pc' = "exit"
  /\ UNCHANGED <<specVars, writerVars, mode, executable, heldVars>>

Load ==
  /\ pc = "load"
  /\ mode # "usage"
  /\ \E i \in Images :
       /\ img' = i
       /\ mem' = [b \in {"loaded"} |-> Fresh("pe", i.rawSize)]
  /\ raw' = "loaded"
  /\ tables' = "tables"
  /\ held' = [held EXCEPT !["loaded"] = @ + 1, !["tables"] = @ + 1]
  /\ pc' = "loaded"
  /\ UNCHANGED <<segs, entry, curOff, imp, ph, writerVars, mode, exit, executable>>

LoadFails ==    \* the loader frees the file bytes itself
  /\ pc = "load"
  /\ mode # "usage"
  /\ exit' = 1
  /\ pc' = "exit"
  /\ UNCHANGED <<specVars, writerVars, mode, executable, heldVars>>

Inspect ==      \* --dump, or no output path given
  /\ pc = "loaded"
  /\ mode # "convert"
  /\ exit' = IF mode = "dump" THEN 0 ELSE 2
  /\ FreeImage
  /\ pc' = "exit"
  /\ UNCHANGED <<img, segs, entry, curOff, imp, ph, writerVars, mode, executable>>

(* The bytes are copied and the original is freed. *)
ReplaceBytes ==
  /\ mem' = [b \in {"copy"} |-> mem[raw]]
  /\ held' = [held EXCEPT !["copy"] = @ + 1, ![raw] = @ - 1]

(* A fault: the original is freed but img.raw is left pointing at it. *)
CopyKeepsPointer ==
  /\ pc = "loaded"
  /\ mode = "convert"
  /\ ReplaceBytes
  /\ pc' = "layout"
  /\ UNCHANGED <<img, raw, segs, entry, curOff, imp, ph, writerVars, mode, exit,
                 executable, tables>>

CopyImage ==
  /\ pc = "loaded"
  /\ mode = "convert"
  /\ ReplaceBytes
  /\ raw' = "copy"
  /\ pc' = "layout"
  /\ UNCHANGED <<img, segs, entry, curOff, imp, ph, writerVars, mode, exit,
                 executable, tables>>

CopyFails ==
  /\ pc = "loaded"
  /\ mode = "convert"
  /\ pc' = "reject"
  /\ UNCHANGED <<specVars, writerVars, mainVars>>

(* A fault: the error path exits without freeing the image. *)
RejectLeaks ==
  /\ pc = "reject"
  /\ exit' = 1
  /\ pc' = "exit"
  /\ UNCHANGED <<specVars, writerVars, mode, executable, heldVars>>

Reject ==
  /\ pc = "reject"
  /\ FreeImage
  /\ exit' = 1
  /\ pc' = "exit"
  /\ UNCHANGED <<img, segs, entry, curOff, imp, ph, writerVars, mode, executable>>

Succeed ==      \* chmod(), whose result is not looked at
  /\ pc = "chmod"
  /\ executable' \in BOOLEAN
  /\ FreeImage
  /\ exit' = 0
  /\ pc' = "exit"
  /\ UNCHANGED <<img, segs, entry, curOff, imp, ph, writerVars, mode>>

Exited == pc = "exit" /\ UNCHANGED vars

Next ==
  \/ LayoutStep /\ UNCHANGED <<stubVars, writerVars, mainVars>>
  \/ StubStep /\ UNCHANGED <<writerVars, mainVars>>
  \/ WriteStep /\ UNCHANGED mainVars
  \/ Usage \/ Load \/ LoadFails \/ Inspect \/ CopyImage \/ CopyFails
  \/ Reject \/ Succeed \/ Exited

Spec == MainInit /\ [][Next]_vars

(* The program is sequential and nothing it calls blocks for ever. *)
FairSpec == Spec /\ WF_vars(Next)

----------------------------------------------------------------------------
TypeOK ==
  /\ pc \in {"load", "loaded", "layout", "sections", "patch", "imports",
             "embed", "open", "ehdr", "phdrs", "data", "chmod", "reject",
             "exit"}
  /\ img \in Images \union {<<>>}
  /\ raw \in {"NULL", "loaded", "copy"}
  /\ segs \in Seq(Segment) /\ Len(segs) <= ELF_MAX_SEGMENTS
  /\ entry \in Address
  /\ curOff \in Address
  /\ DOMAIN mem \subseteq {"loaded", "copy", "shim"}
  /\ imp \in Nat
  /\ ph \in Nat
  /\ out \in {"absent", "previous", "ours"}
  /\ ondisk \in Nat
  /\ io \in {"ok", "short", "lost"}
  /\ w \in Nat
  /\ cur \in Nat
  /\ mode \in {"usage", "dump", "bare", "convert"}
  /\ exit \in {-1, 0, 1, 2}
  /\ executable \in BOOLEAN
  /\ tables \in {"NULL", "tables"}
  /\ held \in [{"loaded", "copy", "tables"} -> Int]

----------------------------------------------------------------------------
(* The image ends below every page of the shim. *)
ImageBelowShim ==
  \A i \in ShimLoads : img.base + img.sizeOfImage <= ShimPhdrs[i].vaddr

Convertible == WellFormed(img) /\ ImageBelowShim

Writing == pc \in {"open", "ehdr", "phdrs", "data", "chmod"}

(* The segments handed to elf_write() for a well-formed image below the shim
   are page-aligned, sorted, disjoint in the file and in memory, as
   elf_writer.h requires of its callers. *)
WriterPrecondition == (Writing /\ Convertible) => SegmentsLaidOut

(* The range check of stub_patch_apply(): no segment of an accepted, well-
   formed image that ends below 2^32 reaches into the reserved range. *)
ReservedRangeKept ==
  (Writing /\ WellFormed(img) /\ img.base + img.sizeOfImage < WORD) =>
    \A i \in 1 .. Len(img.sections) + 1 :
      PageUp(segs[i].vaddr + segs[i].memsz) <= SHIM_MIN_BASE

(* Every data pointer of a segment being written points into a live buffer:
   the copy img.raw was replaced by, or the leaked copy of the blob. *)
SegmentDataAlive ==
  Writing =>
    \A i \in DOMAIN segs :
      segs[i].filesz > 0 => segs[i].data.buf \in DOMAIN mem

(* At exit the image's bytes, original and copy, and the loader's arrays have
   been freed on every path, and none of them twice; only the copy of the shim
   blob is left, and only once it was made. *)
ImageFreed ==
  pc = "exit" => /\ DOMAIN mem \subseteq {"shim"}
                 /\ \A b \in DOMAIN held : held[b] = 0

(* run_tests.sh, "no output ELF is written on rejection": unless a write
   failed, or the layout's 32-bit file offsets wrapped, a run that reports
   failure has not touched the output path. *)
RejectionWritesNothing ==
  (exit \in {1, 2} /\ io = "ok" /\ FileSorted) => out # "ours"

Converted == exit = 0 /\ mode = "convert" /\ io = "ok" /\ Convertible

(* The byte of the program at an RVA, which is byte k of the file. *)
PatchedBy(rva) ==
  {i \in DOMAIN img.imports :
     img.imports[i].iatRva <= rva /\ rva < img.imports[i].iatRva + SLOT_SIZE}

ExpectedByte(rva, k) ==
  IF PatchedBy(rva) = {}
    THEN Byte("pe", k)
    ELSE LET fn == img.imports[CHOOSE i \in PatchedBy(rva) : TRUE]
         IN AddressByte(ImportAddress(fn), rva - fn.iatRva)

(* A successful conversion of a well-formed image below the shim loads, at
   the PE's own addresses, every byte of the headers and sections, with the
   imports resolved, zeros in the tails, and the sections' permissions. *)
FaithfulImage ==
  Converted =>
    LET phdrs == FilePhdrs
    IN /\ \A k \in 0 .. img.sizeOfHeaders - 1 :
            LoadedByte(phdrs, img.base + k) = ExpectedByte(k, k)
       /\ \A i \in DOMAIN img.sections :
            LET s == img.sections[i]
            IN \A k \in 0 .. SectionSize(s) - 1 :
                 LET a == img.base + s.rva + k
                 IN /\ MappingOf(phdrs, a).flags = SectionFlags(s.characteristics)
                    /\ LoadedByte(phdrs, a) =
                         IF k < s.fsize
                           THEN ExpectedByte(s.rva + k, s.fileOff + k)
                           ELSE <<"zero">>

(* Control reaches the PE: the file is entered at the shim's _start, the
   whole shim is loaded, and the word _start jumps through holds the PE's
   entry point. *)
EntersThroughShim ==
  Converted =>
    LET phdrs == FilePhdrs
        target == Symbol("shim_pe_entry_target")
    IN /\ FileEntry = Symbol("_start")
       /\ \A k \in 0 .. SLOT_SIZE - 1 :
            LoadedByte(phdrs, target + k) = AddressByte(PeEntry, k)
       /\ \A i \in ShimLoads :
            LET p == ShimPhdrs[i]
            IN \A a \in p.vaddr .. p.vaddr + p.memsz - 1 :
                 a \in target .. target + SLOT_SIZE - 1
                 \/ LoadedByte(phdrs, a) =
                      IF a < p.vaddr + p.filesz
                        THEN Byte("shim", p.off + (a - p.vaddr))
                        ELSE <<"zero">>

(* Every run ends with an exit code. *)
Terminates == <>(exit # -1)

----------------------------------------------------------------------------
(* Claims of the sources that do not hold. *)

(* elf_writer.h: elf_write() writes a complete file or returns false. *)
CompleteOrFailure == exit = 0 /\ mode = "convert" => ondisk = Len(stream)

(* stub_patch.c: the shim's segments are at addresses >= SHIM_MIN_BASE, so
   the range check keeps an accepted image clear of all of them. *)
AcceptedImageClear ==
  (Writing /\ WellFormed(img) /\ img.base + img.sizeOfImage < WORD) => PagesSorted
=============================================================================
