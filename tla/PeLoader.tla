------------------------------- MODULE PeLoader -------------------------------
(***************************************************************************)
(* pe_image_load(): the file is read, the headers are checked one field    *)
(* after the other, the section table is read, then the tables of PeTables *)
(* are walked.  Files is the set of files the program may be given; a file *)
(* is its decoded header fields and its cells, with the fixups and the TLS   *)
(* callbacks its tables were written from.                                 *)
(***************************************************************************)
EXTENDS PeTables

CONSTANT Files

(* The fields of a file are uint32_t; an empty file is no PE file. *)
ASSUME FilesAssumption ==
  \A f \in Files :
    /\ LET n == Cardinality(DOMAIN f.cells)
       IN /\ n \in Nat
          /\ f.cells \in [0 .. n - 1 -> Address]
          /\ f.flaws = {} => n > 0
    /\ {f.base, f.entryRva, f.sizeOfImage, f.sizeOfHeaders} \subseteq Address
    /\ {f.imports.rva, f.relocs.rva, f.relocs.size, f.tls.rva, f.tls.size} \subseteq Address
    /\ f.sections \in Seq(Section)

VARIABLES
  rawLive,    \* out->raw points at the file's bytes
  result      \* "none" while running, then "loaded" or "rejected"

vars == <<pc, file, img, walkVars, rawLive, result>>

LoaderInit ==
  /\ pc = "read"
  /\ file \in Files
  /\ img = <<>>
  /\ TablesInit
  /\ rawLive = FALSE
  /\ result = "none"

ReadWholeFile ==
  /\ pc = "read"
  /\ rawLive' = TRUE
  /\ pc' = "headers"
  /\ UNCHANGED <<file, img, walkVars, result>>

(* The file cannot be opened, sized, held in memory or read in full: what
   was read is freed on the spot. *)
ReadFails ==
  /\ pc = "read"
  /\ result' = "rejected"
  /\ pc' = "end"
  /\ UNCHANGED <<file, img, walkVars, rawLive>>

(* The chain of checks on the DOS, COFF and optional headers, ImageBase and
   the extent of the section table: one failed check is enough. *)
CheckHeaders ==
  /\ pc = "headers"
  /\ file.flaws = {}
  /\ file.base # 0
  /\ img' = [base |-> file.base, entryRva |-> file.entryRva,
             sizeOfImage |-> file.sizeOfImage, sizeOfHeaders |-> file.sizeOfHeaders,
             rawSize |-> Cardinality(DOMAIN file.cells), sections |-> <<>>]
  /\ pc' = "sections"
  /\ UNCHANGED <<file, walkVars, rawLive, result>>

HeadersFail ==
  /\ pc = "headers"
  /\ file.flaws # {} \/ file.base = 0
  /\ pc' = "fail"
  /\ UNCHANGED <<file, img, walkVars, rawLive, result>>

(* A fault: a section's end in the file is not compared with the file's. *)
NoBoundsCheck(h) == TRUE
InFile(h) == h.fileOff + h.fsize <= img.rawSize

(* parse_sections(): a zero VirtualSize stands for the raw size. *)
ParseSections ==
  /\ pc = "sections"
  /\ \A i \in DOMAIN file.sections : InFile(file.sections[i])
  /\ img' = [img EXCEPT !.sections =
              [i \in DOMAIN file.sections |->
                 [file.sections[i] EXCEPT !.vsize =
                    IF @ # 0 THEN @ ELSE file.sections[i].fsize]]]
  /\ pc' = "imports"
  /\ UNCHANGED <<file, walkVars, rawLive, result>>

SectionsFail ==    \* a section past the end of the file, or no memory
  /\ pc = "sections"
  /\ file.sections # <<>>
  /\ pc' = "fail"
  /\ UNCHANGED <<file, img, walkVars, rawLive, result>>

Succeed ==
  /\ pc = "loaded"
  /\ result' = "loaded"
  /\ pc' = "end"
  /\ UNCHANGED <<file, img, walkVars, rawLive>>

(* fail: the bytes are freed and the pointer cleared; the arrays are not. *)
Reject ==
  /\ pc = "fail"
  /\ rawLive' = FALSE
  /\ result' = "rejected"
  /\ pc' = "end"
  /\ UNCHANGED <<file, img, walkVars>>

Ended == pc = "end" /\ UNCHANGED vars

Next ==
  \/ TableStep /\ UNCHANGED <<rawLive, result>>
  \/ ReadWholeFile \/ ReadFails \/ CheckHeaders \/ HeadersFail
  \/ ParseSections \/ SectionsFail \/ Succeed \/ Reject \/ Ended

Spec == LoaderInit /\ [][Next]_vars

(* The loader is sequential and only reads memory. *)
FairSpec == Spec /\ WF_vars(Next)

----------------------------------------------------------------------------
TypeOK ==
  /\ pc \in {"read", "headers", "sections", "imports", "descriptor", "thunks", "function",
             "count", "relocs", "tls", "callbacks", "loaded", "fail", "end"}
  /\ dllsCap \in Nat /\ consumed \in Nat
  /\ count \in -ORDINAL_FLAG .. ORDINAL_FLAG - 1
  /\ relocs \in Seq(Address)
  /\ callbacks \in Seq(Address)
  /\ overrun \in BOOLEAN /\ rawLive \in BOOLEAN
  /\ result \in {"none", "loaded", "rejected"}

(* The arrays grow before they are stored to, the second relocation walk
   stores no more than the first one counted, and the callback array is
   never exceeded. *)
NoOverrun == ~ overrun

(* The image as the converter sees it: the imports of all DLLs in order. *)
Imports ==
  FlattenSeq([d \in DOMAIN dlls |->
                [f \in DOMAIN dlls[d].funcs |->
                   [dll |-> dlls[d].name, func |-> dlls[d].funcs[f].name,
                    iatRva |-> dlls[d].funcs[f].iatRva]]])

Loaded ==
  [base |-> img.base, entryRva |-> img.entryRva, sizeOfImage |-> img.sizeOfImage,
   sizeOfHeaders |-> img.sizeOfHeaders, rawSize |-> img.rawSize,
   sections |-> img.sections, imports |-> Imports]

(* What is returned is what the converter assumes of an image, and the bytes
   it refers to are still there; a rejected file leaves none behind. *)
ResultSound ==
  /\ result = "loaded" => rawLive /\ Loadable(Loaded)
  /\ result = "rejected" => ~ rawLive

(* The descriptors of the file, up to the zero one. *)
DescriptorCell(d, k) == Cell(Pointer(file.imports.rva + d * DESCRIPTOR, DESCRIPTOR), k)
ZeroDescriptor(d) == \A k \in 0 .. DESCRIPTOR - 1 : DescriptorCell(d, k) = 0
Descriptors ==
  IF file.imports.rva = 0
    THEN 0
    ELSE CHOOSE n \in 0 .. WORD - 1 :
           ZeroDescriptor(n) /\ \A d \in 0 .. n - 1 : ~ ZeroDescriptor(d)

(* Entry i of the table the names of descriptor d are read from. *)
Thunk(d, i) ==
  LET lookup == IF DescriptorCell(d, 0) # 0 THEN DescriptorCell(d, 0) ELSE DescriptorCell(d, 4)
  IN Cell(Pointer(lookup + i, 1), 0)

(* The slot the program will call through is the one that stands, in the
   FirstThunk table, where the function's name stands in the lookup table,
   whichever table the names were read from; an ordinal is the low 16 bits of
   its thunk. *)
SlotsMatchNames ==
  result = "loaded" =>
    /\ Len(dlls) = Descriptors
    /\ \A d \in DOMAIN dlls :
         /\ dlls[d].name = read_c_string(DescriptorCell(d - 1, 3), NAME_CAP)
         /\ Thunk(d - 1, Len(dlls[d].funcs)) = 0
         /\ \A i \in DOMAIN dlls[d].funcs :
              LET fn    == dlls[d].funcs[i]
                  thunk == Thunk(d - 1, i - 1)
              IN /\ thunk # 0
                 /\ fn.iatRva = (DescriptorCell(d - 1, 4) + i - 1) % WORD
                 /\ fn.name = IF thunk >= ORDINAL_FLAG
                                THEN <<HASH, thunk % ORDINALS>>
                                ELSE read_c_string(thunk + HINT, NAME_CAP)

(* The relocations kept are those the linker wrote, the callbacks kept are
   those of the TLS directory in order; file.fixups and file.tlsFns say what
   went into the file. *)
TablesKept ==
  result = "loaded" =>
    /\ Range(relocs) = file.fixups
    /\ callbacks = file.tlsFns

(* The loader comes to an end, with the file accepted or rejected. *)
Ends == <>(result # "none")
=============================================================================
