------------------------------ MODULE MCElfWriter ------------------------------
(***************************************************************************)
(* elf_write() called with any list of at most two segments over small     *)
(* offsets and sizes, in any order, overlapping or not, with or without    *)
(* data: callers other than layout.c could hand it those.                  *)
(***************************************************************************)
EXTENDS ElfWriter

MCSegment(off, size, data) ==
  [vaddr |-> 16, flags |-> {"R"}, fileOff |-> off, filesz |-> size,
   memsz |-> 12, data |-> data]

Handed ==
  {MCSegment(o, z, d) : o \in {2, 8, 10, 16}, z \in {0, 3, 9},
                        d \in {NoData, DataAt("copy", 1, 9)}}

MCInit ==
  /\ pc = "open"
  /\ img = <<>>
  /\ raw = "copy"
  /\ segs \in UNION {[1 .. n -> Handed] : n \in 0 .. 2}
  /\ entry = 20
  /\ curOff = 0
  /\ mem = [b \in {"copy"} |-> Fresh("pe", 12)]
  /\ imp = 0
  /\ ph = 0
  /\ WriterInit

MCReturned == pc \in {"chmod", "reject"} /\ UNCHANGED <<pc, specVars, writerVars>>

MCNext == WriteStep \/ MCReturned

MCSpec == MCInit /\ [][MCNext]_<<pc, specVars, writerVars>>

(* elf_write() reads none of the shim's constants. *)
MCShimPhdrs ==
  <<[type |-> "LOAD", vaddr |-> 64, off |-> 0, filesz |-> 0, memsz |-> 1,
     flags |-> {"R"}]>>
MCEmpty == [k \in {} |-> 0]

MCName == STRING
=============================================================================
