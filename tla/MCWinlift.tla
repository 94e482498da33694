------------------------------ MODULE MCWinlift ------------------------------
(***************************************************************************)
(* Winlift on a 128-cell address space of 8-cell pages, with a shim of     *)
(* three PT_LOAD segments and a stack header, laid out like the real       *)
(* shim.elf: its ELF headers sit one page below SHIM_MIN_BASE.             *)
(***************************************************************************)
EXTENDS Winlift

Load_(vaddr, off, filesz, memsz, flags) ==
  [type |-> "LOAD", vaddr |-> vaddr, off |-> off, filesz |-> filesz,
   memsz |-> memsz, flags |-> flags]

MCShimPhdrs ==
  << Load_(56, 0, 2, 2, {"R"}),
     Load_(64, 2, 3, 3, {"R", "X"}),
     Load_(72, 5, 2, 5, {"R", "W"}),
     [type |-> "GNU_STACK"] >>

MCShimSyms == [s \in {"_start", "shim_pe_entry_target", "shim_puts"} |->
                 CASE s = "_start" -> 64
                   [] s = "shim_puts" -> 66
                   [] s = "shim_pe_entry_target" -> 72]

(* "shim_gone" is a row of the table whose symbol the blob lacks. *)
MCShimTable ==
  [k \in {<<"msvcrt.dll", "puts">>, <<"msvcrt.dll", "gone">>} |->
     IF k[2] = "puts" THEN "shim_puts" ELSE "shim_gone"]

MCLowerCase ==
  [d \in {"msvcrt.dll", "MSVCRT.dll", "other.dll"} |->
     IF d = "other.dll" THEN "other.dll" ELSE "msvcrt.dll"]

----------------------------------------------------------------------------
Sec(rva, vsize, off, fsize, flags) ==
  [rva |-> rva, vsize |-> vsize, fileOff |-> off, fsize |-> fsize,
   characteristics |-> flags]

Text == Sec(8, 3, 2, 4, {"R", "X"})       \* padded: more raw bytes than memory
Data == Sec(16, 11, 6, 5, {"R", "W"})     \* a zero tail over a second page
Bss == Sec(16, 4, 0, 0, {"R", "W"})
Full == Sec(16, 8, 4, 8, {})              \* exactly one page
Skewed == Sec(20, 4, 6, 4, {"R"})         \* not page-aligned
Wide == Sec(8, 100, 0, 12, {"R"})

SectionLists ==
  { <<>>, <<Text>>, <<Text, Data>>, <<Text, Bss>>, <<Full>>, <<Text, Skewed>>,
    <<Text, Data, Sec(32, 2, 11, 1, {"R"})>>,
    <<Text, Text, Text, Text, Text, Text>>, <<Data, Text>>, <<Wide>> }

Imp(dll, func, rva) == [dll |-> dll, func |-> func, iatRva |-> rva]

ImportLists ==
  { <<>>,
    <<Imp("MSVCRT.dll", "puts", 8)>>,                    \* in .text
    <<Imp("msvcrt.dll", "puts", 16), Imp("msvcrt.dll", "puts", 19)>>,
    <<Imp("msvcrt.dll", "puts", 20)>>,                   \* last file byte cut off
    <<Imp("msvcrt.dll", "puts", 22)>>,                   \* in the zero tail
    <<Imp("msvcrt.dll", "gone", 8)>>,
    <<Imp("other.dll", "puts", 8)>>,
    <<Imp("msvcrt.dll", "puts", 0)>> }                   \* in the headers

Image(base, size, headers, secs, imps) ==
  [base |-> base, entryRva |-> 9, sizeOfImage |-> size,
   sizeOfHeaders |-> headers, rawSize |-> 12, sections |-> secs,
   imports |-> imps]

MCImages ==
  { Image(16, 32, 2, s, i) : s \in SectionLists, i \in ImportLists }
  \union
  { Image(b, z, 2, s, <<>>) :
      b \in {12, 24, 32, 40, 112}, z \in {24, 32}, s \in {<<Text>>, <<Text, Data>>} }

MCName == STRING
=============================================================================
