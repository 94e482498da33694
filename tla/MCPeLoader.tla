------------------------------ MODULE MCPeLoader ------------------------------
(***************************************************************************)
(* The loader on files of 68 cells: 4 of headers, then one section of 64   *)
(* at RVA 16 with the import tables at its start, the relocations at RVA   *)
(* 48 and the TLS directory at RVA 64, each well-formed or damaged.        *)
(***************************************************************************)
EXTENDS PeLoader

At(rva, cells) == [r \in rva .. rva + Len(cells) - 1 |-> cells[r - rva + 1]]

(* Import tables.  Two DLLs; the first has three functions, one of them by
   an ordinal whose thunk has higher bits set as well, and a lookup table of its own unless oft is 0.  The second's name
   is longer than NAME_CAP allows. *)
Thunks == <<41, ORDINAL_FLAG + 2 * ORDINALS + 17, 41, 0>>
TwoDlls(oft) ==
  [rva |-> 16,
   cells |-> At(16, <<oft, 0, 0, 42, 35>>) @@ At(21, <<0, 9, WORD - 1, 44, 39>>)
             @@ At(31, Thunks) @@ At(35, Thunks) @@ At(39, <<41, 0>>)
             @@ At(41, <<1, 70, 0, 97, 98, 99, 0>>)]
OneDll(descriptor, thunk) ==
  [rva |-> 16, cells |-> At(16, descriptor) @@ At(31, <<thunk, 0>>) @@ At(44, <<97>>)]
NoTable == [rva |-> 0, size |-> 0, cells |-> <<>>]

ImportTables ==
  { NoTable, TwoDlls(31), TwoDlls(0),
    OneDll(<<0, 0, 0, 44, 31>>, ORDINAL_FLAG),
    OneDll(<<0, 0, 7, 44, 31>>, ORDINAL_FLAG),     \* forwarded
    OneDll(<<0, 0, 0, 200, 31>>, ORDINAL_FLAG),    \* no DLL name
    OneDll(<<0, 0, 0, 44, 200>>, ORDINAL_FLAG),    \* no thunks
    OneDll(<<0, 0, 0, 44, 31>>, 79),               \* no function name
    [rva |-> 77, cells |-> <<>>] }                 \* no descriptor

(* Relocation blocks: page, size, entries. *)
HighLow(offset) == HIGHLOW * PAGE_SIZE + offset
Relocs(size, cells, fixups) ==
  [rva |-> 48, size |-> size, cells |-> At(48, cells), fixups |-> fixups]
RelocTables ==
  { [NoTable EXCEPT !.rva = 48] @@ [fixups |-> {}],
    Relocs(7, <<32, 4, HighLow(1), 0, 48, 3, HighLow(2)>>, {33, 50}),
    Relocs(5, <<32, 2, 48, 3, HighLow(15)>>, {63}),     \* an empty block
    Relocs(3, <<32, 3, 0>>, {}),                       \* padding only
    Relocs(2, <<32, 2>>, {}),
    Relocs(4, <<32, 1>>, {}),                          \* a size below its own
    Relocs(40, <<32, 40, HighLow(1)>>, {}) }           \* past the section

(* The second block's size takes the walk back to the first. *)
RelocsInCircle == Relocs(8, <<32, 3, HighLow(1), 48, WORD - 3>>, {33})

(* The TLS directory, with the address of its callback array. *)
ImageBase == 8
Tls(array, fns) ==
  [rva |-> 64, size |-> TLS_DIRECTORY,
   cells |-> At(64, <<0, 0, 0, array>>)
             @@ At(70, [i \in DOMAIN fns |-> fns[i] + ImageBase]),
   tlsFns |-> IF array = 0 THEN <<>> ELSE fns]
TlsTables ==
  { NoTable @@ [tlsFns |-> <<>>],
    Tls(0, <<20>>),
    Tls(70 + ImageBase, <<20, 30>>),
    Tls(70 + ImageBase, <<20, 30, 20>>),               \* too many
    Tls(70 + ImageBase, <<-1>>),                       \* below ImageBase
    Tls(3, <<>>),
    Tls(200, <<>>),
    [Tls(79 + ImageBase, <<>>) EXCEPT !.cells = @ @@ At(79, <<20>>)] }  \* no end

----------------------------------------------------------------------------
Text == [rva |-> 16, vsize |-> 64, fileOff |-> 4, fsize |-> 64,
         characteristics |-> {"R", "X"}]

File(imports, rels, tls) ==
  LET content == imports.cells @@ rels.cells @@ tls.cells
  IN [cells |-> [o \in 0 .. 67 |-> IF o >= 4 /\ o + 12 \in DOMAIN content
                                     THEN content[o + 12] ELSE 0] @@ <<>>,
      flaws |-> {}, base |-> ImageBase, entryRva |-> 16, sizeOfImage |-> 80,
      sizeOfHeaders |-> 4, sections |-> <<Text>>,
      imports |-> [rva |-> imports.rva],
      relocs |-> [rva |-> rels.rva, size |-> rels.size],
      tls |-> [rva |-> tls.rva, size |-> tls.size],
      fixups |-> rels.fixups, tlsFns |-> tls.tlsFns]

Tidy == File(TwoDlls(31), Relocs(2, <<32, 2>>, {}), Tls(0, <<>>))

MCFiles ==
  { File(i, r, t) : i \in ImportTables, r \in RelocTables, t \in TlsTables }
  \union
  { [Tidy EXCEPT !.flaws = {"machine"}], [Tidy EXCEPT !.base = 0],
    [Tidy EXCEPT !.sections[1].fsize = 65],
    [Tidy EXCEPT !.sections[1].vsize = 0],
    [Tidy EXCEPT !.sections = <<>>] }

MCCircleFiles == { File(NoTable, RelocsInCircle, NoTable @@ [tlsFns |-> <<>>]) }

MCName == Seq(Address)
=============================================================================
