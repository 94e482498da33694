------------------------------- MODULE PeTables -------------------------------
(***************************************************************************)
(* The three tables the loader walks: the import directory with each DLL's *)
(* thunks (pe_imports.c), the base relocations and the TLS callbacks       *)
(* (pe_relocs.c).  None has a length that can be trusted: the imports and  *)
(* the callbacks end with a zero entry, the relocations are counted in a   *)
(* first walk and stored in a second.                                      *)
(*                                                                         *)
(* Every scalar of the file - a character, a thunk, a field of a           *)
(* descriptor, a relocation - is one cell, so a C struct is as many cells  *)
(* long as it has fields.                                                  *)
(***************************************************************************)
EXTENDS PeImage, SequencesExt

CONSTANTS
  INITIAL_CAP,           \* 8: what ensure_capacity() starts with
  PE_MAX_TLS_CALLBACKS,  \* 16
  NAME_CAP,              \* 64 and 128: room for a name and its terminator
  HIGHLOW,               \* PE_REL_BASED_HIGHLOW
  ORDINALS               \* 2^16: an ordinal is kept as a uint16_t

ASSUME TablesAssumption ==
  /\ INITIAL_CAP \in Nat \ {0} /\ PE_MAX_TLS_CALLBACKS \in Nat
  /\ NAME_CAP \in Nat \ {0} /\ HIGHLOW \in Nat
  /\ ORDINALS \in 1 .. WORD \div 2
  /\ WORD % 2 = 0 /\ WORD > 35    \* int is as wide as uint32_t; '#' fits

VARIABLES
  pc,         \* the next step
  file,       \* the file being loaded
  img,        \* the headers and sections read so far
  dlls,       \* img->imports[0 .. n_imports-1]
  dllsCap,    \* img->imports_cap
  dll,        \* the DLL being read: its name, descriptor, functions, capacity
  local,      \* the descriptor, then the thunk, copied from the file
  consumed,   \* the walk's position, relative to the table's start
  count,      \* relocations counted by the first walk, an int
  relocs,     \* img->relocs[0 .. idx-1]
  callbacks,  \* img->tls_callback_rvas
  overrun     \* an array was stored to past its end

walkVars == <<dlls, dllsCap, dll, local, consumed, count, relocs, callbacks, overrun>>

DESCRIPTOR == 5    \* OriginalFirstThunk, TimeDateStamp, ForwarderChain, Name, FirstThunk
BLOCK == 2         \* VirtualAddress, SizeOfBlock
TLS_DIRECTORY == 6
CALLBACKS == 3     \* AddressOfCallBacks in it
HINT == 1
ORDINAL_FLAG == WORD \div 2
HASH == 35

Pointer(rva, len) == pe_rva_to_ptr(img, rva % WORD, len)
Cell(ptr, k) == file.cells[ptr + k]
Int32(n) == ((n + WORD \div 2) % WORD) - WORD \div 2

TablesInit ==
  /\ dlls = <<>>
  /\ dllsCap = 0
  /\ dll = <<>>
  /\ local = <<>>
  /\ consumed = 0
  /\ count = 0
  /\ relocs = <<>>
  /\ callbacks = <<>>
  /\ overrun = FALSE

Fail == pc' = "fail" /\ UNCHANGED walkVars

----------------------------------------------------------------------------
(* A fault: the array grows only when it is already overfull. *)
GrowLate(cap, n) == IF n <= cap THEN cap ELSE IF cap = 0 THEN INITIAL_CAP ELSE cap * 2

(* ensure_capacity(), when realloc() succeeds: the new capacity. *)
ensure_capacity(cap, n) ==
  IF n < cap THEN cap ELSE IF cap = 0 THEN INITIAL_CAP ELSE cap * 2

(* read_c_string(): the characters up to the terminator, at most cap - 1 of
   them; Unreadable when one of them is not in the file. *)
Unreadable == <<-1>>
read_c_string(rva, cap) ==
  LET ptr(i) == Pointer(rva + i, 1)
      stops  == {i \in 0 .. cap - 2 : ptr(i) = NULL \/ Cell(ptr(i), 0) = 0}
      n      == IF stops = {} THEN cap - 1 ELSE Min(stops)
  IN IF stops # {} /\ ptr(n) = NULL
       THEN Unreadable
       ELSE [i \in 1 .. n |-> Cell(ptr(i - 1), 0)]

(* pe_parse_imports_dir(): the descriptor consumed points at is copied, and
   a zero one ends the directory. *)
DescriptorAt == Pointer(file.imports.rva + consumed, DESCRIPTOR)
Terminator == \A k \in 0 .. DESCRIPTOR - 1 : local[k] = 0

NoImports ==
  /\ pc = "imports"
  /\ file.imports.rva = 0
  /\ pc' = "count"
  /\ UNCHANGED walkVars

CopyDescriptor ==
  /\ pc = "imports"
  /\ file.imports.rva # 0
  /\ DescriptorAt # NULL
  /\ local' = [k \in 0 .. DESCRIPTOR - 1 |-> Cell(DescriptorAt, k)]
  /\ pc' = "descriptor"
  /\ UNCHANGED <<dlls, dllsCap, dll, consumed, count, relocs, callbacks, overrun>>

DirectoryFails ==
  /\ pc = "imports"
  /\ file.imports.rva # 0
  /\ DescriptorAt = NULL
  /\ Fail

ImportsEnd ==
  /\ pc = "descriptor"
  /\ Terminator
  /\ consumed' = 0
  /\ local' = <<>>
  /\ pc' = "count"
  /\ UNCHANGED <<dlls, dllsCap, dll, count, relocs, callbacks, overrun>>

(* parse_one_dll(), up to its loop. *)
DllName == read_c_string(local[3], NAME_CAP)
Forwarded == local[2] \notin {0, WORD - 1}

BeginDll ==
  /\ pc = "descriptor"
  /\ ~ Terminator
  /\ DllName # Unreadable
  /\ ~ Forwarded
  /\ dllsCap' = ensure_capacity(dllsCap, Len(dlls))
  /\ overrun' = (overrun \/ Len(dlls) >= dllsCap')
  /\ dll' = [name |-> DllName, iat |-> local[4], funcs |-> <<>>, cap |-> 0,
             thunks |-> IF local[0] # 0 THEN local[0] ELSE local[4], at |-> 0]
  /\ local' = <<>>
  /\ pc' = "thunks"
  /\ UNCHANGED <<dlls, consumed, count, relocs, callbacks>>

DllFails ==
  /\ pc = "descriptor"
  /\ ~ Terminator
  /\ \/ DllName = Unreadable
     \/ Forwarded
     \/ ensure_capacity(dllsCap, Len(dlls)) # dllsCap    \* realloc() fails
  /\ Fail

----------------------------------------------------------------------------
(* parse_one_dll(): one turn of its loop.  local is the thunk. *)
ThunkAt == Pointer(dll.thunks + dll.at, 1)
ByOrdinal == local >= ORDINAL_FLAG
OrdinalUncut == local - ORDINAL_FLAG    \* a fault: all bits but the flag are kept
Ordinal == local % ORDINALS
FuncName ==
  IF ByOrdinal
    THEN <<HASH, Ordinal>>
    ELSE read_c_string(local + HINT, NAME_CAP)
NameReadable ==
  ByOrdinal \/ (Pointer(local, HINT) # NULL /\ FuncName # Unreadable)

CopyThunk ==
  /\ pc = "thunks"
  /\ ThunkAt # NULL
  /\ local' = Cell(ThunkAt, 0)
  /\ pc' = "function"
  /\ UNCHANGED <<dlls, dllsCap, dll, consumed, count, relocs, callbacks, overrun>>

ThunksFail ==
  /\ pc = "thunks"
  /\ ThunkAt = NULL
  /\ Fail

(* A fault: the slot is taken from the table the names were read from. *)
SlotInLookupTable == (dll.thunks + dll.at) % WORD

(* Where the converted program will look for the function's address. *)
IatSlot == (dll.iat + dll.at) % WORD

AddFunction ==
  /\ pc = "function"
  /\ local # 0
  /\ NameReadable
  /\ LET cap == ensure_capacity(dll.cap, Len(dll.funcs))
     IN /\ overrun' = (overrun \/ Len(dll.funcs) >= cap)
        /\ dll' = [dll EXCEPT !.cap = cap, !.at = @ + 1,
                     !.funcs = Append(@, [name |-> FuncName, iatRva |-> IatSlot])]
  /\ local' = <<>>
  /\ pc' = "thunks"
  /\ UNCHANGED <<dlls, dllsCap, consumed, count, relocs, callbacks>>

FunctionFails ==
  /\ pc = "function"
  /\ local # 0
  /\ \/ ~ NameReadable
     \/ ensure_capacity(dll.cap, Len(dll.funcs)) # dll.cap
  /\ Fail

DllDone ==
  /\ pc = "function"
  /\ local = 0
  /\ dlls' = Append(dlls, [name |-> dll.name, funcs |-> dll.funcs])
  /\ dll' = <<>>
  /\ local' = <<>>
  /\ consumed' = consumed + DESCRIPTOR
  /\ pc' = "imports"
  /\ UNCHANGED <<dllsCap, count, relocs, callbacks, overrun>>

----------------------------------------------------------------------------
(* pe_parse_relocs_dir(): the block consumed points at. *)
BlockAt == Pointer(file.relocs.rva + consumed, BLOCK)
BlockSize == Cell(BlockAt, 1)
NEntries == BlockSize - BLOCK
EntriesAt == Pointer(file.relocs.rva + consumed + BLOCK, NEntries)
NoRelocs == file.relocs.rva = 0 \/ file.relocs.size = 0
InRelocs == ~ NoRelocs /\ consumed < file.relocs.size

(* A fault: a block's size is not compared with that of its own header. *)
CountAnyBlock ==
  /\ pc = "count"
  /\ InRelocs
  /\ BlockAt # NULL
  /\ count' = Int32(count + NEntries)
  /\ consumed' = (consumed + BlockSize) % WORD
  /\ UNCHANGED <<pc, dlls, dllsCap, dll, local, relocs, callbacks, overrun>>

CountBlock ==
  /\ pc = "count"
  /\ InRelocs
  /\ BlockAt # NULL
  /\ BlockSize >= BLOCK
  /\ count' = Int32(count + NEntries)
  /\ consumed' = (consumed + BlockSize) % WORD
  /\ UNCHANGED <<pc, dlls, dllsCap, dll, local, relocs, callbacks, overrun>>

CountFails ==
  /\ pc = "count"
  /\ InRelocs
  /\ BlockAt # NULL => BlockSize < BLOCK
  /\ Fail

(* Nothing to store, or an array of count elements is allocated. *)
CountDone ==
  /\ pc = "count"
  /\ ~ InRelocs
  /\ count >= 0
  /\ consumed' = 0
  /\ pc' = IF NoRelocs \/ count = 0 THEN "tls" ELSE "relocs"
  /\ UNCHANGED <<dlls, dllsCap, dll, local, count, relocs, callbacks, overrun>>

AllocFails ==    \* a negative count asks malloc() for more than there is
  /\ pc = "count"
  /\ ~ InRelocs
  /\ count # 0
  /\ Fail

(* e >> 12 and e & 0xFFF *)
EntryType(e) == e \div PAGE_SIZE
EntryOffset(e) == e % PAGE_SIZE

(* A fault: padding entries are stored too. *)
KeepPadding(entries, page) ==
  [i \in DOMAIN entries |-> (page + EntryOffset(entries[i])) % WORD]

(* The HIGHLOW entries of a block; the others are padding or ignored. *)
KeptEntries(entries, page) ==
  LET kept[i \in 0 .. Len(entries)] ==
        IF i = 0 THEN <<>>
        ELSE IF EntryType(entries[i]) = HIGHLOW
          THEN Append(kept[i - 1], (page + EntryOffset(entries[i])) % WORD)
          ELSE kept[i - 1]
  IN kept[Len(entries)]

StoreBlock ==
  /\ pc = "relocs"
  /\ InRelocs
  /\ EntriesAt # NULL
  /\ LET entries == [i \in 1 .. NEntries |-> Cell(EntriesAt, i - 1)]
     IN relocs' = relocs \o KeptEntries(entries, Cell(BlockAt, 0))
  /\ overrun' = (overrun \/ Len(relocs') > count)
  /\ consumed' = (consumed + BlockSize) % WORD
  /\ UNCHANGED <<pc, dlls, dllsCap, dll, local, count, callbacks>>

StoreFails ==
  /\ pc = "relocs"
  /\ InRelocs
  /\ EntriesAt = NULL
  /\ Fail

RelocsDone ==
  /\ pc = "relocs"
  /\ ~ InRelocs
  /\ pc' = "tls"
  /\ consumed' = 0
  /\ UNCHANGED <<dlls, dllsCap, dll, local, count, relocs, callbacks, overrun>>

----------------------------------------------------------------------------
(* pe_parse_tls_dir() *)
TlsAt == Pointer(file.tls.rva, TLS_DIRECTORY)
NoTls == file.tls.rva = 0 \/ file.tls.size = 0
CallbackArray == Cell(TlsAt, CALLBACKS)
CallbackAt == Pointer(CallbackArray - img.base + consumed, 1)
Callback == Cell(CallbackAt, 0)

TlsEnd ==
  /\ pc = "tls"
  /\ ~ NoTls => TlsAt # NULL /\ CallbackArray = 0
  /\ pc' = "loaded"
  /\ UNCHANGED walkVars

TlsBegin ==
  /\ pc = "tls"
  /\ ~ NoTls
  /\ TlsAt # NULL
  /\ CallbackArray # 0
  /\ CallbackArray >= img.base
  /\ pc' = "callbacks"
  /\ UNCHANGED walkVars

TlsFails ==
  /\ pc = "tls"
  /\ ~ NoTls
  /\ TlsAt # NULL => CallbackArray # 0 /\ CallbackArray < img.base
  /\ Fail

(* A fault: the bound on the array is off by one. *)
RoomForOneMore == Len(callbacks) <= PE_MAX_TLS_CALLBACKS
RoomForCallback == Len(callbacks) < PE_MAX_TLS_CALLBACKS

(* A fault: a callback below ImageBase is kept. *)
ReadAnyCallback ==
  /\ pc = "callbacks"
  /\ CallbackAt # NULL
  /\ Callback # 0
  /\ RoomForCallback
  /\ callbacks' = Append(callbacks, Callback - img.base)
  /\ consumed' = consumed + 1
  /\ UNCHANGED <<pc, dlls, dllsCap, dll, local, count, relocs, overrun>>

ReadCallback ==
  /\ pc = "callbacks"
  /\ CallbackAt # NULL
  /\ Callback # 0
  /\ Callback >= img.base
  /\ RoomForCallback
  /\ callbacks' = Append(callbacks, Callback - img.base)
  /\ overrun' = (overrun \/ Len(callbacks) >= PE_MAX_TLS_CALLBACKS)
  /\ consumed' = consumed + 1
  /\ UNCHANGED <<pc, dlls, dllsCap, dll, local, count, relocs>>

CallbacksDone ==
  /\ pc = "callbacks"
  /\ CallbackAt # NULL
  /\ Callback = 0
  /\ pc' = "loaded"
  /\ UNCHANGED walkVars

CallbacksFail ==
  /\ pc = "callbacks"
  /\ CallbackAt # NULL =>
       Callback # 0 /\ (Callback < img.base \/ ~ RoomForCallback)
  /\ Fail

TableStep ==
  /\ \/ NoImports \/ CopyDescriptor \/ DirectoryFails
     \/ ImportsEnd \/ BeginDll \/ DllFails
     \/ CopyThunk \/ ThunksFail \/ AddFunction \/ FunctionFails \/ DllDone
     \/ CountBlock \/ CountFails \/ CountDone \/ AllocFails
     \/ StoreBlock \/ StoreFails \/ RelocsDone
     \/ TlsEnd \/ TlsBegin \/ TlsFails \/ ReadCallback \/ CallbacksDone \/ CallbacksFail
  /\ UNCHANGED <<file, img>>
=============================================================================
