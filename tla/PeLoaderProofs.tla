---------------------------- MODULE PeLoaderProofs ----------------------------
(***************************************************************************)
(* What the loader promises of any set of files: that it reads only what   *)
(* is in the file, keeps its arrays in bounds, and returns an image with   *)
(* the imports the file's tables list.                                     *)
(*                                                                         *)
(* The lemmas speak of a file f and an image of it as of any two values,   *)
(* so that they hold of a state and of the one after it.                   *)
(***************************************************************************)
EXTENDS PeLoader, Arithmetic, SequenceTheorems

Image ==
  [base : Address \ {0}, entryRva : Address, sizeOfImage : Address,
   sizeOfHeaders : Address, rawSize : Nat \ {0}, sections : Seq(Section)]

(* image was read from f: its size is the file's and its sections end within. *)
ReadFrom(f, image) ==
  /\ image \in Image
  /\ f.cells \in [0 .. image.rawSize - 1 -> Address]
  /\ {f.imports.rva, f.relocs.rva, f.relocs.size, f.tls.rva, f.tls.size} \subseteq Address
  /\ \A i \in DOMAIN image.sections :
       LET s == image.sections[i]
       IN /\ s.fileOff + s.fsize <= image.rawSize
          /\ s.vsize = 0 => s.fsize = 0

PointerIn(image, rva, len) == pe_rva_to_ptr(image, rva % WORD, len)

LEMMA WordFacts ==
  /\ WORD \in Nat \ {0} /\ ORDINAL_FLAG \in Nat /\ WORD = ORDINAL_FLAG + ORDINAL_FLAG
  /\ WORD > 35
  /\ \A n \in Int : n % WORD \in Address
  /\ \A n \in Int : Int32(n) \in -ORDINAL_FLAG .. ORDINAL_FLAG - 1
  /\ \A n \in Nat : n < ORDINAL_FLAG => Int32(n) = n
<1>1. /\ WORD \in Nat \ {0} /\ ORDINAL_FLAG \in Nat /\ WORD = ORDINAL_FLAG + ORDINAL_FLAG
      /\ WORD > 35
  BY PageAssumption, TablesAssumption DEF ORDINAL_FLAG
<1>2. \A n \in Int : n % WORD \in Address
  BY <1>1 DEF Address
<1>3. \A n \in Int : Int32(n) \in -ORDINAL_FLAG .. ORDINAL_FLAG - 1
  <2> TAKE n \in Int
  <2>1. n + ORDINAL_FLAG \in Int
    BY <1>1
  <2>2. (n + ORDINAL_FLAG) % WORD \in 0 .. WORD - 1
    BY <1>2, <2>1 DEF Address
  <2>3. Int32(n) = ((n + ORDINAL_FLAG) % WORD) - ORDINAL_FLAG
    BY DEF Int32, ORDINAL_FLAG
  <2> QED
    BY ONLY <1>1, <2>2, <2>3
<1>4. \A n \in Nat : n < ORDINAL_FLAG => Int32(n) = n
  <2> TAKE n \in Nat
  <2> HAVE n < ORDINAL_FLAG
  <2>1. n + ORDINAL_FLAG \in Nat /\ n + ORDINAL_FLAG < WORD
    BY <1>1
  <2>2. (n + ORDINAL_FLAG) % WORD = n + ORDINAL_FLAG
    BY <1>1, <2>1, SmallMod
  <2>3. Int32(n) = ((n + ORDINAL_FLAG) % WORD) - ORDINAL_FLAG
    BY DEF Int32, ORDINAL_FLAG
  <2> QED
    BY ONLY <1>1, <2>2, <2>3, n \in Nat
<1> QED
  BY <1>1, <1>2, <1>3, <1>4

(* A pointer that is not NULL points at bytes of the file. *)
LEMMA PointerInside ==
  ASSUME NEW f, NEW image, ReadFrom(f, image), NEW rva \in Int, NEW len \in Nat,
         PointerIn(image, rva, len) # NULL
  PROVE  /\ PointerIn(image, rva, len) \in Nat
         /\ PointerIn(image, rva, len) + len <= image.rawSize
<1> DEFINE a == rva % WORD
           C == Covering(image, a, len)
           s == image.sections[CHOOSE i \in C : \A j \in C : i <= j]
<1>1. a \in Nat
  BY WordFacts DEF Address
<1>2. image \in Image /\ image.rawSize \in Nat /\ image.sizeOfHeaders \in Nat
  BY DEF ReadFrom, Image, Address
<1>3. PointerIn(image, rva, len) = pe_rva_to_ptr(image, a, len)
  BY DEF PointerIn
<1> HIDE DEF a
<1>4. CASE a < image.sizeOfHeaders
  BY <1>1, <1>2, <1>3, <1>4 DEF pe_rva_to_ptr, NULL
<1>5. CASE ~ (a < image.sizeOfHeaders)
  <2>1. C # {} /\ PointerIn(image, rva, len) = SectionOffset(image, s, a, len)
    BY <1>3, <1>5 DEF pe_rva_to_ptr, NULL
  <2>2. C \subseteq DOMAIN image.sections /\ C \subseteq Nat
    BY <1>2 DEF Covering, Image
  <2>3. \E i \in C : \A j \in C : i <= j
    BY <2>1, <2>2, LeastElement
  <2> DEFINE m == CHOOSE i \in C : \A j \in C : i <= j
  <2>4. m \in C
    <3> HIDE DEF C
    <3> QED
      BY <2>3
  <2>5. s \in Section /\ a >= s.rva
    <3>1. s = image.sections[m] /\ m \in DOMAIN image.sections
      BY <2>2, <2>4
    <3>2. a >= image.sections[m].rva
      <4> HIDE DEF m
      <4> QED
        BY <2>4 DEF Covering
    <3> HIDE DEF m, s
    <3> QED
      BY <1>2, <3>1, <3>2 DEF Image
  <2> HIDE DEF s, C
  <2>6. s.rva \in Nat /\ s.fsize \in Nat /\ s.fileOff \in Nat
    BY <2>5 DEF Section, Address
  <2> QED
    BY <1>1, <1>2, <2>1, <2>5, <2>6 DEF SectionOffset, NULL
<1> QED
  BY <1>4, <1>5

LEMMA CellsTyped ==
  ASSUME NEW f, NEW image, ReadFrom(f, image), NEW rva \in Int, NEW len \in Nat,
         PointerIn(image, rva, len) # NULL, NEW k \in 0 .. len - 1
  PROVE  f.cells[PointerIn(image, rva, len) + k] \in Address
<1> DEFINE p == PointerIn(image, rva, len)
<1>1. p \in Nat /\ p + len <= image.rawSize
  BY PointerInside
<1>2. f.cells \in [0 .. image.rawSize - 1 -> Address] /\ image.rawSize \in Nat
  BY DEF ReadFrom, Image
<1> HIDE DEF p
<1>3. p + k \in 0 .. image.rawSize - 1
  BY <1>1, <1>2
<1> QED
  BY <1>2, <1>3 DEF p

(* read_c_string() on f. *)
CString(f, image, rva) ==
  LET ptr(i) == PointerIn(image, rva + i, 1)
      stops  == {i \in 0 .. NAME_CAP - 2 : ptr(i) = NULL \/ f.cells[ptr(i) + 0] = 0}
      n      == IF stops = {} THEN NAME_CAP - 1 ELSE Min(stops)
  IN IF stops # {} /\ ptr(n) = NULL
       THEN Unreadable
       ELSE [i \in 1 .. n |-> f.cells[ptr(i - 1) + 0]]

LEMMA CStringMeans ==
  ASSUME NEW rva
  PROVE  read_c_string(rva, NAME_CAP) = CString(file, img, rva)
BY DEF read_c_string, CString, Pointer, PointerIn, Cell

LEMMA CStringTyped ==
  ASSUME NEW f, NEW image, ReadFrom(f, image), NEW rva \in Nat,
         CString(f, image, rva) # Unreadable
  PROVE  CString(f, image, rva) \in Seq(Address)
<1> DEFINE ptr(i) == PointerIn(image, rva + i, 1)
           stops  == {i \in 0 .. NAME_CAP - 2 : ptr(i) = NULL \/ f.cells[ptr(i) + 0] = 0}
           n      == IF stops = {} THEN NAME_CAP - 1 ELSE Min(stops)
           text   == [i \in 1 .. n |-> f.cells[ptr(i - 1) + 0]]
<1>1. CString(f, image, rva) = text
  BY DEF CString
<1>2. stops \subseteq Nat /\ NAME_CAP \in Nat \ {0}
  BY TablesAssumption
<1>3. n \in Nat /\ \A i \in 0 .. n - 1 : i \in 0 .. NAME_CAP - 2 /\ i \notin stops
  <2>1. CASE stops = {}
    BY <1>2, <2>1
  <2>2. CASE stops # {}
    <3>1. \E m \in stops : \A k \in stops : m <= k
      BY <1>2, <2>2, LeastElement
    <3>2. n = CHOOSE m \in stops : \A k \in stops : m <= k
      BY <2>2 DEF Min
    <3>3. n \in stops /\ \A k \in stops : n <= k
      <4> HIDE DEF stops, n
      <4> QED
        BY <3>1, <3>2
    <3>4. n \in 0 .. NAME_CAP - 2
      BY <3>3
    <3> HIDE DEF stops, n
    <3> QED
      BY <1>2, <3>3, <3>4
  <2> QED
    BY <2>1, <2>2
<1>4. \A i \in 0 .. n - 1 : ptr(i) # NULL
  BY <1>3
<1>5. \A i \in 1 .. n : f.cells[ptr(i - 1) + 0] \in Address
  <2> TAKE i \in 1 .. n
  <2> HIDE DEF n
  <2>1. i - 1 \in 0 .. n - 1 /\ rva + (i - 1) \in Int /\ 0 \in 0 .. 1 - 1 /\ 1 \in Nat
    BY <1>3
  <2>2. ptr(i - 1) # NULL
    BY <1>4, <2>1
  <2> QED
    BY <2>1, <2>2, CellsTyped
<1> HIDE DEF n, ptr
<1>6. text \in Seq(Address)
  BY <1>3, <1>5
<1> QED
  BY <1>1, <1>6

----------------------------------------------------------------------------
(* The invariant, part by part. *)

Func == [name : Seq(Address), iatRva : Address]
Dll == [name : Seq(Address), funcs : Seq(Func)]
OpenDll ==
  [name : Seq(Address), iat : Address, funcs : Seq(Func), cap : Nat,
   thunks : Address, at : Nat]

Before == {"read", "headers", "sections"}
Reading == {"imports", "descriptor", "thunks", "function"}
After == {"count", "relocs", "tls", "callbacks", "loaded"}
Walking == pc \in Reading \union After \/ result = "loaded"

(* How far the loader is, and whether it still holds the file's bytes. *)
Control ==
  /\ pc \in Before \union Reading \union After \union {"fail", "end"}
  /\ result \in {"none", "loaded", "rejected"}
  /\ pc = "end" <=> result # "none"
  /\ rawLive \in BOOLEAN
  /\ result = "loaded" \/ pc \notin {"read", "end"} => rawLive
  /\ result = "rejected" \/ pc = "read" => ~ rawLive

FileRead ==
  /\ file \in Files
  /\ pc = "sections" \/ Walking => ReadFrom(file, img)

(* The array of callbacks that is being read. *)
TlsIn(f, image) == PointerIn(image, f.tls.rva, TLS_DIRECTORY)
ArrayIn(f, image) == f.cells[TlsIn(f, image) + CALLBACKS]
ArrayStands(f, image) == TlsIn(f, image) # NULL /\ ArrayIn(f, image) >= image.base

TablesTyped ==
  /\ dlls \in Seq(Dll) /\ dllsCap \in Nat
  /\ consumed \in Nat /\ count \in -ORDINAL_FLAG .. ORDINAL_FLAG - 1
  /\ callbacks \in Seq(Address) /\ overrun \in BOOLEAN
  /\ pc = "descriptor" => local \in [0 .. DESCRIPTOR - 1 -> Address]
  /\ pc \in {"thunks", "function"} => dll \in OpenDll
  /\ pc = "function" => local \in Address
  /\ pc = "callbacks" => ArrayStands(file, img)

(* What is stored next fits: a DLL that is being read has its place. *)
Room ==
  /\ Len(dlls) <= dllsCap
  /\ pc \in {"thunks", "function"} => Len(dlls) < dllsCap /\ Len(dll.funcs) <= dll.cap

(* The relocations are not touched before their walk. *)
RelocsFresh ==
  /\ pc \in Before \union Reading => count = 0
  /\ pc \in Before \union Reading \union {"count"} => relocs = <<>>

LoaderInvariant == Control /\ FileRead /\ TablesTyped /\ Room /\ RelocsFresh

LEMMA LoaderInitHolds == LoaderInit => LoaderInvariant
<1> SUFFICES ASSUME LoaderInit PROVE LoaderInvariant
  OBVIOUS
<1>1. -ORDINAL_FLAG <= 0 /\ 0 <= ORDINAL_FLAG - 1 /\ ORDINAL_FLAG \in Nat
  BY WordFacts
<1> QED
  <2> USE DEF LoaderInit, TablesInit, Before, Reading, After, Walking
  <2>1. Control
    BY DEF Control
  <2>2. FileRead
    BY DEF FileRead
  <2>3. TablesTyped
    <3>1. dlls \in Seq(Dll) /\ callbacks \in Seq(Address)
      OBVIOUS
    <3>2. count \in -ORDINAL_FLAG .. ORDINAL_FLAG - 1
      BY <1>1
    <3>3. consumed \in Nat /\ dllsCap \in Nat /\ overrun \in BOOLEAN
      OBVIOUS
    <3> QED
      BY <3>1, <3>2, <3>3 DEF TablesTyped
  <2>4. Room
    BY DEF Room
  <2>5. RelocsFresh
    BY DEF RelocsFresh
  <2> QED
    BY <2>1, <2>2, <2>3, <2>4, <2>5 DEF LoaderInvariant

(* Steps that only move on, keeping what the walks have built. *)
Unread == UNCHANGED <<file, img, rawLive, result>>

LEMMA FailKeeps ==
  ASSUME LoaderInvariant, Fail, Unread, pc \notin {"read", "end"}
  PROVE  LoaderInvariant'
<1> USE DEF LoaderInvariant, Before, Reading, After, Walking, Fail, Unread, walkVars
<1>1. Control'
  BY DEF Control
<1>2. FileRead'
  BY DEF Control, FileRead
<1>3. TablesTyped'
  BY DEF TablesTyped
<1>4. Room'
  BY DEF Room
<1>5. RelocsFresh'
  BY DEF RelocsFresh
<1> QED
  BY <1>1, <1>2, <1>3, <1>4, <1>5

LEMMA CapacityGrows ==
  ASSUME NEW cap \in Nat, NEW n \in Nat, n <= cap
  PROVE  ensure_capacity(cap, n) \in Nat /\ n < ensure_capacity(cap, n)
BY TablesAssumption DEF ensure_capacity

LEMMA FuncNameTyped ==
  ASSUME ReadFrom(file, img), local \in Address, NameReadable
  PROVE  FuncName \in Seq(Address)
<1>1. CASE ByOrdinal
  <2>1. HASH \in Address /\ Ordinal \in Address
    BY WordFacts, TablesAssumption DEF HASH, Address, Ordinal, ORDINAL_FLAG
  <2> QED
    BY <1>1, <2>1 DEF FuncName
<1>2. CASE ~ ByOrdinal
  <2>1. FuncName = CString(file, img, local + HINT) /\ FuncName # Unreadable
    BY <1>2, CStringMeans DEF FuncName, NameReadable
  <2>2. local + HINT \in Nat
    BY DEF Address, HINT
  <2> QED
    BY <2>1, <2>2, CStringTyped
<1> QED
  BY <1>1, <1>2

LEMMA ImportStepKeeps ==
  ASSUME LoaderInvariant, Unread,
         \/ NoImports \/ CopyDescriptor \/ ImportsEnd \/ BeginDll
         \/ CopyThunk \/ AddFunction \/ DllDone
  PROVE  LoaderInvariant'
<1> USE DEF Before, Reading, After, Walking, walkVars
<1>a. /\ pc \in Reading => ReadFrom(file, img)
      /\ file' = file /\ img' = img /\ rawLive' = rawLive /\ result' = result
      /\ Control /\ FileRead /\ TablesTyped /\ Room /\ RelocsFresh
  BY DEF LoaderInvariant, FileRead, Unread
<1>b. /\ pc \in Reading /\ pc' \in Reading \union {"count"}
      /\ callbacks' = callbacks /\ count' = count /\ relocs' = relocs
  BY <1>a DEF NoImports, CopyDescriptor, ImportsEnd, BeginDll, CopyThunk, AddFunction, DllDone
<1>1. Control'
  BY <1>a, <1>b DEF Control
<1>2. FileRead'
  BY <1>a, <1>b DEF FileRead
<1>3. RelocsFresh'
  BY <1>a, <1>b DEF RelocsFresh
<1>4. TablesTyped' /\ Room'
  <2>1. CASE NoImports
    BY <1>a, <2>1 DEF NoImports, TablesTyped, Room
  <2>2. CASE CopyDescriptor
    <3> DEFINE rva == file.imports.rva + consumed
    <3>1. rva \in Int /\ DESCRIPTOR \in Nat
      BY <1>a, <1>b DEF ReadFrom, TablesTyped, Address, DESCRIPTOR
    <3>2. DescriptorAt = PointerIn(img, rva, DESCRIPTOR) /\ DescriptorAt # NULL
      BY <2>2 DEF CopyDescriptor, DescriptorAt, Pointer, PointerIn
    <3> HIDE DEF rva
    <3>3. \A k \in 0 .. DESCRIPTOR - 1 : Cell(DescriptorAt, k) \in Address
      BY <1>a, <1>b, <3>1, <3>2, CellsTyped DEF Cell
    <3>4. local' \in [0 .. DESCRIPTOR - 1 -> Address]
      BY <2>2, <3>3 DEF CopyDescriptor
    <3> QED
      BY <1>a, <2>2, <3>4 DEF CopyDescriptor, TablesTyped, Room
  <2>3. CASE ImportsEnd
    BY <1>a, <2>3 DEF ImportsEnd, TablesTyped, Room
  <2>4. CASE BeginDll
    <3>1. local \in [0 .. DESCRIPTOR - 1 -> Address]
      BY <1>a, <2>4 DEF BeginDll, TablesTyped
    <3>2. local[0] \in Address /\ local[3] \in Address /\ local[4] \in Address
      BY <3>1 DEF DESCRIPTOR
    <3>3. DllName \in Seq(Address)
      <4>1. DllName = CString(file, img, local[3]) /\ DllName # Unreadable
        BY <2>4, CStringMeans DEF BeginDll, DllName
      <4>2. local[3] \in Nat
        BY <3>2 DEF Address
      <4> QED
        BY <1>a, <1>b, <4>1, <4>2, CStringTyped
    <3>4. dll' \in OpenDll /\ Len(dll'.funcs) <= dll'.cap
      <4>1. <<>> \in Seq(Func) /\ Len(<<>>) = 0
        OBVIOUS
      <4> QED
        BY <2>4, <3>2, <3>3, <4>1 DEF BeginDll, OpenDll
    <3>5. dllsCap' \in Nat /\ Len(dlls) < dllsCap' /\ Len(dlls) \in Nat
      BY <1>a, <2>4, CapacityGrows DEF BeginDll, TablesTyped, Room
    <3>6. overrun' \in BOOLEAN
      BY <2>4 DEF BeginDll
    <3> QED
      BY <1>a, <2>4, <3>4, <3>5, <3>6 DEF BeginDll, TablesTyped, Room
  <2>5. CASE CopyThunk
    <3>1. dll \in OpenDll /\ Len(dlls) < dllsCap /\ Len(dll.funcs) <= dll.cap
      BY <1>a, <2>5 DEF CopyThunk, TablesTyped, Room
    <3>2. dll.thunks + dll.at \in Int
      BY <3>1 DEF OpenDll, Address
    <3>3. local' \in Address
      BY <1>a, <1>b, <2>5, <3>2, CellsTyped DEF CopyThunk, ThunkAt, Pointer, PointerIn, Cell
    <3> QED
      BY <1>a, <2>5, <3>1, <3>3 DEF CopyThunk, TablesTyped, Room
  <2>6. CASE AddFunction
    <3> DEFINE cap == ensure_capacity(dll.cap, Len(dll.funcs))
               fn  == [name |-> FuncName, iatRva |-> IatSlot]
    <3>1. /\ dll \in OpenDll /\ local \in Address
          /\ Len(dlls) < dllsCap /\ Len(dll.funcs) <= dll.cap
      BY <1>a, <2>6 DEF AddFunction, TablesTyped, Room
    <3>2. dll.cap \in Nat /\ Len(dll.funcs) \in Nat /\ dll.at \in Nat /\ dll.iat \in Address
      BY <3>1 DEF OpenDll
    <3>3. cap \in Nat /\ Len(dll.funcs) + 1 <= cap
      <4> DEFINE c == dll.cap
                 n == Len(dll.funcs)
      <4>1. c \in Nat /\ n \in Nat /\ n <= c
        BY <3>1, <3>2
      <4> HIDE DEF c, n
      <4>2. ensure_capacity(c, n) \in Nat /\ n < ensure_capacity(c, n)
        BY <4>1, CapacityGrows
      <4>3. n + 1 <= ensure_capacity(c, n)
        BY <4>1, <4>2
      <4> QED
        BY <4>2, <4>3 DEF c, n
    <3>4. fn \in Func
      <4>1. FuncName \in Seq(Address)
        BY <1>a, <1>b, <2>6, <3>1, FuncNameTyped DEF AddFunction
      <4>2. IatSlot \in Address
        <5>1. dll.iat + dll.at \in Int
          BY <3>2 DEF Address
        <5> QED
          BY <5>1, WordFacts DEF IatSlot
      <4> QED
        BY <4>1, <4>2 DEF Func
    <3>5. dll' = [dll EXCEPT !.cap = cap, !.at = dll.at + 1, !.funcs = Append(dll.funcs, fn)]
      BY <2>6 DEF AddFunction
    <3>6. dll.funcs \in Seq(Func)
      BY <3>1 DEF OpenDll
    <3>7. Append(dll.funcs, fn) \in Seq(Func) /\ Len(Append(dll.funcs, fn)) = Len(dll.funcs) + 1
      BY <3>4, <3>6
    <3> HIDE DEF cap, fn
    <3> DEFINE funcs == Append(dll.funcs, fn)
    <3>a. funcs \in Seq(Func) /\ Len(funcs) <= cap
      BY <3>2, <3>3, <3>7
    <3>b. dll' = [dll EXCEPT !.cap = cap, !.at = dll.at + 1, !.funcs = funcs]
      BY <3>5
    <3> HIDE DEF funcs
    <3>8. dll' \in OpenDll /\ Len(dll'.funcs) <= dll'.cap
      <4>1. dll' = [name |-> dll.name, iat |-> dll.iat, funcs |-> funcs, cap |-> cap,
                    thunks |-> dll.thunks, at |-> dll.at + 1]
        BY <3>1, <3>b DEF OpenDll
      <4>2. dll.name \in Seq(Address) /\ dll.iat \in Address /\ dll.thunks \in Address
        BY <3>1 DEF OpenDll
      <4>3. dll.at + 1 \in Nat
        BY <3>2
      <4> QED
        BY ONLY <3>3, <3>a, <4>1, <4>2, <4>3 DEF OpenDll
    <3>9. overrun' \in BOOLEAN
      BY <2>6 DEF AddFunction
    <3> QED
      BY <1>a, <2>6, <3>1, <3>8, <3>9 DEF AddFunction, TablesTyped, Room
  <2>7. CASE DllDone
    <3> DEFINE new == [name |-> dll.name, funcs |-> dll.funcs]
    <3>1. dll \in OpenDll /\ Len(dlls) < dllsCap /\ dlls \in Seq(Dll) /\ dllsCap \in Nat
      BY <1>a, <2>7 DEF DllDone, TablesTyped, Room
    <3>2. new \in Dll
      BY <3>1 DEF OpenDll, Dll
    <3>3. dlls' = Append(dlls, new)
      BY <2>7 DEF DllDone
    <3> HIDE DEF new
    <3>4. dlls' \in Seq(Dll) /\ Len(dlls') <= dllsCap
      BY <3>1, <3>2, <3>3
    <3>5. consumed' \in Nat
      BY <1>a, <2>7 DEF DllDone, TablesTyped, DESCRIPTOR
    <3> QED
      BY <1>a, <2>7, <3>4, <3>5 DEF DllDone, TablesTyped, Room
  <2> QED
    BY <2>1, <2>2, <2>3, <2>4, <2>5, <2>6, <2>7
<1> QED
  BY <1>1, <1>2, <1>3, <1>4 DEF LoaderInvariant

----------------------------------------------------------------------------
(* The two walks over the relocation blocks of f. *)

BlockIn(f, image, at) == PointerIn(image, f.relocs.rva + at, BLOCK)
SizeIn(f, image, at) == f.cells[BlockIn(f, image, at) + 1]

LEMMA BlockMeans ==
  /\ BlockAt = BlockIn(file, img, consumed)
  /\ BlockSize = SizeIn(file, img, consumed)
  /\ NEntries = SizeIn(file, img, consumed) - BLOCK
BY DEF BlockAt, BlockIn, BlockSize, SizeIn, NEntries, Pointer, PointerIn, Cell

LEMMA SizeTyped ==
  ASSUME NEW f, NEW image, ReadFrom(f, image), NEW at \in Nat, BlockIn(f, image, at) # NULL
  PROVE  SizeIn(f, image, at) \in Address
<1>1. f.relocs.rva + at \in Int /\ BLOCK \in Nat /\ 1 \in 0 .. BLOCK - 1
  BY DEF ReadFrom, Address, BLOCK
<1> QED
  BY <1>1, CellsTyped DEF BlockIn, SizeIn

LEMMA RelocStepKeeps ==
  ASSUME LoaderInvariant, Unread,
         \/ CountBlock \/ CountDone \/ RelocsDone
         \/ StoreBlock /\ BlockAt # NULL
  PROVE  LoaderInvariant'
<1> USE DEF Before, Reading, After, Walking, walkVars
<1>a. /\ pc \in {"count", "relocs"}
      /\ file' = file /\ img' = img /\ rawLive' = rawLive /\ result' = result
      /\ Control /\ FileRead /\ TablesTyped /\ Room /\ RelocsFresh
      /\ UNCHANGED <<dlls, dllsCap, dll, local, callbacks>>
  BY DEF LoaderInvariant, Unread, CountBlock, CountDone, RelocsDone, StoreBlock
<1>b. ReadFrom(file, img) /\ consumed \in Nat /\ count \in Int /\ overrun \in BOOLEAN
  BY <1>a, WordFacts DEF FileRead, TablesTyped
<1>1. Control' /\ FileRead' /\ Room' /\ RelocsFresh'
  <2>1. pc' \in {"count", "relocs", "tls"} /\ (pc' = "count" => relocs' = relocs /\ pc = "count")
    BY <1>a DEF CountBlock, CountDone, RelocsDone, StoreBlock
  <2> QED
    BY <1>a, <2>1 DEF Control, FileRead, Room, RelocsFresh
<1>2. TablesTyped'
  <2> SUFFICES /\ consumed' \in Nat
               /\ count' \in -ORDINAL_FLAG .. ORDINAL_FLAG - 1
               /\ overrun' \in BOOLEAN
               /\ pc' \in {"count", "relocs", "tls"}
    BY <1>a DEF TablesTyped
  <2>1. ASSUME BlockAt # NULL
        PROVE  NEntries \in Int /\ (consumed + BlockSize) % WORD \in Nat
    <3>1. BlockSize \in Address
      BY <1>b, <2>1, BlockMeans, SizeTyped
    <3>2. BlockSize \in Int /\ consumed + BlockSize \in Int
      BY <1>b, <3>1 DEF Address
    <3>3. (consumed + BlockSize) % WORD \in Nat
      <4>1. (consumed + BlockSize) % WORD \in Address
        BY ONLY <3>2, WordFacts
      <4> QED
        BY ONLY <4>1 DEF Address
    <3> QED
      BY <3>2, <3>3 DEF NEntries, BLOCK
  <2>2. CASE CountBlock
    <3>1. count + NEntries \in Int
      BY <1>b, <2>1, <2>2 DEF CountBlock
    <3> QED
      BY <1>a, <1>b, <2>1, <2>2, <3>1, WordFacts DEF CountBlock
  <2>3. CASE CountDone
    BY <1>a, <1>b, <2>3 DEF CountDone, TablesTyped
  <2>4. CASE RelocsDone
    BY <1>a, <1>b, <2>4 DEF RelocsDone, TablesTyped
  <2>5. CASE StoreBlock /\ BlockAt # NULL
    BY <1>a, <1>b, <2>1, <2>5 DEF StoreBlock, TablesTyped
  <2> QED
    BY <2>2, <2>3, <2>4, <2>5
<1> QED
  BY <1>1, <1>2 DEF LoaderInvariant

----------------------------------------------------------------------------
(* The TLS callbacks, and the steps of pe_image_load() itself. *)

LEMMA TlsStepKeeps ==
  ASSUME LoaderInvariant, Unread,
         TlsEnd \/ TlsBegin \/ ReadCallback \/ CallbacksDone
  PROVE  LoaderInvariant'
<1> USE DEF Before, Reading, After, Walking, walkVars
<1>a. /\ pc \in {"tls", "callbacks"} /\ pc' \in {"callbacks", "loaded"}
      /\ file' = file /\ img' = img /\ rawLive' = rawLive /\ result' = result
      /\ Control /\ FileRead /\ TablesTyped /\ Room /\ RelocsFresh
      /\ UNCHANGED <<dlls, dllsCap, dll, local, count, relocs>>
  BY DEF LoaderInvariant, Unread, TlsEnd, TlsBegin, ReadCallback, CallbacksDone
<1>b. ReadFrom(file, img) /\ img.base \in Nat /\ consumed \in Nat
  BY <1>a DEF FileRead, TablesTyped, ReadFrom, Image, Address
<1>1. Control' /\ FileRead' /\ Room' /\ RelocsFresh'
  BY <1>a DEF Control, FileRead, Room, RelocsFresh
<1>2. TlsAt = TlsIn(file, img) /\ CallbackArray = ArrayIn(file, img)
  BY DEF TlsAt, TlsIn, CallbackArray, ArrayIn, Pointer, PointerIn, Cell
<1>3. TablesTyped'
  <2>1. CASE TlsEnd
    BY <1>a, <2>1 DEF TlsEnd, TablesTyped
  <2>2. CASE TlsBegin
    BY <1>a, <1>2, <2>2 DEF TlsBegin, TablesTyped, ArrayStands
  <2>3. CASE CallbacksDone
    BY <1>a, <2>3 DEF CallbacksDone, TablesTyped
  <2>4. CASE ReadCallback
    <3>1. ArrayStands(file, img)
      BY <1>a, <2>4 DEF ReadCallback, TablesTyped
    <3>2. ArrayIn(file, img) \in Address
      <4>1. file.tls.rva \in Int /\ TLS_DIRECTORY \in Nat /\ CALLBACKS \in 0 .. TLS_DIRECTORY - 1
        BY <1>b DEF ReadFrom, Address, TLS_DIRECTORY, CALLBACKS
      <4> QED
        BY <1>b, <3>1, <4>1, CellsTyped DEF ArrayIn, TlsIn, ArrayStands
    <3> DEFINE rva == CallbackArray - img.base + consumed
    <3>3. rva \in Int
      BY <1>b, <1>2, <3>2 DEF Address
    <3>4. CallbackAt = PointerIn(img, rva, 1)
      BY DEF CallbackAt, Pointer, PointerIn
    <3> HIDE DEF rva
    <3>5. Callback \in Address
      BY <1>b, <2>4, <3>3, <3>4, CellsTyped DEF ReadCallback, Callback, Cell
    <3>6. Callback - img.base \in Address
      <4>1. Callback >= img.base
        BY <2>4 DEF ReadCallback
      <4> QED
        BY ONLY <1>b, <3>5, <4>1, PageAssumption DEF Address
    <3>7. callbacks' \in Seq(Address)
      BY <1>a, <2>4, <3>6 DEF ReadCallback, TablesTyped
    <3> QED
      BY <1>a, <1>b, <2>4, <3>1, <3>7 DEF ReadCallback, TablesTyped
  <2> QED
    BY <2>1, <2>2, <2>3, <2>4
<1> QED
  BY <1>1, <1>3 DEF LoaderInvariant

LEMMA HeadersKeep ==
  ASSUME LoaderInvariant, CheckHeaders
  PROVE  LoaderInvariant'
<1> USE DEF Before, Reading, After, Walking, walkVars
<1>a. /\ pc = "headers" /\ pc' = "sections" /\ file.flaws = {} /\ file.base # 0
      /\ UNCHANGED <<file, walkVars, rawLive, result>>
      /\ Control /\ FileRead /\ TablesTyped /\ Room /\ RelocsFresh
  BY DEF LoaderInvariant, CheckHeaders
<1>1. Control' /\ Room' /\ RelocsFresh' /\ TablesTyped'
  BY <1>a DEF Control, Room, RelocsFresh, TablesTyped
<1>2. FileRead'
  <2> DEFINE n == Cardinality(DOMAIN file.cells)
  <2>1. /\ file \in Files /\ n \in Nat \ {0} /\ file.cells \in [0 .. n - 1 -> Address]
        /\ {file.base, file.entryRva, file.sizeOfImage, file.sizeOfHeaders} \subseteq Address
        /\ {file.imports.rva, file.relocs.rva, file.relocs.size, file.tls.rva, file.tls.size}
             \subseteq Address
    BY <1>a, FilesAssumption DEF FileRead
  <2> HIDE DEF n
  <2>2. img' = [base |-> file.base, entryRva |-> file.entryRva,
                sizeOfImage |-> file.sizeOfImage, sizeOfHeaders |-> file.sizeOfHeaders,
                rawSize |-> n, sections |-> <<>>]
    BY DEF CheckHeaders, n
  <2>3. img' \in Image /\ img'.rawSize = n /\ DOMAIN img'.sections = {}
    <3>1. <<>> \in Seq(Section) /\ DOMAIN <<>> = {}
      OBVIOUS
    <3>2. file.base \in Address \ {0}
      BY <1>a, <2>1
    <3> QED
      BY <2>1, <2>2, <3>1, <3>2 DEF Image
  <2>4. ReadFrom(file, img')
    BY <2>1, <2>3 DEF ReadFrom
  <2> QED
    BY <1>a, <2>1, <2>4 DEF FileRead
<1> QED
  BY <1>1, <1>2 DEF LoaderInvariant

LEMMA SectionsKeep ==
  ASSUME LoaderInvariant, ParseSections
  PROVE  LoaderInvariant'
<1> USE DEF Before, Reading, After, Walking, walkVars
<1>a. /\ pc = "sections" /\ pc' = "imports"
      /\ UNCHANGED <<file, walkVars, rawLive, result>>
      /\ Control /\ FileRead /\ TablesTyped /\ Room /\ RelocsFresh
  BY DEF LoaderInvariant, ParseSections
<1>1. Control' /\ Room' /\ RelocsFresh' /\ TablesTyped'
  BY <1>a DEF Control, Room, RelocsFresh, TablesTyped
<1>2. ReadFrom(file, img) /\ file.sections \in Seq(Section)
  BY <1>a, FilesAssumption DEF FileRead
<1> DEFINE fixed(s) == [s EXCEPT !.vsize = IF s.vsize # 0 THEN s.vsize ELSE s.fsize]
           ss == [i \in DOMAIN file.sections |-> fixed(file.sections[i])]
<1>3. img' = [img EXCEPT !.sections = ss]
  BY DEF ParseSections
<1>4. \A s \in Section :
        /\ fixed(s) \in Section /\ fixed(s).fileOff = s.fileOff /\ fixed(s).fsize = s.fsize
        /\ fixed(s).vsize = 0 => fixed(s).fsize = 0
  BY DEF Section
<1> HIDE DEF fixed
<1>5. ss \in Seq(Section) /\ DOMAIN ss = DOMAIN file.sections
  BY <1>2, <1>4
<1>6. \A i \in DOMAIN ss :
        /\ ss[i].fileOff + ss[i].fsize <= img.rawSize
        /\ ss[i].vsize = 0 => ss[i].fsize = 0
  <2> TAKE i \in DOMAIN ss
  <2>1. file.sections[i] \in Section /\ ss[i] = fixed(file.sections[i])
    BY <1>2
  <2>2. file.sections[i].fileOff + file.sections[i].fsize <= img.rawSize
    BY DEF ParseSections, InFile
  <2> HIDE DEF ss
  <2> QED
    BY <1>4, <2>1, <2>2
<1> HIDE DEF ss
<1>7. img' \in Image /\ img'.sections = ss /\ img'.rawSize = img.rawSize
  BY <1>2, <1>3, <1>5 DEF ReadFrom, Image
<1>8. ReadFrom(file, img')
  BY <1>2, <1>6, <1>7 DEF ReadFrom
<1> QED
  BY <1>1, <1>8, <1>a DEF LoaderInvariant, FileRead

LEMMA EndStepKeeps ==
  ASSUME LoaderInvariant,
         \/ ReadWholeFile \/ ReadFails \/ HeadersFail \/ SectionsFail
         \/ Succeed \/ Reject \/ Ended
  PROVE  LoaderInvariant'
<1> USE DEF Before, Reading, After, Walking, walkVars
<1>a. /\ UNCHANGED <<file, img, walkVars>>
      /\ Control /\ FileRead /\ TablesTyped /\ Room /\ RelocsFresh
  BY DEF LoaderInvariant, ReadWholeFile, ReadFails, HeadersFail, SectionsFail,
         Succeed, Reject, Ended, vars
<1>1. Control'
  <2>1. CASE ReadWholeFile
    BY <1>a, <2>1 DEF Control, ReadWholeFile
  <2>2. CASE ReadFails
    BY <1>a, <2>2 DEF Control, ReadFails
  <2>3. CASE HeadersFail
    BY <1>a, <2>3 DEF Control, HeadersFail
  <2>4. CASE SectionsFail
    BY <1>a, <2>4 DEF Control, SectionsFail
  <2>5. CASE Succeed
    BY <1>a, <2>5 DEF Control, Succeed
  <2>6. CASE Reject
    BY <1>a, <2>6 DEF Control, Reject
  <2>7. CASE Ended
    BY <1>a, <2>7 DEF Control, Ended, vars
  <2> QED
    BY <2>1, <2>2, <2>3, <2>4, <2>5, <2>6, <2>7
<1>2. (pc' = pc /\ result' = result) \/ pc' \in {"headers", "fail", "end"}
  BY DEF ReadWholeFile, ReadFails, HeadersFail, SectionsFail, Succeed, Reject, Ended, vars
<1>3. Walking' => Walking
  BY <1>2 DEF ReadWholeFile, ReadFails, HeadersFail, SectionsFail, Succeed, Reject, Ended, vars
<1>4. FileRead'
  BY <1>a, <1>2, <1>3 DEF FileRead
<1>5. TablesTyped' /\ Room'
  BY <1>a, <1>2 DEF TablesTyped, Room
<1>6. RelocsFresh'
  BY <1>a, <1>2 DEF RelocsFresh, ReadWholeFile, ReadFails, HeadersFail, SectionsFail,
                    Succeed, Reject, Ended, vars
<1> QED
  BY <1>1, <1>4, <1>5, <1>6 DEF LoaderInvariant

----------------------------------------------------------------------------
(* What is kept of a block are relocations, no more than it has entries. *)

KeptFrom(entries, page, i, s) ==
  IF EntryType(entries[i]) = HIGHLOW
    THEN Append(s, (page + EntryOffset(entries[i])) % WORD)
    ELSE s

(* kept[i] is what is kept of the first i entries. *)
KeptSteps(kept, entries, page) ==
  /\ kept[0] = <<>>
  /\ \A i \in 1 .. Len(entries) :
       /\ kept[i - 1] \in Seq(Address)
       /\ kept[i] = KeptFrom(entries, page, i, kept[i - 1])
  /\ KeptEntries(entries, page) = kept[Len(entries)]

LEMMA KeptByStep ==
  ASSUME NEW entries \in Seq(Address), NEW page \in Address
  PROVE  /\ \E kept : KeptSteps(kept, entries, page)
         /\ \A i \in 1 .. Len(entries), s \in Seq(Address) :
              /\ KeptFrom(entries, page, i, s) \in Seq(Address)
              /\ Len(KeptFrom(entries, page, i, s)) <= Len(s) + 1
              /\ (page + EntryOffset(entries[i])) % WORD \in Address
<1> DEFINE n == Len(entries)
           Kept(s, i) == KeptFrom(entries, page, i, s)
           step == [i \in 1 .. n |-> [s \in Seq(Address) |-> Kept(s, i)]]
           Eqn(kept) == kept = [i \in 0 .. n |-> IF i = 0 THEN <<>> ELSE Kept(kept[i - 1], i)]
           k == CHOOSE kept : Eqn(kept)
<1>1. n \in Nat /\ <<>> \in Seq(Address)
  OBVIOUS
<1>2. \A i \in 1 .. n, s \in Seq(Address) :
        /\ Kept(s, i) \in Seq(Address) /\ Len(Kept(s, i)) <= Len(s) + 1
        /\ (page + EntryOffset(entries[i])) % WORD \in Address
  <2> TAKE i \in 1 .. n, s \in Seq(Address)
  <2>0. entries[i] \in Address
    OBVIOUS
  <2>1. entries[i] \in Nat /\ page \in Nat
    BY <2>0 DEF Address
  <2>2. EntryOffset(entries[i]) \in Nat
    <3> DEFINE e == entries[i]
    <3>1. e \in Nat
      BY <2>1
    <3> HIDE DEF e
    <3>2. e % PAGE_SIZE \in 0 .. PAGE_SIZE - 1
      BY ONLY <3>1, PageAssumption, DivMod
    <3>3. e % PAGE_SIZE \in Nat
      BY ONLY <3>2, PageAssumption
    <3> QED
      BY ONLY <3>3 DEF EntryOffset, e
  <2>3. (page + EntryOffset(entries[i])) % WORD \in Address
    <3> DEFINE e == EntryOffset(entries[i])
    <3> HIDE DEF e
    <3>1. page + e \in Int
      BY <2>1, <2>2 DEF e
    <3>2. (page + e) % WORD \in Address
      BY <3>1, WordFacts
    <3> QED
      BY <3>2 DEF e
  <2> DEFINE a == (page + EntryOffset(entries[i])) % WORD
  <2> HIDE DEF a
  <2>4. Append(s, a) \in Seq(Address) /\ Len(Append(s, a)) = Len(s) + 1 /\ Len(s) \in Nat
    BY <2>3 DEF a
  <2> QED
    BY <2>4 DEF a, KeptFrom
<1>a. \A i \in 1 .. Len(entries), s \in Seq(Address) :
        /\ KeptFrom(entries, page, i, s) \in Seq(Address)
        /\ Len(KeptFrom(entries, page, i, s)) <= Len(s) + 1
        /\ (page + EntryOffset(entries[i])) % WORD \in Address
  BY <1>2
<1>3. Steps(step, n, Seq(Address))
  BY <1>2 DEF Steps
<1> HIDE DEF Kept
<1>4. PICK f : Iterates(f, step, n, <<>>, Seq(Address))
  <2> HIDE DEF step, n
  <2> QED
    BY ONLY <1>1, <1>3, Iteration
<1>5. /\ f[0] = <<>> /\ f \in [0 .. n -> Seq(Address)]
      /\ \A i \in 1 .. n : f[i] = Kept(f[i - 1], i) /\ f[i - 1] \in Seq(Address)
  <2>1. f \in [0 .. n -> Seq(Address)] /\ f[0] = <<>> /\ \A i \in 1 .. n : f[i] = step[i][f[i - 1]]
    BY ONLY <1>4 DEF Iterates
  <2>2. \A i \in 1 .. n : i - 1 \in 0 .. n
    BY ONLY <1>1
  <2>3. \A i \in 1 .. n : f[i - 1] \in Seq(Address)
    BY ONLY <2>1, <2>2
  <2>4. \A i \in 1 .. n, s \in Seq(Address) : step[i][s] = Kept(s, i)
    OBVIOUS
  <2> HIDE DEF step, n
  <2> QED
    BY ONLY <2>1, <2>3, <2>4
<1>6. Eqn(f)
  <2> HIDE DEF n, step
  <2>1. \A i \in 0 .. n : f[i] = IF i = 0 THEN <<>> ELSE Kept(f[i - 1], i)
    BY ONLY <1>1, <1>5
  <2> QED
    BY ONLY <1>5, <2>1
<1>7. Eqn(k)
  <2> HIDE DEF Eqn
  <2> QED
    BY <1>6
<1>8. KeptEntries(entries, page) = k[n]
  BY DEF KeptEntries, Kept, KeptFrom
<1> HIDE DEF k, step, n
<1>9. k[0] = <<>> /\ \A i \in 1 .. n : k[i] = Kept(k[i - 1], i)
  BY ONLY <1>1, <1>7
<1>10. k = f
  <2>1. DOMAIN k = 0 .. n /\ DOMAIN f = 0 .. n
    BY ONLY <1>5, <1>7
  <2> DEFINE T == {i \in 0 .. n : k[i] = f[i]}
  <2>2. 0 \in T
    BY ONLY <1>1, <1>5, <1>9
  <2>3. \A i \in 1 .. n : i - 1 \in T => i \in T
    <3> TAKE i \in 1 .. n
    <3>1. i \in 0 .. n
      BY ONLY <1>1
    <3> QED
      BY ONLY <1>5, <1>9, <3>1
  <2> HIDE DEF T
  <2>4. \A i \in 0 .. n : i \in T
    BY ONLY <1>1, <2>2, <2>3, Climbs
  <2>5. \A i \in 0 .. n : k[i] = f[i]
    BY ONLY <2>4 DEF T
  <2>6. k = [i \in 0 .. n |-> k[i]] /\ f = [i \in 0 .. n |-> f[i]]
    BY ONLY <1>5, <1>7
  <2> QED
    BY ONLY <2>5, <2>6
<1>11. KeptSteps(k, entries, page)
  BY <1>5, <1>8, <1>9, <1>10 DEF KeptSteps, Kept, n
<1> QED
  BY <1>a, <1>11

(* The relocations of a block's first i entries. *)
Fixups(entries, page, i) ==
  {(page + EntryOffset(entries[j])) % WORD :
     j \in {j \in 1 .. i : EntryType(entries[j]) = HIGHLOW}}

LEMMA KeptFacts ==
  ASSUME NEW entries \in Seq(Address), NEW page \in Address
  PROVE  /\ KeptEntries(entries, page) \in Seq(Address)
         /\ Len(KeptEntries(entries, page)) <= Len(entries)
         /\ Range(KeptEntries(entries, page)) = Fixups(entries, page, Len(entries))
<1> DEFINE n == Len(entries)
           e(i) == (page + EntryOffset(entries[i])) % WORD
<1>1. PICK k : KeptSteps(k, entries, page)
  BY KeptByStep
<1>2. \A i \in 1 .. n, s \in Seq(Address) :
        /\ KeptFrom(entries, page, i, s) \in Seq(Address)
        /\ Len(KeptFrom(entries, page, i, s)) <= Len(s) + 1
        /\ e(i) \in Address
  BY KeptByStep
<1>3. /\ k[0] = <<>>
      /\ \A i \in 1 .. n :
           k[i - 1] \in Seq(Address) /\ k[i] = KeptFrom(entries, page, i, k[i - 1])
      /\ KeptEntries(entries, page) = k[n]
  BY <1>1 DEF KeptSteps
<1>4. n \in Nat
  OBVIOUS
<1> DEFINE Good(i) ==
             /\ k[i] \in Seq(Address) /\ Len(k[i]) <= i
             /\ Range(k[i]) = Fixups(entries, page, i)
           T == {i \in 0 .. n : Good(i)}
<1>5. 0 \in T
  <2>1. <<>> \in Seq(Address) /\ Len(<<>>) <= 0 /\ Range(<<>>) = {}
    BY DEF Range
  <2>2. Fixups(entries, page, 0) = {}
    BY DEF Fixups
  <2>3. Good(0)
    <3> DEFINE z == k[0]
    <3>1. z = <<>>
      BY <1>3
    <3> HIDE DEF z
    <3>2. z \in Seq(Address) /\ Len(z) <= 0 /\ Range(z) = Fixups(entries, page, 0)
      BY ONLY <2>1, <2>2, <3>1
    <3> QED
      BY ONLY <3>2 DEF z
  <2>4. 0 \in 0 .. n
    BY <1>4
  <2> HIDE DEF Good, n
  <2> QED
    BY ONLY <2>3, <2>4 DEF T
<1>6. \A i \in 1 .. n : i - 1 \in T => i \in T
  <2> TAKE i \in 1 .. n
  <2> HAVE i - 1 \in T
  <2> DEFINE s == k[i - 1]
  <2>1. /\ i \in 0 .. n /\ i \in Int /\ s \in Seq(Address) /\ Len(s) <= i - 1 /\ Len(s) \in Nat
        /\ Range(s) = Fixups(entries, page, i - 1)
        /\ k[i] = KeptFrom(entries, page, i, s)
    BY <1>3, <1>4
  <2>2. k[i] \in Seq(Address) /\ Len(k[i]) <= Len(s) + 1 /\ Len(k[i]) \in Nat
    BY <1>2, <2>1
  <2>3. Len(k[i]) <= i
    BY ONLY <2>1, <2>2
  <2>4. Range(k[i]) = Fixups(entries, page, i)
    <3> HIDE DEF s
    <3>1. CASE EntryType(entries[i]) = HIGHLOW
      <4>1. k[i] = Append(s, e(i)) /\ e(i) \in Address
        BY <1>2, <2>1, <3>1 DEF KeptFrom
      <4>2. Range(Append(s, e(i))) = Range(s) \union {e(i)}
        <5> DEFINE x == e(i)
        <5>0. x \in Address
          BY <4>1
        <5> HIDE DEF x
        <5>1. /\ Append(s, x) \in Seq(Address) /\ Len(Append(s, x)) = Len(s) + 1
              /\ \A a \in 1 .. Len(s) : Append(s, x)[a] = s[a]
              /\ Append(s, x)[Len(s) + 1] = x
              /\ DOMAIN s = 1 .. Len(s) /\ DOMAIN Append(s, x) = 1 .. Len(s) + 1
          BY <2>1, <5>0
        <5>2. \A a : a \in 1 .. Len(s) + 1 <=> a \in 1 .. Len(s) \/ a = Len(s) + 1
          BY <2>1
        <5>3. Range(Append(s, x)) = Range(s) \union {x}
          BY <5>1, <5>2 DEF Range
        <5> QED
          BY <5>3 DEF x
      <4>3. Fixups(entries, page, i) = Fixups(entries, page, i - 1) \union {e(i)}
        <5>1. {j \in 1 .. i : EntryType(entries[j]) = HIGHLOW} =
                {j \in 1 .. i - 1 : EntryType(entries[j]) = HIGHLOW} \union {i}
          BY <3>1, <1>4
        <5> QED
          BY <5>1 DEF Fixups
      <4> QED
        BY <2>1, <4>1, <4>2, <4>3
    <3>2. CASE EntryType(entries[i]) # HIGHLOW
      <4>1. k[i] = s
        BY <2>1, <3>2 DEF KeptFrom
      <4>2. {j \in 1 .. i : EntryType(entries[j]) = HIGHLOW} =
              {j \in 1 .. i - 1 : EntryType(entries[j]) = HIGHLOW}
        BY <3>2, <1>4
      <4> QED
        BY <2>1, <4>1, <4>2 DEF Fixups
    <3> QED
      BY <3>1, <3>2
  <2> QED
    BY <2>1, <2>2, <2>3, <2>4
<1> HIDE DEF T
<1>7. \A i \in 0 .. n : i \in T
  BY <1>4, <1>5, <1>6, Climbs
<1>8. n \in 0 .. n
  BY <1>4
<1>9. Good(n)
  BY <1>7, <1>8 DEF T
<1> QED
  BY <1>3, <1>9

(* A path of m blocks from the start of the directory, with the count after
   each: the first walk makes it, the second one follows it. *)
Path(f, image, m, pos, tot) ==
  /\ m \in Nat /\ pos[0] = 0 /\ tot[0] = 0
  /\ \A j \in 0 .. m : pos[j] \in Nat /\ tot[j] \in Int
  /\ \A j \in 0 .. m - 1 :
       /\ pos[j] < f.relocs.size
       /\ BlockIn(f, image, pos[j]) # NULL
       /\ SizeIn(f, image, pos[j]) >= BLOCK
       /\ pos[j + 1] = (pos[j] + SizeIn(f, image, pos[j])) % WORD
       /\ tot[j + 1] = Int32(tot[j] + (SizeIn(f, image, pos[j]) - BLOCK))

(* The count has not left the range of an int. *)
Exact(f, image, m, pos, tot) ==
  /\ \A j \in 0 .. m : tot[j] \in Nat
  /\ \A j \in 0 .. m - 1 : tot[j + 1] = tot[j] + (SizeIn(f, image, pos[j]) - BLOCK)
  /\ \A j, k \in 0 .. m : j <= k => tot[j] <= tot[k]

LEMMA PathExtends ==
  ASSUME NEW f, NEW image, NEW m, NEW pos, NEW tot, Path(f, image, m, pos, tot),
         pos[m] < f.relocs.size, BlockIn(f, image, pos[m]) # NULL,
         SizeIn(f, image, pos[m]) \in Nat, SizeIn(f, image, pos[m]) >= BLOCK
  PROVE  \E pos2, tot2 :
           /\ Path(f, image, m + 1, pos2, tot2)
           /\ pos2[m + 1] = (pos[m] + SizeIn(f, image, pos[m])) % WORD
           /\ tot2[m + 1] = Int32(tot[m] + (SizeIn(f, image, pos[m]) - BLOCK))
           /\ /\ Exact(f, image, m, pos, tot)
              /\ tot[m] + (SizeIn(f, image, pos[m]) - BLOCK) < ORDINAL_FLAG
              => Exact(f, image, m + 1, pos2, tot2)
<1> DEFINE size == SizeIn(f, image, pos[m])
           p == (pos[m] + size) % WORD
           t == Int32(tot[m] + (size - BLOCK))
           pos2 == [j \in 0 .. m + 1 |-> IF j = m + 1 THEN p ELSE pos[j]]
           tot2 == [j \in 0 .. m + 1 |-> IF j = m + 1 THEN t ELSE tot[j]]
<1>1. m \in Nat /\ pos[m] \in Nat /\ tot[m] \in Int /\ size \in Nat /\ size - BLOCK \in Nat
  BY DEF Path, BLOCK
<1> HIDE DEF size
<1>2. p \in Nat
  <2>1. pos[m] + size \in Int
    BY ONLY <1>1
  <2>2. (pos[m] + size) % WORD \in Address
    BY ONLY <2>1, WordFacts
  <2> QED
    BY ONLY <2>2 DEF Address
<1>3. t \in Int
  <2>1. tot[m] + (size - BLOCK) \in Int
    BY ONLY <1>1
  <2> DEFINE a == tot[m] + (size - BLOCK)
  <2> HIDE DEF a
  <2>2. Int32(a) \in -ORDINAL_FLAG .. ORDINAL_FLAG - 1 /\ ORDINAL_FLAG \in Nat
    BY ONLY <2>1, WordFacts DEF a
  <2>3. Int32(a) \in Int
    BY ONLY <2>2
  <2> QED
    BY ONLY <2>3 DEF a
<1> HIDE DEF p, t
<1>4. /\ pos2[m + 1] = p /\ tot2[m + 1] = t
      /\ \A j \in 0 .. m : pos2[j] = pos[j] /\ tot2[j] = tot[j]
      /\ m + 1 \in Nat /\ 0 \in 0 .. m
      /\ \A j \in 0 .. m + 1 : j \in 0 .. m \/ j = m + 1
      /\ \A j \in 0 .. (m + 1) - 1 : j \in 0 .. m - 1 \/ j = m
      /\ \A j \in 0 .. m - 1 : j \in 0 .. m /\ j + 1 \in 0 .. m
      /\ m \in 0 .. m
  BY ONLY <1>1
<1> HIDE DEF pos2, tot2
<1>5. Path(f, image, m + 1, pos2, tot2)
  <2>1. pos2[0] = 0 /\ tot2[0] = 0
    BY <1>4 DEF Path
  <2>2. \A j \in 0 .. m + 1 : pos2[j] \in Nat /\ tot2[j] \in Int
    BY <1>2, <1>3, <1>4 DEF Path
  <2>3. ASSUME NEW j \in 0 .. (m + 1) - 1
        PROVE  /\ pos2[j] < f.relocs.size
               /\ BlockIn(f, image, pos2[j]) # NULL
               /\ SizeIn(f, image, pos2[j]) >= BLOCK
               /\ pos2[j + 1] = (pos2[j] + SizeIn(f, image, pos2[j])) % WORD
               /\ tot2[j + 1] = Int32(tot2[j] + (SizeIn(f, image, pos2[j]) - BLOCK))
    <3>1. CASE j \in 0 .. m - 1
      BY <1>4, <3>1 DEF Path
    <3>2. CASE j = m
      BY <1>4, <3>2 DEF p, t, size
    <3> QED
      BY <1>4, <3>1, <3>2
  <2> QED
    BY <1>4, <2>1, <2>2, <2>3 DEF Path
<1>6. ASSUME Exact(f, image, m, pos, tot), tot[m] + (size - BLOCK) < ORDINAL_FLAG
      PROVE  Exact(f, image, m + 1, pos2, tot2)
  <2>1. tot[m] \in Nat
    BY <1>4, <1>6 DEF Exact
  <2>2. t = tot[m] + (size - BLOCK) /\ t \in Nat
    <3>1. tot[m] + (size - BLOCK) \in Nat
      BY ONLY <1>1, <2>1
    <3>2. Int32(tot[m] + (size - BLOCK)) = tot[m] + (size - BLOCK)
      BY ONLY <3>1, <1>6, WordFacts
    <3> QED
      BY ONLY <3>1, <3>2 DEF t
  <2>3. \A j \in 0 .. m + 1 : tot2[j] \in Nat
    BY <1>4, <1>6, <2>2 DEF Exact
  <2>4. \A j \in 0 .. (m + 1) - 1 :
          tot2[j + 1] = tot2[j] + (SizeIn(f, image, pos2[j]) - BLOCK)
    <3> TAKE j \in 0 .. (m + 1) - 1
    <3>1. CASE j \in 0 .. m - 1
      BY <1>4, <1>6, <3>1 DEF Exact
    <3>2. CASE j = m
      BY <1>4, <2>2, <3>2 DEF size
    <3> QED
      BY <1>4, <3>1, <3>2
  <2>5. \A j, k \in 0 .. m + 1 : j <= k => tot2[j] <= tot2[k]
    <3> TAKE j, k \in 0 .. m + 1
    <3> HAVE j <= k
    <3>1. CASE k = m + 1
      <4>1. tot[m] <= t
        BY ONLY <1>1, <2>1, <2>2
      <4>2. \A i \in 0 .. m : tot[i] <= tot[m] /\ tot[i] \in Nat
        BY <1>1, <1>4, <1>6 DEF Exact
      <4> QED
        BY <1>4, <2>1, <2>2, <3>1, <4>1, <4>2
    <3>2. CASE k # m + 1
      <4>1. k \in 0 .. m /\ j \in 0 .. m
        BY <1>1, <3>2
      <4> QED
        BY <1>4, <1>6, <4>1 DEF Exact
    <3> QED
      BY <3>1, <3>2
  <2> QED
    BY <2>3, <2>4, <2>5 DEF Exact
<1> QED
  BY <1>4, <1>5, <1>6 DEF p, t, size

(* While the first walk goes, the path ends where it stands; the second one
   stands on the path the first one left, with no more relocations than were
   counted up to there. *)
Counted(fits, f, image, at, n) ==
  \E m, pos, tot :
    /\ Path(f, image, m, pos, tot)
    /\ pos[m] = at /\ tot[m] = n
    /\ fits => Exact(f, image, m, pos, tot)

Followed(fits, f, image, at, n, kept) ==
  \E m, pos, tot : \E j \in 0 .. m :
    /\ Path(f, image, m, pos, tot)
    /\ ~ (pos[m] < f.relocs.size) /\ tot[m] = n
    /\ pos[j] = at
    /\ fits => Exact(f, image, m, pos, tot) /\ kept <= tot[j]

WalkInvariant(fits) ==
  /\ pc = "count" => Counted(fits, file, img, consumed, count)
  /\ pc = "relocs" => Followed(fits, file, img, consumed, count, Len(relocs))
  /\ relocs \in Seq(Address)
  /\ fits => overrun = FALSE

(* Where the first walk starts. *)
AtStart ==
  /\ pc \in Before => consumed = 0
  /\ pc \in Before \union Reading /\ file.imports.rva = 0 => consumed = 0
  /\ pc \in {"descriptor", "thunks", "function"} => file.imports.rva # 0

(* The relocations of the file are as many as an int can count. *)
CountFits ==
  pc = "count" /\ InRelocs /\ BlockAt # NULL /\ BlockSize >= BLOCK =>
    count + NEntries < ORDINAL_FLAG

LEMMA PathStarts ==
  ASSUME NEW f, NEW image, NEW fits
  PROVE  Counted(fits, f, image, 0, 0)
<1> DEFINE z == [j \in 0 .. 0 |-> 0]
<1>1. Path(f, image, 0, z, z) /\ Exact(f, image, 0, z, z) /\ z[0] = 0
  BY DEF Path, Exact
<1> QED
  BY <1>1 DEF Counted

LEMMA CountFollows ==
  ASSUME NEW fits \in BOOLEAN, LoaderInvariant, WalkInvariant(fits), fits => CountFits,
         CountBlock, Unread
  PROVE  WalkInvariant(fits)'
<1>1. /\ pc = "count" /\ pc' = "count" /\ file' = file /\ img' = img
      /\ relocs' = relocs /\ overrun' = overrun /\ BlockAt # NULL /\ BlockSize >= BLOCK
      /\ InRelocs /\ ReadFrom(file, img) /\ consumed \in Nat
  BY DEF CountBlock, Unread, LoaderInvariant, FileRead, Walking, After, TablesTyped
<1>2. PICK m, pos, tot :
        /\ Path(file, img, m, pos, tot) /\ pos[m] = consumed /\ tot[m] = count
        /\ fits => Exact(file, img, m, pos, tot)
  BY <1>1 DEF WalkInvariant, Counted
<1>3. /\ pos[m] < file.relocs.size /\ BlockIn(file, img, pos[m]) # NULL
      /\ SizeIn(file, img, pos[m]) \in Nat /\ SizeIn(file, img, pos[m]) >= BLOCK
  <2>1. SizeIn(file, img, consumed) \in Address
    BY <1>1, BlockMeans, SizeTyped
  <2> QED
    BY <1>1, <1>2, <2>1, BlockMeans DEF InRelocs, Address
<1>4. PICK pos2, tot2 :
        /\ Path(file, img, m + 1, pos2, tot2)
        /\ pos2[m + 1] = (pos[m] + SizeIn(file, img, pos[m])) % WORD
        /\ tot2[m + 1] = Int32(tot[m] + (SizeIn(file, img, pos[m]) - BLOCK))
        /\ /\ Exact(file, img, m, pos, tot)
           /\ tot[m] + (SizeIn(file, img, pos[m]) - BLOCK) < ORDINAL_FLAG
           => Exact(file, img, m + 1, pos2, tot2)
  BY <1>2, <1>3, PathExtends
<1>5. pos2[m + 1] = consumed' /\ tot2[m + 1] = count'
  BY <1>2, <1>4, BlockMeans DEF CountBlock
<1>6. fits => Exact(file, img, m + 1, pos2, tot2)
  BY <1>1, <1>2, <1>4, BlockMeans DEF CountFits
<1>7. Counted(fits, file, img, consumed', count')
  BY <1>4, <1>5, <1>6 DEF Counted
<1> QED
  BY <1>1, <1>7 DEF WalkInvariant

LEMMA StoreStarts ==
  ASSUME NEW fits \in BOOLEAN, LoaderInvariant, WalkInvariant(fits), CountDone, Unread
  PROVE  WalkInvariant(fits)'
<1>1. /\ pc = "count" /\ pc' \in {"tls", "relocs"} /\ file' = file /\ img' = img
      /\ relocs' = relocs /\ overrun' = overrun /\ relocs = <<>>
      /\ consumed' = 0 /\ count' = count
      /\ pc' = "relocs" => ~ (consumed < file.relocs.size)
  BY DEF CountDone, Unread, LoaderInvariant, RelocsFresh, InRelocs
<1>2. PICK m, pos, tot :
        /\ Path(file, img, m, pos, tot) /\ pos[m] = consumed /\ tot[m] = count
        /\ fits => Exact(file, img, m, pos, tot)
  BY <1>1 DEF WalkInvariant, Counted
<1>3. 0 \in 0 .. m /\ pos[0] = 0 /\ tot[0] = 0 /\ Len(<<>>) = 0
  BY <1>2 DEF Path
<1>4. pc' = "relocs" => Followed(fits, file, img, 0, count, 0)
  BY <1>1, <1>2, <1>3 DEF Followed
<1> QED
  BY <1>1, <1>3, <1>4 DEF WalkInvariant

(* The block consumed stands at. *)
LEMMA BlockTyped ==
  ASSUME ReadFrom(file, img), consumed \in Nat,
         BlockAt # NULL, BlockSize >= BLOCK, EntriesAt # NULL
  PROVE  /\ BlockSize \in Address /\ NEntries \in Nat /\ Cell(BlockAt, 0) \in Address
         /\ LET entries == [i \in 1 .. NEntries |-> Cell(EntriesAt, i - 1)]
            IN entries \in Seq(Address) /\ Len(entries) = NEntries
<1>1. BlockSize \in Address /\ NEntries \in Nat
  <2>1. BlockSize \in Address
    BY BlockMeans, SizeTyped
  <2> QED
    BY <2>1 DEF NEntries, BLOCK, Address
<1>2. Cell(BlockAt, 0) \in Address
  <2>1. file.relocs.rva + consumed \in Int /\ BLOCK \in Nat /\ 0 \in 0 .. BLOCK - 1
    BY DEF ReadFrom, Address, BLOCK
  <2> QED
    BY <2>1, CellsTyped, BlockMeans DEF Cell, BlockIn
<1> DEFINE rva == file.relocs.rva + consumed + BLOCK
           n == NEntries
<1>3. rva \in Int
  BY DEF ReadFrom, Address, BLOCK
<1>4. EntriesAt = PointerIn(img, rva, n)
  BY DEF EntriesAt, Pointer, PointerIn
<1>5. n \in Nat
  BY <1>1
<1> HIDE DEF rva
<1>6. \A i \in 1 .. n : Cell(EntriesAt, i - 1) \in Address
  <2> TAKE i \in 1 .. n
  <2> HIDE DEF n
  <2>1. i - 1 \in 0 .. n - 1
    BY <1>5
  <2> QED
    BY <1>3, <1>4, <1>5, <2>1, CellsTyped DEF Cell
<1> QED
  BY <1>1, <1>2, <1>5, <1>6

(* The second walk is at block j of the path, and there is one. *)
LEMMA StoreFollows ==
  ASSUME NEW fits \in BOOLEAN, LoaderInvariant, WalkInvariant(fits), StoreBlock, Unread
  PROVE  WalkInvariant(fits)' /\ BlockAt # NULL /\ BlockSize >= BLOCK
<1>1. /\ pc = "relocs" /\ pc' = "relocs" /\ file' = file /\ img' = img
      /\ count' = count /\ InRelocs /\ EntriesAt # NULL
      /\ ReadFrom(file, img) /\ consumed \in Nat /\ relocs \in Seq(Address)
      /\ consumed' = (consumed + BlockSize) % WORD
      /\ overrun' = (overrun \/ Len(relocs') > count)
  BY DEF StoreBlock, Unread, LoaderInvariant, FileRead, Walking, After, TablesTyped, WalkInvariant
<1>2. PICK m, pos, tot : \E j \in 0 .. m :
        /\ Path(file, img, m, pos, tot)
        /\ ~ (pos[m] < file.relocs.size) /\ tot[m] = count
        /\ pos[j] = consumed
        /\ fits => Exact(file, img, m, pos, tot) /\ Len(relocs) <= tot[j]
  BY <1>1 DEF WalkInvariant, Followed
<1>3. PICK j \in 0 .. m :
        /\ Path(file, img, m, pos, tot)
        /\ ~ (pos[m] < file.relocs.size) /\ tot[m] = count
        /\ pos[j] = consumed
        /\ fits => Exact(file, img, m, pos, tot) /\ Len(relocs) <= tot[j]
  BY <1>2
<1>4. j \in 0 .. m - 1 /\ j + 1 \in 0 .. m /\ m \in 0 .. m
  <2>1. j # m
    BY <1>1, <1>3 DEF InRelocs
  <2>2. m \in Nat
    BY <1>3 DEF Path
  <2> QED
    BY <2>1, <2>2
<1>5. /\ BlockIn(file, img, consumed) # NULL
      /\ SizeIn(file, img, consumed) >= BLOCK
      /\ pos[j + 1] = (consumed + SizeIn(file, img, consumed)) % WORD
  BY <1>3, <1>4 DEF Path
<1>6. BlockAt # NULL /\ pos[j + 1] = consumed' /\ BlockSize \in Address /\ NEntries \in Nat
      /\ NEntries = SizeIn(file, img, consumed) - BLOCK /\ BlockSize >= BLOCK
  BY <1>1, <1>5, BlockMeans, BlockTyped
<1> DEFINE entries == [i \in 1 .. NEntries |-> Cell(EntriesAt, i - 1)]
           page == Cell(BlockAt, 0)
           new == KeptEntries(entries, page)
<1>7. entries \in Seq(Address) /\ Len(entries) = NEntries /\ page \in Address
  BY <1>1, <1>5, BlockMeans, BlockTyped
<1>9. relocs' = relocs \o new
  BY DEF StoreBlock
<1> HIDE DEF entries, page
<1>10. new \in Seq(Address) /\ Len(new) <= NEntries
  BY <1>7, KeptFacts
<1> HIDE DEF new
<1>11. relocs' \in Seq(Address) /\ Len(relocs') <= Len(relocs) + NEntries
       /\ Len(relocs) \in Nat /\ Len(relocs') \in Nat
  <2>1. relocs' \in Seq(Address) /\ Len(relocs') = Len(relocs) + Len(new)
    BY <1>1, <1>9, <1>10
  <2>2. Len(relocs) \in Nat /\ Len(new) \in Nat
    BY <1>1, <1>10
  <2> QED
    BY <1>6, <1>10, <2>1, <2>2
<1>12. fits => Len(relocs') <= tot[j + 1] /\ tot[j + 1] <= tot[m] /\ overrun' = FALSE
  <2> HAVE fits
  <2>1. Exact(file, img, m, pos, tot) /\ Len(relocs) <= tot[j] /\ overrun = FALSE
    BY <1>3 DEF WalkInvariant
  <2>2. /\ tot[j] \in Nat /\ tot[j + 1] \in Nat /\ tot[m] \in Nat
        /\ tot[j + 1] = tot[j] + NEntries /\ tot[j + 1] <= tot[m]
    <3>1. j + 1 <= m
      BY <1>4
    <3> QED
      BY <1>3, <1>4, <1>6, <2>1, <3>1 DEF Exact
  <2> DEFINE a == tot[j]
             b == tot[j + 1]
             c == tot[m]
             l == Len(relocs)
             k == Len(relocs')
             e == NEntries
  <2>3. /\ a \in Nat /\ b \in Nat /\ c \in Nat /\ b = a + e /\ b <= c /\ e \in Nat
        /\ l \in Nat /\ k \in Nat /\ l <= a /\ k <= l + e
    BY <1>6, <1>11, <2>1, <2>2
  <2> HIDE DEF a, b, c, l, k, e
  <2>4. k <= b /\ b <= c /\ ~ (k > c)
    BY ONLY <2>3
  <2>5. overrun' = FALSE
    BY <1>1, <1>3, <2>1, <2>4 DEF c, k
  <2> QED
    BY <2>4, <2>5 DEF b, c, k
<1>13. Followed(fits, file, img, consumed', count, Len(relocs'))
  BY <1>3, <1>4, <1>6, <1>12 DEF Followed
<1> QED
  BY <1>1, <1>6, <1>11, <1>12, <1>13 DEF WalkInvariant

(* The other steps: the first walk is entered at block 0, an array that is
   grown before it is stored to has the room, and the callbacks are counted. *)
LEMMA OtherStepsFollow ==
  ASSUME NEW fits \in BOOLEAN, LoaderInvariant, AtStart, WalkInvariant(fits),
         Unread, pc' \notin {"relocs"},
         \/ NoImports \/ CopyDescriptor \/ ImportsEnd \/ BeginDll
         \/ CopyThunk \/ AddFunction \/ DllDone
         \/ RelocsDone \/ TlsEnd \/ TlsBegin \/ ReadCallback \/ CallbacksDone
         \/ Fail /\ pc \notin {"read", "end"}
  PROVE  WalkInvariant(fits)'
<1> USE DEF Before, Reading, After, walkVars
<1>1. /\ relocs' = relocs /\ file' = file /\ img' = img /\ relocs \in Seq(Address)
      /\ fits => overrun = FALSE
  BY DEF NoImports, CopyDescriptor, ImportsEnd, BeginDll, CopyThunk, AddFunction, DllDone,
         RelocsDone, TlsEnd, TlsBegin, ReadCallback, CallbacksDone, Fail, Unread, WalkInvariant
<1>2. pc' = "count" => consumed' = 0 /\ count' = 0
  <2>1. CASE NoImports
    BY <2>1 DEF NoImports, LoaderInvariant, RelocsFresh, AtStart
  <2>2. CASE ImportsEnd
    BY <2>2 DEF ImportsEnd, LoaderInvariant, RelocsFresh
  <2>3. CASE ~ NoImports /\ ~ ImportsEnd
    BY <2>3 DEF CopyDescriptor, BeginDll, CopyThunk, AddFunction, DllDone,
                RelocsDone, TlsEnd, TlsBegin, ReadCallback, CallbacksDone, Fail
  <2> QED
    BY <2>1, <2>2, <2>3
<1>3. fits => overrun' = FALSE
  <2>1. CASE BeginDll
    <3>1. Len(dlls) \in Nat /\ dllsCap' \in Nat /\ Len(dlls) < dllsCap'
      BY <2>1, CapacityGrows DEF BeginDll, LoaderInvariant, TablesTyped, Room
    <3>2. ~ (Len(dlls) >= dllsCap')
      BY ONLY <3>1
    <3> QED
      BY <1>1, <2>1, <3>2, Zenon DEF BeginDll
  <2>2. CASE AddFunction
    <3> DEFINE c == dll.cap
               n == Len(dll.funcs)
    <3>1. n \in Nat /\ c \in Nat /\ n <= c
      BY <2>2 DEF AddFunction, LoaderInvariant, TablesTyped, Room, OpenDll
    <3>2. overrun' = (overrun \/ n >= ensure_capacity(c, n))
      BY <2>2 DEF AddFunction
    <3> HIDE DEF c, n
    <3>3. ensure_capacity(c, n) \in Nat /\ n < ensure_capacity(c, n)
      BY <3>1, CapacityGrows
    <3>4. ~ (n >= ensure_capacity(c, n))
      BY ONLY <3>1, <3>3
    <3> QED
      BY <1>1, <3>2, <3>4, Zenon
  <2>3. CASE ReadCallback
    <3>1. Len(callbacks) \in Nat /\ PE_MAX_TLS_CALLBACKS \in Nat
          /\ Len(callbacks) < PE_MAX_TLS_CALLBACKS
      BY <2>3, TablesAssumption
         DEF ReadCallback, RoomForCallback, LoaderInvariant, TablesTyped
    <3>2. ~ (Len(callbacks) >= PE_MAX_TLS_CALLBACKS)
      BY ONLY <3>1
    <3> QED
      BY <1>1, <2>3, <3>2, Zenon DEF ReadCallback
  <2>4. CASE ~ BeginDll /\ ~ AddFunction /\ ~ ReadCallback
    BY <1>1, <2>4 DEF NoImports, CopyDescriptor, ImportsEnd, CopyThunk, DllDone,
         RelocsDone, TlsEnd, TlsBegin, CallbacksDone, Fail
  <2> QED
    BY <2>1, <2>2, <2>3, <2>4
<1>4. pc' = "count" => Counted(fits, file', img', consumed', count')
  BY <1>2, PathStarts
<1> QED
  BY <1>1, <1>3, <1>4 DEF WalkInvariant

LEMMA AtStartKeeps ==
  ASSUME LoaderInvariant, AtStart, Next
  PROVE  AtStart'
<1> USE DEF Before, Reading, walkVars
<1>0. file' = file
  BY DEF Next, TableStep, ReadWholeFile, ReadFails, CheckHeaders, HeadersFail, ParseSections,
         SectionsFail, Succeed, Reject, Ended, vars
<1>1. CASE NoImports \/ CopyDescriptor \/ ImportsEnd \/ BeginDll \/ CopyThunk \/ AddFunction
  BY <1>0, <1>1 DEF AtStart, NoImports, CopyDescriptor, ImportsEnd, BeginDll, CopyThunk,
                    AddFunction
<1>2. CASE DllDone
  BY <1>0, <1>2 DEF AtStart, DllDone
<1>3. CASE ReadWholeFile \/ CheckHeaders \/ ParseSections \/ Ended
  BY <1>0, <1>3 DEF AtStart, ReadWholeFile, CheckHeaders, ParseSections, Ended, vars
<1>4. CASE pc' \in {"count", "relocs", "tls", "callbacks", "loaded", "fail", "end"}
  BY <1>4 DEF AtStart
<1>5. \/ NoImports \/ CopyDescriptor \/ ImportsEnd \/ BeginDll \/ CopyThunk \/ AddFunction
      \/ DllDone \/ ReadWholeFile \/ CheckHeaders \/ ParseSections \/ Ended
      \/ pc' \in {"count", "relocs", "tls", "callbacks", "loaded", "fail", "end"}
  BY DEF Next, TableStep, DirectoryFails, DllFails, ThunksFail, FunctionFails, Fail,
         CountBlock, CountFails, CountDone, AllocFails, StoreBlock, StoreFails, RelocsDone,
         TlsEnd, TlsBegin, TlsFails, ReadCallback, CallbacksDone, CallbacksFail,
         ReadFails, HeadersFail, SectionsFail, Succeed, Reject
<1> QED
  BY <1>1, <1>2, <1>3, <1>4, <1>5

----------------------------------------------------------------------------
(* All of it, for files whose relocations an int can count, or for any. *)
Sound(fits) == LoaderInvariant /\ AtStart /\ WalkInvariant(fits)

LEMMA SoundInit ==
  ASSUME NEW fits \in BOOLEAN, LoaderInit
  PROVE  Sound(fits)
<1>1. <<>> \in Seq(Address)
  OBVIOUS
<1> QED
  BY <1>1, LoaderInitHolds DEF Sound, AtStart, WalkInvariant, LoaderInit, TablesInit

LEMMA SoundTableStep ==
  ASSUME NEW fits \in BOOLEAN, Sound(fits), fits => CountFits,
         TableStep, UNCHANGED <<rawLive, result>>
  PROVE  LoaderInvariant' /\ WalkInvariant(fits)'
<1>1. Unread /\ LoaderInvariant /\ AtStart /\ WalkInvariant(fits)
  BY DEF TableStep, Unread, Sound
<1>2. CASE \/ NoImports \/ CopyDescriptor \/ ImportsEnd \/ BeginDll
           \/ CopyThunk \/ AddFunction \/ DllDone
  <2>1. pc' # "relocs"
    BY <1>2 DEF NoImports, CopyDescriptor, ImportsEnd, BeginDll, CopyThunk, AddFunction, DllDone
  <2> QED
    BY <1>1, <1>2, <2>1, ImportStepKeeps, OtherStepsFollow
<1>3. CASE CountBlock
  BY <1>1, <1>3, RelocStepKeeps, CountFollows
<1>4. CASE CountDone
  BY <1>1, <1>4, RelocStepKeeps, StoreStarts
<1>5. CASE StoreBlock
  BY <1>1, <1>5, RelocStepKeeps, StoreFollows
<1>6. CASE RelocsDone
  <2>1. pc' # "relocs"
    BY <1>6 DEF RelocsDone
  <2> QED
    BY <1>1, <1>6, <2>1, RelocStepKeeps, OtherStepsFollow
<1>7. CASE TlsEnd \/ TlsBegin \/ ReadCallback \/ CallbacksDone
  <2>1. pc' # "relocs"
    BY <1>7 DEF TlsEnd, TlsBegin, ReadCallback, CallbacksDone
  <2> QED
    BY <1>1, <1>7, <2>1, TlsStepKeeps, OtherStepsFollow
<1>8. CASE Fail /\ pc \notin {"read", "end"}
  <2>1. pc' # "relocs"
    BY <1>8 DEF Fail
  <2> QED
    BY <1>1, <1>8, <2>1, FailKeeps, OtherStepsFollow
<1>9. \/ NoImports \/ CopyDescriptor \/ ImportsEnd \/ BeginDll
      \/ CopyThunk \/ AddFunction \/ DllDone
      \/ CountBlock \/ CountDone \/ StoreBlock \/ RelocsDone
      \/ TlsEnd \/ TlsBegin \/ ReadCallback \/ CallbacksDone
      \/ Fail /\ pc \notin {"read", "end"}
  BY DEF TableStep, DirectoryFails, DllFails, ThunksFail, FunctionFails, CountFails,
         AllocFails, StoreFails, TlsFails, CallbacksFail
<1> QED
  BY <1>2, <1>3, <1>4, <1>5, <1>6, <1>7, <1>8, <1>9

LEMMA SoundStep ==
  ASSUME NEW fits \in BOOLEAN, Sound(fits), fits => CountFits, [Next]_vars
  PROVE  Sound(fits)'
<1>1. CASE TableStep /\ UNCHANGED <<rawLive, result>>
  <2>1. Next
    BY <1>1 DEF Next
  <2> QED
    BY <1>1, <2>1, SoundTableStep, AtStartKeeps DEF Sound
<1>2. CASE \/ CheckHeaders \/ ParseSections \/ ReadWholeFile \/ ReadFails \/ HeadersFail
           \/ SectionsFail \/ Succeed \/ Reject \/ Ended
  <2>1. LoaderInvariant'
    BY <1>2, HeadersKeep, SectionsKeep, EndStepKeeps DEF Sound
  <2>2. AtStart'
    BY <1>2, AtStartKeeps DEF Next, Sound
  <2>3. /\ relocs' = relocs /\ overrun' = overrun
        /\ pc' \notin {"count", "relocs"} \/ UNCHANGED vars
    BY <1>2 DEF CheckHeaders, ParseSections, ReadWholeFile, ReadFails, HeadersFail,
                SectionsFail, Succeed, Reject, Ended, walkVars, vars
  <2>4. WalkInvariant(fits)'
    BY <2>3 DEF Sound, WalkInvariant, vars, walkVars
  <2> QED
    BY <2>1, <2>2, <2>4 DEF Sound
<1>3. CASE UNCHANGED vars
  BY <1>3 DEF Sound, LoaderInvariant, AtStart, WalkInvariant, Control, FileRead, TablesTyped,
              Room, RelocsFresh, vars, walkVars, Walking
<1> QED
  BY <1>1, <1>2, <1>3 DEF Next

LEMMA SoundTyped ==
  ASSUME NEW fits \in BOOLEAN, Sound(fits)
  PROVE  TypeOK /\ (fits => NoOverrun)
BY DEF Sound, LoaderInvariant, Control, TablesTyped, WalkInvariant, TypeOK, NoOverrun,
       Before, Reading, After

(* The loader keeps to its types on every file: in particular each pointer it
   reads through points into the file, whatever the file's tables say. *)
THEOREM LoaderTypeCorrect == Spec => []TypeOK
<1>1. LoaderInit => Sound(FALSE)
  BY SoundInit
<1>2. Sound(FALSE) /\ [Next]_vars => Sound(FALSE)'
  BY SoundStep
<1>3. Sound(FALSE) => TypeOK
  BY SoundTyped
<1> QED
  BY <1>1, <1>2, <1>3, PTL DEF Spec

(* Each block of the relocations ends in the first 2^31 bytes of them. *)
Short(f, image) ==
  \A m, pos, tot :
    /\ Path(f, image, m, pos, tot) /\ pos[m] < f.relocs.size
    /\ BlockIn(f, image, pos[m]) # NULL
    => pos[m] + SizeIn(f, image, pos[m]) < ORDINAL_FLAG
RelocsShort == Walking => Short(file, img)

(* A block takes more room than it has entries. *)
CountBelow == pc = "count" => count \in Nat /\ count <= consumed

LEMMA ShortBlockCounted ==
  ASSUME Sound(FALSE), RelocsShort, CountBelow, pc = "count", InRelocs,
         BlockAt # NULL, BlockSize >= BLOCK
  PROVE  /\ NEntries \in Nat /\ BlockSize \in Nat /\ NEntries + BLOCK = BlockSize
         /\ consumed + BlockSize < ORDINAL_FLAG
         /\ count \in Nat /\ consumed \in Nat /\ count <= consumed
<1>1. /\ ReadFrom(file, img) /\ consumed \in Nat /\ count \in Nat /\ count <= consumed
      /\ Short(file, img)
  BY DEF Sound, LoaderInvariant, FileRead, TablesTyped, Walking, After, CountBelow, RelocsShort
<1>2. BlockSize \in Nat
  BY <1>1, BlockMeans, SizeTyped DEF Address
<1>3. NEntries \in Nat /\ NEntries + BLOCK = BlockSize
  BY <1>2 DEF NEntries, BLOCK
<1>4. \E m, pos, tot : Path(file, img, m, pos, tot) /\ pos[m] = consumed
  BY DEF Sound, WalkInvariant, Counted
<1>5. consumed + BlockSize < ORDINAL_FLAG
  BY <1>1, <1>4, BlockMeans DEF Short, InRelocs
<1> QED
  BY <1>1, <1>2, <1>3, <1>5

LEMMA CountBelowKeeps ==
  ASSUME Sound(FALSE), RelocsShort, CountBelow, [Next]_vars
  PROVE  CountBelow'
<1> SUFFICES ASSUME pc' = "count" PROVE count' \in Nat /\ count' <= consumed'
  BY DEF CountBelow
<1>1. CASE NoImports
  BY <1>1 DEF NoImports, walkVars, Sound, LoaderInvariant, RelocsFresh, AtStart, Before, Reading
<1>2. CASE ImportsEnd
  BY <1>2 DEF ImportsEnd, Sound, LoaderInvariant, RelocsFresh, Before, Reading
<1>3. CASE CountBlock
  <2>1. /\ NEntries \in Nat /\ BlockSize \in Nat /\ NEntries + BLOCK = BlockSize
        /\ consumed + BlockSize < ORDINAL_FLAG
        /\ count \in Nat /\ consumed \in Nat /\ count <= consumed
    BY <1>3, ShortBlockCounted DEF CountBlock
  <2>2. count' = Int32(count + NEntries) /\ consumed' = (consumed + BlockSize) % WORD
    BY <1>3 DEF CountBlock
  <2> DEFINE a == count + NEntries
             b == consumed + BlockSize
  <2>3. /\ a \in Nat /\ b \in Nat /\ a <= b /\ a < ORDINAL_FLAG /\ b < WORD
        /\ ORDINAL_FLAG \in Nat /\ WORD \in Nat \ {0}
    BY <2>1, WordFacts DEF BLOCK
  <2> HIDE DEF a, b
  <2>4. Int32(a) = a /\ b % WORD = b
    BY ONLY <2>3, WordFacts, SmallMod
  <2> QED
    BY ONLY <2>2, <2>3, <2>4 DEF a, b
<1>4. CASE UNCHANGED vars
  BY <1>4 DEF vars, walkVars, CountBelow
<1> QED
  BY <1>1, <1>2, <1>3, <1>4
     DEF Next, TableStep, CopyDescriptor, DirectoryFails, BeginDll, DllFails, CopyThunk,
         ThunksFail, AddFunction, FunctionFails, DllDone, CountFails, CountDone, AllocFails,
         StoreBlock, StoreFails, RelocsDone, TlsEnd, TlsBegin, TlsFails, ReadCallback,
         CallbacksDone, CallbacksFail, Fail, ReadWholeFile, ReadFails, CheckHeaders,
         HeadersFail, ParseSections, SectionsFail, Succeed, Reject, Ended

(* An int counts the relocations of every file whose blocks end in the first
   2^31 bytes of the directory: what the theorems below assume of a walk can
   be said of the file. *)
THEOREM CountAlwaysFits == Spec /\ []RelocsShort => []CountFits
<1>1. LoaderInit => Sound(FALSE) /\ CountBelow
  <2>1. LoaderInit => CountBelow
    BY DEF LoaderInit, CountBelow
  <2> QED
    BY <2>1, SoundInit
<1>2. Sound(FALSE) /\ CountBelow /\ RelocsShort /\ [Next]_vars => Sound(FALSE)' /\ CountBelow'
  BY SoundStep, CountBelowKeeps
<1>3. Sound(FALSE) /\ CountBelow /\ RelocsShort => CountFits
  <2> SUFFICES ASSUME Sound(FALSE), CountBelow, RelocsShort, pc = "count", InRelocs,
                      BlockAt # NULL, BlockSize >= BLOCK
               PROVE  count + NEntries < ORDINAL_FLAG
    BY DEF CountFits
  <2>1. /\ NEntries \in Nat /\ NEntries + BLOCK = BlockSize
        /\ consumed + BlockSize < ORDINAL_FLAG
        /\ count \in Nat /\ consumed \in Nat /\ count <= consumed
    BY ShortBlockCounted
  <2> QED
    BY <2>1, WordFacts DEF BLOCK
<1> QED
  BY <1>1, <1>2, <1>3, PTL DEF Spec

(* A turn of either walk over the relocations goes forward. *)
Advances == pc \in {"count", "relocs"} /\ pc' = pc => consumed < consumed'

LEMMA StepAdvances ==
  ASSUME Sound(FALSE), RelocsShort, CountBelow, Next
  PROVE  Advances
<1> SUFFICES ASSUME pc \in {"count", "relocs"}, pc' = pc PROVE consumed < consumed'
  BY DEF Advances
<1>0. ReadFrom(file, img) /\ consumed \in Nat /\ Short(file, img)
  BY DEF Sound, LoaderInvariant, FileRead, TablesTyped, Walking, After, RelocsShort
<1>1. ASSUME consumed + BlockSize < ORDINAL_FLAG, BlockSize \in Nat, BlockSize >= BLOCK,
             consumed' = (consumed + BlockSize) % WORD
      PROVE  consumed < consumed'
  <2> DEFINE b == consumed + BlockSize
  <2>1. /\ b \in Nat /\ consumed < b /\ b < WORD /\ WORD \in Nat \ {0}
        /\ consumed' = b % WORD
    BY <1>0, <1>1, WordFacts DEF BLOCK
  <2> HIDE DEF b
  <2> QED
    BY ONLY <2>1, SmallMod
<1>2. CASE CountBlock
  BY <1>1, <1>2, ShortBlockCounted DEF CountBlock
<1>3. CASE StoreBlock
  <2>1. /\ pc = "relocs" /\ InRelocs /\ EntriesAt # NULL
        /\ consumed' = (consumed + BlockSize) % WORD
    BY <1>3 DEF StoreBlock
  <2>2. PICK m, pos, tot : \E j \in 0 .. m :
          /\ Path(file, img, m, pos, tot) /\ ~ (pos[m] < file.relocs.size)
          /\ pos[j] = consumed
    BY <2>1 DEF Sound, WalkInvariant, Followed
  <2>3. PICK j \in 0 .. m :
          /\ Path(file, img, m, pos, tot) /\ ~ (pos[m] < file.relocs.size)
          /\ pos[j] = consumed
    BY <2>2
  <2>4. m \in Nat /\ j \in 0 .. m - 1
    <3>1. m \in Nat /\ j # m
      BY <2>1, <2>3 DEF Path, InRelocs
    <3> QED
      BY <3>1
  <2>5. Path(file, img, j, pos, tot)
    <3>1. j \in Nat /\ (\A i \in 0 .. j : i \in 0 .. m) /\ (\A i \in 0 .. j - 1 : i \in 0 .. m - 1)
      BY <2>4
    <3> QED
      BY <2>3, <3>1 DEF Path
  <2>6. /\ BlockAt # NULL /\ BlockSize >= BLOCK
    BY <2>3, <2>4, BlockMeans DEF Path
  <2>7. consumed + BlockSize < ORDINAL_FLAG
    BY <1>0, <2>1, <2>3, <2>5, <2>6, BlockMeans DEF Short, InRelocs
  <2>8. BlockSize \in Nat
    BY <1>0, <2>6, BlockMeans, SizeTyped DEF Address
  <2> QED
    BY <1>1, <2>1, <2>6, <2>7, <2>8
<1>4. CASE pc = "end" \/ pc' # pc
  BY <1>4
<1> QED
  BY <1>2, <1>3, <1>4
     DEF Next, TableStep, NoImports, CopyDescriptor, DirectoryFails, ImportsEnd, BeginDll,
         DllFails, CopyThunk, ThunksFail, AddFunction, FunctionFails, DllDone, CountFails,
         CountDone, AllocFails, StoreFails, RelocsDone, TlsEnd, TlsBegin, TlsFails,
         ReadCallback, CallbacksDone, CallbacksFail, Fail, ReadWholeFile, ReadFails,
         CheckHeaders, HeadersFail, ParseSections, SectionsFail, Succeed, Reject, Ended

(* On such a file no block leads either walk back: each turn begins behind
   the one before, so the walks end.  (A file whose block sizes wrap can send
   the first one in a circle.) *)
THEOREM WalksAdvance == Spec /\ []RelocsShort => [][Advances]_vars
<1>1. LoaderInit => Sound(FALSE) /\ CountBelow
  BY SoundInit DEF LoaderInit, CountBelow
<1>2. Sound(FALSE) /\ CountBelow /\ RelocsShort /\ [Next]_vars => Sound(FALSE)' /\ CountBelow'
  BY SoundStep, CountBelowKeeps
<1>3. Sound(FALSE) /\ CountBelow /\ RelocsShort /\ [Next]_vars => [Advances]_vars
  BY StepAdvances
<1> QED
  BY <1>1, <1>2, <1>3, PTL DEF Spec

(* Files whose relocations an int can count overrun no array: the second walk
   takes the path of the first, whatever the blocks hold, and stores no more
   of each block than was counted for it. *)
THEOREM LoaderNeverOverruns == Spec /\ []CountFits => []NoOverrun
<1>1. LoaderInit => Sound(TRUE)
  BY SoundInit
<1>2. Sound(TRUE) /\ CountFits /\ [Next]_vars => Sound(TRUE)'
  BY SoundStep
<1>3. Sound(TRUE) => NoOverrun
  BY SoundTyped
<1> QED
  BY <1>1, <1>2, <1>3, PTL DEF Spec

----------------------------------------------------------------------------
LEMMA ImportsTyped ==
  ASSUME Seq(Address) \subseteq Name, dlls \in Seq(Dll)
  PROVE  Imports \in Seq(Import)
<1> DEFINE entry(d, f) == [dll |-> dlls[d].name, func |-> dlls[d].funcs[f].name,
                           iatRva |-> dlls[d].funcs[f].iatRva]
           ofDll(d) == [f \in DOMAIN dlls[d].funcs |-> entry(d, f)]
           all == [d \in DOMAIN dlls |-> ofDll(d)]
<1>1. \A d \in DOMAIN dlls : ofDll(d) \in Seq(Import)
  <2> TAKE d \in DOMAIN dlls
  <2>0. dlls[d] \in Dll
    OBVIOUS
  <2>1. dlls[d].name \in Name /\ dlls[d].funcs \in Seq(Func)
    BY <2>0 DEF Dll
  <2> DEFINE funcs == dlls[d].funcs
  <2>2. \A f \in DOMAIN funcs : entry(d, f) \in Import
    <3> TAKE f \in DOMAIN funcs
    <3>1. funcs[f] \in Func
      BY <2>1
    <3> QED
      BY <2>1, <3>1 DEF Func, Import
  <2> HIDE DEF entry
  <2> QED
    BY <2>1, <2>2
<1> HIDE DEF ofDll
<1>2. all \in Seq(Seq(Import))
  BY <1>1
<1>3. Imports = FlattenSeq(all)
  BY DEF Imports, ofDll
<1> HIDE DEF all
<1> QED
  BY <1>2, <1>3, FlattenTyped

LEMMA SoundResult ==
  ASSUME Seq(Address) \subseteq Name, LoaderInvariant
  PROVE  ResultSound
<1>1. result = "rejected" => ~ rawLive
  BY DEF LoaderInvariant, Control
<1>2. ASSUME result = "loaded" PROVE rawLive /\ Loadable(Loaded)
  <2>1. rawLive /\ ReadFrom(file, img) /\ Imports \in Seq(Import)
    BY <1>2, ImportsTyped DEF LoaderInvariant, Control, FileRead, Walking, TablesTyped
  <2>2. /\ Loaded.base = img.base /\ Loaded.entryRva = img.entryRva
        /\ Loaded.sizeOfImage = img.sizeOfImage /\ Loaded.sizeOfHeaders = img.sizeOfHeaders
        /\ Loaded.rawSize = img.rawSize /\ Loaded.sections = img.sections
        /\ Loaded.imports = Imports
    BY DEF Loaded
  <2> QED
    BY <2>1, <2>2 DEF ReadFrom, Image, Loadable
<1> QED
  BY <1>1, <1>2 DEF ResultSound

(* An image that is returned is what the converter assumes of it, with the
   file's bytes still there, for every file; a rejected one leaves none.
   Any text of the file may be a name. *)
THEOREM LoaderResultSound ==
  ASSUME Seq(Address) \subseteq Name
  PROVE  Spec => []ResultSound
<1>1. LoaderInit => Sound(FALSE)
  BY SoundInit
<1>2. Sound(FALSE) /\ [Next]_vars => Sound(FALSE)'
  BY SoundStep
<1>3. Sound(FALSE) => ResultSound
  BY SoundResult DEF Sound
<1> QED
  BY <1>1, <1>2, <1>3, PTL DEF Spec

----------------------------------------------------------------------------
(* The import tables of f. *)

DescCell(f, image, d, k) ==
  f.cells[PointerIn(image, f.imports.rva + d * DESCRIPTOR, DESCRIPTOR) + k]
ZeroAt(f, image, d) == \A k \in 0 .. DESCRIPTOR - 1 : DescCell(f, image, d, k) = 0
LookupIn(f, image, d) ==
  IF DescCell(f, image, d, 0) # 0 THEN DescCell(f, image, d, 0) ELSE DescCell(f, image, d, 4)
ThunkIn(f, image, d, i) == f.cells[PointerIn(image, LookupIn(f, image, d) + i, 1) + 0]

LEMMA TablesMean ==
  /\ \A d, k : DescriptorCell(d, k) = DescCell(file, img, d, k)
  /\ \A d : ZeroDescriptor(d) = ZeroAt(file, img, d)
  /\ \A d, i : Thunk(d, i) = ThunkIn(file, img, d, i)
<1>1. \A d, k : DescriptorCell(d, k) = DescCell(file, img, d, k)
  BY DEF DescriptorCell, DescCell, Pointer, PointerIn, Cell
<1>2. \A d : ZeroDescriptor(d) = ZeroAt(file, img, d)
  BY <1>1 DEF ZeroDescriptor, ZeroAt
<1>3. \A d, i : Thunk(d, i) = ThunkIn(file, img, d, i)
  BY <1>1 DEF Thunk, ThunkIn, LookupIn, Pointer, PointerIn, Cell
<1> QED
  BY <1>1, <1>2, <1>3

(* Function i of descriptor d, and what has been read of its DLL. *)
FuncRead(f, image, d, i, fn) ==
  LET thunk == ThunkIn(f, image, d, i - 1)
  IN /\ thunk # 0
     /\ fn.iatRva = (DescCell(f, image, d, 4) + i - 1) % WORD
     /\ fn.name = IF thunk >= ORDINAL_FLAG
                    THEN <<HASH, thunk % ORDINALS>>
                    ELSE CString(f, image, thunk + HINT)

DllPart(f, image, d, x) ==
  /\ ~ ZeroAt(f, image, d)
  /\ x.name = CString(f, image, DescCell(f, image, d, 3))
  /\ \A i \in DOMAIN x.funcs : FuncRead(f, image, d, i, x.funcs[i])

DllBegun(f, image, d, x) ==
  /\ DllPart(f, image, d, x)
  /\ x.iat = DescCell(f, image, d, 4)
  /\ x.thunks = LookupIn(f, image, d)
  /\ x.at = Len(x.funcs)

DllRead(f, image, d, x) ==
  DllPart(f, image, d, x) /\ ThunkIn(f, image, d, Len(x.funcs)) = 0

DllsRead(f, image, ds) == \A d \in DOMAIN ds : DllRead(f, image, d - 1, ds[d])

DllsEnd(f, image, ds) ==
  IF f.imports.rva = 0 THEN ds = <<>> ELSE ZeroAt(f, image, Len(ds))

ImportsRead ==
  /\ pc \in Before => dlls = <<>>
  /\ pc \in Reading =>
       /\ consumed = Len(dlls) * DESCRIPTOR
       /\ file.imports.rva = 0 => dlls = <<>>
  /\ Walking => DllsRead(file, img, dlls)
  /\ pc = "descriptor" =>
       \A k \in 0 .. DESCRIPTOR - 1 : local[k] = DescCell(file, img, Len(dlls), k)
  /\ pc \in {"thunks", "function"} => DllBegun(file, img, Len(dlls), dll)
  /\ pc = "function" => local = ThunkIn(file, img, Len(dlls), dll.at)
  /\ pc \in After \/ result = "loaded" => DllsEnd(file, img, dlls)

LEMMA DllPartGrows ==
  ASSUME NEW f, NEW image, NEW d, NEW x, NEW y, NEW fn, DllPart(f, image, d, x),
         x.funcs \in Seq(Func), y.funcs = Append(x.funcs, fn), y.name = x.name,
         FuncRead(f, image, d, Len(x.funcs) + 1, fn)
  PROVE  DllPart(f, image, d, y)
<1>1. \A i \in DOMAIN y.funcs :
        \/ i \in DOMAIN x.funcs /\ y.funcs[i] = x.funcs[i]
        \/ i = Len(x.funcs) + 1 /\ y.funcs[i] = fn
  OBVIOUS
<1>2. \A i \in DOMAIN y.funcs : FuncRead(f, image, d, i, y.funcs[i])
  BY <1>1 DEF DllPart
<1> QED
  BY <1>2 DEF DllPart

LEMMA ImportStepReads ==
  ASSUME LoaderInvariant, ImportsRead, AtStart, Unread,
         \/ NoImports \/ CopyDescriptor \/ ImportsEnd \/ BeginDll
         \/ CopyThunk \/ AddFunction \/ DllDone
  PROVE  ImportsRead'
<1> USE DEF Before, Reading, After, walkVars
<1>a. /\ pc \in Reading /\ pc' \in Reading \union {"count"}
      /\ file' = file /\ img' = img /\ result' = result /\ result = "none"
      /\ ReadFrom(file, img) /\ DllsRead(file, img, dlls) /\ dlls \in Seq(Dll)
      /\ consumed = Len(dlls) * DESCRIPTOR
  BY DEF NoImports, CopyDescriptor, ImportsEnd, BeginDll, CopyThunk, AddFunction, DllDone,
         Unread, LoaderInvariant, Control, FileRead, TablesTyped, Walking, ImportsRead
<1> DEFINE n == Len(dlls)
<1>1. CASE NoImports
  BY <1>a, <1>1 DEF NoImports, ImportsRead, DllsEnd
<1>2. CASE CopyDescriptor
  <2>1. local' = [k \in 0 .. DESCRIPTOR - 1 |-> DescCell(file, img, n, k)]
    BY <1>a, <1>2 DEF CopyDescriptor, DescriptorAt, DescCell, Pointer, PointerIn, Cell
  <2> QED
    BY <1>a, <1>2, <2>1 DEF CopyDescriptor, ImportsRead
<1>3. CASE ImportsEnd
  <2>1. ZeroAt(file, img, n) /\ file.imports.rva # 0
    BY <1>3 DEF ImportsEnd, Terminator, ImportsRead, ZeroAt, AtStart
  <2> QED
    BY <1>a, <1>3, <2>1 DEF ImportsEnd, ImportsRead, DllsEnd
<1>4. CASE BeginDll
  <2>1. \A k \in 0 .. DESCRIPTOR - 1 : local[k] = DescCell(file, img, n, k)
    BY <1>4 DEF BeginDll, ImportsRead
  <2>2. /\ local[0] = DescCell(file, img, n, 0) /\ local[3] = DescCell(file, img, n, 3)
        /\ local[4] = DescCell(file, img, n, 4)
    BY <2>1 DEF DESCRIPTOR
  <2>3. ~ ZeroAt(file, img, n)
    BY <1>4, <2>1 DEF BeginDll, Terminator, ZeroAt
  <2>4. /\ dll'.name = CString(file, img, DescCell(file, img, n, 3))
        /\ dll'.funcs = <<>> /\ dll'.iat = DescCell(file, img, n, 4)
        /\ dll'.thunks = LookupIn(file, img, n) /\ dll'.at = 0
    BY <1>4, <2>2, CStringMeans DEF BeginDll, DllName, LookupIn
  <2>5. DllBegun(file, img, n, dll')
    BY <2>3, <2>4 DEF DllBegun, DllPart
  <2> QED
    BY <1>a, <1>4, <2>5 DEF BeginDll, ImportsRead
<1>5. CASE CopyThunk
  <2>1. DllBegun(file, img, n, dll)
    BY <1>5 DEF CopyThunk, ImportsRead
  <2>2. local' = ThunkIn(file, img, n, dll.at)
    BY <1>5, <2>1 DEF CopyThunk, ThunkAt, ThunkIn, DllBegun, Pointer, PointerIn, Cell
  <2> QED
    BY <1>a, <1>5, <2>1, <2>2 DEF CopyThunk, ImportsRead
<1>6. CASE AddFunction
  <2> DEFINE fn == [name |-> FuncName, iatRva |-> IatSlot]
             m  == Len(dll.funcs)
  <2>1. /\ DllBegun(file, img, n, dll) /\ local = ThunkIn(file, img, n, dll.at)
        /\ dll \in OpenDll /\ local # 0
    BY <1>6 DEF AddFunction, ImportsRead, LoaderInvariant, TablesTyped
  <2>2. m \in Nat /\ dll.at = m /\ dll.iat = DescCell(file, img, n, 4) /\ dll.iat \in Int
    BY <2>1 DEF DllBegun, OpenDll, Address
  <2>3. FuncRead(file, img, n, m + 1, fn)
    <3>1. local = ThunkIn(file, img, n, (m + 1) - 1)
      BY <2>1, <2>2
    <3>2. fn.iatRva = (DescCell(file, img, n, 4) + (m + 1) - 1) % WORD
      <4>1. dll.iat + dll.at = DescCell(file, img, n, 4) + (m + 1) - 1
        BY <2>2
      <4> QED
        BY <4>1 DEF IatSlot
    <3>3. fn.name = IF local >= ORDINAL_FLAG
                      THEN <<HASH, local % ORDINALS>>
                      ELSE CString(file, img, local + HINT)
      BY CStringMeans DEF FuncName, ByOrdinal, Ordinal
    <3> QED
      BY <2>1, <3>1, <3>2, <3>3 DEF FuncRead
  <2>4. dll' = [dll EXCEPT !.cap = ensure_capacity(dll.cap, m), !.at = dll.at + 1,
                           !.funcs = Append(dll.funcs, fn)]
    BY <1>6 DEF AddFunction
  <2>a. /\ dll.funcs \in Seq(Func) /\ pc' = "thunks" /\ dlls' = dlls /\ consumed' = consumed
        /\ ImportsRead
    BY <1>6, <2>1 DEF AddFunction, OpenDll
  <2> HIDE DEF fn, m
  <2>5. /\ dll'.name = dll.name /\ dll'.iat = dll.iat /\ dll'.thunks = dll.thunks
        /\ dll'.at = dll.at + 1 /\ dll'.funcs = Append(dll.funcs, fn)
    BY ONLY <2>1, <2>4 DEF OpenDll
  <2>6. DllPart(file, img, n, dll')
    BY <2>1, <2>3, <2>5, <2>a, DllPartGrows DEF DllBegun, m
  <2>7. Len(dll'.funcs) = dll'.at
    <3>1. Len(Append(dll.funcs, fn)) = Len(dll.funcs) + 1
      BY ONLY <2>a
    <3> QED
      BY <2>2, <2>5, <3>1 DEF m
  <2>8. DllBegun(file, img, n, dll')
    BY <2>1, <2>5, <2>6, <2>7 DEF DllBegun
  <2> QED
    BY <1>a, <2>8, <2>a DEF ImportsRead
<1>7. CASE DllDone
  <2> DEFINE new == [name |-> dll.name, funcs |-> dll.funcs]
  <2>1. DllBegun(file, img, n, dll) /\ ThunkIn(file, img, n, dll.at) = 0
    BY <1>7 DEF DllDone, ImportsRead
  <2>2. DllRead(file, img, n, new)
    BY <2>1 DEF DllBegun, DllRead, DllPart
  <2>3. /\ dlls' = Append(dlls, new) /\ pc' = "imports"
        /\ consumed' = consumed + DESCRIPTOR /\ file.imports.rva # 0
    BY <1>7 DEF DllDone, AtStart
  <2> HIDE DEF new
  <2>4. /\ Len(dlls') = n + 1 /\ n \in Nat
        /\ \A d \in DOMAIN dlls' : \/ d \in DOMAIN dlls /\ dlls'[d] = dlls[d]
                                   \/ d = n + 1 /\ dlls'[d] = new
    BY <1>a, <2>3
  <2>5. DllsRead(file, img, dlls')
    <3> SUFFICES ASSUME NEW d \in DOMAIN dlls' PROVE DllRead(file, img, d - 1, dlls'[d])
      BY DEF DllsRead
    <3>1. CASE d \in DOMAIN dlls /\ dlls'[d] = dlls[d]
      BY <1>a, <3>1 DEF DllsRead
    <3>2. CASE d = n + 1 /\ dlls'[d] = new
      <4>1. d - 1 = n
        BY <2>4, <3>2
      <4> QED
        BY <2>2, <3>2, <4>1
    <3> QED
      BY <2>4, <3>1, <3>2
  <2>6. consumed' = Len(dlls') * DESCRIPTOR
    BY <1>a, <2>3, <2>4 DEF DESCRIPTOR
  <2> QED
    BY <1>a, <2>3, <2>5, <2>6 DEF ImportsRead
<1> QED
  BY <1>1, <1>2, <1>3, <1>4, <1>5, <1>6, <1>7

LEMMA ImportsReadKeeps ==
  ASSUME LoaderInvariant, LoaderInvariant', AtStart, ImportsRead, [Next]_vars
  PROVE  ImportsRead'
<1> USE DEF Before, Reading, After
<1>1. CASE /\ UNCHANGED <<file, img, rawLive, result>>
           /\ \/ NoImports \/ CopyDescriptor \/ ImportsEnd \/ BeginDll
              \/ CopyThunk \/ AddFunction \/ DllDone
  BY <1>1, ImportStepReads DEF Unread
<1>2. CASE \/ CountBlock \/ CountDone \/ StoreBlock \/ RelocsDone
           \/ TlsEnd \/ TlsBegin \/ ReadCallback \/ CallbacksDone
           \/ Fail /\ pc \notin {"read", "end"}
  <2>1. /\ dlls' = dlls /\ pc' \in After \union {"fail"}
        /\ pc' \in After => pc \in After
    BY <1>2 DEF CountBlock, CountDone, StoreBlock, RelocsDone, TlsEnd, TlsBegin,
                ReadCallback, CallbacksDone, Fail, walkVars
  <2>2. result' = "none"
    <3>1. pc' # "end"
      BY <2>1
    <3> QED
      BY <3>1 DEF LoaderInvariant, Control
  <2>3. CASE pc' = "fail"
    BY <2>2, <2>3 DEF ImportsRead, Walking
  <2>4. CASE pc' \in After
    <3>1. file' = file /\ img' = img
      BY <1>2, <2>1, <2>4 DEF Next, TableStep, ReadWholeFile, ReadFails, CheckHeaders,
         HeadersFail, ParseSections, SectionsFail, Succeed, Reject, Ended, vars
    <3> QED
      BY <2>1, <2>2, <2>4, <3>1 DEF ImportsRead, Walking
  <2> QED
    BY <2>1, <2>3, <2>4
<1>3. CASE ReadWholeFile \/ ReadFails \/ CheckHeaders \/ HeadersFail \/ SectionsFail \/ Reject
  <2>1. dlls' = dlls /\ pc' \in {"headers", "sections", "fail", "end"} /\ pc \in Before \union {"fail"}
        /\ (pc' \in Before => pc \in Before)
    BY <1>3 DEF ReadWholeFile, ReadFails, CheckHeaders, HeadersFail, SectionsFail, Reject, walkVars
  <2>2. result' # "loaded"
    BY <1>3 DEF ReadWholeFile, ReadFails, CheckHeaders, HeadersFail, SectionsFail, Reject,
                LoaderInvariant, Control
  <2> QED
    BY <2>1, <2>2 DEF ImportsRead, Walking
<1>4. CASE ParseSections
  <2>1. /\ dlls' = dlls /\ dlls = <<>> /\ pc' = "imports" /\ result' = "none"
        /\ consumed' = 0 /\ file' = file
    BY <1>4 DEF ParseSections, ImportsRead, walkVars, AtStart, LoaderInvariant, Control
  <2>2. Len(<<>>) = 0 /\ DOMAIN <<>> = {} /\ 0 * DESCRIPTOR = 0
    BY DEF DESCRIPTOR
  <2> QED
    BY <2>1, <2>2 DEF ImportsRead, Walking, DllsRead
<1>5. CASE Succeed
  BY <1>5 DEF Succeed, ImportsRead, Walking, walkVars
<1>6. CASE UNCHANGED vars
  BY <1>6 DEF vars, walkVars, ImportsRead, Walking
<1>7. \/ NoImports \/ CopyDescriptor \/ ImportsEnd \/ BeginDll
      \/ CopyThunk \/ AddFunction \/ DllDone
      => TableStep \/ UNCHANGED vars
  BY DEF Next, TableStep, NoImports, CopyDescriptor, ImportsEnd, BeginDll, CopyThunk,
         AddFunction, DllDone, ReadWholeFile, ReadFails, CheckHeaders, HeadersFail,
         ParseSections, SectionsFail, Succeed, Reject, Ended
<1> QED
  BY <1>1, <1>2, <1>3, <1>4, <1>5, <1>6
     DEF Next, TableStep, Ended, DirectoryFails, DllFails, ThunksFail, FunctionFails,
         CountFails, AllocFails, StoreFails, TlsFails, CallbacksFail

(* No more than WORD descriptors can be told apart: the table comes round. *)
LEMMA WordComesRound ==
  ASSUME NEW a \in Nat
  PROVE  (a + WORD * DESCRIPTOR) % WORD = a % WORD
<1>1. ASSUME NEW x \in Nat PROVE (x + WORD) % WORD = x % WORD /\ x + WORD \in Nat
  BY PageAssumption, RoundMod
<1> DEFINE b == a + WORD
           c == b + WORD
           d == c + WORD
           e == d + WORD
<1>2. b \in Nat /\ b % WORD = a % WORD
  BY <1>1
<1> HIDE DEF b
<1>3. c \in Nat /\ c % WORD = b % WORD
  BY <1>1, <1>2
<1> HIDE DEF c
<1>4. d \in Nat /\ d % WORD = c % WORD
  BY <1>1, <1>3
<1> HIDE DEF d
<1>5. e \in Nat /\ e % WORD = d % WORD
  BY <1>1, <1>4
<1>6. (e + WORD) % WORD = e % WORD
  BY <1>1, <1>5
<1>7. a + WORD * DESCRIPTOR = e + WORD
  BY PageAssumption DEF DESCRIPTOR, e, d, c, b
<1> QED
  BY <1>2, <1>3, <1>4, <1>5, <1>6, <1>7

LEMMA DescriptorsRepeat ==
  ASSUME NEW f, NEW image, f.imports.rva \in Address, NEW d \in Nat, ZeroAt(f, image, d + WORD)
  PROVE  ZeroAt(f, image, d)
<1> DEFINE a == f.imports.rva + d * DESCRIPTOR
           b == f.imports.rva + (d + WORD) * DESCRIPTOR
<1>1. a \in Nat /\ b = a + WORD * DESCRIPTOR
  BY PageAssumption DEF Address, DESCRIPTOR
<1> HIDE DEF a, b
<1>2. a % WORD = b % WORD
  BY <1>1, WordComesRound
<1>3. PointerIn(image, a, DESCRIPTOR) = PointerIn(image, b, DESCRIPTOR)
  BY <1>2 DEF PointerIn
<1>4. \A k \in 0 .. DESCRIPTOR - 1 :
        /\ DescCell(f, image, d, k) = f.cells[PointerIn(image, a, DESCRIPTOR) + k]
        /\ DescCell(f, image, d + WORD, k) = f.cells[PointerIn(image, b, DESCRIPTOR) + k]
  BY DEF DescCell, a, b
<1> QED
  BY <1>3, <1>4 DEF ZeroAt

LEMMA DescriptorsCounted ==
  ASSUME LoaderInvariant, ImportsRead, result = "loaded"
  PROVE  Len(dlls) = Descriptors
<1> DEFINE n == Len(dlls)
<1>1. /\ dlls \in Seq(Dll) /\ n \in Nat /\ DllsEnd(file, img, dlls)
      /\ DllsRead(file, img, dlls) /\ ReadFrom(file, img)
  BY DEF LoaderInvariant, FileRead, TablesTyped, ImportsRead, Walking
<1>2. CASE file.imports.rva = 0
  BY <1>1, <1>2 DEF DllsEnd, Descriptors
<1>3. CASE file.imports.rva # 0
  <2>1. ZeroAt(file, img, n)
    BY <1>1, <1>3 DEF DllsEnd
  <2>2. \A d \in 0 .. n - 1 : ~ ZeroAt(file, img, d)
    <3> TAKE d \in 0 .. n - 1
    <3>1. d + 1 \in DOMAIN dlls /\ (d + 1) - 1 = d
      BY <1>1
    <3> QED
      BY <1>1, <3>1 DEF DllsRead, DllRead, DllPart
  <2>3. n < WORD
    <3> SUFFICES ASSUME n >= WORD PROVE FALSE
      BY <1>1, PageAssumption
    <3> DEFINE d == n - WORD
    <3>1. d \in 0 .. n - 1 /\ d \in Nat /\ d + WORD = n
      BY <1>1, PageAssumption
    <3> HIDE DEF d
    <3>2. ZeroAt(file, img, d)
      BY <1>1, <2>1, <3>1, DescriptorsRepeat DEF ReadFrom
    <3> QED
      BY <2>2, <3>1, <3>2
  <2> DEFINE IsLast(m) == ZeroDescriptor(m) /\ \A d \in 0 .. m - 1 : ~ ZeroDescriptor(d)
  <2>4. n \in 0 .. WORD - 1 /\ IsLast(n)
    BY <1>1, <2>1, <2>2, <2>3, TablesMean, PageAssumption
  <2>5. ASSUME NEW m \in 0 .. WORD - 1, IsLast(m) PROVE m = n
    <3>1. ~ (m < n)
      <4> SUFFICES ASSUME m < n PROVE FALSE
        OBVIOUS
      <4>1. m \in 0 .. n - 1
        BY <1>1, PageAssumption
      <4> QED
        BY <2>4, <2>5, <4>1
    <3>2. ~ (n < m)
      <4> SUFFICES ASSUME n < m PROVE FALSE
        OBVIOUS
      <4>1. n \in 0 .. m - 1
        BY <1>1, PageAssumption
      <4> QED
        BY <2>4, <2>5, <4>1
    <3> QED
      BY <1>1, <3>1, <3>2, PageAssumption
  <2>6. Descriptors = CHOOSE m \in 0 .. WORD - 1 : IsLast(m)
    BY <1>3 DEF Descriptors
  <2> HIDE DEF IsLast, n
  <2> QED
    BY <2>4, <2>5, <2>6 DEF n
<1> QED
  BY <1>2, <1>3

LEMMA SlotsFollow ==
  ASSUME LoaderInvariant, ImportsRead
  PROVE  SlotsMatchNames
<1> SUFFICES ASSUME result = "loaded" PROVE SlotsMatchNames
  BY DEF SlotsMatchNames
<1>1. DllsRead(file, img, dlls)
  BY DEF ImportsRead, Walking
<1>2. ASSUME NEW d \in DOMAIN dlls
      PROVE  /\ dlls[d].name = read_c_string(DescriptorCell(d - 1, 3), NAME_CAP)
             /\ Thunk(d - 1, Len(dlls[d].funcs)) = 0
             /\ \A i \in DOMAIN dlls[d].funcs :
                  LET fn    == dlls[d].funcs[i]
                      thunk == Thunk(d - 1, i - 1)
                  IN /\ thunk # 0
                     /\ fn.iatRva = (DescriptorCell(d - 1, 4) + i - 1) % WORD
                     /\ fn.name = IF thunk >= ORDINAL_FLAG
                                    THEN <<HASH, thunk % ORDINALS>>
                                    ELSE read_c_string(thunk + HINT, NAME_CAP)
  <2> DEFINE x == dlls[d]
             e == d - 1
  <2>1. DllRead(file, img, e, x)
    BY <1>1 DEF DllsRead
  <2> HIDE DEF x, e
  <2>2. /\ x.name = read_c_string(DescriptorCell(e, 3), NAME_CAP)
        /\ Thunk(e, Len(x.funcs)) = 0
    BY <2>1, TablesMean, CStringMeans DEF DllRead, DllPart
  <2>3. ASSUME NEW i \in DOMAIN x.funcs
        PROVE  LET fn    == x.funcs[i]
                   thunk == Thunk(e, i - 1)
               IN /\ thunk # 0
                  /\ fn.iatRva = (DescriptorCell(e, 4) + i - 1) % WORD
                  /\ fn.name = IF thunk >= ORDINAL_FLAG
                                 THEN <<HASH, thunk % ORDINALS>>
                                 ELSE read_c_string(thunk + HINT, NAME_CAP)
    <3>1. FuncRead(file, img, e, i, x.funcs[i])
      BY <2>1 DEF DllRead, DllPart
    <3> QED
      BY <3>1, TablesMean, CStringMeans DEF FuncRead
  <2> QED
    BY <2>2, <2>3 DEF x, e
<1> QED
  BY <1>2, DescriptorsCounted DEF SlotsMatchNames

(* Whatever the import tables of a file hold, the descriptors that are kept
   are those up to the zero one, each function's name is the one its lookup
   table gives, and its slot stands as far into the FirstThunk table. *)
THEOREM LoaderSlotsMatchNames == Spec => []SlotsMatchNames
<1>1. LoaderInit => Sound(FALSE) /\ ImportsRead
  <2>1. LoaderInit => ImportsRead
    BY DEF LoaderInit, TablesInit, ImportsRead, Before, Reading, After, Walking
  <2> QED
    BY <2>1, SoundInit
<1>2. Sound(FALSE) /\ ImportsRead /\ [Next]_vars => Sound(FALSE)' /\ ImportsRead'
  BY SoundStep, ImportsReadKeeps DEF Sound
<1>3. Sound(FALSE) /\ ImportsRead => SlotsMatchNames
  BY SlotsFollow DEF Sound
<1> QED
  BY <1>1, <1>2, <1>3, PTL DEF Spec

----------------------------------------------------------------------------
(* The relocations and the callbacks of f. *)

PageIn(f, image, at) == f.cells[BlockIn(f, image, at) + 0]
EntriesIn(f, image, at) ==
  PointerIn(image, f.relocs.rva + at + BLOCK, SizeIn(f, image, at) - BLOCK)
BlockFixups(f, image, at) ==
  LET n == SizeIn(f, image, at) - BLOCK
  IN Fixups([i \in 1 .. n |-> f.cells[EntriesIn(f, image, at) + (i - 1)]],
            PageIn(f, image, at), n)

(* The directory is the m blocks at pos, the last of which reaches its end. *)
Blocks(f, image, m, pos) ==
  /\ m \in Nat /\ pos[0] = 0 /\ ~ (pos[m] < f.relocs.size)
  /\ \A j \in 0 .. m : pos[j] \in Nat
  /\ \A j \in 0 .. m - 1 :
       /\ pos[j] < f.relocs.size
       /\ BlockIn(f, image, pos[j]) # NULL
       /\ SizeIn(f, image, pos[j]) >= BLOCK
       /\ pos[j + 1] = (pos[j] + SizeIn(f, image, pos[j])) % WORD

EntriesInFile(f, image, j, pos) ==
  \A k \in 0 .. j - 1 :
    SizeIn(f, image, pos[k]) # BLOCK => EntriesIn(f, image, pos[k]) # NULL
FixupsUpTo(f, image, j, pos) == UNION {BlockFixups(f, image, pos[k]) : k \in 0 .. j - 1}

NoRelocsIn(f) == f.relocs.rva = 0 \/ f.relocs.size = 0

(* kept is what the blocks of f say, and cs the callbacks up to a zero one. *)
RelocsOf(f, image, kept) ==
  IF NoRelocsIn(f)
    THEN kept = {}
    ELSE \E m, pos : /\ Blocks(f, image, m, pos) /\ EntriesInFile(f, image, m, pos)
                     /\ kept = FixupsUpTo(f, image, m, pos)

CallbackIn(f, image, i) == PointerIn(image, ArrayIn(f, image) - image.base + i, 1)
CallbackCell(f, image, i) == f.cells[CallbackIn(f, image, i) + 0]
NoCallbacksIn(f, image) ==
  \/ f.tls.rva = 0 \/ f.tls.size = 0
  \/ TlsIn(f, image) # NULL /\ ArrayIn(f, image) = 0

CallbacksRead(f, image, cs) ==
  \A i \in DOMAIN cs :
    /\ CallbackIn(f, image, i - 1) # NULL
    /\ CallbackCell(f, image, i - 1) # 0
    /\ cs[i] = CallbackCell(f, image, i - 1) - image.base

CallbacksOf(f, image, cs) ==
  IF NoCallbacksIn(f, image)
    THEN cs = <<>>
    ELSE /\ TlsIn(f, image) # NULL
         /\ CallbacksRead(f, image, cs)
         /\ CallbackIn(f, image, Len(cs)) # NULL
         /\ CallbackCell(f, image, Len(cs)) = 0

(* What the second walk and the one over the callbacks have built. *)
RelocsRead ==
  /\ pc = "relocs" =>
       /\ ~ NoRelocsIn(file)
       /\ \E m, pos : \E j \in 0 .. m :
            /\ Blocks(file, img, m, pos) /\ pos[j] = consumed
            /\ EntriesInFile(file, img, j, pos)
            /\ Range(relocs) = FixupsUpTo(file, img, j, pos)
  /\ pc \in {"tls", "callbacks", "loaded"} \/ result = "loaded" =>
       RelocsOf(file, img, Range(relocs))

TlsRead ==
  /\ pc \in Before \union Reading \union {"count", "relocs", "tls"} => callbacks = <<>>
  /\ pc = "tls" => consumed = 0
  /\ pc = "callbacks" =>
       /\ ~ NoCallbacksIn(file, img)
       /\ consumed = Len(callbacks)
       /\ CallbacksRead(file, img, callbacks)
  /\ pc = "loaded" \/ result = "loaded" => CallbacksOf(file, img, callbacks)

LEMMA RelocsMean ==
  /\ NoRelocs = NoRelocsIn(file)
  /\ EntriesAt = EntriesIn(file, img, consumed)
  /\ LET entries == [i \in 1 .. NEntries |-> Cell(EntriesAt, i - 1)]
     IN Fixups(entries, Cell(BlockAt, 0), NEntries) = BlockFixups(file, img, consumed)
<1>1. NoRelocs = NoRelocsIn(file)
  BY DEF NoRelocs, NoRelocsIn
<1>2. EntriesAt = EntriesIn(file, img, consumed)
  BY BlockMeans DEF EntriesAt, EntriesIn, Pointer, PointerIn
<1>3. [i \in 1 .. NEntries |-> Cell(EntriesAt, i - 1)] =
        [i \in 1 .. NEntries |-> file.cells[EntriesIn(file, img, consumed) + (i - 1)]]
  BY <1>2 DEF Cell
<1>4. Cell(BlockAt, 0) = PageIn(file, img, consumed)
  BY BlockMeans DEF PageIn, Cell
<1> QED
  BY <1>1, <1>2, <1>3, <1>4, BlockMeans DEF BlockFixups

(* A path that has come to the end of the directory is the directory; when
   its blocks count nothing, they say nothing. *)
LEMMA PathIsBlocks ==
  ASSUME NEW f, NEW image, ReadFrom(f, image), NEW m, NEW pos, NEW tot,
         Path(f, image, m, pos, tot), Exact(f, image, m, pos, tot),
         ~ (pos[m] < f.relocs.size)
  PROVE  /\ Blocks(f, image, m, pos)
         /\ EntriesInFile(f, image, 0, pos) /\ FixupsUpTo(f, image, 0, pos) = {}
         /\ tot[m] = 0 =>
              EntriesInFile(f, image, m, pos) /\ FixupsUpTo(f, image, m, pos) = {}
<1>1. Blocks(f, image, m, pos)
  BY DEF Path, Blocks
<1>2. EntriesInFile(f, image, 0, pos) /\ FixupsUpTo(f, image, 0, pos) = {}
  BY DEF EntriesInFile, FixupsUpTo
<1>3. ASSUME tot[m] = 0
      PROVE  EntriesInFile(f, image, m, pos) /\ FixupsUpTo(f, image, m, pos) = {}
  <2>1. ASSUME NEW j \in 0 .. m - 1
        PROVE  SizeIn(f, image, pos[j]) = BLOCK /\ BlockFixups(f, image, pos[j]) = {}
    <3>1. m \in Nat /\ j \in 0 .. m /\ j + 1 \in 0 .. m /\ m \in 0 .. m /\ j <= m /\ j + 1 <= m
      BY DEF Path
    <3>2. tot[j] = 0 /\ tot[j + 1] = 0
      <4>1. /\ tot[j] \in Nat /\ tot[j + 1] \in Nat
            /\ tot[j] <= tot[m] /\ tot[j + 1] <= tot[m]
        BY <3>1 DEF Exact
      <4> QED
        BY <1>3, <4>1
    <3>3. SizeIn(f, image, pos[j]) \in Address
      BY <3>1, SizeTyped DEF Path
    <3>4. SizeIn(f, image, pos[j]) = BLOCK
      <4> DEFINE z == SizeIn(f, image, pos[j])
      <4>1. tot[j + 1] = tot[j] + (z - BLOCK) /\ z \in Nat
        BY <3>1, <3>3 DEF Exact, Address
      <4> HIDE DEF z
      <4> QED
        BY <3>2, <4>1 DEF BLOCK, z
    <3>5. SizeIn(f, image, pos[j]) - BLOCK = 0
      BY <3>4 DEF BLOCK
    <3>6. \A entries, page : Fixups(entries, page, 0) = {}
      BY DEF Fixups
    <3> QED
      BY ONLY <3>4, <3>5, <3>6 DEF BlockFixups
  <2> QED
    BY <2>1 DEF EntriesInFile, FixupsUpTo
<1> QED
  BY <1>1, <1>2, <1>3

LEMMA CountedAreRead ==
  ASSUME LoaderInvariant, WalkInvariant(TRUE), CountDone, Unread
  PROVE  RelocsRead'
<1>1. /\ pc = "count" /\ file' = file /\ img' = img /\ relocs' = relocs /\ relocs = <<>>
      /\ consumed' = 0 /\ result' # "loaded" /\ ReadFrom(file, img)
      /\ ~ NoRelocs => ~ (consumed < file.relocs.size)
      /\ pc' = IF NoRelocs \/ count = 0 THEN "tls" ELSE "relocs"
  BY DEF CountDone, Unread, LoaderInvariant, RelocsFresh, InRelocs, Control, FileRead,
         Walking, After
<1>2. Range(relocs') = {}
  BY <1>1 DEF Range
<1>3. CASE NoRelocs
  BY <1>1, <1>2, <1>3, RelocsMean DEF RelocsRead, RelocsOf
<1>4. CASE ~ NoRelocs
  <2>1. PICK m, pos, tot :
          /\ Path(file, img, m, pos, tot) /\ pos[m] = consumed /\ tot[m] = count
          /\ Exact(file, img, m, pos, tot)
    BY <1>1 DEF WalkInvariant, Counted
  <2>2. /\ Blocks(file, img, m, pos)
        /\ EntriesInFile(file, img, 0, pos) /\ FixupsUpTo(file, img, 0, pos) = {}
        /\ count = 0 =>
             EntriesInFile(file, img, m, pos) /\ FixupsUpTo(file, img, m, pos) = {}
    BY <1>1, <1>4, <2>1, PathIsBlocks
  <2>3. 0 \in 0 .. m /\ pos[0] = 0 /\ ~ NoRelocsIn(file)
    BY <1>4, <2>2, RelocsMean DEF Blocks
  <2>4. CASE count = 0
    <3>1. RelocsOf(file, img, {})
      BY <2>2, <2>3, <2>4 DEF RelocsOf
    <3> QED
      BY <1>1, <1>2, <2>4, <3>1 DEF RelocsRead
  <2>5. CASE count # 0
    <3>1. pc' = "relocs"
      BY <1>1, <1>4, <2>5
    <3> QED
      BY <1>1, <1>2, <2>2, <2>3, <3>1 DEF RelocsRead
  <2> QED
    BY <2>4, <2>5
<1> QED
  BY <1>3, <1>4

(* What the block the second walk stands at says is appended. *)
LEMMA BlockStored ==
  ASSUME LoaderInvariant, WalkInvariant(TRUE), StoreBlock, Unread
  PROVE  Range(relocs') = Range(relocs) \union BlockFixups(file, img, consumed)
<1>1. /\ BlockAt # NULL /\ ReadFrom(file, img) /\ consumed \in Nat /\ relocs \in Seq(Address)
      /\ EntriesAt # NULL
  BY StoreFollows DEF StoreBlock, LoaderInvariant, FileRead, Walking, After, TablesTyped,
                      WalkInvariant
<1> DEFINE entries == [i \in 1 .. NEntries |-> Cell(EntriesAt, i - 1)]
           page == Cell(BlockAt, 0)
           new == KeptEntries(entries, page)
<1>2. entries \in Seq(Address) /\ Len(entries) = NEntries /\ page \in Address
  BY <1>1, StoreFollows, BlockTyped
<1>3. new \in Seq(Address) /\ Range(new) = Fixups(entries, page, NEntries)
  <2> HIDE DEF entries, page
  <2> QED
    BY <1>2, KeptFacts
<1>4. Range(new) = BlockFixups(file, img, consumed)
  BY <1>3, RelocsMean
<1>5. relocs' = relocs \o new
  BY DEF StoreBlock
<1> HIDE DEF new
<1>6. Range(relocs') = Range(relocs) \union Range(new)
  <2>1. relocs \in Seq(Address) /\ new \in Seq(Address)
    BY <1>1, <1>3
  <2>2. Range(relocs \o new) = Range(relocs) \union Range(new)
    BY ONLY <2>1, RangeConcatenation
  <2> QED
    BY ONLY <1>5, <2>2
<1> QED
  BY <1>4, <1>6

LEMMA StoredAreRead ==
  ASSUME LoaderInvariant, WalkInvariant(TRUE), RelocsRead, StoreBlock, Unread
  PROVE  RelocsRead'
<1>1. /\ pc = "relocs" /\ pc' = "relocs" /\ file' = file /\ img' = img /\ result' # "loaded"
      /\ InRelocs /\ EntriesAt # NULL /\ ~ NoRelocsIn(file)
      /\ consumed' = (consumed + BlockSize) % WORD
  BY DEF StoreBlock, Unread, LoaderInvariant, Control, RelocsRead
<1>2. PICK m, pos : \E j \in 0 .. m :
        /\ Blocks(file, img, m, pos) /\ pos[j] = consumed
        /\ EntriesInFile(file, img, j, pos)
        /\ Range(relocs) = FixupsUpTo(file, img, j, pos)
  BY <1>1 DEF RelocsRead
<1>3. PICK j \in 0 .. m :
        /\ Blocks(file, img, m, pos) /\ pos[j] = consumed
        /\ EntriesInFile(file, img, j, pos)
        /\ Range(relocs) = FixupsUpTo(file, img, j, pos)
  BY <1>2
<1>4. j \in 0 .. m - 1 /\ j + 1 \in 0 .. m
  <2>1. j # m
    BY <1>1, <1>3 DEF InRelocs, Blocks
  <2>2. m \in Nat
    BY <1>3 DEF Blocks
  <2> QED
    BY <2>1, <2>2
<1>5. pos[j + 1] = consumed'
  BY <1>1, <1>3, <1>4, BlockMeans DEF Blocks
<1>6. \A k \in 0 .. (j + 1) - 1 : k \in 0 .. j - 1 \/ k = j
  BY <1>4
<1>7. \A k : k \in 0 .. (j + 1) - 1 <=> k \in 0 .. j - 1 \/ k = j
  BY <1>4
<1>8. EntriesInFile(file, img, j + 1, pos)
  BY <1>1, <1>3, <1>6, RelocsMean DEF EntriesInFile
<1>9. Range(relocs') = FixupsUpTo(file, img, j + 1, pos)
  <2>1. Range(relocs') = FixupsUpTo(file, img, j, pos) \union BlockFixups(file, img, pos[j])
    BY <1>3, BlockStored
  <2> QED
    BY <1>7, <2>1 DEF FixupsUpTo
<1> QED
  BY <1>1, <1>3, <1>4, <1>5, <1>8, <1>9 DEF RelocsRead

LEMMA RelocsAllRead ==
  ASSUME LoaderInvariant, RelocsRead, RelocsDone, Unread
  PROVE  RelocsRead'
<1>1. /\ pc = "relocs" /\ pc' = "tls" /\ file' = file /\ img' = img /\ relocs' = relocs
      /\ ~ InRelocs /\ ~ NoRelocsIn(file)
  BY DEF RelocsDone, Unread, RelocsRead
<1>2. PICK m, pos : \E j \in 0 .. m :
        /\ Blocks(file, img, m, pos) /\ pos[j] = consumed
        /\ EntriesInFile(file, img, j, pos)
        /\ Range(relocs) = FixupsUpTo(file, img, j, pos)
  BY <1>1 DEF RelocsRead
<1>3. PICK j \in 0 .. m :
        /\ Blocks(file, img, m, pos) /\ pos[j] = consumed
        /\ EntriesInFile(file, img, j, pos)
        /\ Range(relocs) = FixupsUpTo(file, img, j, pos)
  BY <1>2
<1>4. j = m
  <2>1. ~ (pos[j] < file.relocs.size)
    BY <1>1, <1>3, RelocsMean DEF InRelocs
  <2>2. m \in Nat /\ ~ (j \in 0 .. m - 1)
    BY <1>3, <2>1 DEF Blocks
  <2> QED
    BY <2>2
<1>5. RelocsOf(file, img, Range(relocs))
  BY <1>1, <1>3, <1>4 DEF RelocsOf
<1> QED
  BY <1>1, <1>5 DEF RelocsRead

LEMMA TlsMeans ==
  /\ TlsAt = TlsIn(file, img) /\ CallbackArray = ArrayIn(file, img)
  /\ CallbackAt = CallbackIn(file, img, consumed)
  /\ Callback = CallbackCell(file, img, consumed)
<1>1. TlsAt = TlsIn(file, img) /\ CallbackArray = ArrayIn(file, img)
  BY DEF TlsAt, TlsIn, CallbackArray, ArrayIn, Pointer, PointerIn, Cell
<1>2. CallbackAt = CallbackIn(file, img, consumed)
  BY <1>1 DEF CallbackAt, CallbackIn, Pointer, PointerIn
<1> QED
  BY <1>1, <1>2 DEF Callback, CallbackCell, Cell

LEMMA CallbackStepReads ==
  ASSUME LoaderInvariant, TlsRead, Unread,
         TlsEnd \/ TlsBegin \/ ReadCallback \/ CallbacksDone
  PROVE  TlsRead'
<1> USE DEF Before, Reading, walkVars
<1>1. /\ pc \in {"tls", "callbacks"} /\ pc' \in {"callbacks", "loaded"}
      /\ file' = file /\ img' = img /\ result' # "loaded" /\ callbacks \in Seq(Address)
  BY DEF TlsEnd, TlsBegin, ReadCallback, CallbacksDone, Unread, LoaderInvariant, Control,
         TablesTyped
<1>2. Len(<<>>) = 0 /\ DOMAIN <<>> = {}
  OBVIOUS
<1>3. CASE TlsEnd
  <2>1. callbacks' = <<>> /\ pc' = "loaded"
    BY <1>3 DEF TlsEnd, TlsRead
  <2>2. NoCallbacksIn(file, img)
    BY <1>3, TlsMeans DEF TlsEnd, NoTls, NoCallbacksIn
  <2> QED
    BY <1>1, <2>1, <2>2 DEF TlsRead, CallbacksOf
<1>4. CASE TlsBegin
  <2>1. callbacks' = <<>> /\ consumed' = 0 /\ pc' = "callbacks"
    BY <1>4 DEF TlsBegin, TlsRead
  <2>2. ~ NoCallbacksIn(file, img)
    BY <1>4, TlsMeans DEF TlsBegin, NoTls, NoCallbacksIn
  <2>3. CallbacksRead(file, img, <<>>)
    BY <1>2 DEF CallbacksRead
  <2> QED
    BY <1>1, <1>2, <2>1, <2>2, <2>3 DEF TlsRead
<1>5. CASE ReadCallback
  <2> DEFINE n == Len(callbacks)
             c == CallbackCell(file, img, n) - img.base
  <2>1. /\ pc = "callbacks" /\ pc' = "callbacks" /\ consumed = n /\ consumed' = consumed + 1
        /\ ~ NoCallbacksIn(file, img) /\ CallbacksRead(file, img, callbacks)
    BY <1>5 DEF ReadCallback, TlsRead
  <2>2. /\ CallbackIn(file, img, n) # NULL /\ CallbackCell(file, img, n) # 0
        /\ callbacks' = Append(callbacks, c)
    BY <1>5, <2>1, TlsMeans DEF ReadCallback
  <2>3. n \in Nat /\ (n + 1) - 1 = n
    BY <1>1
  <2> HIDE DEF c
  <2>4. /\ Len(callbacks') = n + 1
        /\ \A i \in DOMAIN callbacks' : \/ i \in DOMAIN callbacks /\ callbacks'[i] = callbacks[i]
                                        \/ i = n + 1 /\ callbacks'[i] = c
    BY <1>1, <2>2
  <2> HIDE DEF n
  <2>5. CallbacksRead(file, img, callbacks')
    <3> SUFFICES ASSUME NEW i \in DOMAIN callbacks'
                 PROVE  /\ CallbackIn(file, img, i - 1) # NULL
                        /\ CallbackCell(file, img, i - 1) # 0
                        /\ callbacks'[i] = CallbackCell(file, img, i - 1) - img.base
      BY DEF CallbacksRead
    <3>1. CASE i \in DOMAIN callbacks /\ callbacks'[i] = callbacks[i]
      BY <2>1, <3>1 DEF CallbacksRead
    <3>2. CASE i = n + 1 /\ callbacks'[i] = c
      <4>1. i - 1 = n
        BY <2>3, <3>2
      <4> QED
        BY <2>2, <3>2, <4>1 DEF c
    <3> QED
      BY <2>4, <3>1, <3>2
  <2> QED
    BY <1>1, <2>1, <2>4, <2>5 DEF TlsRead
<1>6. CASE CallbacksDone
  <2>1. /\ pc = "callbacks" /\ pc' = "loaded" /\ callbacks' = callbacks
        /\ consumed = Len(callbacks) /\ ~ NoCallbacksIn(file, img)
        /\ CallbacksRead(file, img, callbacks) /\ TlsIn(file, img) # NULL
    BY <1>6 DEF CallbacksDone, TlsRead, LoaderInvariant, TablesTyped, ArrayStands
  <2>2. /\ CallbackIn(file, img, Len(callbacks)) # NULL
        /\ CallbackCell(file, img, Len(callbacks)) = 0
    BY <1>6, <2>1, TlsMeans DEF CallbacksDone
  <2>3. CallbacksOf(file, img, callbacks)
    BY <2>1, <2>2 DEF CallbacksOf
  <2> QED
    BY <1>1, <2>1, <2>3 DEF TlsRead
<1> QED
  BY <1>3, <1>4, <1>5, <1>6

LEMMA ReadKeeps ==
  ASSUME Sound(TRUE), Sound(TRUE)', RelocsRead, TlsRead, [Next]_vars
  PROVE  RelocsRead' /\ TlsRead'
<1> USE DEF Before, Reading, walkVars
<1>0. LoaderInvariant /\ WalkInvariant(TRUE) /\ LoaderInvariant'
  BY DEF Sound
<1>1. CASE CountDone /\ Unread
  <2>1. TlsRead'
    BY <1>0, <1>1 DEF CountDone, Unread, TlsRead, LoaderInvariant, Control
  <2> QED
    BY <1>0, <1>1, <2>1, CountedAreRead
<1>2. CASE StoreBlock /\ Unread
  <2>1. TlsRead'
    BY <1>0, <1>2 DEF StoreBlock, Unread, TlsRead, LoaderInvariant, Control
  <2> QED
    BY <1>0, <1>2, <2>1, StoredAreRead
<1>3. CASE RelocsDone /\ Unread
  <2>1. TlsRead'
    BY <1>0, <1>3 DEF RelocsDone, Unread, TlsRead, LoaderInvariant, Control
  <2> QED
    BY <1>0, <1>3, <2>1, RelocsAllRead
<1>4. CASE (TlsEnd \/ TlsBegin \/ ReadCallback \/ CallbacksDone) /\ Unread
  <2>1. /\ pc \in {"tls", "callbacks"} /\ pc' \in {"callbacks", "loaded"}
        /\ relocs' = relocs /\ file' = file /\ img' = img
    BY <1>4 DEF TlsEnd, TlsBegin, ReadCallback, CallbacksDone, Unread
  <2>2. RelocsRead'
    BY <2>1 DEF RelocsRead
  <2> QED
    BY <1>0, <1>4, <2>2, CallbackStepReads
<1>5. CASE /\ \/ NoImports \/ CopyDescriptor \/ ImportsEnd \/ BeginDll
              \/ CopyThunk \/ AddFunction \/ DllDone \/ CountBlock
           /\ Unread
  <2>1. /\ pc \in Reading \union {"count"} /\ pc' \in Reading \union {"count"}
        /\ callbacks' = callbacks
    BY <1>5 DEF NoImports, CopyDescriptor, ImportsEnd, BeginDll, CopyThunk, AddFunction,
                DllDone, CountBlock
  <2>2. result' # "loaded"
    BY <1>0, <2>1 DEF LoaderInvariant, Control
  <2> QED
    BY <2>1, <2>2 DEF RelocsRead, TlsRead
<1>6. CASE \/ ReadWholeFile \/ ReadFails \/ CheckHeaders \/ HeadersFail
           \/ ParseSections \/ SectionsFail \/ Reject
           \/ Fail /\ Unread /\ pc \notin {"read", "end"}
  <2>1. /\ pc' \in {"headers", "sections", "imports", "fail", "end"}
        /\ pc' \in Before \union {"imports"} => pc \in Before /\ callbacks' = callbacks
        /\ result' # "loaded"
    BY <1>0, <1>6 DEF ReadWholeFile, ReadFails, CheckHeaders, HeadersFail, ParseSections,
         SectionsFail, Reject, Fail, Unread, LoaderInvariant, Control
  <2> QED
    BY <2>1 DEF RelocsRead, TlsRead
<1>7. CASE Succeed
  BY <1>7 DEF Succeed, RelocsRead, TlsRead
<1>8. CASE UNCHANGED vars
  BY <1>8 DEF vars, RelocsRead, TlsRead
<1>9. TableStep /\ UNCHANGED <<rawLive, result>> =>
        /\ Unread
        /\ \/ NoImports \/ CopyDescriptor \/ ImportsEnd \/ BeginDll
           \/ CopyThunk \/ AddFunction \/ DllDone \/ CountBlock
           \/ CountDone \/ StoreBlock \/ RelocsDone
           \/ TlsEnd \/ TlsBegin \/ ReadCallback \/ CallbacksDone
           \/ Fail /\ pc \notin {"read", "end"}
  BY DEF TableStep, Unread, DirectoryFails, DllFails, ThunksFail, FunctionFails, CountFails,
         AllocFails, StoreFails, TlsFails, CallbacksFail
<1> QED
  BY <1>1, <1>2, <1>3, <1>4, <1>5, <1>6, <1>7, <1>8, <1>9 DEF Next, Ended

(* A loaded image holds the relocations of every block of the directory, and
   of no other place, in spite of the two walks, and the TLS callbacks in
   order up to the first zero. *)
TablesRead ==
  result = "loaded" =>
    RelocsOf(file, img, Range(relocs)) /\ CallbacksOf(file, img, callbacks)

LEMMA ReadInit == LoaderInit => Sound(TRUE) /\ RelocsRead /\ TlsRead
<1>1. LoaderInit => RelocsRead /\ TlsRead
  BY DEF LoaderInit, TablesInit, RelocsRead, TlsRead
<1> QED
  BY <1>1, SoundInit

LEMMA ReadStep ==
  Sound(TRUE) /\ RelocsRead /\ TlsRead /\ CountFits /\ [Next]_vars =>
    Sound(TRUE)' /\ RelocsRead' /\ TlsRead'
BY SoundStep, ReadKeeps

(* What is kept is what the blocks and the callback array of the file say,
   whatever they say, if the relocations are as many as an int can count. *)
THEOREM LoaderReadsTables == Spec /\ []CountFits => []TablesRead
<1>1. RelocsRead /\ TlsRead => TablesRead
  BY DEF RelocsRead, TlsRead, TablesRead
<1> QED
  BY <1>1, ReadInit, ReadStep, PTL DEF Spec

(* file.fixups and file.tlsFns say what went into the file: where its tables
   can be read at all, they hold that and nothing else. *)
RelocsTold(f, image) == \A kept : RelocsOf(f, image, kept) => kept = f.fixups
CallbacksTold(f, image) ==
  \A cs \in Seq(Address) : CallbacksOf(f, image, cs) => cs = f.tlsFns
TablesTold == Walking => RelocsTold(file, img) /\ CallbacksTold(file, img)

LEMMA ReadAreKept ==
  ASSUME Sound(TRUE), TablesRead, TablesTold
  PROVE  TablesKept
<1>1. callbacks \in Seq(Address)
  BY DEF Sound, LoaderInvariant, TablesTyped
<1> QED
  BY <1>1 DEF TablesRead, TablesTold, RelocsTold, CallbacksTold, Walking, TablesKept

(* The relocations that are kept are those the linker wrote, and the TLS
   callbacks those of its array. *)
THEOREM LoaderKeepsTables == Spec /\ []CountFits /\ []TablesTold => []TablesKept
<1>1. RelocsRead /\ TlsRead => TablesRead
  BY DEF RelocsRead, TlsRead, TablesRead
<1>2. Sound(TRUE) /\ TablesRead /\ TablesTold => TablesKept
  BY ReadAreKept
<1> QED
  BY <1>1, <1>2, ReadInit, ReadStep, PTL DEF Spec
=============================================================================
