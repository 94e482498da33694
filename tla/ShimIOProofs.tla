----------------------------- MODULE ShimIOProofs -----------------------------
(***************************************************************************)
(* Proofs about ShimIO, for any files, modes, texts, descriptors and       *)
(* number of calls: the types, the two invariants of the handles, and that *)
(* a program sees each call as one step of AbstractFiles.                  *)
(***************************************************************************)
EXTENDS ShimIO, FormatProofs, SequenceTheorems, TLAPS

----------------------------------------------------------------------------
(* The call in progress. *)

(* What the formatter makes of each format the program uses is what the
   format means. *)
FormatsMean == \A p \in Prints : Printed(Written(p.items), p.args) = Meant(p)

LEMMA WrittenMeans == FormatsWritten => FormatsMean
<1> SUFFICES ASSUME FormatsWritten, NEW p \in Prints
             PROVE  Printed(Written(p.items), p.args) = Meant(p)
  BY DEF FormatsMean
<1>1. Alphabet \subseteq Char /\ WellWritten(p.items, p.args, Char)
  BY DEF FormatsWritten
<1> QED
  BY <1>1, PrintedIsMeaning DEF Meant

IsPrefixOf(text, whole) ==
  /\ whole \in Seq(Char)
  /\ Len(text) <= Len(whole)
  /\ \A k \in 1 .. Len(text) : text[k] = whole[k]

(* A request, the descriptor and the text that go with it. *)
Fits(req, fd, text) ==
  /\ fd \in Int /\ text \in Seq(Char)
  /\ \/ /\ req.op = "create"
        /\ req.path \in Path /\ req.access \in Access
        /\ req.disposition \in Dispositions
     \/ /\ req.op = "close"
        /\ fd = req.handle - 1
        /\ req.handle \in Usable
     \/ /\ req.op = "write"
        /\ fd = req.handle - 1 /\ req.handle \in Int
        /\ req.unit \in Nat
        /\ FormatsMean => IsPrefixOf(text, req.text)
     \/ /\ req.op = "read"
        /\ fd = req.handle - 1 /\ req.handle \in Int
        /\ req.count \in Nat
     \/ /\ req.op = "say"
        /\ req = Seen!SayOf(2, req.texts)
        /\ fd = 1
        /\ req.texts \in Seq(Seq(Char)) /\ req.texts # <<>>
        /\ text = Head(req.texts)

Shaped(c) ==
  c = [by |-> c.by, req |-> c.req, fd |-> c.fd, text |-> c.text,
       done |-> c.done, was |-> c.was]

CallOK ==
  call # NoCall =>
    /\ Shaped(call)
    /\ Fits(call.req, call.fd, call.text)
    /\ call.done \in 0 .. Len(call.text)

(* A call of the program, whichever function it is to. *)
Asks ==
  /\ MayCall
  /\ \E by, req, fd, text :
       /\ Fits(req, fd, text)
       /\ Calls(by, req, fd, text)

LEMMA UsableAreIntegers ==
  ASSUME TypeOK
  PROVE  Usable \subseteq Int
BY IOAssumption DEF TypeOK, Usable, GetStdHandle, INVALID_HANDLE_VALUE

(* fwrite()'s bytes, and how many of them its product of sizes names. *)
LEMMA BytesAreText ==
  ASSUME NEW n \in Nat
  PROVE  /\ [k \in 1 .. n |-> IF k % 2 = 1 THEN "e" ELSE "f"] \in Seq(Char)
         /\ Len([k \in 1 .. n |-> IF k % 2 = 1 THEN "e" ELSE "f"]) = n
BY TextsAssumption

LEMMA FrontIsPrefix ==
  ASSUME NEW data \in Seq(Char), NEW total \in 0 .. Len(data)
  PROVE  /\ SubSeq(data, 1, total) \in Seq(Char)
         /\ IsPrefixOf(SubSeq(data, 1, total), data)
<1>1. /\ SubSeq(data, 1, total) \in Seq(Char)
      /\ Len(SubSeq(data, 1, total)) = total
      /\ \A k \in 1 .. total : SubSeq(data, 1, total)[k] = data[k]
  BY SubSeqProperties
<1>2. total <= Len(data)
  OBVIOUS
<1> QED
  BY <1>1, <1>2 DEF IsPrefixOf

LEMMA FrontOfPrefix ==
  ASSUME NEW text \in Seq(Char), NEW whole, IsPrefixOf(text, whole),
         NEW done \in 0 .. Len(text)
  PROVE  /\ SubSeq(whole, 1, done) = SubSeq(text, 1, done)
         /\ done \in 0 .. Len(whole)
<1>1. /\ whole \in Seq(Char) /\ done \in 0 .. Len(whole)
      /\ \A k \in 1 .. done : text[k] = whole[k]
  BY DEF IsPrefixOf
<1>2. /\ SubSeq(whole, 1, done) \in Seq(Char) /\ Len(SubSeq(whole, 1, done)) = done
      /\ \A k \in 1 .. done : SubSeq(whole, 1, done)[k] = whole[k]
  BY <1>1, SubSeqProperties
<1>3. /\ SubSeq(text, 1, done) \in Seq(Char) /\ Len(SubSeq(text, 1, done)) = done
      /\ \A k \in 1 .. done : SubSeq(text, 1, done)[k] = text[k]
  BY SubSeqProperties
<1>4. SubSeq(whole, 1, done) = SubSeq(text, 1, done)
  BY <1>1, <1>2, <1>3, SeqEqual
<1> QED
  BY <1>1, <1>4

LEMMA FwriteFits ==
  ASSUME NEW s \in Stream, NEW e \in Elements
  PROVE  LET data == [k \in 1 .. e.size * e.nmemb |-> IF k % 2 = 1 THEN "e" ELSE "f"]
             total == (e.size * e.nmemb) % WORD
             fd == shim_iob_to_fd(s)
         IN Fits(Seen!WriteOf(fd + 1, data, e.size, FALSE), fd, SubSeq(data, 1, total))
<1> DEFINE product == e.size * e.nmemb
           data == [k \in 1 .. product |-> IF k % 2 = 1 THEN "e" ELSE "f"]
           total == product % WORD
           fd == shim_iob_to_fd(s)
           text == SubSeq(data, 1, total)
           req == Seen!WriteOf(fd + 1, data, e.size, FALSE)
<1>1. e.size \in Nat /\ e.nmemb \in Nat
  BY TextsAssumption
<1>2. product \in Nat
  BY <1>1
<1>3. WORD \in Nat \ {0}
  BY FormatAssumption
<1> HIDE DEF product
<1>4. total \in 0 .. product
  BY <1>2, <1>3
<1>5. data \in Seq(Char) /\ Len(data) = product
  BY <1>2, BytesAreText
<1> HIDE DEF total, data
<1>6. text \in Seq(Char) /\ IsPrefixOf(text, data)
  BY <1>4, <1>5, FrontIsPrefix
<1>7. fd \in Int /\ fd = (fd + 1) - 1
  BY DEF shim_iob_to_fd, Stream
<1> HIDE DEF fd, text
<1>8. /\ req.op = "write" /\ req.handle = fd + 1
      /\ req.unit = e.size /\ req.text = data
  BY DEF Seen!WriteOf
<1> HIDE DEF req
<1>9. Fits(req, fd, text)
  BY <1>1, <1>6, <1>7, <1>8 DEF Fits
<1> QED
  BY <1>9 DEF req, fd, text, total, data, product

LEMMA FiveInOrder ==
  ASSUME NEW S, NEW a \in S, NEW b \in S, NEW c \in S, NEW d \in S, NEW e \in S
  PROVE  /\ <<a, b, c, d, e>> \in Seq(S) /\ <<a, b, c, d, e>> # <<>>
         /\ Head(<<a, b, c, d, e>>) \in S
OBVIOUS

(* MessageBoxA's five strings. *)
LEMMA BoxFits ==
  ASSUME NEW box \in Boxes
  PROVE  LET pieces == << <<"prefix">>, OrNull(box.caption), <<"colon">>,
                          OrNull(box.text), <<"newline">> >>
         IN Fits(Seen!SayOf(2, pieces), 1, Head(pieces))
<1> DEFINE pieces == << <<"prefix">>, OrNull(box.caption), <<"colon">>,
                        OrNull(box.text), <<"newline">> >>
           req == Seen!SayOf(2, pieces)
           first == Head(pieces)
<1>1. /\ OrNull(box.caption) \in Seq(Char) /\ OrNull(box.text) \in Seq(Char)
      /\ <<"prefix">> \in Seq(Char) /\ <<"colon">> \in Seq(Char)
      /\ <<"newline">> \in Seq(Char)
  BY TextsAssumption DEF OrNull
<1>2. pieces \in Seq(Seq(Char)) /\ pieces # <<>> /\ first \in Seq(Char)
  BY ONLY <1>1, FiveInOrder
<1> HIDE DEF pieces
<1>3. req.op = "say" /\ req = Seen!SayOf(2, req.texts) /\ req.texts = pieces
  BY DEF Seen!SayOf
<1>4. first = Head(req.texts)
  BY <1>3
<1> HIDE DEF first, req
<1>5. Fits(req, 1, first)
  BY <1>2, <1>3, <1>4 DEF Fits
<1> QED
  BY <1>5 DEF req, first, pieces

(* Whichever function the program calls, its request fits what the function
   is to do. *)
LEMMA ProgramAsks ==
  ASSUME TypeOK, Program
  PROVE  Asks \/ SetLastError
<1>0. MayCall \/ SetLastError
  BY DEF Program, CallCreateFile, CallCloseHandle, CallWriteFile, CallReadFile,
         CallFwrite, CallFprintf, CallMessageBox
<1>1. CASE CallCreateFile
  <2>1. PICK p \in Path, m \in Modes :
          Calls("CreateFileA", Seen!CreateOf(p, m.access, m.disposition), -1, <<>>)
    BY <1>1 DEF CallCreateFile
  <2> DEFINE req == Seen!CreateOf(p, m.access, m.disposition)
  <2>2. /\ req.op = "create" /\ req.path \in Path /\ req.access \in Access
        /\ req.disposition \in Dispositions
    BY ModesAssumption DEF Seen!CreateOf
  <2> HIDE DEF req
  <2>3. Fits(req, -1, <<>>)
    BY <2>2 DEF Fits
  <2> QED
    BY <1>0, <2>1, <2>3 DEF Asks, req
<1>2. CASE CallCloseHandle
  <2>1. PICK h \in Usable : Calls("CloseHandle", Seen!CloseOf(h), h - 1, <<>>)
    BY <1>2 DEF CallCloseHandle
  <2> DEFINE req == Seen!CloseOf(h)
  <2>2. req.op = "close" /\ req.handle = h /\ h \in Int
    BY UsableAreIntegers DEF Seen!CloseOf
  <2> HIDE DEF req
  <2>3. Fits(req, h - 1, <<>>)
    BY <2>2 DEF Fits
  <2> QED
    BY <1>0, <2>1, <2>3 DEF Asks, req
<1>3. CASE CallWriteFile
  <2>1. PICK h \in Usable, text \in Texts, overlapped \in BOOLEAN :
          Calls("WriteFile", Seen!WriteOf(h, text, 1, overlapped), h - 1, text)
    BY <1>3 DEF CallWriteFile
  <2> DEFINE req == Seen!WriteOf(h, text, 1, overlapped)
  <2>2. /\ req.op = "write" /\ req.handle = h /\ h \in Int
        /\ req.text = text /\ req.unit = 1
    BY UsableAreIntegers DEF Seen!WriteOf
  <2>3. text \in Seq(Char) /\ IsPrefixOf(text, text)
    BY TextsAssumption DEF IsPrefixOf
  <2> HIDE DEF req
  <2>4. Fits(req, h - 1, text)
    BY <2>2, <2>3 DEF Fits
  <2> QED
    BY <1>0, <2>1, <2>4 DEF Asks, req
<1>4. CASE CallReadFile
  <2>1. PICK h \in Usable, n \in Counts, overlapped \in BOOLEAN :
          Calls("ReadFile", Seen!ReadOf(h, n, overlapped), h - 1, <<>>)
    BY <1>4 DEF CallReadFile
  <2> DEFINE req == Seen!ReadOf(h, n, overlapped)
  <2>2. req.op = "read" /\ req.handle = h /\ h \in Int /\ req.count \in Nat
    BY UsableAreIntegers, TextsAssumption DEF Seen!ReadOf
  <2> HIDE DEF req
  <2>3. Fits(req, h - 1, <<>>)
    BY <2>2 DEF Fits
  <2> QED
    BY <1>0, <2>1, <2>3 DEF Asks, req
<1>5. CASE CallFwrite
  BY <1>0, <1>5, FwriteFits DEF CallFwrite, Asks
<1>6. CASE CallFprintf
  <2>1. PICK s \in Stream, p \in Prints :
          Calls("fprintf",
                Seen!WriteOf(shim_iob_to_fd(s) + 1, Meant(p), 1, FALSE),
                shim_iob_to_fd(s), Printed(Written(p.items), p.args))
    BY <1>6 DEF CallFprintf
  <2> DEFINE fd == shim_iob_to_fd(s)
             text == Printed(Written(p.items), p.args)
             req == Seen!WriteOf(fd + 1, Meant(p), 1, FALSE)
  <2>2. fd \in Int /\ fd = (fd + 1) - 1
    BY DEF shim_iob_to_fd, Stream
  <2>3. text \in Seq(Char)
    BY TextsAssumption
  <2>4. FormatsMean => text = Meant(p)
    BY DEF FormatsMean
  <2> HIDE DEF fd, text
  <2>5. FormatsMean => IsPrefixOf(text, Meant(p))
    BY <2>3, <2>4 DEF IsPrefixOf
  <2>6. /\ req.op = "write" /\ req.handle = fd + 1
        /\ req.text = Meant(p) /\ req.unit = 1
    BY DEF Seen!WriteOf
  <2> HIDE DEF req
  <2>7. Fits(req, fd, text)
    BY <2>2, <2>3, <2>5, <2>6 DEF Fits
  <2> QED
    BY <1>0, <2>1, <2>7 DEF Asks, req, fd, text
<1>7. CASE CallMessageBox
  BY <1>0, <1>7, BoxFits DEF CallMessageBox, Asks
<1> QED
  BY <1>1, <1>2, <1>3, <1>4, <1>5, <1>6, <1>7 DEF Program

----------------------------------------------------------------------------
(* Types. *)

Descriptor(fs) ==
  [file : DOMAIN fs, pos : Nat, access : SUBSET {"read", "write"}]

KernelOK(fs, ds) ==
  /\ DOMAIN fs \subseteq Path \union Streams
  /\ \A f \in DOMAIN fs : fs[f] \in Seq(Char)
  /\ DOMAIN ds \subseteq 0 .. MaxFd
  /\ \A fd \in DOMAIN ds : ds[fd] \in Descriptor(fs)

RestOK ==
  /\ g_last_error \in {0, 2, 6, 87}
  /\ DOMAIN held \subseteq 1 .. MaxFd + 1
  /\ inherited \subseteq 0 .. 2
  /\ asked \in 0 .. MaxCalls /\ printed \in 0 .. MaxPrinted

LEMMA TypeParts ==
  /\ TypeOK => KernelOK(files, fds) /\ RestOK
  /\ KernelOK(files, fds) /\ RestOK /\ CallOK => TypeOK
BY DEF TypeOK, KernelOK, RestOK, Descriptor, CallOK

LEMMA ServedIsCall ==
  ASSUME CallOK, call.req.op # "none"
  PROVE  /\ call # NoCall /\ Shaped(call)
         /\ Fits(call.req, call.fd, call.text)
         /\ call.done \in 0 .. Len(call.text)
BY DEF CallOK, NoCall, Seen!Idle

LEMMA StoredIsText ==
  ASSUME NEW c \in Seq(Char), NEW pos \in Nat, NEW text \in Seq(Char)
  PROVE  /\ Seen!StoredAt(c, pos, text) \in Seq(Char)
         /\ Len(Seen!StoredAt(c, pos, text))
              = IF Len(c) > pos + Len(text) THEN Len(c) ELSE pos + Len(text)
<1> DEFINE end == pos + Len(text)
           size == IF Len(c) > end THEN Len(c) ELSE end
           byte(k) == IF k > pos /\ k <= end THEN text[k - pos]
                      ELSE IF k <= Len(c) THEN c[k] ELSE NUL
<1>1. end \in Nat /\ size \in Nat
  OBVIOUS
<1>2. ASSUME NEW k \in 1 .. size
      PROVE  byte(k) \in Char
  <2>1. CASE k > pos /\ k <= end
    <3>1. k - pos \in 1 .. Len(text)
      BY <2>1
    <3> QED
      BY <2>1, <3>1
  <2>2. CASE ~ (k > pos /\ k <= end) /\ k <= Len(c)
    <3>1. k \in 1 .. Len(c)
      BY <1>1, <2>2
    <3> QED
      BY <2>2, <3>1
  <2>3. CASE ~ (k > pos /\ k <= end) /\ ~ (k <= Len(c))
    BY <2>3, TextsAssumption
  <2> QED
    BY <2>1, <2>2, <2>3
<1>3. Seen!StoredAt(c, pos, text) = [k \in 1 .. size |-> byte(k)]
  BY DEF Seen!StoredAt, Seen!NUL, NUL
<1> HIDE DEF size, byte
<1>4. /\ [k \in 1 .. size |-> byte(k)] \in Seq(Char)
      /\ Len([k \in 1 .. size |-> byte(k)]) = size
  BY <1>1, <1>2
<1> QED
  BY <1>3, <1>4 DEF size

(* What the kernel's calls leave: types, and the file of each descriptor. *)
SameFiles(ds, es) ==
  /\ DOMAIN es = DOMAIN ds
  /\ \A fd \in DOMAIN ds : es[fd].file = ds[fd].file

LEMMA MoveKeepsTypes ==
  ASSUME NEW fs, NEW ds, NEW es, KernelOK(fs, ds), NEW fd \in DOMAIN ds, NEW r \in Nat,
         es = [ds EXCEPT ![fd].pos = @ + r]
  PROVE  KernelOK(fs, es) /\ SameFiles(ds, es)
<1>1. DOMAIN es = DOMAIN ds
  OBVIOUS
<1>2. ASSUME NEW g \in DOMAIN ds
      PROVE  es[g] \in Descriptor(fs) /\ es[g].file = ds[g].file
  <2>1. ds[g] \in Descriptor(fs)
    BY DEF KernelOK
  <2>2. CASE g = fd
    <3>1. es[g] = [ds[g] EXCEPT !.pos = @ + r]
      BY <2>2
    <3> QED
      BY <2>1, <3>1 DEF Descriptor
  <2>3. CASE g # fd
    BY <2>1, <2>3
  <2> QED
    BY <2>2, <2>3
<1> QED
  BY <1>1, <1>2 DEF KernelOK, SameFiles

LEMMA OpenKeepsTypes ==
  ASSUME KernelOK(files, fds), NEW fd \in 0 .. MaxFd, NEW path \in Path, NEW flags,
         NEW access \in SUBSET {"read", "write"}, sys_open(fd, path, flags, access)
  PROVE  /\ KernelOK(files, fds)'
         /\ fd \notin DOMAIN fds /\ DOMAIN fds' = DOMAIN fds \union {fd}
         /\ fds'[fd] = [file |-> path, pos |-> 0, access |-> access]
         /\ \A g \in DOMAIN fds : fds'[g] = fds[g]
<1>1. /\ fd \notin DOMAIN fds
      /\ fds' = Opened(fd, [file |-> path, pos |-> 0, access |-> access])
      /\ files' = [f \in DOMAIN files \union {path} |->
                     IF f = path /\ (~ (path \in DOMAIN files) \/ "O_TRUNC" \in flags)
                       THEN <<>> ELSE files[f]]
  BY DEF sys_open, IsLowestFree
<1>2. /\ DOMAIN fds' = DOMAIN fds \union {fd}
      /\ fds'[fd] = [file |-> path, pos |-> 0, access |-> access]
      /\ \A g \in DOMAIN fds : fds'[g] = fds[g]
  BY <1>1 DEF Opened
<1>3. /\ DOMAIN files' = DOMAIN files \union {path}
      /\ \A f \in DOMAIN files' : files'[f] \in Seq(Char)
  BY <1>1 DEF KernelOK
<1>4. ASSUME NEW g \in DOMAIN fds'
      PROVE  fds'[g] \in Descriptor(files')
  BY <1>2, <1>3 DEF KernelOK, Descriptor
<1>5. KernelOK(files, fds)'
  BY <1>2, <1>3, <1>4 DEF KernelOK
<1> QED
  BY <1>1, <1>2, <1>5

LEMMA WriteKeepsTypes ==
  ASSUME KernelOK(files, fds), NEW fd, NEW text \in Seq(Char), sys_write(fd, text)
  PROVE  KernelOK(files, fds)' /\ SameFiles(fds, fds')
<1> DEFINE f == fds[fd].file
           at == IF f \in Streams THEN Len(files[f]) ELSE fds[fd].pos
<1>1. /\ fd \in DOMAIN fds
      /\ files' = [files EXCEPT ![f] = Seen!StoredAt(@, at, text)]
      /\ fds' = [fds EXCEPT ![fd].pos = @ + Len(text)]
  BY DEF sys_write, MayAccess
<1>2. f \in DOMAIN files /\ fds[fd].pos \in Nat
  BY <1>1 DEF KernelOK, Descriptor
<1>3. files[f] \in Seq(Char) /\ at \in Nat
  BY <1>2 DEF KernelOK
<1> HIDE DEF at, f
<1>4. Seen!StoredAt(files[f], at, text) \in Seq(Char)
  BY <1>3, StoredIsText
<1>5. /\ DOMAIN files' = DOMAIN files
      /\ \A g \in DOMAIN files' : files'[g] \in Seq(Char)
  <2>1. files' = [files EXCEPT ![f] = Seen!StoredAt(files[f], at, text)]
    BY <1>1
  <2> DEFINE stored == Seen!StoredAt(files[f], at, text)
  <2> HIDE DEF stored
  <2>2. files' = [files EXCEPT ![f] = stored] /\ stored \in Seq(Char)
    BY <1>4, <2>1 DEF stored
  <2> QED
    BY <2>2 DEF KernelOK
<1>6. KernelOK(files, fds') /\ SameFiles(fds, fds')
  <2> DEFINE r == Len(text)
  <2>1. r \in Nat
    OBVIOUS
  <2>2. fds' = [fds EXCEPT ![fd].pos = @ + r]
    BY <1>1
  <2> HIDE DEF r
  <2> QED
    BY <1>1, <2>1, <2>2, MoveKeepsTypes
<1> QED
  BY <1>5, <1>6 DEF KernelOK, Descriptor

----------------------------------------------------------------------------
(* The invariant: types, and the two invariants of the handles. *)

IOInvariant == TypeOK /\ CallOK /\ StdStreamsKept /\ HandlesMatch

LEMMA SameHandles ==
  ASSUME StdStreamsKept, HandlesMatch, SameFiles(fds, fds'),
         held' = held, inherited' = inherited, KernelOK(files, fds), RestOK
  PROVE  StdStreamsKept' /\ HandlesMatch'
BY DEF StdStreamsKept, HandlesMatch, SameFiles

LEMMA QuietKernel ==
  ASSUME IOInvariant, UNCHANGED <<files, fds, held, inherited>>, CallOK', RestOK'
  PROVE  IOInvariant'
<1>1. KernelOK(files, fds)'
  BY TypeParts DEF IOInvariant, KernelOK, Descriptor
<1>2. TypeOK'
  BY <1>1, TypeParts DEF TypeOK, KernelOK, RestOK, Descriptor, CallOK
<1> QED
  BY <1>2 DEF IOInvariant, StdStreamsKept, HandlesMatch

LEMMA AsksStep ==
  ASSUME IOInvariant, Asks
  PROVE  IOInvariant'
<1>1. PICK by, req, fd, text :
        MayCall /\ Fits(req, fd, text) /\ Calls(by, req, fd, text)
  BY DEF Asks
<1>2. /\ UNCHANGED <<files, fds, g_last_error, reply, held, inherited>>
      /\ call' = [by |-> by, req |-> req, fd |-> fd, text |-> text, done |-> 0,
                  was |-> [files |-> files, fds |-> fds]]
      /\ asked < MaxCalls /\ asked' = asked + 1
      /\ printed' = printed \/ (printed < MaxPrinted /\ printed' = printed + 1)
  BY <1>1 DEF MayCall, Calls, kernel
<1>3. RestOK'
  BY <1>2, IOAssumption, TypeParts DEF IOInvariant, RestOK
<1>4. Fits(req, fd, text)'
  BY <1>1, <1>2 DEF Fits, Usable
<1>5. text \in Seq(Char)
  BY <1>1 DEF Fits
<1>6. CallOK'
  <2>1. /\ call'.by = by /\ call'.req = req /\ call'.fd = fd /\ call'.text = text
        /\ call'.done = 0 /\ call'.was = [files |-> files, fds |-> fds]
    BY <1>2
  <2>2. Shaped(call)'
    BY <1>2, <2>1 DEF Shaped
  <2>3. call'.done \in 0 .. Len(call'.text)
    BY <1>5, <2>1
  <2> QED
    BY <1>4, <2>1, <2>2, <2>3 DEF CallOK, Fits, Usable
<1> QED
  BY <1>2, <1>3, <1>6, QuietKernel

LEMMA CreateStep ==
  ASSUME IOInvariant, CreateFileA
  PROVE  IOInvariant'
<1>1. call.req.op = "create" /\ call.req.path \in Path /\ call.req.access \in Access
  BY ServedIsCall DEF IOInvariant, CreateFileA, Serving, Fits
<1> DEFINE path == call.req.path
           access == rw(call.req.access)
           flags == posix_flags(call.req.disposition)
<1>2. PICK fd \in 0 .. MaxFd :
        /\ sys_open(fd, path, flags, access)
        /\ call' = NoCall
        /\ held' = [g \in DOMAIN held \union {HandleOf(fd)} |->
                      IF g = HandleOf(fd) THEN path ELSE held[g]]
  BY DEF CreateFileA, Returns
<1>3. access \in SUBSET {"read", "write"}
  BY DEF rw
<1>4. UNCHANGED <<g_last_error, inherited, asked, printed>>
  BY DEF CreateFileA
<1> HIDE DEF access, flags
<1>5. KernelOK(files, fds) /\ RestOK
  BY TypeParts DEF IOInvariant
<1>6. /\ KernelOK(files, fds)'
      /\ fd \notin DOMAIN fds /\ DOMAIN fds' = DOMAIN fds \union {fd}
      /\ fds'[fd] = [file |-> path, pos |-> 0, access |-> access]
      /\ \A g \in DOMAIN fds : fds'[g] = fds[g]
  BY <1>1, <1>2, <1>3, <1>5, OpenKeepsTypes
<1>7. 0 .. fd - 1 \subseteq DOMAIN fds
  BY <1>2 DEF sys_open, IsLowestFree
<1>8. HandleOf(fd) = fd + 1 /\ fd \in Nat /\ MaxFd \in Nat
  BY IOAssumption DEF HandleOf
<1>9. /\ DOMAIN held' = DOMAIN held \union {fd + 1}
      /\ held'[fd + 1] = path
      /\ \A h \in DOMAIN held : h # fd + 1 => held'[h] = held[h]
  BY <1>2, <1>8
<1>10. DOMAIN held \subseteq Int
  BY <1>5, <1>8 DEF RestOK
<1>11. RestOK'
  BY <1>4, <1>5, <1>8, <1>9 DEF RestOK
<1>12. StdStreamsKept'
  <2>1. \A d \in inherited : d \in DOMAIN fds' /\ fds'[d].file \in Streams
    BY <1>6 DEF IOInvariant, StdStreamsKept
  <2>2. ASSUME inherited = 0 .. 2
        PROVE  DOMAIN held' \intersect StdHandles = {}
    <3>1. fd \notin {0, 1, 2}
      BY <1>6, <2>2 DEF IOInvariant, StdStreamsKept
    <3> QED
      BY <1>8, <1>9, <2>2, <3>1 DEF IOInvariant, StdStreamsKept, StdHandles
  <2> QED
    BY <1>4, <2>1, <2>2 DEF StdStreamsKept
<1>13. HandlesMatch'
  <2>1. ASSUME NEW h \in DOMAIN held'
        PROVE  h > 0 /\ h - 1 \in DOMAIN fds' /\ fds'[h - 1].file = held'[h]
    <3>1. CASE h = fd + 1
      BY <1>6, <1>8, <1>9, <3>1
    <3>2. CASE h # fd + 1
      <4>1. h \in DOMAIN held /\ h > 0 /\ h - 1 \in DOMAIN fds
            /\ fds[h - 1].file = held[h]
        BY <1>9, <3>2 DEF IOInvariant, HandlesMatch
      <4> QED
        BY <1>6, <1>9, <3>2, <4>1
    <3> QED
      BY <3>1, <3>2
  <2>2. ASSUME inherited = 0 .. 2
        PROVE  DOMAIN fds' = inherited \union {h - 1 : h \in DOMAIN held'}
    <3>1. DOMAIN fds = inherited \union {h - 1 : h \in DOMAIN held}
      BY <2>2 DEF IOInvariant, HandlesMatch
    <3>2. {h - 1 : h \in DOMAIN held'} = {h - 1 : h \in DOMAIN held} \union {fd}
      BY <1>8, <1>9
    <3> QED
      BY <1>6, <3>1, <3>2
  <2> QED
    BY <1>4, <2>1, <2>2 DEF HandlesMatch
<1>14. CallOK'
  BY <1>2 DEF CallOK
<1>15. TypeOK'
  BY <1>6, <1>11, <1>14, <1>2 DEF TypeOK, KernelOK, RestOK, Descriptor
<1> QED
  BY <1>12, <1>13, <1>14, <1>15 DEF IOInvariant

LEMMA CloseStep ==
  ASSUME IOInvariant, CloseHandle
  PROVE  IOInvariant'
<1> DEFINE h == call.req.handle
           fd == call.fd
<1>1. KernelOK(files, fds) /\ RestOK /\ MaxFd \in Nat
  BY TypeParts, IOAssumption DEF IOInvariant
<1>2. fd = h - 1 /\ h \in Usable /\ h \in Int
  BY ServedIsCall, UsableAreIntegers DEF IOInvariant, CloseHandle, Serving, Fits
<1>3. /\ fds' = IF fd > 2 THEN [d \in DOMAIN fds \ {fd} |-> fds[d]] ELSE fds
      /\ call' = NoCall
      /\ held' = [g \in DOMAIN held \ {h} |-> held[g]]
      /\ UNCHANGED <<files, g_last_error, inherited, asked, printed>>
  BY DEF CloseHandle, Closes, Returns
<1> HIDE DEF h, fd
<1>4. KernelOK(files, fds)'
  <2>1. /\ DOMAIN fds' \subseteq DOMAIN fds
        /\ \A d \in DOMAIN fds' : fds'[d] = fds[d]
    BY <1>3
  <2> QED
    BY <1>1, <1>3, <2>1 DEF KernelOK, Descriptor
<1>5. /\ DOMAIN held' = DOMAIN held \ {h}
      /\ \A g \in DOMAIN held' : held'[g] = held[g]
      /\ DOMAIN held \subseteq Int
  BY <1>1, <1>3 DEF RestOK
<1>6. RestOK'
  BY <1>1, <1>3, <1>5 DEF RestOK
<1>7. StdStreamsKept'
  <2>1. \A d \in inherited : d \in DOMAIN fds' /\ fds'[d] = fds[d]
    BY <1>1, <1>2, <1>3 DEF IOInvariant, StdStreamsKept, RestOK
  <2> QED
    BY <1>3, <1>5, <2>1 DEF IOInvariant, StdStreamsKept
<1>8. HandlesMatch'
  <2>1. ASSUME NEW g \in DOMAIN held'
        PROVE  g > 0 /\ g - 1 \in DOMAIN fds' /\ fds'[g - 1].file = held'[g]
    <3>1. /\ g \in DOMAIN held /\ g # h /\ g \in Int /\ g > 0
          /\ g - 1 \in DOMAIN fds /\ fds[g - 1].file = held[g]
      BY <1>5 DEF IOInvariant, HandlesMatch
    <3>2. g - 1 # fd
      BY <1>2, <3>1
    <3> QED
      BY <1>3, <1>5, <3>1, <3>2
  <2>2. ASSUME inherited = 0 .. 2
        PROVE  DOMAIN fds' = inherited \union {g - 1 : g \in DOMAIN held'}
    <3>1. /\ DOMAIN fds = inherited \union {g - 1 : g \in DOMAIN held}
          /\ DOMAIN held \intersect {1, 2, 3} = {}
      BY <2>2 DEF IOInvariant, HandlesMatch, StdStreamsKept, StdHandles
    <3>2. CASE fd > 2
      <4>1. DOMAIN fds' = DOMAIN fds \ {fd}
        BY <1>3, <3>2
      <4>2. {g - 1 : g \in DOMAIN held'} = {g - 1 : g \in DOMAIN held} \ {fd}
        BY <1>2, <1>5
      <4>3. inherited \ {fd} = inherited
        BY <2>2, <3>2
      <4> QED
        BY <3>1, <4>1, <4>2, <4>3
    <3>3. CASE ~ (fd > 2)
      <4>1. h \notin DOMAIN held
        BY <1>1, <1>2, <3>1, <3>3 DEF RestOK
      <4>2. DOMAIN held' = DOMAIN held /\ fds' = fds
        BY <1>3, <1>5, <3>3, <4>1
      <4> QED
        BY <3>1, <4>2
    <3> QED
      BY <3>2, <3>3
  <2> QED
    BY <1>3, <2>1, <2>2 DEF HandlesMatch
<1>9. CallOK'
  BY <1>3 DEF CallOK
<1>10. TypeOK'
  BY <1>3, <1>4, <1>6 DEF TypeOK, KernelOK, RestOK, Descriptor
<1> QED
  BY <1>7, <1>8, <1>9, <1>10 DEF IOInvariant

(* The piece write() stores is text. *)
LEMMA PieceIsText ==
  ASSUME NEW text \in Seq(Char), NEW done \in 0 .. Len(text),
         NEW r \in 1 .. Len(text) - done
  PROVE  /\ SubSeq(text, done + 1, done + r) \in Seq(Char)
         /\ Len(SubSeq(text, done + 1, done + r)) = r
         /\ \A k \in 1 .. r : SubSeq(text, done + 1, done + r)[k] = text[done + k]
BY SubSeqProperties

LEMMA LoopServes ==
  ASSUME IOInvariant, InLoop
  PROVE  /\ call # NoCall /\ Shaped(call) /\ Fits(call.req, call.fd, call.text)
         /\ call.text \in Seq(Char) /\ call.done \in 0 .. Len(call.text)
         /\ call.req.op \in {"say", "write"}
BY ServedIsCall DEF IOInvariant, InLoop, Serving, Fits

LEMMA WriteSomeStep ==
  ASSUME IOInvariant, WriteSome
  PROVE  IOInvariant'
<1>1. /\ Shaped(call) /\ Fits(call.req, call.fd, call.text)
      /\ call.text \in Seq(Char) /\ call.done \in 0 .. Len(call.text)
  BY LoopServes DEF WriteSome
<1>2. PICK r \in 1 .. Len(call.text) - call.done :
        /\ sys_write(call.fd, NextPiece(r))
        /\ call' = [call EXCEPT !.done = @ + r]
  BY DEF WriteSome
<1>3. UNCHANGED <<g_last_error, reply, held, inherited, asked, printed>>
  BY DEF WriteSome
<1>4. KernelOK(files, fds) /\ RestOK /\ RestOK'
  BY <1>3, TypeParts DEF IOInvariant, RestOK
<1>5. KernelOK(files, fds)' /\ SameFiles(fds, fds')
  <2>1. NextPiece(r) \in Seq(Char)
    BY <1>1, PieceIsText DEF NextPiece
  <2> QED
    BY <1>2, <1>4, <2>1, WriteKeepsTypes
<1>6. CallOK'
  <2>1. /\ call'.by = call.by /\ call'.req = call.req /\ call'.fd = call.fd
        /\ call'.text = call.text /\ call'.done = call.done + r
        /\ call'.was = call.was
        /\ Shaped(call)'
    BY <1>1, <1>2 DEF Shaped
  <2>2. call'.done \in 0 .. Len(call'.text)
    BY <1>1, <2>1
  <2> QED
    BY <1>1, <1>3, <2>1, <2>2 DEF CallOK, Fits, Usable
<1>7. TypeOK'
  BY <1>4, <1>5, <1>6 DEF TypeOK, KernelOK, RestOK, Descriptor, CallOK
<1>8. StdStreamsKept' /\ HandlesMatch'
  BY <1>3, <1>4, <1>5, SameHandles DEF IOInvariant
<1> QED
  BY <1>6, <1>7, <1>8 DEF IOInvariant

LEMMA TailOfLonger ==
  ASSUME NEW S, NEW seq \in Seq(S), Len(seq) > 1
  PROVE  Tail(seq) \in Seq(S) /\ Tail(seq) # <<>> /\ Head(Tail(seq)) \in S
<1> DEFINE rest == Tail(seq)
<1>1. rest \in Seq(S) /\ Len(rest) = Len(seq) - 1
  OBVIOUS
<1> HIDE DEF rest
<1>2. Len(rest) > 0
  BY <1>1
<1>3. rest # <<>> /\ Head(rest) \in S
  BY <1>1, <1>2
<1> QED
  BY <1>1, <1>3 DEF rest

(* MessageBoxA goes on with the rest of its strings. *)
LEMMA NextStringCallOK ==
  ASSUME IOInvariant, Serving("say"), Len(call.req.texts) > 1,
         NextString(Tail(call.req.texts)), UNCHANGED held
  PROVE  CallOK'
<1> DEFINE rest == Tail(call.req.texts)
<1>1. /\ Shaped(call) /\ Fits(call.req, call.fd, call.text)
      /\ call.req.op = "say"
  BY ServedIsCall DEF IOInvariant, Serving
<1>2. call.fd = 1 /\ call.req.texts \in Seq(Seq(Char))
  BY <1>1 DEF Fits
<1>3. rest \in Seq(Seq(Char)) /\ rest # <<>> /\ Head(rest) \in Seq(Char)
  BY <1>2, TailOfLonger
<1>4. /\ call'.by = call.by /\ call'.req = Seen!SayOf(2, rest)
      /\ call'.fd = call.fd /\ call'.text = Head(rest) /\ call'.done = 0
      /\ Shaped(call)'
  BY <1>1 DEF NextString, Shaped
<1> HIDE DEF rest
<1>5. /\ call'.req.op = "say" /\ call'.req.texts = rest
      /\ call'.req = Seen!SayOf(2, call'.req.texts)
  BY <1>4 DEF Seen!SayOf
<1>6. Fits(call.req, call.fd, call.text)'
  BY <1>2, <1>3, <1>4, <1>5 DEF Fits
<1>7. call'.done \in 0 .. Len(call'.text)
  BY <1>3, <1>4
<1> QED
  BY <1>4, <1>6, <1>7 DEF CallOK

LEMMA WriteEndsStep ==
  ASSUME IOInvariant, WriteDone \/ WriteStops
  PROVE  IOInvariant'
<1>1. LoopDone /\ UNCHANGED <<files, fds, g_last_error, held, inherited, asked, printed>>
  BY DEF WriteDone, WriteStops, kernel
<1>2. CallOK'
  <2>1. CASE call' = NoCall
    BY <2>1 DEF CallOK
  <2>2. CASE /\ Serving("say") /\ Len(call.req.texts) > 1
             /\ NextString(Tail(call.req.texts))
    BY <1>1, <2>2, NextStringCallOK
  <2> QED
    BY <1>1, <2>1, <2>2 DEF LoopDone, Returns
<1>3. RestOK'
  BY <1>1, TypeParts DEF IOInvariant, RestOK
<1> QED
  BY <1>1, <1>2, <1>3, QuietKernel

LEMMA FailsStep ==
  ASSUME IOInvariant, CreateFileFails \/ Refuse \/ ReadFails
  PROVE  IOInvariant'
<1>1. /\ call' = NoCall /\ g_last_error' \in {g_last_error, 2, 6, 87}
      /\ UNCHANGED <<files, fds, held, inherited, asked, printed>>
  BY DEF CreateFileFails, Refuse, ReadFails, Rejects, Returns, kernel
<1>2. CallOK' /\ RestOK'
  BY <1>1, TypeParts DEF IOInvariant, RestOK, CallOK
<1> QED
  BY <1>1, <1>2, QuietKernel

LEMMA ReadStep ==
  ASSUME IOInvariant, ReadFile
  PROVE  IOInvariant'
<1>1. PICK r \in Nat :
        /\ call.fd \in DOMAIN fds
        /\ fds' = [fds EXCEPT ![call.fd].pos = @ + r]
  <2> DEFINE rest == SubSeq(files[fds[call.fd].file], fds[call.fd].pos + 1,
                            Len(files[fds[call.fd].file]))
             most == Least(call.req.count, Len(rest))
  <2>1. PICK r \in 0 .. most : fds' = [fds EXCEPT ![call.fd].pos = @ + r]
    BY DEF ReadFile
  <2>2. r \in Nat
    <3> HIDE DEF most
    <3> QED
      OBVIOUS
  <2> QED
    BY <2>1, <2>2 DEF ReadFile, MayAccess
<1>2. /\ call' = NoCall
      /\ UNCHANGED <<files, g_last_error, held, inherited, asked, printed>>
  BY DEF ReadFile, Returns
<1>3. KernelOK(files, fds) /\ RestOK /\ RestOK' /\ CallOK'
  BY <1>2, TypeParts DEF IOInvariant, RestOK, CallOK
<1>4. KernelOK(files, fds') /\ SameFiles(fds, fds')
  BY <1>1, <1>3, MoveKeepsTypes
<1>5. TypeOK'
  BY <1>2, <1>3, <1>4 DEF TypeOK, KernelOK, RestOK, Descriptor
<1>6. StdStreamsKept' /\ HandlesMatch'
  BY <1>2, <1>3, <1>4, SameHandles DEF IOInvariant
<1> QED
  BY <1>3, <1>5, <1>6 DEF IOInvariant

LEMMA IOStep ==
  ASSUME IOInvariant, [Next]_vars
  PROVE  IOInvariant'
<1>1. CASE Asks
  BY <1>1, AsksStep
<1>2. CASE SetLastError
  <2>1. UNCHANGED <<files, fds, call, held, inherited, asked, printed>>
        /\ g_last_error' = 0
    BY <1>2 DEF SetLastError, kernel
  <2>2. CallOK' /\ RestOK'
    BY <2>1, TypeParts DEF IOInvariant, RestOK, CallOK, Fits, Usable
  <2> QED
    BY <2>1, <2>2, QuietKernel
<1>3. CASE CreateFileA
  BY <1>3, CreateStep
<1>4. CASE CloseHandle
  BY <1>4, CloseStep
<1>5. CASE WriteSome
  BY <1>5, WriteSomeStep
<1>6. CASE WriteDone \/ WriteStops
  BY <1>6, WriteEndsStep
<1>7. CASE CreateFileFails \/ Refuse \/ ReadFails
  BY <1>7, FailsStep
<1>8. CASE ReadFile
  BY <1>8, ReadStep
<1>9. CASE UNCHANGED vars
  <2>1. CallOK' /\ RestOK'
    BY <1>9, TypeParts DEF IOInvariant, RestOK, CallOK, Fits, Usable, vars
  <2> QED
    BY <1>9, <2>1, QuietKernel DEF vars
<1> QED
  BY <1>1, <1>2, <1>3, <1>4, <1>5, <1>6, <1>7, <1>8, <1>9, ProgramAsks
     DEF Next, Shim, IOInvariant

LEMMA IOInit ==
  ASSUME Init
  PROVE  IOInvariant
<1>1. /\ inherited \in Inherited /\ inherited \subseteq 0 .. 2
      /\ call = NoCall /\ held = <<>> /\ g_last_error = 0
      /\ asked = 0 /\ printed = 0
  BY IOAssumption DEF Init
<1>2. /\ DOMAIN files \subseteq Path \union Streams /\ Streams \subseteq DOMAIN files
      /\ \A f \in DOMAIN files : files[f] \in Seq(Char)
  <2>1. PICK existing \in SUBSET Path, content \in Contents :
          files = [f \in existing \union Streams |->
                     IF f \in Path THEN content
                     ELSE IF f = "stdin" THEN <<"i", "n">> ELSE <<>>]
    BY DEF Init
  <2>2. content \in Seq(Char) /\ <<"i", "n">> \in Seq(Char) /\ <<>> \in Seq(Char)
    BY TextsAssumption
  <2> QED
    BY <2>1, <2>2
<1>3. /\ DOMAIN fds = inherited
      /\ \A fd \in inherited : \E f \in Streams, a \in SUBSET {"read", "write"} :
           fds[fd] = [file |-> f, pos |-> 0, access |-> a]
  <2>1. PICK errors \in Errors :
          fds = [fd \in inherited |->
                   CASE fd = 0 -> StdDescriptor("stdin", {"read"})
                     [] fd = 1 -> StdDescriptor("stdout", {"write"})
                     [] fd = 2 -> StdDescriptor(errors, {"write"})]
    BY DEF Init
  <2>2. errors \in Streams
    BY IOAssumption DEF Streams
  <2>3. ASSUME NEW fd \in inherited
        PROVE  \E f \in Streams, a \in SUBSET {"read", "write"} :
                 fds[fd] = [file |-> f, pos |-> 0, access |-> a]
    <3>1. CASE fd = 0
      BY <2>1, <3>1 DEF StdDescriptor, Streams
    <3>2. CASE fd = 1
      BY <2>1, <3>2 DEF StdDescriptor, Streams
    <3>3. CASE fd = 2
      BY <2>1, <2>2, <3>3 DEF StdDescriptor
    <3>4. fd = 0 \/ fd = 1 \/ fd = 2
      BY <1>1
    <3> QED
      BY ONLY <3>1, <3>2, <3>3, <3>4
  <2> QED
    BY <2>1, <2>3
<1>4. KernelOK(files, fds)
  <2>1. DOMAIN fds \subseteq 0 .. MaxFd
    BY <1>1, <1>3, IOAssumption
  <2>2. ASSUME NEW fd \in DOMAIN fds
        PROVE  fds[fd] \in Descriptor(files)
    BY <1>2, <1>3 DEF Descriptor
  <2> QED
    BY <1>2, <2>1, <2>2 DEF KernelOK
<1>5. DOMAIN held = {}
  BY <1>1
<1>6. RestOK /\ CallOK
  BY <1>1, <1>5, IOAssumption DEF RestOK, CallOK
<1>7. StdStreamsKept /\ HandlesMatch
  BY <1>3, <1>5 DEF StdStreamsKept, HandlesMatch
<1> QED
  BY <1>4, <1>6, <1>7, TypeParts DEF IOInvariant

LEMMA IOInvariantAlways == Spec => []IOInvariant
<1>1. Init => IOInvariant
  BY IOInit
<1>2. IOInvariant /\ [Next]_vars => IOInvariant'
  BY IOStep
<1> QED
  BY <1>1, <1>2, PTL DEF Spec

(* The kernel's files and descriptors, the call in progress and the handles
   keep their types. *)
THEOREM IOTypeCorrect == Spec => []TypeOK
<1>1. IOInvariant => TypeOK
  BY DEF IOInvariant
<1> QED
  BY <1>1, IOInvariantAlways, PTL

(* No sequence of calls closes or takes over a standard stream. *)
THEOREM StreamsAlwaysKept == Spec => []StdStreamsKept
<1>1. IOInvariant => StdStreamsKept
  BY DEF IOInvariant
<1> QED
  BY <1>1, IOInvariantAlways, PTL

(* Handles stay true to their files, and no descriptor is leaked. *)
THEOREM HandlesAlwaysMatch == Spec => []HandlesMatch
<1>1. IOInvariant => HandlesMatch
  BY DEF IOInvariant
<1> QED
  BY <1>1, IOInvariantAlways, PTL

----------------------------------------------------------------------------
(* The promise of AbstractFiles.  During a call the kernel has stored the    *)
(* first call.done characters of its text, on top of what the call found.   *)

MovedBy(d, n) == [d EXCEPT !.pos = @ + n]

(* From one state of files and descriptors to another: text is stored
   through descriptor fd. *)
Position(fs, ds, fd) ==
  IF ds[fd].file \in Streams THEN Len(fs[ds[fd].file]) ELSE ds[fd].pos

StoredTo(fs, ds, gs, es, fd, text) ==
  /\ fd \in DOMAIN ds /\ "write" \in ds[fd].access
  /\ gs = [fs EXCEPT ![ds[fd].file] =
             Seen!StoredAt(fs[ds[fd].file], Position(fs, ds, fd), text)]
  /\ es = [ds EXCEPT ![fd] = MovedBy(ds[fd], Len(text))]

Progress ==
  call # NoCall =>
    /\ KernelOK(call.was.files, call.was.fds)
    /\ call.done = 0 => files = call.was.files /\ fds = call.was.fds
    /\ call.done > 0 =>
         /\ InLoop
         /\ StoredTo(call.was.files, call.was.fds, files, fds, call.fd,
                     SubSeq(call.text, 1, call.done))

(* Handles and descriptors. *)
LEMMA HandlesFacts ==
  ASSUME NEW ds, DOMAIN ds \subseteq Int
  PROVE  /\ \A h \in Int : h \in DOMAIN HandlesOf(ds) <=> h - 1 \in DOMAIN ds
         /\ DOMAIN HandlesOf(ds) \subseteq Int
         /\ \A fd \in DOMAIN ds : /\ fd + 1 \in DOMAIN HandlesOf(ds)
                                  /\ HandlesOf(ds)[fd + 1] = ds[fd]
         /\ \A h \in DOMAIN HandlesOf(ds) : HandlesOf(ds)[h] = ds[h - 1]
<1>1. DOMAIN HandlesOf(ds) = {fd + 1 : fd \in DOMAIN ds}
  BY DEF HandlesOf
<1>2. \A fd \in DOMAIN ds : (fd + 1) - 1 = fd
  OBVIOUS
<1>3. \A h \in DOMAIN HandlesOf(ds) : HandlesOf(ds)[h] = ds[h - 1]
  BY DEF HandlesOf
<1>4. \A fd \in DOMAIN ds : HandlesOf(ds)[fd + 1] = ds[fd]
  BY <1>1, <1>2, <1>3
<1>5. \A h \in Int : h \in DOMAIN HandlesOf(ds) <=> h - 1 \in DOMAIN ds
  BY <1>1
<1> QED
  BY <1>1, <1>3, <1>4, <1>5

With(ds, d, desc) == [g \in DOMAIN ds \union {d} |-> IF g = d THEN desc ELSE ds[g]]
Without(ds, d) == [g \in DOMAIN ds \ {d} |-> ds[g]]

LEMMA HandlesOpened ==
  ASSUME NEW ds, DOMAIN ds \subseteq Int, NEW fd \in Int, NEW desc
  PROVE  HandlesOf(With(ds, fd, desc)) = With(HandlesOf(ds), fd + 1, desc)
<1> DEFINE es == With(ds, fd, desc)
<1>1. /\ DOMAIN es = DOMAIN ds \union {fd} /\ DOMAIN es \subseteq Int
      /\ es[fd] = desc /\ \A d \in DOMAIN ds : d # fd => es[d] = ds[d]
  BY DEF With
<1> HIDE DEF es
<1>2. DOMAIN HandlesOf(es) = DOMAIN HandlesOf(ds) \union {fd + 1}
  BY <1>1 DEF HandlesOf
<1>3. ASSUME NEW g \in DOMAIN HandlesOf(es)
      PROVE  HandlesOf(es)[g] = IF g = fd + 1 THEN desc ELSE HandlesOf(ds)[g]
  <2>1. HandlesOf(es)[g] = es[g - 1] /\ g - 1 \in DOMAIN es /\ g \in Int
    BY <1>1, HandlesFacts
  <2>2. CASE g = fd + 1
    BY <1>1, <2>1, <2>2
  <2>3. CASE g # fd + 1
    <3>1. g - 1 # fd /\ g \in DOMAIN HandlesOf(ds)
      BY <1>2, <2>1, <2>3
    <3>2. HandlesOf(ds)[g] = ds[g - 1]
      BY <3>1, HandlesFacts
    <3> QED
      BY <1>1, <2>1, <2>3, <3>1, <3>2
  <2> QED
    BY <2>2, <2>3
<1>4. HandlesOf(es) = [g \in DOMAIN HandlesOf(es) |-> HandlesOf(es)[g]]
  BY DEF HandlesOf
<1> QED
  BY <1>2, <1>3, <1>4 DEF With, es

LEMMA HandlesClosed ==
  ASSUME NEW ds, DOMAIN ds \subseteq Int, NEW fd \in Int
  PROVE  HandlesOf(Without(ds, fd)) = Without(HandlesOf(ds), fd + 1)
<1> DEFINE es == Without(ds, fd)
<1>1. /\ DOMAIN es = DOMAIN ds \ {fd} /\ DOMAIN es \subseteq Int
      /\ \A d \in DOMAIN es : es[d] = ds[d]
  BY DEF Without
<1> HIDE DEF es
<1>2. DOMAIN HandlesOf(es) = DOMAIN HandlesOf(ds) \ {fd + 1}
  BY <1>1 DEF HandlesOf
<1>3. ASSUME NEW g \in DOMAIN HandlesOf(es)
      PROVE  HandlesOf(es)[g] = HandlesOf(ds)[g]
  <2>1. HandlesOf(es)[g] = es[g - 1] /\ g - 1 \in DOMAIN es
    BY <1>1, HandlesFacts
  <2>2. HandlesOf(ds)[g] = ds[g - 1]
    BY <1>2, HandlesFacts
  <2> QED
    BY <1>1, <2>1, <2>2
<1>4. HandlesOf(es) = [g \in DOMAIN HandlesOf(es) |-> HandlesOf(es)[g]]
  BY DEF HandlesOf
<1> QED
  BY <1>2, <1>3, <1>4 DEF Without, es

Shifted(ds, d, k) == [ds EXCEPT ![d] = MovedBy(ds[d], k)]

LEMMA HandlesMoved ==
  ASSUME NEW ds, DOMAIN ds \subseteq Int, NEW fd \in DOMAIN ds, NEW k
  PROVE  HandlesOf(Shifted(ds, fd, k)) = Shifted(HandlesOf(ds), fd + 1, k)
<1> DEFINE H == HandlesOf(ds)
           moved == MovedBy(ds[fd], k)
           es == Shifted(ds, fd, k)
<1>1. es = [ds EXCEPT ![fd] = moved]
  BY DEF Shifted
<1>2. fd + 1 \in DOMAIN H /\ H[fd + 1] = ds[fd]
  BY HandlesFacts
<1>3. Shifted(H, fd + 1, k) = [H EXCEPT ![fd + 1] = moved]
  BY <1>2 DEF Shifted
<1> HIDE DEF moved, es
<1>4. DOMAIN es = DOMAIN ds /\ DOMAIN HandlesOf(es) = DOMAIN H
  BY <1>1 DEF HandlesOf
<1>5. ASSUME NEW g \in DOMAIN H
      PROVE  HandlesOf(es)[g] = IF g = fd + 1 THEN moved ELSE H[g]
  <2>1. HandlesOf(es)[g] = es[g - 1] /\ g - 1 \in DOMAIN ds /\ g \in Int
    BY <1>4, HandlesFacts
  <2>2. H[g] = ds[g - 1]
    BY HandlesFacts
  <2>3. g = fd + 1 <=> g - 1 = fd
    BY <2>1
  <2> QED
    BY <1>1, <2>1, <2>2, <2>3
<1>6. /\ HandlesOf(es) = [g \in DOMAIN H |-> HandlesOf(es)[g]]
      /\ H = [g \in DOMAIN H |-> H[g]]
  BY <1>4 DEF HandlesOf
<1> HIDE DEF H
<1>7. [H EXCEPT ![fd + 1] = moved] = [g \in DOMAIN H |-> IF g = fd + 1 THEN moved ELSE H[g]]
  BY <1>6
<1>8. HandlesOf(es) = [g \in DOMAIN H |-> IF g = fd + 1 THEN moved ELSE H[g]]
  BY <1>5, <1>6
<1> QED
  BY <1>3, <1>7, <1>8 DEF H, es

(* Two pieces of a text stored one after the other are the text stored. *)
LEMMA StoredInPieces ==
  ASSUME NEW c \in Seq(Char), NEW at \in Nat, NEW text \in Seq(Char),
         NEW done \in 0 .. Len(text), NEW r \in 1 .. Len(text) - done
  PROVE  LET first == SubSeq(text, 1, done)
             piece == SubSeq(text, done + 1, done + r)
         IN Seen!StoredAt(Seen!StoredAt(c, at, first), at + done, piece)
              = Seen!StoredAt(c, at, SubSeq(text, 1, done + r))
<1> DEFINE first == SubSeq(text, 1, done)
           piece == SubSeq(text, done + 1, done + r)
           both == SubSeq(text, 1, done + r)
           once == Seen!StoredAt(c, at, both)
           front == Seen!StoredAt(c, at, first)
           twice == Seen!StoredAt(front, at + done, piece)
<1>1. /\ done \in Nat /\ r \in Nat /\ r > 0 /\ done + r <= Len(text)
      /\ Len(text) \in Nat /\ Len(c) \in Nat
  OBVIOUS
<1>2. /\ first \in Seq(Char) /\ Len(first) = done
      /\ \A k \in 1 .. done : first[k] = text[k]
  BY SubSeqProperties
<1>3. /\ both \in Seq(Char) /\ Len(both) = done + r
      /\ \A k \in 1 .. done + r : both[k] = text[k]
  BY <1>1, SubSeqProperties
<1>4. /\ piece \in Seq(Char) /\ Len(piece) = r
      /\ \A k \in 1 .. r : piece[k] = text[done + k]
  BY PieceIsText
<1> HIDE DEF first, piece, both
<1>5. front \in Seq(Char)
      /\ Len(front) = IF Len(c) > at + done THEN Len(c) ELSE at + done
  BY <1>2, StoredIsText
<1>6. once \in Seq(Char)
      /\ Len(once) = IF Len(c) > at + (done + r) THEN Len(c) ELSE at + (done + r)
  BY <1>3, StoredIsText
<1>7. front = [k \in 1 .. Len(front) |->
                 IF k > at /\ k <= at + done THEN first[k - at]
                 ELSE IF k <= Len(c) THEN c[k] ELSE Seen!NUL]
  BY <1>2, <1>5 DEF Seen!StoredAt
<1>8. once = [k \in 1 .. Len(once) |->
                IF k > at /\ k <= at + (done + r) THEN both[k - at]
                ELSE IF k <= Len(c) THEN c[k] ELSE Seen!NUL]
  BY <1>3, <1>6 DEF Seen!StoredAt
<1> HIDE DEF front, once
<1>9. at + done \in Nat
  BY <1>1
<1>10. /\ twice \in Seq(Char)
       /\ Len(twice) = IF Len(front) > at + done + r
                         THEN Len(front) ELSE at + done + r
  BY <1>4, <1>5, <1>9, StoredIsText
<1>11. twice = [k \in 1 .. Len(twice) |->
                  IF k > at + done /\ k <= at + done + r THEN piece[k - (at + done)]
                  ELSE IF k <= Len(front) THEN front[k] ELSE Seen!NUL]
  BY <1>4, <1>10 DEF Seen!StoredAt
<1> HIDE DEF twice
<1>12. Len(twice) = Len(once)
  BY <1>1, <1>5, <1>6, <1>10
<1>13. ASSUME NEW k \in 1 .. Len(once)
       PROVE  twice[k] = once[k]
  <2>1. k \in Nat /\ k >= 1 /\ Len(once) \in Nat
    BY <1>6
  <2>2. CASE k > at + done /\ k <= at + done + r
    <3>1. twice[k] = piece[k - (at + done)]
      BY <1>11, <1>12, <2>2
    <3>2. k - (at + done) \in 1 .. r /\ done + (k - (at + done)) = k - at
      BY <1>1, <2>1, <2>2
    <3>3. piece[k - (at + done)] = text[k - at]
      BY <1>4, <3>2
    <3>4. k > at /\ k <= at + (done + r) /\ k - at \in 1 .. done + r
      BY <1>1, <2>1, <2>2
    <3>5. once[k] = both[k - at] /\ both[k - at] = text[k - at]
      BY <1>3, <1>8, <3>4
    <3> QED
      BY <3>1, <3>3, <3>5
  <2>3. CASE k > at /\ k <= at + done
    <3>1. k <= Len(front) /\ ~ (k > at + done)
      BY <1>1, <1>5, <2>1, <2>3
    <3>2. twice[k] = front[k]
      BY <1>11, <1>12, <3>1
    <3>3. k - at \in 1 .. done /\ k - at \in 1 .. done + r /\ k <= at + (done + r)
      BY <1>1, <2>1, <2>3
    <3>4. front[k] = first[k - at] /\ first[k - at] = text[k - at]
      BY <1>2, <1>5, <1>7, <2>1, <2>3, <3>1, <3>3
    <3>5. once[k] = both[k - at] /\ both[k - at] = text[k - at]
      BY <1>3, <1>8, <2>3, <3>3
    <3> QED
      BY <3>2, <3>4, <3>5
  <2>4. CASE ~ (k > at /\ k <= at + (done + r))
    <3>1. /\ ~ (k > at + done /\ k <= at + done + r)
          /\ ~ (k > at /\ k <= at + done)
      BY <1>1, <2>1, <2>4
    <3>2. once[k] = IF k <= Len(c) THEN c[k] ELSE Seen!NUL
      BY <1>8, <2>4
    <3>3. twice[k] = IF k <= Len(front) THEN front[k] ELSE Seen!NUL
      BY <1>11, <1>12, <3>1
    <3>4. CASE k <= Len(front)
      <4>1. front[k] = IF k <= Len(c) THEN c[k] ELSE Seen!NUL
        BY <1>5, <1>7, <2>1, <3>1, <3>4
      <4> QED
        BY <3>2, <3>3, <3>4, <4>1
    <3>5. CASE ~ (k <= Len(front))
      <4>1. ~ (k <= Len(c))
        BY <1>1, <1>5, <2>1, <3>5
      <4> QED
        BY <3>2, <3>3, <3>5, <4>1
    <3> QED
      BY <3>4, <3>5
  <2> QED
    BY <1>1, <2>1, <2>2, <2>3, <2>4
<1>14. twice = once
  BY <1>6, <1>10, <1>12, <1>13, SeqEqual
<1> QED
  BY <1>14 DEF twice, once, front, first, piece, both

LEMMA WriteStores ==
  ASSUME NEW fd, NEW text, sys_write(fd, text)
  PROVE  StoredTo(files, fds, files', fds', fd, text)
BY DEF sys_write, MayAccess, StoredTo, MovedBy, Position

LEMMA MovedFields ==
  ASSUME NEW fs, NEW d \in Descriptor(fs), NEW n \in Nat
  PROVE  /\ MovedBy(d, n) = [file |-> d.file, pos |-> d.pos + n, access |-> d.access]
         /\ MovedBy(d, n) \in Descriptor(fs)
         /\ MovedBy(d, n).file = d.file /\ MovedBy(d, n).pos = d.pos + n
         /\ MovedBy(d, n).access = d.access
BY DEF MovedBy, Descriptor

LEMMA MovedTwice ==
  ASSUME NEW fs, NEW d \in Descriptor(fs), NEW m \in Nat, NEW n \in Nat
  PROVE  MovedBy(MovedBy(d, m), n) = MovedBy(d, m + n)
<1>1. d.pos \in Nat
  BY DEF Descriptor
<1>2. /\ MovedBy(d, m) \in Descriptor(fs) /\ MovedBy(d, m).file = d.file
      /\ MovedBy(d, m).pos = d.pos + m /\ MovedBy(d, m).access = d.access
  BY MovedFields
<1>3. MovedBy(MovedBy(d, m), n)
        = [file |-> d.file, pos |-> (d.pos + m) + n, access |-> d.access]
  BY <1>2, MovedFields
<1>4. MovedBy(d, m + n)
        = [file |-> d.file, pos |-> d.pos + (m + n), access |-> d.access]
  BY MovedFields
<1>5. (d.pos + m) + n = d.pos + (m + n)
  BY <1>1
<1> QED
  BY <1>3, <1>4, <1>5

(* Storing the front of a text and then a piece more is storing a longer
   front. *)
LEMMA StoredOn ==
  ASSUME NEW fs, NEW ds, NEW gs, NEW es, NEW hs, NEW bs, KernelOK(fs, ds),
         NEW fd, NEW text \in Seq(Char), NEW done \in 0 .. Len(text),
         NEW r \in 1 .. Len(text) - done,
         StoredTo(fs, ds, gs, es, fd, SubSeq(text, 1, done)),
         StoredTo(gs, es, hs, bs, fd, SubSeq(text, done + 1, done + r))
  PROVE  StoredTo(fs, ds, hs, bs, fd, SubSeq(text, 1, done + r))
<1> DEFINE f == ds[fd].file
           c == fs[f]
           at == Position(fs, ds, fd)
           first == SubSeq(text, 1, done)
           piece == SubSeq(text, done + 1, done + r)
           both == SubSeq(text, 1, done + r)
           front == Seen!StoredAt(c, at, first)
           once == Seen!StoredAt(c, at, both)
<1>1. /\ piece \in Seq(Char) /\ Len(piece) = r
      /\ first \in Seq(Char) /\ Len(first) = done
      /\ both \in Seq(Char) /\ Len(both) = done + r
      /\ done \in Nat /\ r \in Nat
  BY PieceIsText, SubSeqProperties
<1>2. /\ fd \in DOMAIN ds /\ "write" \in ds[fd].access
      /\ ds[fd] \in Descriptor(fs) /\ f \in DOMAIN fs /\ ds[fd].pos \in Nat
      /\ c \in Seq(Char)
  BY DEF StoredTo, KernelOK, Descriptor
<1>3. at \in Nat /\ (f \in Streams => at = Len(c)) /\ (f \notin Streams => at = ds[fd].pos)
  BY <1>2 DEF Position
<1> HIDE DEF at, first, piece, both
<1>4. Len(front) = IF Len(c) > at + done THEN Len(c) ELSE at + done
  BY <1>1, <1>2, <1>3, StoredIsText
<1>5. Seen!StoredAt(front, at + done, piece) = once
  BY <1>2, <1>3, StoredInPieces DEF first, piece, both
<1>6. /\ gs = [fs EXCEPT ![f] = front]
      /\ es = [ds EXCEPT ![fd] = MovedBy(ds[fd], done)]
  BY <1>1 DEF StoredTo, at, first
<1> HIDE DEF front, once, c
<1>7. gs[f] = front /\ es[fd] = MovedBy(ds[fd], done)
  BY <1>2, <1>6
<1>8. /\ es[fd].file = f /\ es[fd].pos = ds[fd].pos + done
      /\ es[fd].access = ds[fd].access
  BY <1>1, <1>2, <1>7, MovedFields
<1>9. Position(gs, es, fd) = at + done
  <2>1. CASE f \in Streams
    <3>1. Position(gs, es, fd) = Len(front)
      BY <1>7, <1>8, <2>1 DEF Position
    <3>2. at = Len(c) /\ Len(c) \in Nat
      BY <1>2, <1>3, <2>1
    <3> QED
      BY <1>1, <1>4, <3>1, <3>2
  <2>2. CASE f \notin Streams
    BY <1>3, <1>8, <2>2 DEF Position
  <2> QED
    BY <2>1, <2>2
<1>10. /\ hs = [gs EXCEPT ![f] = Seen!StoredAt(front, at + done, piece)]
       /\ bs = [es EXCEPT ![fd] = MovedBy(es[fd], r)]
  BY <1>1, <1>7, <1>8, <1>9 DEF StoredTo, piece
<1>11. hs = [fs EXCEPT ![f] = once]
  BY <1>5, <1>6, <1>10
<1>12. bs = [ds EXCEPT ![fd] = MovedBy(ds[fd], done + r)]
  <2>1. MovedBy(es[fd], r) = MovedBy(ds[fd], done + r)
    BY <1>1, <1>2, <1>7, MovedTwice
  <2> QED
    BY <1>6, <1>10, <2>1
<1> QED
  BY <1>1, <1>2, <1>11, <1>12 DEF StoredTo, once, at, c, both

(* A write() within the loop adds to what is stored. *)
LEMMA WriteSomeProgress ==
  ASSUME IOInvariant, Progress, WriteSome
  PROVE  Progress'
<1>1. /\ call # NoCall /\ Shaped(call) /\ call.text \in Seq(Char)
      /\ call.done \in 0 .. Len(call.text) /\ InLoop
  BY LoopServes DEF WriteSome
<1>2. PICK r \in 1 .. Len(call.text) - call.done :
        /\ sys_write(call.fd, NextPiece(r))
        /\ call' = [call EXCEPT !.done = @ + r]
  BY DEF WriteSome
<1>3. /\ call'.req = call.req /\ call'.was = call.was /\ call'.fd = call.fd
      /\ call'.text = call.text /\ call'.done = call.done + r
  BY <1>1, <1>2 DEF Shaped
<1>4. KernelOK(call.was.files, call.was.fds)
  BY <1>1 DEF Progress
<1>5. StoredTo(files, fds, files', fds', call.fd,
               SubSeq(call.text, call.done + 1, call.done + r))
  BY <1>2, WriteStores DEF NextPiece
<1>6. StoredTo(call.was.files, call.was.fds, files', fds', call.fd,
               SubSeq(call.text, 1, call.done + r))
  <2>1. CASE call.done = 0
    BY <1>1, <1>5, <2>1 DEF Progress
  <2>2. CASE call.done > 0
    <3>1. StoredTo(call.was.files, call.was.fds, files, fds, call.fd,
                   SubSeq(call.text, 1, call.done))
      BY <1>1, <2>2 DEF Progress
    <3> QED
      BY <1>1, <1>4, <1>5, <3>1, StoredOn
  <2> QED
    BY <1>1, <2>1, <2>2
<1>7. InLoop'
  BY <1>1, <1>3 DEF InLoop, Serving, Refused
<1>8. call.done + r > 0
  BY <1>1
<1> QED
  BY <1>3, <1>4, <1>6, <1>7, <1>8 DEF Progress

PromiseInvariant == IOInvariant /\ Progress

(* Where no call is in progress the program sees the kernel's state; during
   one, what the call found. *)
LEMMA SeenOutside ==
  ASSUME call.req.op = "none"
  PROVE  SeenFiles = files /\ SeenOpen = HandlesOf(fds)
BY DEF SeenFiles, SeenOpen

LEMMA SeenInside ==
  ASSUME call.req.op # "none"
  PROVE  SeenFiles = call.was.files /\ SeenOpen = HandlesOf(call.was.fds)
BY DEF SeenFiles, SeenOpen

LEMMA Ended ==
  ASSUME call' = NoCall
  PROVE  /\ call'.req = Seen!Idle
         /\ SeenFiles' = files' /\ SeenOpen' = HandlesOf(fds')
BY DEF NoCall, Seen!Idle, SeenFiles, SeenOpen

(* A call outside the loops has changed nothing yet. *)
LEMMA NothingYet ==
  ASSUME PromiseInvariant, call.req.op # "none", ~ InLoop \/ call.done = 0
  PROVE  /\ SeenFiles = files /\ SeenOpen = HandlesOf(fds)
         /\ DOMAIN fds \subseteq Int
<1>1. call # NoCall /\ call.done \in 0 .. Len(call.text) /\ call.text \in Seq(Char)
  BY ServedIsCall DEF PromiseInvariant, IOInvariant, Fits
<1>2. call.done = 0
  BY <1>1 DEF PromiseInvariant, Progress
<1>3. files = call.was.files /\ fds = call.was.fds
  BY <1>1, <1>2 DEF PromiseInvariant, Progress
<1>4. DOMAIN fds \subseteq 0 .. MaxFd /\ MaxFd \in Nat
  BY TypeParts, IOAssumption DEF PromiseInvariant, IOInvariant, KernelOK
<1> QED
  BY <1>3, <1>4, SeenInside

LEMMA AskMaps ==
  ASSUME PromiseInvariant, Asks
  PROVE  Seen!Ask /\ Progress'
<1>1. PICK by, req, fd, text :
        MayCall /\ Fits(req, fd, text) /\ Calls(by, req, fd, text)
  BY DEF Asks
<1>2. /\ UNCHANGED <<files, fds, reply>> /\ call = NoCall
      /\ call' = [by |-> by, req |-> req, fd |-> fd, text |-> text, done |-> 0,
                  was |-> [files |-> files, fds |-> fds]]
  BY <1>1 DEF MayCall, Calls, kernel
<1>3. call'.req = req /\ call'.done = 0 /\ call'.was = [files |-> files, fds |-> fds]
  BY <1>2
<1>4. req.op \in {"create", "close", "write", "read", "say"}
  BY <1>1 DEF Fits
<1>5. call.req = Seen!Idle /\ call.req.op = "none"
  BY <1>2 DEF NoCall, Seen!Idle
<1>6. SeenFiles' = files /\ SeenOpen' = HandlesOf(fds)
  BY <1>3, <1>4 DEF SeenFiles, SeenOpen
<1>7. SeenFiles = files /\ SeenOpen = HandlesOf(fds)
  BY <1>5, SeenOutside
<1>8. Seen!Ask
  BY <1>2, <1>3, <1>4, <1>5, <1>6, <1>7 DEF Seen!Ask
<1>9. KernelOK(files, fds)
  BY TypeParts DEF PromiseInvariant, IOInvariant
<1> QED
  BY <1>2, <1>3, <1>8, <1>9 DEF Progress

LEMMA FailMaps ==
  ASSUME PromiseInvariant, CreateFileFails \/ Refuse \/ ReadFails
  PROVE  Seen!Answer
<1>1. /\ call' = NoCall /\ reply' = <<"failed">> /\ UNCHANGED <<files, fds>>
      /\ call.req.op \in {"create", "write", "read"} /\ ~ InLoop
  BY DEF CreateFileFails, Refuse, ReadFails, Rejects, Returns, kernel, Serving, InLoop
<1>2. /\ SeenFiles = files /\ SeenOpen = HandlesOf(fds)
      /\ SeenFiles' = files' /\ SeenOpen' = HandlesOf(fds') /\ call'.req = Seen!Idle
  BY <1>1, NothingYet, Ended
<1> QED
  BY <1>1, <1>2 DEF Seen!Answer, Seen!Fail

LEMMA CreateMaps ==
  ASSUME PromiseInvariant, CreateFileA
  PROVE  Seen!Answer
<1> DEFINE path == call.req.path
           access == call.req.access
           d == call.req.disposition
           flags == posix_flags(d)
<1>1. /\ call.req.op = "create" /\ access \in Access /\ d \in Dispositions
      /\ ~ InLoop
  BY ServedIsCall
     DEF PromiseInvariant, IOInvariant, CreateFileA, Serving, Fits, InLoop
<1>2. PICK fd \in 0 .. MaxFd :
        /\ sys_open(fd, path, flags, rw(access))
        /\ call' = NoCall /\ reply' = <<"created", HandleOf(fd)>>
  BY DEF CreateFileA, Returns
<1>3. /\ SeenFiles = files /\ SeenOpen = HandlesOf(fds) /\ DOMAIN fds \subseteq Int
      /\ SeenFiles' = files' /\ SeenOpen' = HandlesOf(fds') /\ call'.req = Seen!Idle
  BY <1>1, <1>2, NothingYet, Ended
<1>4. rw(access) = access
  BY <1>1 DEF rw, Access
<1>5. /\ d \in {"OPEN_EXISTING", "TRUNCATE_EXISTING", "OTHER"} <=> ~ ("O_CREAT" \in flags)
      /\ d = "CREATE_NEW" <=> {"O_CREAT", "O_EXCL"} \subseteq flags
      /\ d \in {"CREATE_ALWAYS", "TRUNCATE_EXISTING"} <=> "O_TRUNC" \in flags
  BY <1>1 DEF Dispositions, posix_flags
<1>6. fd \in Int /\ HandleOf(fd) = fd + 1 /\ fd + 1 \in 1 .. MaxFd + 1
  BY IOAssumption DEF HandleOf
<1> DEFINE desc == [file |-> path, pos |-> 0, access |-> access]
<1> HIDE DEF flags
<1>7. /\ fd \notin DOMAIN fds
      /\ IF path \in DOMAIN files THEN ~ {"O_CREAT", "O_EXCL"} \subseteq flags
                                  ELSE "O_CREAT" \in flags
      /\ files' = [f \in DOMAIN files \union {path} |->
                     IF f = path /\ (~ (path \in DOMAIN files) \/ "O_TRUNC" \in flags)
                       THEN <<>> ELSE files[f]]
      /\ fds' = [g \in DOMAIN fds \union {fd} |-> IF g = fd THEN desc ELSE fds[g]]
  BY <1>2, <1>4 DEF sys_open, IsLowestFree, Opened
<1>8. Seen!MayOpen(call.req)
  BY <1>1, <1>3, <1>5, <1>7 DEF Seen!MayOpen, Seen!Exists, Dispositions
<1>9. SeenFiles' = [p \in DOMAIN SeenFiles \union {call.req.path} |->
                      IF p = call.req.path /\ Seen!Emptied(call.req)
                        THEN <<>> ELSE SeenFiles[p]]
  BY <1>3, <1>5, <1>7 DEF Seen!Emptied, Seen!Exists
<1>10. fd + 1 \notin DOMAIN SeenOpen
  BY <1>3, <1>6, <1>7, HandlesFacts
<1> HIDE DEF desc
<1>11. SeenOpen' = With(SeenOpen, fd + 1, desc)
  <2>1. fds' = With(fds, fd, desc)
    BY <1>7 DEF With
  <2> QED
    BY <1>3, <1>6, <2>1, HandlesOpened
<1>12. Seen!Create
  BY <1>1, <1>2, <1>6, <1>8, <1>9, <1>10, <1>11 DEF Seen!Create, desc, With
<1> QED
  BY <1>3, <1>12 DEF Seen!Answer

LEMMA CloseMaps ==
  ASSUME PromiseInvariant, CloseHandle
  PROVE  Seen!Answer
<1> DEFINE h == call.req.handle
           fd == call.fd
<1>1. /\ call.req.op = "close" /\ fd = h - 1 /\ h \in Int /\ ~ InLoop
  BY ServedIsCall, UsableAreIntegers
     DEF PromiseInvariant, IOInvariant, CloseHandle, Serving, Fits, InLoop
<1>2. /\ fds' = IF fd > 2 THEN [d \in DOMAIN fds \ {fd} |-> fds[d]] ELSE fds
      /\ call' = NoCall /\ reply' = <<"closed">> /\ files' = files
  BY DEF CloseHandle, Closes, Returns
<1>3. /\ SeenFiles = files /\ SeenOpen = HandlesOf(fds) /\ DOMAIN fds \subseteq Int
      /\ SeenFiles' = files' /\ SeenOpen' = HandlesOf(fds') /\ call'.req = Seen!Idle
  BY <1>1, <1>2, NothingYet, Ended
<1>4. DOMAIN fds \subseteq Nat
  BY TypeParts, IOAssumption DEF PromiseInvariant, IOInvariant, KernelOK
<1>5. SeenOpen' = [g \in DOMAIN SeenOpen \ ({h} \ StdHandles) |-> SeenOpen[g]]
  <2>1. CASE fd > 2
    <3>1. h \notin StdHandles
      BY <1>1, <2>1 DEF StdHandles
    <3>2. fds' = Without(fds, fd) /\ fd \in Int
      BY <1>1, <1>2, <2>1 DEF Without
    <3>3. fd + 1 = h /\ {h} \ StdHandles = {h}
      BY <1>1, <3>1
    <3>4. SeenOpen' = Without(SeenOpen, h)
      BY <1>3, <3>2, <3>3, HandlesClosed
    <3> QED
      BY <3>3, <3>4 DEF Without
  <2>2. CASE ~ (fd > 2)
    <3>1. h \in StdHandles \/ h \notin DOMAIN HandlesOf(fds)
      BY <1>1, <1>3, <1>4, <2>2, HandlesFacts DEF StdHandles
    <3>2. DOMAIN SeenOpen \ ({h} \ StdHandles) = DOMAIN SeenOpen
      BY <1>3, <3>1
    <3>3. SeenOpen' = SeenOpen /\ SeenOpen = [g \in DOMAIN SeenOpen |-> SeenOpen[g]]
      BY <1>2, <1>3, <2>2 DEF HandlesOf
    <3> QED
      BY <3>2, <3>3
  <2> QED
    BY <2>1, <2>2
<1> HIDE DEF fd
<1> QED
  BY <1>1, <1>2, <1>3, <1>5 DEF Seen!Answer, Seen!Close

(* What the loop has stored is a step of the promise: the front of the text
   the program asked for, through the handle it gave. *)
LEMMA LoopPuts ==
  ASSUME PromiseInvariant, InLoop
  PROVE  LET put == SubSeq(call.text, 1, call.done)
         IN /\ put = <<>> => files = SeenFiles /\ HandlesOf(fds) = SeenOpen
            /\ put # <<>> =>
                 LET h == call.fd + 1
                     f == SeenOpen[h].file
                     at == IF f \in Streams THEN Len(SeenFiles[f]) ELSE SeenOpen[h].pos
                 IN /\ h \in DOMAIN SeenOpen /\ "write" \in SeenOpen[h].access
                    /\ files = [SeenFiles EXCEPT ![f] =
                                  Seen!StoredAt(SeenFiles[f], at, put)]
                    /\ HandlesOf(fds) = Shifted(SeenOpen, h, Len(put))
<1> DEFINE put == SubSeq(call.text, 1, call.done)
           was == call.was
           fd == call.fd
<1>1. /\ call # NoCall /\ call.text \in Seq(Char) /\ call.done \in 0 .. Len(call.text)
      /\ call.req.op # "none"
  BY LoopServes DEF PromiseInvariant
<1>2. SeenFiles = was.files /\ SeenOpen = HandlesOf(was.fds)
  BY <1>1, SeenInside
<1>3. put \in Seq(Char) /\ Len(put) = call.done
  BY <1>1, SubSeqProperties
<1>4. put = <<>> <=> call.done = 0
  BY <1>1, <1>3
<1>5. DOMAIN was.fds \subseteq Int
  BY <1>1, IOAssumption DEF PromiseInvariant, Progress, KernelOK
<1>6. call.done = 0 => files = was.files /\ fds = was.fds
  BY <1>1 DEF PromiseInvariant, Progress
<1>7. call.done > 0 => StoredTo(was.files, was.fds, files, fds, fd, put)
  BY <1>1 DEF PromiseInvariant, Progress
<1>8. call.done # 0 => call.done > 0
  BY <1>1
<1> HIDE DEF put, was, fd
<1>9. ASSUME put # <<>>
      PROVE  LET h == fd + 1
                 f == SeenOpen[h].file
                 at == IF f \in Streams THEN Len(SeenFiles[f]) ELSE SeenOpen[h].pos
             IN /\ h \in DOMAIN SeenOpen /\ "write" \in SeenOpen[h].access
                /\ files = [SeenFiles EXCEPT ![f] = Seen!StoredAt(SeenFiles[f], at, put)]
                /\ HandlesOf(fds) = Shifted(SeenOpen, h, Len(put))
  <2>1. StoredTo(was.files, was.fds, files, fds, fd, put)
    BY <1>4, <1>7, <1>8, <1>9
  <2>2. fd \in DOMAIN was.fds /\ "write" \in was.fds[fd].access
        /\ fds = Shifted(was.fds, fd, Len(put))
    BY <2>1 DEF StoredTo, Shifted
  <2>3. fd + 1 \in DOMAIN SeenOpen /\ SeenOpen[fd + 1] = was.fds[fd]
    BY <1>2, <1>5, <2>2, HandlesFacts
  <2>4. HandlesOf(fds) = Shifted(SeenOpen, fd + 1, Len(put))
    BY <1>2, <1>5, <2>2, HandlesMoved
  <2> QED
    BY <1>2, <2>1, <2>2, <2>3, <2>4 DEF StoredTo, Position
<1> QED
  BY <1>2, <1>4, <1>6, <1>9 DEF put, fd

LEMMA PutMaps ==
  ASSUME PromiseInvariant, InLoop, NEW h, h = call.fd + 1,
         SeenFiles' = files, SeenOpen' = HandlesOf(fds)
  PROVE  Seen!Put(h, SubSeq(call.text, 1, call.done))
BY LoopPuts DEF Seen!Put, Seen!Allowed, Seen!Moved, Shifted, MovedBy

LEMMA WriteEndsMaps ==
  ASSUME PromiseInvariant, FormatsMean, WriteDone \/ WriteStops
  PROVE  (Seen!Answer \/ Seen!Say) /\ Progress'
<1>1. InLoop /\ LoopDone /\ UNCHANGED <<files, fds>>
  BY DEF WriteDone, WriteStops, kernel
<1>2. /\ call # NoCall /\ Fits(call.req, call.fd, call.text)
      /\ call.text \in Seq(Char) /\ call.done \in 0 .. Len(call.text)
      /\ call.req.op \in {"say", "write"}
  BY <1>1, LoopServes DEF PromiseInvariant
<1>3. CASE Serving("write") /\ Returns(<<"wrote", Reported>>)
  <2>1. /\ call.req.op = "write" /\ call.fd = call.req.handle - 1
        /\ call.req.handle \in Int /\ IsPrefixOf(call.text, call.req.text)
    BY <1>2, <1>3 DEF Serving, Fits
  <2>2. call' = NoCall /\ reply' = <<"wrote", Reported>> /\ ~ call.req.async
    BY <1>1, <1>3 DEF Returns, InLoop, Serving, Refused
  <2>3. /\ SeenFiles' = files /\ SeenOpen' = HandlesOf(fds) /\ call'.req = Seen!Idle
    BY <1>1, <2>2, Ended
  <2>4. call.req.handle = call.fd + 1
    BY <2>1
  <2>5. Seen!Put(call.req.handle, SubSeq(call.text, 1, call.done))
    BY <1>1, <2>3, <2>4, PutMaps
  <2>6. SubSeq(call.req.text, 1, call.done) = SubSeq(call.text, 1, call.done)
        /\ call.done \in 0 .. Len(call.req.text)
    BY <1>2, <2>1, FrontOfPrefix
  <2>7. Seen!Write
    BY <2>1, <2>2, <2>5, <2>6 DEF Seen!Write, Reported
  <2>8. Seen!Answer
    BY <2>3, <2>7 DEF Seen!Answer
  <2> QED
    BY <2>2, <2>8 DEF Progress
<1>4. ASSUME Serving("say")
      PROVE  /\ call.req.op = "say" /\ call.fd + 1 = 2
             /\ call.req.handle = 2 /\ call.req.texts \in Seq(Seq(Char))
             /\ call.text = Head(call.req.texts)
  <2>1. /\ call.req = Seen!SayOf(2, call.req.texts) /\ call.fd = 1
        /\ call.req.texts \in Seq(Seq(Char)) /\ call.text = Head(call.req.texts)
    BY <1>2, <1>4 DEF Serving, Fits
  <2>2. call.req.handle = 2
    BY <2>1 DEF Seen!SayOf
  <2> QED
    BY <1>4, <2>1, <2>2 DEF Serving
<1>5. CASE Serving("say") /\ Len(call.req.texts) = 1 /\ Returns(<<"said">>)
  <2>1. call' = NoCall /\ reply' = <<"said">>
    BY <1>5 DEF Returns
  <2>2. /\ SeenFiles' = files /\ SeenOpen' = HandlesOf(fds) /\ call'.req = Seen!Idle
    BY <1>1, <2>1, Ended
  <2>3. Seen!Put(2, SubSeq(call.text, 1, call.done))
    BY <1>1, <1>4, <1>5, <2>2, PutMaps
  <2>4. Seen!Say
    BY <1>2, <1>4, <1>5, <2>1, <2>2, <2>3 DEF Seen!Say
  <2> QED
    BY <2>1, <2>4 DEF Progress
<1>6. CASE /\ Serving("say") /\ Len(call.req.texts) > 1
           /\ NextString(Tail(call.req.texts)) /\ UNCHANGED reply
  <2>1. Shaped(call)
    BY <1>1, LoopServes DEF PromiseInvariant
  <2> DEFINE rest == Tail(call.req.texts)
  <2>2. /\ call'.req = Seen!SayOf(2, rest) /\ call'.done = 0
        /\ call'.was = [files |-> files, fds |-> fds]
    BY <1>6, <2>1 DEF NextString, Shaped
  <2>3. call'.req.op = "say"
    BY <2>2 DEF Seen!SayOf
  <2>4. /\ SeenFiles' = files /\ SeenOpen' = HandlesOf(fds)
    BY <2>2, <2>3 DEF SeenFiles, SeenOpen
  <2>5. Seen!Put(2, SubSeq(call.text, 1, call.done))
    BY <1>1, <1>4, <1>6, <2>4, PutMaps
  <2>6. Len(call.req.texts) # 1
    <3> DEFINE n == Len(call.req.texts)
    <3>1. n \in Nat /\ n > 1
      BY <1>4, <1>6
    <3> HIDE DEF n
    <3>2. n # 1
      BY <3>1
    <3> QED
      BY <3>2 DEF n
  <2>7. Seen!Say
    BY <1>2, <1>4, <1>6, <2>2, <2>5, <2>6 DEF Seen!Say
  <2>8. KernelOK(files, fds)
    BY TypeParts DEF PromiseInvariant, IOInvariant
  <2> QED
    BY <1>1, <2>2, <2>7, <2>8 DEF Progress
<1> QED
  BY <1>1, <1>3, <1>5, <1>6 DEF LoopDone

LEMMA ReadMaps ==
  ASSUME PromiseInvariant, ReadFile
  PROVE  Seen!Answer
<1> DEFINE h == call.req.handle
           fd == call.fd
           d == fds[fd]
           rest == SubSeq(files[d.file], d.pos + 1, Len(files[d.file]))
           most == Least(call.req.count, Len(rest))
<1>1. /\ call.req.op = "read" /\ fd = h - 1 /\ h \in Int /\ call.req.count \in Nat
      /\ ~ InLoop
  BY ServedIsCall DEF PromiseInvariant, IOInvariant, ReadFile, Serving, Fits, InLoop
<1>2. /\ ~ call.req.async /\ fd \in DOMAIN fds /\ "read" \in d.access
      /\ files' = files /\ call' = NoCall
  BY DEF ReadFile, Refused, MayAccess, Returns
<1>3. PICK r \in 0 .. most :
        /\ r = 0 => most = 0
        /\ reply' = <<"read", SubSeq(rest, 1, r)>>
        /\ fds' = Shifted(fds, fd, r)
  BY DEF ReadFile, Returns, Shifted, MovedBy
<1>4. /\ SeenFiles = files /\ SeenOpen = HandlesOf(fds) /\ DOMAIN fds \subseteq Int
      /\ SeenFiles' = files' /\ SeenOpen' = HandlesOf(fds') /\ call'.req = Seen!Idle
  BY <1>1, <1>2, NothingYet, Ended
<1>5. h = fd + 1 /\ h \in DOMAIN SeenOpen /\ SeenOpen[h] = d
  <2>1. h = fd + 1
    BY <1>1
  <2> HIDE DEF h, fd
  <2>2. fd + 1 \in DOMAIN HandlesOf(fds) /\ HandlesOf(fds)[fd + 1] = fds[fd]
    BY <1>2, <1>4, HandlesFacts
  <2> QED
    BY <1>4, <2>1, <2>2
<1>6. SeenOpen' = Shifted(SeenOpen, h, r)
  BY <1>2, <1>3, <1>4, <1>5, HandlesMoved
<1>7. rest \in Seq(Char)
  <2>1. KernelOK(files, fds)
    BY TypeParts DEF PromiseInvariant, IOInvariant
  <2>2. d \in Descriptor(files) /\ files[d.file] \in Seq(Char) /\ d.pos \in Nat
    BY <1>2, <2>1 DEF KernelOK, Descriptor
  <2>3. d.pos + 1 \in 1 .. Len(files[d.file]) + 1 \/ d.pos + 1 > Len(files[d.file])
    BY <2>2, SMTT(30)
  <2> QED
    BY <2>2, <2>3, SMTT(30)
<1>8. SeenOpen' = [SeenOpen EXCEPT ![h].pos = @ + r]
  BY <1>6 DEF Shifted, MovedBy
<1> HIDE DEF rest, d
<1>9. Len(rest) \in Nat
  BY <1>7
<1>10. /\ r \in 0 .. Len(rest) /\ r <= call.req.count
       /\ (r = 0 /\ call.req.count > 0) => rest = <<>>
  <2>1. most <= Len(rest) /\ most <= call.req.count /\ most \in {Len(rest), call.req.count}
    BY <1>1, <1>9 DEF Least
  <2>2. Len(rest) = 0 => rest = <<>>
    BY <1>7
  <2> HIDE DEF most
  <2> QED
    BY <1>1, <1>3, <1>9, <2>1, <2>2
<1>11. Seen!Read
  <2>1. rest = SubSeq(SeenFiles[SeenOpen[h].file], SeenOpen[h].pos + 1,
                      Len(SeenFiles[SeenOpen[h].file]))
    BY <1>4, <1>5 DEF rest
  <2> HIDE DEF h, fd, most
  <2> QED
    BY <1>1, <1>2, <1>3, <1>4, <1>5, <1>8, <1>10, <2>1
       DEF Seen!Read, Seen!Allowed, Seen!Moved, h, d
<1> QED
  BY <1>4, <1>11 DEF Seen!Answer

LEMMA PromiseStep ==
  ASSUME FormatsMean, PromiseInvariant, [Next]_vars
  PROVE  PromiseInvariant' /\ [Seen!Next]_Seen!vars
<1>1. IOInvariant'
  BY IOStep DEF PromiseInvariant
<1>2. CASE Asks
  BY <1>1, <1>2, AskMaps DEF PromiseInvariant, Seen!Next
<1>3. CASE SetLastError \/ UNCHANGED vars
  <2>1. UNCHANGED <<files, fds, call, reply>>
    BY <1>3 DEF SetLastError, vars, kernel
  <2>2. Progress'
    BY <2>1 DEF PromiseInvariant, Progress, InLoop, Serving, Refused, KernelOK,
                Descriptor, StoredTo, Position
  <2>3. UNCHANGED Seen!vars
    BY <2>1 DEF Seen!vars, SeenFiles, SeenOpen
  <2> QED
    BY <1>1, <2>2, <2>3 DEF PromiseInvariant
<1>4. CASE CreateFileA
  <2>1. call' = NoCall
    BY <1>4 DEF CreateFileA, Returns
  <2> QED
    BY <1>1, <1>4, <2>1, CreateMaps DEF PromiseInvariant, Seen!Next, Progress
<1>5. CASE CloseHandle
  <2>1. call' = NoCall
    BY <1>5 DEF CloseHandle, Returns
  <2> QED
    BY <1>1, <1>5, <2>1, CloseMaps DEF PromiseInvariant, Seen!Next, Progress
<1>6. CASE WriteSome
  <2>1. Progress'
    BY <1>6, WriteSomeProgress DEF PromiseInvariant
  <2>2. /\ Shaped(call) /\ call.req.op # "none"
        /\ \E r \in Nat : call' = [call EXCEPT !.done = r]
        /\ reply' = reply
    <3>1. Shaped(call) /\ call.req.op \in {"say", "write"}
          /\ call.text \in Seq(Char) /\ call.done \in 0 .. Len(call.text)
      BY <1>6, LoopServes DEF PromiseInvariant, WriteSome
    <3>2. PICK r \in 1 .. Len(call.text) - call.done :
            call' = [call EXCEPT !.done = @ + r]
      BY <1>6 DEF WriteSome
    <3>3. call.done + r \in Nat
      BY <3>1
    <3> QED
      BY <1>6, <3>1, <3>2, <3>3 DEF WriteSome
  <2>3. call'.req = call.req /\ call'.was = call.was
    BY <2>2 DEF Shaped
  <2>4. UNCHANGED Seen!vars
    BY <2>2, <2>3 DEF Seen!vars, SeenFiles, SeenOpen
  <2> QED
    BY <1>1, <2>1, <2>4 DEF PromiseInvariant
<1>7. CASE WriteDone \/ WriteStops
  BY <1>1, <1>7, WriteEndsMaps DEF PromiseInvariant, Seen!Next
<1>8. CASE CreateFileFails \/ Refuse \/ ReadFails
  <2>1. call' = NoCall
    BY <1>8 DEF CreateFileFails, Refuse, ReadFails, Rejects, Returns
  <2> QED
    BY <1>1, <1>8, <2>1, FailMaps DEF PromiseInvariant, Seen!Next, Progress
<1>9. CASE ReadFile
  <2>1. call' = NoCall
    BY <1>9 DEF ReadFile, Returns
  <2> QED
    BY <1>1, <1>9, <2>1, ReadMaps DEF PromiseInvariant, Seen!Next, Progress
<1> QED
  BY <1>2, <1>3, <1>4, <1>5, <1>6, <1>7, <1>8, <1>9, ProgramAsks
     DEF Next, Shim, PromiseInvariant, IOInvariant

LEMMA PromiseInit ==
  ASSUME Init
  PROVE  PromiseInvariant /\ Seen!Init
<1>1. call = NoCall /\ reply = <<"none">> /\ inherited \in Inherited
      /\ DOMAIN fds = inherited
  BY DEF Init
<1>2. call.req = Seen!Idle /\ call.req.op = "none"
  BY <1>1 DEF NoCall, Seen!Idle
<1>3. inherited \subseteq 0 .. 2
  BY <1>1, IOAssumption
<1>4. DOMAIN SeenOpen \subseteq StdHandles
  <2>1. DOMAIN fds \subseteq 0 .. 2 /\ SeenOpen = HandlesOf(fds)
    BY <1>1, <1>2, <1>3, SeenOutside
  <2>2. DOMAIN HandlesOf(fds) = {fd + 1 : fd \in DOMAIN fds}
    BY DEF HandlesOf
  <2> QED
    BY <2>1, <2>2 DEF StdHandles
<1>5. IOInvariant
  BY IOInit
<1> QED
  BY <1>1, <1>2, <1>4, <1>5 DEF PromiseInvariant, Progress, Seen!Init

(* The program sees each call as one step of AbstractFiles, provided its
   formats are of those the formatter knows: however the kernel splits or
   refuses the writes, the characters arrive once, in order, through the
   right handle, and their number is reported. *)
THEOREM CallsKeepPromise ==
  ASSUME FormatsWritten
  PROVE  Spec => KeepsPromise
<1>0. FormatsMean
  BY WrittenMeans
<1>1. Init => PromiseInvariant /\ Seen!Init
  BY PromiseInit
<1>2. PromiseInvariant /\ [Next]_vars => PromiseInvariant' /\ [Seen!Next]_Seen!vars
  BY <1>0, PromiseStep
<1> QED
  BY <1>1, <1>2, PTL DEF Spec, KeepsPromise, Seen!Spec

----------------------------------------------------------------------------
(* What fprintf() writes. *)

(* A call of fprintf() is to write what its format means. *)
FprintfMeant ==
  (call # NoCall /\ call.by = "fprintf") =>
    call.req.op = "write" /\ call.text = call.req.text

LEMMA CallPrints ==
  ASSUME FormatsMean, Program
  PROVE  FprintfMeant' \/ UNCHANGED call
<1>1. CASE SetLastError
  BY <1>1 DEF SetLastError
<1>2. CASE CallFprintf
  <2>1. PICK s \in Stream, p \in Prints :
          Calls("fprintf",
                Seen!WriteOf(shim_iob_to_fd(s) + 1, Meant(p), 1, FALSE),
                shim_iob_to_fd(s), Printed(Written(p.items), p.args))
    BY <1>2 DEF CallFprintf
  <2>2. Printed(Written(p.items), p.args) = Meant(p)
    BY DEF FormatsMean
  <2>3. /\ call'.req.op = "write" /\ call'.req.text = Meant(p)
        /\ call'.text = Printed(Written(p.items), p.args)
    BY <2>1 DEF Calls, Seen!WriteOf
  <2> QED
    BY <2>2, <2>3 DEF FprintfMeant
<1>3. CASE CallCreateFile \/ CallCloseHandle \/ CallWriteFile \/ CallReadFile
           \/ CallFwrite \/ CallMessageBox
  <2>1. \A by, req, fd, text : Calls(by, req, fd, text) => call'.by = by
    BY DEF Calls
  <2>2. CASE CallCreateFile \/ CallCloseHandle
    BY <2>1, <2>2 DEF CallCreateFile, CallCloseHandle, FprintfMeant
  <2>3. CASE CallWriteFile \/ CallReadFile
    BY <2>1, <2>3 DEF CallWriteFile, CallReadFile, FprintfMeant
  <2>4. CASE CallFwrite
    BY <2>1, <2>4 DEF CallFwrite, FprintfMeant
  <2>5. CASE CallMessageBox
    BY <2>1, <2>5 DEF CallMessageBox, FprintfMeant
  <2> QED
    BY <1>3, <2>2, <2>3, <2>4, <2>5
<1> QED
  BY <1>1, <1>2, <1>3 DEF Program

(* The loop leaves the request and the text alone until the call returns. *)
LEMMA LoopPrints ==
  ASSUME FprintfMeant, Shim
  PROVE  FprintfMeant'
<1>1. CASE call' = NoCall
  BY <1>1 DEF FprintfMeant
<1>2. CASE WriteSome
  <2>1. PICK r : call' = [call EXCEPT !.done = @ + r]
    BY <1>2 DEF WriteSome
  <2>2. call # NoCall
    BY <1>2 DEF WriteSome, InLoop, Serving, NoCall, Seen!Idle
  <2>3. call'.by = call.by /\ call'.req = call.req /\ call'.text = call.text
    BY <2>1
  <2> QED
    BY <2>2, <2>3 DEF FprintfMeant
<1>3. CASE (WriteDone \/ WriteStops) /\ ~ (call' = NoCall)
  <2>1. Serving("say") /\ NextString(Tail(call.req.texts))
    BY <1>3 DEF WriteDone, WriteStops, LoopDone, Returns
  <2>2. call # NoCall /\ call.req.op # "write"
    BY <2>1 DEF Serving, NoCall, Seen!Idle
  <2>3. call'.by = call.by
    BY <2>1 DEF NextString
  <2>4. call'.by # "fprintf"
    BY <2>2, <2>3 DEF FprintfMeant
  <2> QED
    BY <2>4 DEF FprintfMeant
<1>4. CASE CreateFileA \/ CreateFileFails \/ CloseHandle \/ Refuse \/ ReadFile \/ ReadFails
  <2>1. call' = NoCall
    BY <1>4 DEF CreateFileA, CreateFileFails, CloseHandle, Refuse, ReadFile, ReadFails,
                Rejects, Returns
  <2> QED
    BY <1>1, <2>1
<1> QED
  BY <1>1, <1>2, <1>3, <1>4 DEF Shim

(* fprintf() writes what its format means, up to the size of the buffer, for
   every format the formatter knows and every argument: digits, signs,
   strings and null strings come out as the C standard has them. *)
THEOREM FprintfAlwaysMeans ==
  ASSUME FormatsWritten
  PROVE  Spec => []PrintsMeaning
<1>1. FormatsMean
  BY WrittenMeans
<1>2. Init => FprintfMeant
  BY DEF Init, FprintfMeant
<1>3. FprintfMeant /\ [Next]_vars => FprintfMeant'
  <2>1. FprintfMeant /\ UNCHANGED call => FprintfMeant'
    BY DEF FprintfMeant
  <2>2. UNCHANGED vars => UNCHANGED call
    BY DEF vars
  <2> QED
    BY <1>1, <2>1, <2>2, CallPrints, LoopPrints DEF Next
<1>4. FprintfMeant => PrintsMeaning
  BY DEF FprintfMeant, PrintsMeaning
<1> QED
  BY <1>2, <1>3, <1>4, PTL DEF Spec
=============================================================================
