-------------------------------- MODULE ShimIO --------------------------------
(***************************************************************************)
(* The shim's file functions: CreateFileA, CloseHandle, GetStdHandle,      *)
(* WriteFile and ReadFile of shim_kernel32.c, fwrite and fprintf of        *)
(* shim_msvcrt.c, MessageBoxA of shim_user32.c.  A handle is a descriptor  *)
(* plus one.  All writing is done by loops around write(): between two     *)
(* calls the disk may fill up: any call may fail or store only a part.     *)
(*                                                                         *)
(* The kernel's descriptors and files are external, modelled from the      *)
(* system calls the shim makes.  The program is the environment: it calls  *)
(* the functions with the handles it holds, the standard ones, NULL and    *)
(* INVALID_HANDLE_VALUE.                                                   *)
(***************************************************************************)
EXTENDS Format

CONSTANTS
  Char,        \* the characters of files and texts
  Path,        \* files the program opens
  MaxFd,       \* the highest descriptor the kernel gives out
  Inherited,   \* the sets of standard descriptors the process may start with
  Errors,      \* which stream descriptor 2 may be: "stderr", or "stdout" (2>&1)
  Modes,       \* how it opens them: accesses with dispositions
  Contents,    \* what a file that exists may hold at the start
  Texts,       \* texts the program writes
  Elements,    \* sizes and counts it gives to fwrite()
  Prints,      \* formats, as directives, with the arguments it gives for them
  Boxes,       \* captions and texts of its message boxes
  Counts,      \* how many characters it reads
  MaxCalls,    \* bound: calls the program makes
  MaxPrinted   \* bound: how many of them are to fwrite, fprintf, MessageBoxA

ASSUME IOAssumption ==
  /\ MaxFd \in Nat /\ MaxFd >= 2
  /\ MaxCalls \in Nat /\ MaxPrinted \in Nat
  /\ \A fds \in Inherited : fds \subseteq 0 .. 2
  /\ Errors \subseteq {"stdout", "stderr"}

(* What the program writes are texts; so is what the formatter makes of a
   format. *)
ASSUME TextsAssumption ==
  /\ {"i", "n", NUL, "e", "f", "prefix", "colon", "null", "newline"} \subseteq Char
  /\ Texts \subseteq Seq(Char)
  /\ \A box \in Boxes : {box.caption, box.text} \subseteq Seq(Char) \union {NULL}
  /\ \A e \in Elements : e.size \in Nat /\ e.nmemb \in Nat
  /\ \A p \in Prints : Printed(Written(p.items), p.args) \in Seq(Char)
  /\ Contents \subseteq Seq(Char)
  /\ Counts \subseteq Nat

VARIABLES
  files,          \* kernel: contents of the files that exist, and the streams
  fds,            \* kernel: the open descriptors
  g_last_error,
  call,           \* the call in progress
  reply,          \* what the last one returned
  held,           \* history: the handles the program holds, with their paths
  inherited,      \* history: the descriptors the process started with
  asked,          \* history: calls made
  printed         \* history: how many of them were to print

vars == <<files, fds, g_last_error, call, reply, held, inherited, asked, printed>>
kernel == <<files, fds>>

Streams == {"stdin", "stdout", "stderr"}
StdHandles == {1, 2, 3}
Access == {{"read"}, {"write"}, {"read", "write"}}
INVALID_HANDLE_VALUE == -1

Dispositions ==    \* OTHER: any number but those of the five
  {"CREATE_NEW", "CREATE_ALWAYS", "OPEN_EXISTING", "OPEN_ALWAYS",
   "TRUNCATE_EXISTING", "OTHER"}

ASSUME ModesAssumption ==
  \A m \in Modes :
    /\ m.access \in Access /\ m.disposition \in Dispositions
    /\ m.disposition = "TRUNCATE_EXISTING" => "write" \in m.access

(* What the program sees: the kernel's state, and during a call the state
   the call found. *)
HandlesOf(ds) == [h \in {fd + 1 : fd \in DOMAIN ds} |-> ds[h - 1]]
SeenFiles == IF call.req.op = "none" THEN files ELSE call.was.files
SeenOpen == HandlesOf(IF call.req.op = "none" THEN fds ELSE call.was.fds)

Seen ==
  INSTANCE AbstractFiles
    WITH Handle <- 1 .. MaxFd + 1,
         files <- SeenFiles,
         open <- SeenOpen,
         request <- call.req

NoCall == [req |-> Seen!Idle]
Serving(op) == call.req.op = op

StdDescriptor(file, access) == [file |-> file, pos |-> 0, access |-> access]

Init ==
  /\ \E existing \in SUBSET Path, content \in Contents :
       files = [f \in existing \union Streams |->
                  IF f \in Path THEN content
                  ELSE IF f = "stdin" THEN <<"i", "n">> ELSE <<>>]
  /\ inherited \in Inherited
  /\ \E errors \in Errors :
       fds = [fd \in inherited |->
                CASE fd = 0 -> StdDescriptor("stdin", {"read"})
                  [] fd = 1 -> StdDescriptor("stdout", {"write"})
                  [] fd = 2 -> StdDescriptor(errors, {"write"})]
  /\ g_last_error = 0
  /\ call = NoCall
  /\ reply = <<"none">>
  /\ held = <<>>
  /\ asked = 0
  /\ printed = 0

----------------------------------------------------------------------------
Printers == {"fwrite", "fprintf", "MessageBoxA"}

MayCall == call = NoCall /\ asked < MaxCalls

(* The program calls a function: req is what it asks for, text is what the
   function's loop is to write to descriptor fd, was the state the call
   found. *)
Calls(by, req, fd, text) ==
  /\ asked' = asked + 1
  /\ IF by \in Printers
       THEN printed < MaxPrinted /\ printed' = printed + 1
       ELSE UNCHANGED printed
  /\ call' = [by |-> by, req |-> req, fd |-> fd, text |-> text, done |-> 0,
              was |-> [files |-> files, fds |-> fds]]
  /\ UNCHANGED <<kernel, g_last_error, reply, held, inherited>>

GetStdHandle(which) ==
  CASE which = -10 -> 1
    [] which = -11 -> 2
    [] which = -12 -> 3
    [] OTHER -> INVALID_HANDLE_VALUE

Usable == {0} \union {GetStdHandle(w) : w \in {-12, -11, -10, 0}} \union DOMAIN held

(* A FILE pointer: its index in shim_iob, or 99 when it is not in it. *)
Stream == {0, 1, 2, 3, 99}
shim_iob_to_fd(s) == IF s \in {0, 2} THEN s ELSE 1

CallCreateFile ==
  /\ MayCall
  /\ \E p \in Path, m \in Modes :
       Calls("CreateFileA", Seen!CreateOf(p, m.access, m.disposition), -1, <<>>)

CallCloseHandle ==
  /\ MayCall
  /\ \E h \in Usable : Calls("CloseHandle", Seen!CloseOf(h), h - 1, <<>>)

(* An overlapped call is refused before its handle is looked at. *)
CallWriteFile ==
  /\ MayCall
  /\ \E h \in Usable, text \in Texts, overlapped \in BOOLEAN :
       /\ overlapped => h = 2
       /\ Calls("WriteFile", Seen!WriteOf(h, text, 1, overlapped), h - 1, text)

CallReadFile ==
  /\ MayCall
  /\ \E h \in Usable, n \in Counts, overlapped \in BOOLEAN :
       /\ overlapped => h = 1
       /\ Calls("ReadFile", Seen!ReadOf(h, n, overlapped), h - 1, <<>>)

(* What fprintf() is asked to print: as much of the meaning as the buffer
   has room for. *)
Meant(p) ==
  LET all == Meaning(p.items, p.args)
  IN SubSeq(all, 1, Least(Len(all), BUFCAP - 1))

(* total = size * nmemb, in 32 bits. *)
CallFwrite ==
  /\ MayCall
  /\ \E s \in Stream, e \in Elements :
       LET data == [k \in 1 .. e.size * e.nmemb |-> IF k % 2 = 1 THEN "e" ELSE "f"]
           total == (e.size * e.nmemb) % WORD
           fd == shim_iob_to_fd(s)
       IN Calls("fwrite", Seen!WriteOf(fd + 1, data, e.size, FALSE), fd, SubSeq(data, 1, total))

CallFprintf ==
  /\ MayCall
  /\ \E s \in Stream, p \in Prints :
       LET fd == shim_iob_to_fd(s)
       IN Calls("fprintf", Seen!WriteOf(fd + 1, Meant(p), 1, FALSE), fd,
                Printed(Written(p.items), p.args))

(* MessageBoxA: five calls of write_str(), to descriptor 1.  The prefix, the
   colon and the text for a null pointer count as a character each. *)
OrNull(text) == IF text = NULL THEN <<"null">> ELSE text
CallMessageBox ==
  /\ MayCall
  /\ \E box \in Boxes :
       LET pieces == << <<"prefix">>, OrNull(box.caption), <<"colon">>,
                        OrNull(box.text), <<"newline">> >>
       IN Calls("MessageBoxA", Seen!SayOf(2, pieces), 1, Head(pieces))

SetLastError ==
  /\ call = NoCall
  /\ g_last_error' = 0
  /\ UNCHANGED <<kernel, call, reply, held, inherited, asked, printed>>

----------------------------------------------------------------------------
(* The function returns. *)
Returns(answer) ==
  /\ call' = NoCall
  /\ reply' = answer

Rejects(code) == Returns(<<"failed">>) /\ g_last_error' = code

Opened(fd, desc) == [d \in DOMAIN fds \union {fd} |-> IF d = fd THEN desc ELSE fds[d]]
IsLowestFree(fd) == fd \notin DOMAIN fds /\ 0 .. fd - 1 \subseteq DOMAIN fds

(* A fault: CREATE_ALWAYS does not truncate. *)
FlagsKeep(d) ==
  CASE d = "CREATE_NEW" -> {"O_CREAT", "O_EXCL"}
    [] d \in {"CREATE_ALWAYS", "OPEN_ALWAYS"} -> {"O_CREAT"}
    [] d \in {"OPEN_EXISTING", "OTHER"} -> {}
    [] d = "TRUNCATE_EXISTING" -> {"O_TRUNC"}

posix_flags(d) ==
  CASE d = "CREATE_NEW" -> {"O_CREAT", "O_EXCL"}
    [] d = "CREATE_ALWAYS" -> {"O_CREAT", "O_TRUNC"}
    [] d = "OPEN_EXISTING" -> {}
    [] d = "OPEN_ALWAYS" -> {"O_CREAT"}
    [] d = "TRUNCATE_EXISTING" -> {"O_TRUNC"}
    [] d = "OTHER" -> {}

(* O_RDWR, O_WRONLY or O_RDONLY *)
rw(access) ==
  IF "write" \in access
    THEN IF "read" \in access THEN {"read", "write"} ELSE {"write"}
    ELSE {"read"}

(* open() in the kernel: the lowest free descriptor, at the file's start. *)
sys_open(fd, path, flags, access) ==
  LET exists == path \in DOMAIN files
  IN /\ IsLowestFree(fd)
     /\ IF exists THEN ~ {"O_CREAT", "O_EXCL"} \subseteq flags
                  ELSE "O_CREAT" \in flags
     /\ files' = [f \in DOMAIN files \union {path} |->
                    IF f = path /\ (~ exists \/ "O_TRUNC" \in flags)
                      THEN <<>> ELSE files[f]]
     /\ fds' = Opened(fd, [file |-> path, pos |-> 0, access |-> access])

(* A fault: the descriptor itself is the handle. *)
HandleIsFd(fd) == fd

(* "keep 0 free so NULL-handle checks behave" *)
HandleOf(fd) == fd + 1

CreateFileA ==
  /\ Serving("create")
  /\ \E fd \in 0 .. MaxFd :
       LET h == HandleOf(fd)
       IN /\ sys_open(fd, call.req.path, posix_flags(call.req.disposition),
                      rw(call.req.access))
          /\ Returns(<<"created", h>>)
          /\ held' = [g \in DOMAIN held \union {h} |->
                       IF g = h THEN call.req.path ELSE held[g]]
  /\ UNCHANGED <<g_last_error, inherited, asked, printed>>

CreateFileFails ==
  /\ Serving("create")
  /\ Rejects(2)
  /\ UNCHANGED <<kernel, held, inherited, asked, printed>>

(* A fault: only descriptors 0 and 1 are spared. *)
ClosesStderr(fd) ==
  fds' = IF fd > 1 THEN [d \in DOMAIN fds \ {fd} |-> fds[d]] ELSE fds

(* "never really close std handles": close() only past descriptor 2. *)
Closes(fd) ==
  fds' = IF fd > 2 THEN [d \in DOMAIN fds \ {fd} |-> fds[d]] ELSE fds

CloseHandle ==
  /\ Serving("close")
  /\ Closes(call.fd)
  /\ Returns(<<"closed">>)
  /\ held' = [h \in DOMAIN held \ {call.req.handle} |-> held[h]]
  /\ UNCHANGED <<files, g_last_error, inherited, asked, printed>>

MayAccess(fd, what) == fd \in DOMAIN fds /\ what \in fds[fd].access

(* write() in the kernel: at the descriptor's position, a stream's end. *)
sys_write(fd, text) ==
  LET f == fds[fd].file
      at == IF f \in Streams THEN Len(files[f]) ELSE fds[fd].pos
  IN /\ MayAccess(fd, "write")
     /\ files' = [files EXCEPT ![f] = Seen!StoredAt(@, at, text)]
     /\ fds' = [fds EXCEPT ![fd].pos = @ + Len(text)]

Refused == call.req.async \/ call.fd < 0

(* WriteFile and ReadFile: ERROR_INVALID_PARAMETER for an overlapped call,
   ERROR_INVALID_HANDLE for a handle no descriptor belongs to. *)
Refuse ==
  /\ call.req.op \in {"write", "read"}
  /\ Refused
  /\ Rejects(IF call.req.async THEN 87 ELSE 6)
  /\ UNCHANGED <<kernel, held, inherited, asked, printed>>

InLoop == Serving("say") \/ (Serving("write") /\ ~ Refused)
MoreToWrite == call.done < Len(call.text)

(* A fault: each turn starts again at the buffer's first byte. *)
NextPieceAgain(r) == SubSeq(call.text, 1, r)

(* write(fd, p + done, n - done), of which r characters are stored *)
NextPiece(r) == SubSeq(call.text, call.done + 1, call.done + r)

WriteSome ==
  /\ InLoop
  /\ \E r \in 1 .. Len(call.text) - call.done :
       /\ sys_write(call.fd, NextPiece(r))
       /\ call' = [call EXCEPT !.done = @ + r]
  /\ UNCHANGED <<g_last_error, reply, held, inherited, asked, printed>>

(* What the function reports: elements for fwrite(). *)
Reported ==
  IF call.req.unit = 0 THEN 0 ELSE call.done \div call.req.unit

(* A fault: write_str() counts on from the string before. *)
DoneKept(rest) ==
  call' = [call EXCEPT !.req = Seen!SayOf(2, rest), !.text = Head(rest),
                       !.was = [files |-> files, fds |-> fds]]

(* write_str() on the next of MessageBoxA's strings. *)
NextString(rest) ==
  call' = [call EXCEPT !.req = Seen!SayOf(2, rest), !.text = Head(rest),
                       !.was = [files |-> files, fds |-> fds], !.done = 0]

(* The loop is over: the function returns, or MessageBoxA goes on. *)
LoopDone ==
  \/ Serving("write") /\ Returns(<<"wrote", Reported>>)
  \/ /\ Serving("say")
     /\ Len(call.req.texts) = 1
     /\ Returns(<<"said">>)
  \/ /\ Serving("say")
     /\ Len(call.req.texts) > 1
     /\ NextString(Tail(call.req.texts))
     /\ UNCHANGED reply

WriteDone ==
  /\ InLoop
  /\ ~ MoreToWrite
  /\ LoopDone
  /\ UNCHANGED <<kernel, g_last_error, held, inherited, asked, printed>>

(* A fault: a write that stores nothing is tried again. *)
WriteRetries ==
  /\ InLoop
  /\ MoreToWrite
  /\ UNCHANGED vars

(* write() fails or stores nothing: the loop is left, and the function
   reports what it had written. *)
WriteStops ==
  /\ InLoop
  /\ MoreToWrite
  /\ LoopDone
  /\ UNCHANGED <<kernel, g_last_error, held, inherited, asked, printed>>

ReadFile ==
  /\ Serving("read")
  /\ ~ Refused
  /\ MayAccess(call.fd, "read")
  /\ LET d == fds[call.fd]
         rest == SubSeq(files[d.file], d.pos + 1, Len(files[d.file]))
     IN \E r \in 0 .. Least(call.req.count, Len(rest)) :
          /\ r = 0 => Least(call.req.count, Len(rest)) = 0
          /\ Returns(<<"read", SubSeq(rest, 1, r)>>)
          /\ fds' = [fds EXCEPT ![call.fd].pos = @ + r]
  /\ UNCHANGED <<files, g_last_error, held, inherited, asked, printed>>

ReadFails ==       \* the error code is left as it was
  /\ Serving("read")
  /\ ~ Refused
  /\ Returns(<<"failed">>)
  /\ UNCHANGED <<kernel, g_last_error, held, inherited, asked, printed>>

----------------------------------------------------------------------------
Program ==
  \/ CallCreateFile \/ CallCloseHandle \/ CallWriteFile \/ CallReadFile
  \/ CallFwrite \/ CallFprintf \/ CallMessageBox \/ SetLastError

Shim ==
  \/ CreateFileA \/ CreateFileFails \/ CloseHandle \/ Refuse
  \/ WriteSome \/ WriteDone \/ WriteStops \/ ReadFile \/ ReadFails

Next == Program \/ Shim

Spec == Init /\ [][Next]_vars

(* The shim's functions are straight code and loops around system calls that
   return. *)
FairSpec == Spec /\ WF_vars(Shim)

----------------------------------------------------------------------------
TypeOK ==
  /\ DOMAIN files \subseteq Path \union Streams
  /\ \A f \in DOMAIN files : files[f] \in Seq(Char)
  /\ DOMAIN fds \subseteq 0 .. MaxFd
  /\ \A fd \in DOMAIN fds :
       fds[fd] \in [file : DOMAIN files, pos : Nat, access : SUBSET {"read", "write"}]
  /\ g_last_error \in {0, 2, 6, 87}
  /\ call # NoCall => call.done \in 0 .. Len(call.text)
  /\ DOMAIN held \subseteq 1 .. MaxFd + 1
  /\ inherited \subseteq 0 .. 2
  /\ asked \in 0 .. MaxCalls /\ printed \in 0 .. MaxPrinted

(* Whatever the program closes, NULL, INVALID_HANDLE_VALUE and the standard
   handles included, the streams the process inherited stay open where they
   are; so when it inherited all three, no file is ever reached through a
   standard handle or a FILE pointer. *)
StdStreamsKept ==
  /\ \A fd \in inherited : fd \in DOMAIN fds /\ fds[fd].file \in Streams
  /\ inherited = 0 .. 2 => DOMAIN held \intersect StdHandles = {}

(* A handle the program holds is never NULL or INVALID_HANDLE_VALUE, and its
   descriptor is open on the file it was created for; a process with all its
   standard streams has no other descriptor open but those. *)
HandlesMatch ==
  /\ \A h \in DOMAIN held :
       h > 0 /\ h - 1 \in DOMAIN fds /\ fds[h - 1].file = held[h]
  /\ inherited = 0 .. 2 =>
       DOMAIN fds = inherited \union {h - 1 : h \in DOMAIN held}

(* The text fprintf() writes is what its format means, up to the size of the
   buffer it is formatted in. *)
PrintsMeaning ==
  (call # NoCall /\ call.by = "fprintf") => call.text = call.req.text

(* The program's formats are of those the formatter knows, in the characters
   of its texts. *)
FormatsWritten ==
  /\ Alphabet \subseteq Char
  /\ \A p \in Prints : WellWritten(p.items, p.args, Char)

(* A call is seen by the program as one step of AbstractFiles: whatever the
   kernel stores at a time, the characters arrive once, in order, through the
   right handle, and the number reported is the number that arrived. *)
KeepsPromise == Seen!Spec

(* The write loops end, also on a descriptor that takes nothing (more). *)
CallsReturn == (call # NoCall) ~> (call = NoCall)

----------------------------------------------------------------------------
(* Claims of the sources that do not hold. *)

(* README.md:28, the shim "performs the equivalent operation", and
   shim_startup.c:170, "skip width/flags, unsupported": fprintf() prints what
   the format means, width and flags left out. *)
EquivalentPrint ==
  (call # NoCall /\ call.by = "fprintf") => call.text = call.req.text
=============================================================================
