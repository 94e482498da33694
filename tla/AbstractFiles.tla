---------------------------- MODULE AbstractFiles ----------------------------
(***************************************************************************)
(* What Win32's file functions promise a program.  Every open handle has a *)
(* position of its own, on one file.  The program makes one request at a   *)
(* time, and it is answered in one step: it fails and changes nothing, or  *)
(* does what it says.  A write stores the first k characters of its text   *)
(* and answers with k, in units of a size; a read takes k characters; each *)
(* moves the position past them.                                           *)
(***************************************************************************)
EXTENDS Integers, Sequences

CONSTANTS
  Streams,       \* the standard streams: written at their end
  StdHandles,    \* the handles of the standard streams
  Handle         \* the values of open handles

(* Requests. *)
CreateOf(path, access, disposition) ==
  [op |-> "create", path |-> path, access |-> access, disposition |-> disposition]
CloseOf(h) == [op |-> "close", handle |-> h]
WriteOf(h, text, unit, async) ==
  [op |-> "write", handle |-> h, text |-> text, unit |-> unit, async |-> async]
ReadOf(h, n, async) ==
  [op |-> "read", handle |-> h, count |-> n, async |-> async]
SayOf(h, texts) == [op |-> "say", handle |-> h, texts |-> texts]
Idle == [op |-> "none"]

VARIABLES
  files,      \* contents of the files that exist, and of the streams
  open,       \* the open handles: the file, the position, what is allowed
  request,    \* the request being served, or Idle
  reply       \* what the last one was answered

vars == <<files, open, request, reply>>

NUL == "NUL"

(* The content c with text stored at position pos: a hole is filled with
   zeros. *)
StoredAt(c, pos, text) ==
  LET end == pos + Len(text)
  IN [k \in 1 .. IF Len(c) > end THEN Len(c) ELSE end |->
        IF k > pos /\ k <= end THEN text[k - pos]
        ELSE IF k <= Len(c) THEN c[k] ELSE NUL]

Exists(p) == p \in DOMAIN files
Allowed(h, what) == h \in DOMAIN open /\ what \in open[h].access
Moved(h, k) == open' = [open EXCEPT ![h].pos = @ + k]

(* A disposition that is no number of Win32's opens what exists. *)
MayOpen(r) ==
  /\ r.disposition = "CREATE_NEW" => ~ Exists(r.path)
  /\ r.disposition \in {"OPEN_EXISTING", "TRUNCATE_EXISTING", "OTHER"} => Exists(r.path)

Emptied(r) ==
  ~ Exists(r.path) \/ r.disposition \in {"CREATE_ALWAYS", "TRUNCATE_EXISTING"}

----------------------------------------------------------------------------
Init ==
  /\ request = Idle
  /\ reply = <<"none">>
  /\ DOMAIN open \subseteq StdHandles

(* The program asks: which request it is, is its own affair. *)
Ask ==
  /\ request = Idle
  /\ request'.op \in {"create", "close", "write", "read", "say"}
  /\ UNCHANGED <<files, open, reply>>

Fail ==
  /\ request.op \in {"create", "write", "read"}
  /\ reply' = <<"failed">>
  /\ UNCHANGED <<files, open>>

(* A handle no open one equals. *)
Create ==
  /\ request.op = "create"
  /\ MayOpen(request)
  /\ files' = [p \in DOMAIN files \union {request.path} |->
                 IF p = request.path /\ Emptied(request) THEN <<>> ELSE files[p]]
  /\ \E h \in Handle \ DOMAIN open :
       /\ open' = [g \in DOMAIN open \union {h} |->
                     IF g = h
                       THEN [file |-> request.path, pos |-> 0,
                             access |-> request.access]
                       ELSE open[g]]
       /\ reply' = <<"created", h>>

(* The standard handles stay open. *)
Close ==
  /\ request.op = "close"
  /\ open' = [g \in DOMAIN open \ ({request.handle} \ StdHandles) |-> open[g]]
  /\ reply' = <<"closed">>
  /\ UNCHANGED files

(* Store text through handle h: at its position, or at a stream's end. *)
Put(h, text) ==
  IF text = <<>>
    THEN UNCHANGED <<files, open>>
    ELSE LET f == open[h].file
             at == IF f \in Streams THEN Len(files[f]) ELSE open[h].pos
         IN /\ Allowed(h, "write")
            /\ files' = [files EXCEPT ![f] = StoredAt(@, at, text)]
            /\ Moved(h, Len(text))

Write ==
  /\ request.op = "write"
  /\ ~ request.async
  /\ \E k \in 0 .. Len(request.text) :
       /\ Put(request.handle, SubSeq(request.text, 1, k))
       /\ reply' = <<"wrote", IF request.unit = 0 THEN 0 ELSE k \div request.unit>>

(* Several texts, one after the other, each as far as it could be written. *)
Say ==
  /\ request.op = "say"
  /\ \E k \in 0 .. Len(Head(request.texts)) :
       Put(request.handle, SubSeq(Head(request.texts), 1, k))
  /\ IF Len(request.texts) = 1
       THEN request' = Idle /\ reply' = <<"said">>
       ELSE /\ request' = SayOf(request.handle, Tail(request.texts))
            /\ UNCHANGED reply

(* Nothing is read only at the end of the file. *)
Read ==
  /\ request.op = "read"
  /\ ~ request.async
  /\ Allowed(request.handle, "read")
  /\ LET h == request.handle
         rest == SubSeq(files[open[h].file], open[h].pos + 1, Len(files[open[h].file]))
     IN \E k \in 0 .. Len(rest) :
          /\ k <= request.count
          /\ (k = 0 /\ request.count > 0) => rest = <<>>
          /\ reply' = <<"read", SubSeq(rest, 1, k)>>
          /\ Moved(h, k)
  /\ UNCHANGED files

Answer == request' = Idle /\ (Fail \/ Create \/ Close \/ Write \/ Read)

Next == Ask \/ Answer \/ Say

Spec == Init /\ [][Next]_vars
=============================================================================
