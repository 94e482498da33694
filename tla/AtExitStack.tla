----------------------------- MODULE AtExitStack -----------------------------
(***************************************************************************)
(* What a C runtime promises of atexit(): the functions registered and not *)
(* yet called form a stack.  Only its top is ever called, and it is taken  *)
(* off before it is called; an orderly exit happens only when the stack is *)
(* empty.  A silent registration leaves no mark in the history of calls:   *)
(* those of a null pointer, and any the history does not tell apart.       *)
(***************************************************************************)
EXTENDS Naturals, Sequences

CONSTANTS
  Registration,    \* the numbers of the registrations
  Silent           \* those the history of calls leaves out

VARIABLES
  pending,    \* the registrations not yet called, oldest first
  called,     \* the registrations called, in order, but for silent ones
  ended       \* "no", "exit" or "abort"

vars == <<pending, called, ended>>

Init == pending = <<>> /\ called = <<>> /\ ended = "no"

Push(n) ==
  /\ ended = "no"
  /\ pending' = Append(pending, n)
  /\ UNCHANGED <<called, ended>>

CallTop ==
  /\ ended = "no"
  /\ pending # <<>>
  /\ LET top == pending[Len(pending)]
     IN called' = IF top \in Silent THEN called ELSE Append(called, top)
  /\ pending' = SubSeq(pending, 1, Len(pending) - 1)
  /\ UNCHANGED ended

Exit ==
  /\ ended = "no"
  /\ pending = <<>>
  /\ ended' = "exit"
  /\ UNCHANGED <<pending, called>>

Abort ==
  /\ ended = "no"
  /\ ended' = "abort"
  /\ UNCHANGED <<pending, called>>

Next == (\E n \in Registration : Push(n)) \/ CallTop \/ Exit \/ Abort

Spec == Init /\ [][Next]_vars
=============================================================================
