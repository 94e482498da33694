----------------------------- MODULE ShimProcess -----------------------------
(***************************************************************************)
(* The life of a converted program between the shim's _start and the       *)
(* exit_group system call: shim_entry.S, the atexit list of shim_startup.c *)
(* and the msvcrt and kernel32 functions that register, call or exit.      *)
(*                                                                         *)
(* The program's own code is the environment.  It is on the call stack     *)
(* three ways: as the PE's entry point, as a function called from the      *)
(* atexit list, as an initializer called by _initterm().  From each of     *)
(* them it may call the shim again: a function called at exit may register *)
(* another one, call _cexit(), or call exit() a second time.  There is no  *)
(* limit on how often it does any of these.                                *)
(***************************************************************************)
EXTENDS Integers, Sequences

CONSTANTS
  MAX_ATEXIT,      \* 32: slots of atexit_fns
  Codes,           \* exit codes the program uses
  NullFns,         \* the registrations that give a null pointer
  Numbered,        \* bound of the histories: registrations told apart
  MaxDepth,        \* bound: nested calls
  MaxInit          \* bound: entries of a table given to _initterm()

ASSUME ProcessAssumption ==
  /\ MAX_ATEXIT \in Nat /\ Numbered \in Nat
  /\ MaxDepth \in Nat /\ MaxInit \in Nat
  /\ Codes \subseteq Nat

VARIABLES
  calls,           \* the call stack: a sequence of frames, innermost last
  atexit_fns,      \* slot -> registration
  atexit_count,
  exited,          \* "no", "exit" or "abort"
  code,            \* the code given to exit_group
  requested,       \* history: the number of the last registration asked for
  called           \* history: the numbered registrations called, in order

vars == <<calls, atexit_fns, atexit_count, exited, code, requested, called>>

(* Frames: the program's code, shim_run_atexit() with what follows it, and
   _initterm() with the entries it has yet to call. *)
Code == [kind |-> "code"]
Entry == [kind |-> "entry"]
RunThenReturn == [kind |-> "run", then |-> "return", code |-> 0]
RunThenExit(c) == [kind |-> "run", then |-> "exit", code |-> c]
InitTerm(n) == [kind |-> "initterm", left |-> n]

Top == calls[Len(calls)]
Below == SubSeq(calls, 1, Len(calls) - 1)
Running(kinds) == exited = "no" /\ calls # <<>> /\ Top.kind \in kinds
ProgramRuns == Running({"entry", "code"})

(* The program calls the shim: the bound leaves room for the function the
   shim may call in turn. *)
Enters(frame) == Len(calls) + 1 < MaxDepth /\ calls' = Append(calls, frame)

Init ==
  /\ calls = <<>>
  /\ atexit_fns = [s \in 0 .. MAX_ATEXIT - 1 |-> 0]
  /\ atexit_count = 0
  /\ exited = "no"
  /\ code = -1
  /\ requested = 0
  /\ called = <<>>

----------------------------------------------------------------------------
(* _start: shim_startup_init(), then a jump through shim_pe_entry_target.
   Nothing calls the PE's TLS callbacks. *)
Start ==
  /\ exited = "no"
  /\ calls = <<>>
  /\ calls' = <<Entry>>
  /\ UNCHANGED <<atexit_fns, atexit_count, exited, code, requested, called>>

(* A fault: the index is raised before the function is stored. *)
StoreLate(n) ==
  IF atexit_count + 1 < MAX_ATEXIT
    THEN /\ atexit_fns' = [atexit_fns EXCEPT ![atexit_count + 1] = n]
         /\ atexit_count' = atexit_count + 1
    ELSE UNCHANGED <<atexit_fns, atexit_count>>

(* A fault: the list is not checked for room. *)
StoreAnyway(n) ==
  /\ atexit_fns' = [atexit_fns EXCEPT ![atexit_count] = n]
  /\ atexit_count' = atexit_count + 1

shim_onexit_register(n) ==
  IF atexit_count < MAX_ATEXIT
    THEN /\ atexit_fns' = [atexit_fns EXCEPT ![atexit_count] = n]
         /\ atexit_count' = atexit_count + 1
    ELSE UNCHANGED <<atexit_fns, atexit_count>>

(* atexit() and _onexit(): both report success, always.  The first
   registrations have a number of their own, all later ones share the next. *)
Later == Numbered + 1
Number == IF requested < Numbered THEN requested + 1 ELSE Later

Register ==
  /\ ProgramRuns
  /\ requested' = Number
  /\ shim_onexit_register(Number)
  /\ UNCHANGED <<calls, exited, code, called>>

Cexit ==        \* _cexit()
  /\ ProgramRuns
  /\ Enters(RunThenReturn)
  /\ UNCHANGED <<atexit_fns, atexit_count, exited, code, requested, called>>

(* A fault: the process ends without the list being run. *)
ExitAtOnce ==
  /\ ProgramRuns
  /\ exited' = "exit"
  /\ code' \in Codes
  /\ UNCHANGED <<calls, atexit_fns, atexit_count, requested, called>>

Exit ==         \* exit() and ExitProcess()
  /\ ProgramRuns
  /\ \E c \in Codes : Enters(RunThenExit(c))
  /\ UNCHANGED <<atexit_fns, atexit_count, exited, code, requested, called>>

Abort ==        \* abort() and _amsg_exit(): no function is called
  /\ ProgramRuns
  /\ exited' = "abort"
  /\ code' \in {3, 255}
  /\ UNCHANGED <<calls, atexit_fns, atexit_count, requested, called>>

Initterm ==     \* _initterm()
  /\ ProgramRuns
  /\ \E n \in 0 .. MaxInit : Enters(InitTerm(n))
  /\ UNCHANGED <<atexit_fns, atexit_count, exited, code, requested, called>>

(* The function on top of the stack returns.  The entry point never does:
   there is nothing to return to. *)
Return ==
  /\ Running({"code"})
  /\ calls' = Below
  /\ UNCHANGED <<atexit_fns, atexit_count, exited, code, requested, called>>

(* The histories once fn is called. *)
Record(fn) == called' = IF fn = Later THEN called ELSE Append(called, fn)

(* A fault: the slot is released only once the function has returned, so a
   nested exit() calls it again. *)
PopLate ==
  /\ Running({"run"})
  /\ atexit_count > 0
  /\ LET fn == atexit_fns[atexit_count - 1]
     IN IF fn \in NullFns
          THEN atexit_count' = atexit_count - 1 /\ UNCHANGED <<calls, called>>
          ELSE /\ calls' = Append(calls, Code)
               /\ Record(fn)
               /\ UNCHANGED atexit_count
  /\ UNCHANGED <<atexit_fns, exited, code, requested>>

(* One turn of the loop of shim_run_atexit(). *)
RunNext ==
  /\ Running({"run"})
  /\ atexit_count > 0
  /\ atexit_count' = atexit_count - 1
  /\ LET fn == atexit_fns[atexit_count - 1]
     IN IF fn \in NullFns
          THEN UNCHANGED <<calls, called>>
          ELSE calls' = Append(calls, Code) /\ Record(fn)
  /\ UNCHANGED <<atexit_fns, exited, code, requested>>

(* A fault: exit() returns to its caller as _cexit() does. *)
RunReturns ==
  /\ Running({"run"})
  /\ atexit_count = 0
  /\ calls' = Below
  /\ UNCHANGED <<exited, code, atexit_fns, atexit_count, requested, called>>

(* The loop ends: _cexit() returns, exit() ends the process. *)
RunDone ==
  /\ Running({"run"})
  /\ atexit_count = 0
  /\ IF Top.then = "return"
       THEN calls' = Below /\ UNCHANGED <<exited, code>>
       ELSE exited' = "exit" /\ code' = Top.code /\ UNCHANGED calls
  /\ UNCHANGED <<atexit_fns, atexit_count, requested, called>>

(* One turn of the loop of _initterm(): a null entry is passed over. *)
InittermNext ==
  /\ Running({"initterm"})
  /\ Top.left > 0
  /\ LET rest == Append(Below, InitTerm(Top.left - 1))
     IN \/ calls' = rest
        \/ calls' = Append(rest, Code)
  /\ UNCHANGED <<atexit_fns, atexit_count, exited, code, requested, called>>

InittermDone ==
  /\ Running({"initterm"})
  /\ Top.left = 0
  /\ calls' = Below
  /\ UNCHANGED <<atexit_fns, atexit_count, exited, code, requested, called>>

Ended == exited # "no" /\ UNCHANGED vars

Next ==
  \/ Start \/ Register \/ Cexit \/ Exit \/ Abort \/ Initterm \/ Return
  \/ RunNext \/ RunDone \/ InittermNext \/ InittermDone \/ Ended

Spec == Init /\ [][Next]_vars

(* The shim's loops go on, and each function called by the shim returns in
   the end, however often it calls the shim before: one that gets control
   back again and again does not keep it for ever. *)
FairSpec ==
  /\ Spec
  /\ WF_vars(RunNext \/ RunDone \/ InittermNext \/ InittermDone)
  /\ \A depth \in 1 .. MaxDepth : SF_vars(Return /\ Len(calls) = depth)

----------------------------------------------------------------------------
Frame ==
  {Code, Entry, RunThenReturn} \union {RunThenExit(c) : c \in Codes}
  \union {InitTerm(n) : n \in 0 .. MaxInit}

TypeOK ==
  /\ calls \in Seq(Frame)
  /\ atexit_fns \in [0 .. MAX_ATEXIT - 1 -> Nat]
  /\ atexit_count \in 0 .. MAX_ATEXIT
  /\ exited \in {"no", "exit", "abort"}
  /\ code \in Codes \union {-1, 3, 255}
  /\ requested \in 0 .. Later
  /\ called \in Seq(Nat)

(* However exit(), _cexit() and registration nest, no numbered registration
   is called twice: shim_run_atexit() takes a slot off the list before it calls it. *)
CalledOnce == \A i, j \in DOMAIN called : called[i] = called[j] => i = j

(* The first MAX_ATEXIT registrations always find a slot: an orderly exit
   has called every one of them, those made while the list was run included. *)
ExitCallsAll ==
  exited = "exit" =>
    \A n \in (1 .. requested) \ (NullFns \union {Later}) :
      n <= MAX_ATEXIT => \E i \in DOMAIN called : called[i] = n

Stack ==
  INSTANCE AtExitStack
    WITH Registration <- 1 .. Later,
         Silent <- NullFns \union {Later},
         pending <- [i \in 1 .. atexit_count |-> atexit_fns[i - 1]],
         ended <- exited

(* The list is the stack AtExitStack promises, whatever interrupts the loop
   that runs it; a registration that finds no slot leaves it as it was. *)
KeepsStack == Stack!Spec

(* Once exit() is called the process ends, whatever the functions it calls
   do, provided each of them returns and the program does not register
   functions for ever: one that registers itself again before it returns
   keeps the loop of shim_run_atexit() busy. *)
StopsRegistering == <>[][~ Register]_vars
Exiting == \E i \in DOMAIN calls : calls[i].kind = "run" /\ calls[i].then = "exit"
ExitEnds == StopsRegistering => (Exiting ~> (exited # "no"))

----------------------------------------------------------------------------
(* Claims of the sources that do not hold. *)

(* README.md: the shim "performs the equivalent operation".  atexit() and
   _onexit() report every registration as accepted, so an orderly exit
   should have called each. *)
AcceptedAreCalled ==
  exited = "exit" =>
    \A n \in (1 .. requested) \ (NullFns \union {Later}) :
      \E i \in DOMAIN called : called[i] = n
=============================================================================
