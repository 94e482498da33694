-------------------------- MODULE ShimProcessProofs --------------------------
(***************************************************************************)
(* Exit handling is right however deep the program, the functions it       *)
(* registers and its initializers nest, and whatever the size of the list. *)
(***************************************************************************)
EXTENDS ShimProcess, SequenceTheorems, TLAPS

----------------------------------------------------------------------------
(* Types. *)

LEMMA FrameFields ==
  /\ Code \in Frame /\ Entry \in Frame /\ RunThenReturn \in Frame
  /\ \A c \in Codes : RunThenExit(c) \in Frame
  /\ \A n \in 0 .. MaxInit : InitTerm(n) \in Frame
  /\ \A f \in Frame : f.kind = "run" /\ f.then # "return" => f.code \in Codes
  /\ \A f \in Frame : f.kind = "initterm" => f.left \in 0 .. MaxInit
<1>1. /\ Code \in Frame /\ Entry \in Frame /\ RunThenReturn \in Frame
      /\ \A c \in Codes : RunThenExit(c) \in Frame
      /\ \A n \in 0 .. MaxInit : InitTerm(n) \in Frame
  BY DEF Frame
<1>2. ASSUME NEW f \in Frame
      PROVE  /\ f.kind = "run" /\ f.then # "return" => f.code \in Codes
             /\ f.kind = "initterm" => f.left \in 0 .. MaxInit
  <2>1. CASE f \in {Code, Entry, RunThenReturn}
    BY <2>1 DEF Code, Entry, RunThenReturn
  <2>2. ASSUME NEW c \in Codes, f = RunThenExit(c)
        PROVE  f.kind = "run" /\ f.code \in Codes
    BY <2>2 DEF RunThenExit
  <2>3. ASSUME NEW n \in 0 .. MaxInit, f = InitTerm(n)
        PROVE  f.kind = "initterm" /\ f.left \in 0 .. MaxInit
    BY <2>3 DEF InitTerm
  <2> QED
    BY <2>1, <2>2, <2>3 DEF Frame
<1> QED
  BY <1>1, <1>2

(* The frames below the top, and what a push leaves. *)
LEMMA StackTypes ==
  ASSUME TypeOK
  PROVE  /\ \A f \in Frame : Append(calls, f) \in Seq(Frame)
         /\ calls # <<>> => /\ Below \in Seq(Frame)
                            /\ Top \in Frame
                            /\ \A f, g \in Frame :
                                 /\ Append(Below, f) \in Seq(Frame)
                                 /\ Append(Append(Below, f), g) \in Seq(Frame)
<1>1. calls \in Seq(Frame)
  BY DEF TypeOK
<1>2. ASSUME calls # <<>>
      PROVE  Below \in Seq(Frame) /\ Top \in Frame
  <2>1. Len(calls) \in 1 .. Len(calls)
    BY <1>1, <1>2
  <2>2. Top \in Frame
    BY <1>1, <2>1 DEF Top
  <2>3. Below \in Seq(Frame)
    BY <1>1, <2>1 DEF Below
  <2> QED
    BY <2>2, <2>3
<1> QED
  BY <1>1, <1>2

(* The number a registration is given: the next one, or Later. *)
LEMMA NumberFacts ==
  ASSUME TypeOK
  PROVE  /\ Numbered \in Nat /\ Later \in Nat /\ Later = Numbered + 1
         /\ requested \in Nat /\ requested <= Later
         /\ Number \in 1 .. Later /\ requested <= Number
         /\ Number # Later => Number = requested + 1
         /\ Number = Later => requested >= Numbered
BY ProcessAssumption DEF TypeOK, Number, Later

LEMMA TypeStep ==
  ASSUME TypeOK, [Next]_vars
  PROVE  TypeOK'
<1> USE ProcessAssumption, FrameFields, StackTypes DEF TypeOK
<1>1. CASE Start
  BY <1>1 DEF Start
<1>2. CASE Register
  <2>0. Number \in Nat /\ Number \in 0 .. Later
    BY NumberFacts
  <2>1. CASE atexit_count < MAX_ATEXIT
    <3>1. /\ requested' = Number
          /\ atexit_fns' = [atexit_fns EXCEPT ![atexit_count] = Number]
          /\ atexit_count' = atexit_count + 1
      BY <1>2, <2>1 DEF Register, shim_onexit_register
    <3> QED
      BY <1>2, <2>0, <2>1, <3>1 DEF Register
  <2>2. CASE ~ (atexit_count < MAX_ATEXIT)
    BY <1>2, <2>0, <2>2 DEF Register, shim_onexit_register
  <2> QED
    BY <2>1, <2>2
<1>3. CASE Cexit
  BY <1>3 DEF Cexit, Enters
<1>4. CASE Exit
  BY <1>4 DEF Exit, Enters
<1>5. CASE Abort
  BY <1>5 DEF Abort
<1>6. CASE Initterm
  BY <1>6 DEF Initterm, Enters
<1>7. CASE Return
  BY <1>7 DEF Return, Running
<1>8. CASE RunNext
  <2> DEFINE fn == atexit_fns[atexit_count - 1]
  <2>1. fn \in Nat /\ atexit_count - 1 \in 0 .. MAX_ATEXIT
    BY <1>8 DEF RunNext
  <2> HIDE DEF fn
  <2>2. CASE fn \in NullFns
    BY <1>8, <2>1, <2>2 DEF RunNext, fn
  <2>3. CASE fn \notin NullFns
    <3>1. /\ calls' = Append(calls, Code)
          /\ called' = called \/ called' = Append(called, fn)
      BY <1>8, <2>3 DEF RunNext, Record, fn
    <3>2. calls' \in Seq(Frame)
      BY <3>1
    <3>3. called' \in Seq(Nat)
      <4>1. called \in Seq(Nat)
        BY DEF TypeOK
      <4> QED
        BY ONLY <2>1, <3>1, <4>1
    <3> QED
      BY <1>8, <2>1, <3>2, <3>3 DEF RunNext
  <2> QED
    BY <2>2, <2>3
<1>9. CASE RunDone
  BY <1>9 DEF RunDone, Running
<1>10. CASE InittermNext
  <2>1. calls # <<>> /\ Top.kind = "initterm" /\ Top.left > 0
    BY <1>10 DEF InittermNext, Running
  <2>2. Top.left - 1 \in 0 .. MaxInit
    BY <2>1, ProcessAssumption
  <2> DEFINE turn == InitTerm(Top.left - 1)
  <2>3. turn \in Frame
    BY <2>2
  <2> HIDE DEF turn
  <2>4. calls' = Append(Below, turn) \/ calls' = Append(Append(Below, turn), Code)
    BY <1>10 DEF InittermNext, turn
  <2>5. /\ Append(Below, turn) \in Seq(Frame)
        /\ Append(Append(Below, turn), Code) \in Seq(Frame)
    BY <2>1, <2>3
  <2>6. calls' \in Seq(Frame)
    BY ONLY <2>4, <2>5
  <2> QED
    BY <1>10, <2>6 DEF InittermNext
<1>11. CASE InittermDone
  BY <1>11 DEF InittermDone, Running
<1>12. CASE Ended \/ UNCHANGED vars
  BY <1>12 DEF Ended, vars
<1> QED
  BY <1>1, <1>2, <1>3, <1>4, <1>5, <1>6, <1>7, <1>8, <1>9, <1>10, <1>11, <1>12
     DEF Next

(* The call stack, the list and the histories keep their types. *)
THEOREM ProcessTypeCorrect == Spec => []TypeOK
<1>1. Init => TypeOK
  BY ProcessAssumption DEF Init, TypeOK, Later
<1>2. TypeOK /\ [Next]_vars => TypeOK'
  BY TypeStep
<1> QED
  BY <1>1, <1>2, PTL DEF Spec

----------------------------------------------------------------------------
(* The invariant.  A numbered registration is in the list, has been called, *)
(* or was dropped: the list and the history of calls hold each one once, in *)
(* either of them.  As long as all are numbered the list is no longer than  *)
(* the registrations asked for, so the first ones always find a slot.       *)

Listed(n) == \E s \in 0 .. atexit_count - 1 : atexit_fns[s] = n
Called(n) == \E i \in DOMAIN called : called[i] = n

ListHoldsOnce ==
  \A s, t \in 0 .. atexit_count - 1 :
    atexit_fns[s] = atexit_fns[t] /\ atexit_fns[s] # Later => s = t

OnlyRequested ==
  /\ \A s \in 0 .. atexit_count - 1 : atexit_fns[s] \in 1 .. requested
  /\ \A i \in DOMAIN called : called[i] \in (1 .. requested) \ {Later}

NotBoth ==
  \A s \in 0 .. atexit_count - 1, i \in DOMAIN called : atexit_fns[s] # called[i]

FirstOnesKept ==
  \A n \in (1 .. requested) \ (NullFns \union {Later}) :
    n <= MAX_ATEXIT => Listed(n) \/ Called(n)

ListBounded ==
  /\ requested # Later => atexit_count <= requested
  /\ exited = "exit" => atexit_count = 0

ProcessInvariant ==
  /\ TypeOK /\ CalledOnce
  /\ ListHoldsOnce /\ OnlyRequested /\ NotBoth /\ FirstOnesKept /\ ListBounded

(* The list, the histories and how the process ended are as they were. *)
ListKept ==
  UNCHANGED <<atexit_fns, atexit_count, requested, called>>

LEMMA QuietStep ==
  ASSUME ProcessInvariant, TypeOK', ListKept,
         exited' = "exit" => exited = "exit" \/ atexit_count = 0
  PROVE  ProcessInvariant'
BY DEF ProcessInvariant, ListKept, CalledOnce, ListHoldsOnce, OnlyRequested,
       NotBoth, FirstOnesKept, ListBounded, Listed, Called, Later

LEMMA RegisterStep ==
  ASSUME ProcessInvariant, TypeOK', Register
  PROVE  ProcessInvariant'
<1> DEFINE n == Number
<1> USE DEF ProcessInvariant
<1>1. /\ requested' = n /\ called' = called /\ exited' = exited
      /\ exited = "no"
  BY DEF Register, ProgramRuns, Running
<1>2. /\ requested \in Nat /\ MAX_ATEXIT \in Nat
      /\ atexit_count \in Nat /\ atexit_count <= MAX_ATEXIT
      /\ atexit_fns \in [0 .. MAX_ATEXIT - 1 -> Nat] /\ called \in Seq(Nat)
  BY ProcessAssumption DEF TypeOK
<1>3. /\ n \in Nat /\ n \in 1 .. n /\ requested <= n
      /\ n # Later => n = requested + 1
      /\ Later \in Nat /\ n <= Later
      /\ n = Later => \A m \in 1 .. n : m # Later => m \in 1 .. requested
  BY NumberFacts
<1> HIDE DEF n
<1>4. CASE atexit_count < MAX_ATEXIT
  <2>1. /\ atexit_fns' = [atexit_fns EXCEPT ![atexit_count] = n]
        /\ atexit_count' = atexit_count + 1
    BY <1>4 DEF Register, shim_onexit_register, n
  <2>2. /\ atexit_count \in 0 .. MAX_ATEXIT - 1
        /\ atexit_fns'[atexit_count] = n
        /\ \A s \in 0 .. atexit_count - 1 : atexit_fns'[s] = atexit_fns[s]
    BY <1>2, <1>4, <2>1
  <2>3. \A s \in 0 .. atexit_count - 1 : n # Later => atexit_fns[s] # n
    BY <1>2, <1>3 DEF OnlyRequested
  <2>4. ListHoldsOnce'
    <3>1. SUFFICES ASSUME NEW s \in 0 .. atexit_count, NEW t \in 0 .. atexit_count,
                          atexit_fns'[s] = atexit_fns'[t], atexit_fns'[s] # Later
                   PROVE  s = t
      BY <1>2, <2>1 DEF ListHoldsOnce, Later
    <3>2. /\ s = atexit_count \/ s \in 0 .. atexit_count - 1
          /\ t = atexit_count \/ t \in 0 .. atexit_count - 1
      BY <1>2
    <3>3. CASE s = atexit_count \/ t = atexit_count
      BY <2>2, <2>3, <3>1, <3>2, <3>3
    <3>4. CASE s \in 0 .. atexit_count - 1 /\ t \in 0 .. atexit_count - 1
      BY <2>2, <3>1, <3>4 DEF ListHoldsOnce
    <3> QED
      BY <3>2, <3>3, <3>4
  <2>5. OnlyRequested'
    BY <1>1, <1>2, <1>3, <2>1, <2>2 DEF OnlyRequested, Later
  <2>6. NotBoth'
    <3>1. \A i \in DOMAIN called : called[i] # n
      BY <1>2, <1>3 DEF OnlyRequested
    <3> QED
      BY <1>1, <1>2, <2>1, <2>2, <3>1 DEF NotBoth
  <2>7. FirstOnesKept'
    <3>1. SUFFICES ASSUME NEW m \in (1 .. n) \ (NullFns \union {Later}), m <= MAX_ATEXIT
                   PROVE  Listed(m)' \/ Called(m)'
      BY <1>1 DEF FirstOnesKept, Later
    <3>2. CASE m = n
      <4>1. atexit_count \in 0 .. atexit_count' - 1
        BY <1>2, <2>1
      <4> QED
        BY <2>2, <3>2, <4>1 DEF Listed
    <3>3. CASE m # n
      <4>0. m \in 1 .. requested
        <5>1. m \in 1 .. n /\ m # Later
          BY <3>1
        <5>2. CASE n = Later
          BY <1>3, <5>1, <5>2
        <5>3. CASE n # Later
          BY <1>2, <1>3, <3>3, <5>1, <5>3
        <5> QED
          BY <5>2, <5>3
      <4>1. Listed(m) \/ Called(m)
        BY <3>1, <4>0 DEF FirstOnesKept
      <4>2. Listed(m) => Listed(m)'
        BY <1>2, <2>1, <2>2 DEF Listed
      <4>3. Called(m) => Called(m)'
        BY <1>1 DEF Called
      <4> QED
        BY <4>1, <4>2, <4>3
    <3> QED
      BY <3>2, <3>3
  <2>8. ListBounded'
    <3>1. n # Later => atexit_count <= requested
      BY <1>2, <1>3 DEF ListBounded
    <3> QED
      BY <1>1, <1>2, <1>3, <2>1, <3>1 DEF ListBounded, Later
  <2>9. CalledOnce'
    BY <1>1 DEF CalledOnce
  <2> QED
    BY <2>4, <2>5, <2>6, <2>7, <2>8, <2>9
<1>5. CASE ~ (atexit_count < MAX_ATEXIT)
  <2>1. UNCHANGED <<atexit_fns, atexit_count>>
    BY <1>5 DEF Register, shim_onexit_register
  <2>2. n # Later => requested >= MAX_ATEXIT
    BY <1>2, <1>3, <1>5 DEF ListBounded
  <2>3. FirstOnesKept'
    <3>1. SUFFICES ASSUME NEW m \in (1 .. n) \ (NullFns \union {Later}), m <= MAX_ATEXIT
                   PROVE  Listed(m)' \/ Called(m)'
      BY <1>1 DEF FirstOnesKept, Later
    <3>2. m \in 1 .. requested
      <4>1. m \in 1 .. n /\ m # Later
        BY <3>1
      <4>2. CASE n = Later
        BY <1>3, <4>1, <4>2
      <4>3. CASE n # Later
        BY <1>2, <1>3, <2>2, <3>1, <4>1, <4>3, ProcessAssumption
      <4> QED
        BY <4>2, <4>3
    <3>3. Listed(m) \/ Called(m)
      BY <3>1, <3>2 DEF FirstOnesKept
    <3> QED
      BY <1>1, <2>1, <3>3 DEF Listed, Called
  <2>4. OnlyRequested'
    BY <1>1, <1>2, <1>3, <2>1 DEF OnlyRequested, Later
  <2>5. ListHoldsOnce' /\ NotBoth' /\ CalledOnce'
    BY <1>1, <2>1 DEF ListHoldsOnce, NotBoth, CalledOnce, Later
  <2>6. ListBounded'
    <3>1. n # Later => atexit_count <= requested
      BY <1>2, <1>3 DEF ListBounded
    <3> QED
      BY <1>1, <1>2, <1>3, <2>1, <3>1 DEF ListBounded, Later
  <2> QED
    BY <2>3, <2>4, <2>5, <2>6
<1> QED
  BY <1>4, <1>5

LEMMA RunNextStep ==
  ASSUME ProcessInvariant, TypeOK', RunNext
  PROVE  ProcessInvariant'
<1> DEFINE last == atexit_count - 1
           fn == atexit_fns[last]
<1> USE DEF ProcessInvariant
<1>1. /\ atexit_count' = last /\ atexit_fns' = atexit_fns
      /\ requested' = requested /\ exited' = exited
      /\ exited = "no" /\ atexit_count > 0
      /\ IF fn \in NullFns \union {Later}
           THEN called' = called
           ELSE called' = Append(called, fn)
  BY DEF RunNext, Running, Record
<1>2. /\ requested \in Nat /\ MAX_ATEXIT \in Nat
      /\ atexit_count \in Nat /\ atexit_count <= MAX_ATEXIT
      /\ atexit_fns \in [0 .. MAX_ATEXIT - 1 -> Nat] /\ called \in Seq(Nat)
  BY ProcessAssumption DEF TypeOK
<1>3. last \in 0 .. atexit_count - 1 /\ fn \in 1 .. requested
  BY <1>1, <1>2 DEF OnlyRequested
<1>4. \A s \in 0 .. last - 1 :
        s \in 0 .. atexit_count - 1 /\ (fn # Later => atexit_fns[s] # fn)
  BY <1>2, <1>3 DEF ListHoldsOnce
<1> HIDE DEF last, fn
<1>5. ListHoldsOnce'
  BY <1>1, <1>4 DEF ListHoldsOnce, Later
<1>6. ListBounded'
  BY <1>1, <1>2 DEF ListBounded, Later, last
<1>7. \A i \in DOMAIN called' :
        \/ i \in DOMAIN called /\ called'[i] = called[i]
        \/ i = Len(called) + 1 /\ called'[i] = fn /\ fn # Later
  <2>1. fn \in Nat
    BY <1>2, <1>3
  <2>2. CASE called' = called
    BY <1>2, <2>2
  <2>3. CASE called' = Append(called, fn) /\ fn # Later
    BY <1>2, <2>1, <2>3
  <2> QED
    BY <1>1, <2>2, <2>3
<1>8. OnlyRequested' /\ NotBoth'
  BY <1>1, <1>3, <1>4, <1>7 DEF OnlyRequested, NotBoth, Later
<1>9. CalledOnce'
  <2>1. \A i \in DOMAIN called : called[i] # fn
    BY <1>3 DEF NotBoth, fn
  <2> QED
    BY <1>1, <1>7, <2>1 DEF CalledOnce
<1>10. FirstOnesKept'
  <2>1. SUFFICES ASSUME NEW m \in (1 .. requested) \ (NullFns \union {Later}),
                        m <= MAX_ATEXIT
                 PROVE  Listed(m)' \/ Called(m)'
    BY <1>1 DEF FirstOnesKept, Later
  <2>2. Called(m) => Called(m)'
    <3>1. \A i \in DOMAIN called : i \in DOMAIN called' /\ called'[i] = called[i]
      <4>1. CASE called' = called
        BY <4>1
      <4>2. CASE called' = Append(called, fn)
        <5>1. /\ DOMAIN called = 1 .. Len(called)
              /\ DOMAIN called' = 1 .. Len(called) + 1
              /\ \A i \in 1 .. Len(called) : called'[i] = called[i]
          BY <1>2, <4>2
        <5> QED
          BY <1>2, <5>1
      <4> QED
        BY <1>1, <4>1, <4>2
    <3> QED
      BY <3>1 DEF Called
  <2>3. ASSUME NEW s \in 0 .. atexit_count - 1, atexit_fns[s] = m
        PROVE  Listed(m)' \/ Called(m)'
    <3>1. CASE s = last
      <4>1. fn = m /\ fn \notin NullFns \union {Later}
        BY <2>1, <2>3, <3>1 DEF fn
      <4>2. called' = Append(called, m)
        BY <1>1, <4>1
      <4>3. Len(called) + 1 \in DOMAIN called' /\ called'[Len(called) + 1] = m
        BY <1>2, <4>2
      <4> QED
        BY <4>3 DEF Called
    <3>2. CASE s # last
      <4>1. s \in 0 .. last - 1
        BY <1>2, <2>3, <3>2 DEF last
      <4> QED
        BY <1>1, <2>3, <4>1 DEF Listed
    <3> QED
      BY <3>1, <3>2
  <2> QED
    BY <2>1, <2>2, <2>3 DEF FirstOnesKept, Listed
<1> QED
  BY <1>5, <1>6, <1>8, <1>9, <1>10

LEMMA ProcessInvariantStep ==
  ASSUME ProcessInvariant, [Next]_vars
  PROVE  ProcessInvariant'
<1>1. TypeOK'
  BY TypeStep DEF ProcessInvariant
<1>2. CASE Register
  BY <1>1, <1>2, RegisterStep
<1>3. CASE RunNext
  BY <1>1, <1>3, RunNextStep
<1>4. CASE Start \/ Cexit \/ Exit \/ Abort \/ Initterm \/ Return
  BY <1>1, <1>4, QuietStep
     DEF ListKept, Start, Cexit, Exit, Abort, Initterm, Return
<1>5. CASE RunDone
  BY <1>1, <1>5, QuietStep DEF ListKept, RunDone
<1>6. CASE InittermNext \/ InittermDone \/ Ended \/ UNCHANGED vars
  BY <1>1, <1>6, QuietStep DEF ListKept, InittermNext, InittermDone, Ended, vars
<1> QED
  BY <1>2, <1>3, <1>4, <1>5, <1>6 DEF Next

LEMMA ProcessInvariantAlways == Spec => []ProcessInvariant
<1>1. Init => ProcessInvariant
  BY ProcessAssumption
     DEF Init, ProcessInvariant, TypeOK, CalledOnce, ListHoldsOnce, OnlyRequested,
         NotBoth, FirstOnesKept, ListBounded, Later
<1>2. ProcessInvariant /\ [Next]_vars => ProcessInvariant'
  BY ProcessInvariantStep
<1> QED
  BY <1>1, <1>2, PTL DEF Spec

(* shim_run_atexit() calls no registration twice, nested in itself or not. *)
THEOREM RegistrationsCalledOnce == Spec => []CalledOnce
<1>1. ProcessInvariant => CalledOnce
  BY DEF ProcessInvariant
<1> QED
  BY <1>1, ProcessInvariantAlways, PTL

(* After exit() every registration that found a slot for certain was called. *)
THEOREM ExitCallsEveryKept == Spec => []ExitCallsAll
<1>1. ProcessInvariant => ExitCallsAll
  <2>1. SUFFICES ASSUME ProcessInvariant, exited = "exit",
                        NEW n \in (1 .. requested) \ (NullFns \union {Later}),
                        n <= MAX_ATEXIT
                 PROVE  \E i \in DOMAIN called : called[i] = n
    BY DEF ExitCallsAll
  <2>2. atexit_count = 0
    BY <2>1 DEF ProcessInvariant, ListBounded
  <2> QED
    BY <2>1, <2>2 DEF ProcessInvariant, FirstOnesKept, Listed, Called
<1> QED
  BY <1>1, ProcessInvariantAlways, PTL

----------------------------------------------------------------------------
(* The list as the stack AtExitStack speaks of. *)
Pending == [i \in 1 .. atexit_count |-> atexit_fns[i - 1]]

LEMMA PendingIsSeq ==
  ASSUME TypeOK
  PROVE  /\ Pending \in Seq(Nat) /\ Len(Pending) = atexit_count
         /\ \A i \in 1 .. atexit_count : Pending[i] = atexit_fns[i - 1]
<1>1. atexit_count \in Nat
  BY ProcessAssumption DEF TypeOK
<1>2. \A i \in 1 .. atexit_count : atexit_fns[i - 1] \in Nat
  BY ProcessAssumption DEF TypeOK
<1> QED
  BY <1>1, <1>2 DEF Pending

(* A registration that finds a slot pushes; one that finds none is a stutter. *)
LEMMA RegisterPushes ==
  ASSUME ProcessInvariant, TypeOK', Register
  PROVE  \/ /\ exited = "no"
            /\ Number \in 1 .. Later
            /\ Pending' = Append(Pending, Number)
         \/ Pending' = Pending
<1>1. /\ MAX_ATEXIT \in Nat /\ Number \in Nat
      /\ atexit_fns \in [0 .. MAX_ATEXIT - 1 -> Nat]
      /\ atexit_count \in 0 .. MAX_ATEXIT
  <2>1. Number \in 1 .. Later /\ Later \in Nat
    BY NumberFacts DEF ProcessInvariant
  <2> QED
    BY <2>1, ProcessAssumption DEF ProcessInvariant, TypeOK
<1>2. exited = "no" /\ Number \in 1 .. Later
  BY NumberFacts DEF Register, ProgramRuns, Running, ProcessInvariant
<1>3. CASE atexit_count < MAX_ATEXIT
  <2>1. /\ atexit_fns' = [atexit_fns EXCEPT ![atexit_count] = Number]
        /\ atexit_count' = atexit_count + 1
    BY <1>3 DEF Register, shim_onexit_register
  <2>2. /\ Pending' \in Seq(Nat) /\ Len(Pending') = atexit_count + 1
        /\ \A i \in 1 .. atexit_count + 1 : Pending'[i] = atexit_fns'[i - 1]
    <3>1. /\ Pending' \in Seq(Nat) /\ Len(Pending') = atexit_count'
          /\ \A i \in 1 .. atexit_count' : Pending'[i] = atexit_fns'[i - 1]
      <4>1. atexit_count' \in Nat
        BY <1>1, <2>1
      <4>2. \A i \in 1 .. atexit_count' : atexit_fns'[i - 1] \in Nat
        BY ProcessAssumption DEF TypeOK
      <4> QED
        BY <4>1, <4>2 DEF Pending
    <3> QED
      BY <2>1, <3>1
  <2>3. /\ Pending \in Seq(Nat) /\ Len(Pending) = atexit_count
        /\ \A i \in 1 .. atexit_count : Pending[i] = atexit_fns[i - 1]
    BY PendingIsSeq DEF ProcessInvariant
  <2> DEFINE pushed == Append(Pending, Number)
  <2>4. /\ pushed \in Seq(Nat) /\ Len(pushed) = atexit_count + 1
        /\ \A i \in 1 .. atexit_count : pushed[i] = Pending[i]
        /\ pushed[atexit_count + 1] = Number
    BY <1>1, <2>3
  <2>5. /\ atexit_fns'[atexit_count] = Number
        /\ \A i \in 1 .. atexit_count : atexit_fns'[i - 1] = atexit_fns[i - 1]
    BY <1>1, <1>3, <2>1
  <2> HIDE DEF pushed
  <2>6. \A i \in 1 .. atexit_count + 1 : Pending'[i] = pushed[i]
    <3> SUFFICES ASSUME NEW i \in 1 .. atexit_count + 1
                 PROVE  Pending'[i] = pushed[i]
      OBVIOUS
    <3>1. Pending'[i] = atexit_fns'[i - 1]
      BY <2>2
    <3>2. CASE i \in 1 .. atexit_count
      BY <2>3, <2>4, <2>5, <3>1, <3>2
    <3>3. CASE i = atexit_count + 1
      <4>1. i - 1 = atexit_count
        BY <1>1, <3>3
      <4> QED
        BY <2>4, <2>5, <3>1, <3>3, <4>1
    <3> QED
      BY <1>1, <3>2, <3>3
  <2>7. Pending' = pushed
    BY <2>2, <2>4, <2>6, SeqEqual
  <2> QED
    BY <1>1, <1>2, <2>7 DEF pushed
<1>4. CASE ~ (atexit_count < MAX_ATEXIT)
  BY <1>4 DEF Register, shim_onexit_register, Pending
<1> QED
  BY <1>3, <1>4

(* One turn of the loop takes the top off. *)
LEMMA RunNextPops ==
  ASSUME ProcessInvariant, TypeOK', RunNext
  PROVE  /\ Pending # <<>>
         /\ Pending[Len(Pending)] = atexit_fns[atexit_count - 1]
         /\ Pending' = SubSeq(Pending, 1, Len(Pending) - 1)
<1>1. /\ atexit_fns \in [0 .. MAX_ATEXIT - 1 -> Nat] /\ MAX_ATEXIT \in Nat
      /\ atexit_count \in 1 .. MAX_ATEXIT
      /\ atexit_count' = atexit_count - 1 /\ atexit_fns' = atexit_fns
  BY ProcessAssumption DEF ProcessInvariant, TypeOK, RunNext
<1>2. /\ Pending \in Seq(Nat) /\ Len(Pending) = atexit_count
      /\ \A i \in 1 .. atexit_count : Pending[i] = atexit_fns[i - 1]
  BY PendingIsSeq DEF ProcessInvariant
<1>3. Pending' = [i \in 1 .. atexit_count - 1 |-> atexit_fns[i - 1]]
  BY <1>1 DEF Pending
<1>4. SubSeq(Pending, 1, Len(Pending) - 1)
        = [i \in 1 .. atexit_count - 1 |-> atexit_fns[i - 1]]
  BY <1>1, <1>2
<1>5. Pending # <<>> /\ Pending[Len(Pending)] = atexit_fns[atexit_count - 1]
  BY <1>1, <1>2
<1> QED
  BY <1>3, <1>4, <1>5

LEMMA StackStep ==
  ASSUME ProcessInvariant, [Next]_vars
  PROVE  [Stack!Next]_Stack!vars
<1> USE DEF Stack!vars, Stack!Next
<1>1. TypeOK'
  BY TypeStep DEF ProcessInvariant
<1>2. CASE Register
  <2>1. exited' = exited /\ called' = called
    BY <1>2 DEF Register
  <2> QED
    BY <1>1, <1>2, <2>1, RegisterPushes DEF Stack!Push, Pending
<1>3. CASE RunNext
  <2>1. /\ exited = "no" /\ exited' = exited
        /\ called' = IF atexit_fns[atexit_count - 1] \in NullFns \union {Later}
                       THEN called
                       ELSE Append(called, atexit_fns[atexit_count - 1])
    BY <1>3 DEF RunNext, Running, Record
  <2> QED
    BY <1>1, <1>3, <2>1, RunNextPops DEF Stack!CallTop, Pending
<1>4. CASE Start \/ Cexit \/ Exit \/ Initterm \/ Return
  BY <1>4 DEF Start, Cexit, Exit, Initterm, Return
<1>5. CASE Abort
  BY <1>5 DEF Abort, ProgramRuns, Running, Stack!Abort
<1>6. CASE RunDone
  <2>1. /\ UNCHANGED <<atexit_fns, atexit_count, called>>
        /\ exited = "no" /\ atexit_count = 0
        /\ exited' = exited \/ exited' = "exit"
    BY <1>6 DEF RunDone, Running
  <2>2. Pending = <<>>
    BY <2>1 DEF Pending
  <2> QED
    BY <2>1, <2>2 DEF Stack!Exit, Pending
<1>7. CASE InittermNext \/ InittermDone \/ Ended \/ UNCHANGED vars
  BY <1>7 DEF InittermNext, InittermDone, Ended, vars
<1> QED
  BY <1>2, <1>3, <1>4, <1>5, <1>6, <1>7 DEF Next

(* The list is a stack, for any size of it: every step of the process is a
   push, a call of the top, an exit with an empty stack, an abort, or none of
   these. *)
THEOREM ListIsStack == Spec => KeepsStack
<1>1. Init => Stack!Init
  BY DEF Init, Stack!Init
<1>2. ProcessInvariant /\ [Next]_vars => [Stack!Next]_Stack!vars
  BY StackStep
<1> QED
  BY <1>1, <1>2, ProcessInvariantAlways, PTL DEF Spec, KeepsStack, Stack!Spec
=============================================================================
