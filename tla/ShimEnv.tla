------------------------------- MODULE ShimEnv -------------------------------
(***************************************************************************)
(* The strings the shim makes for the program, in the heap the program     *)
(* allocates from: the command line shim_startup_init() joins from argv,   *)
(* and the environment block shim_env_block() builds at the first call of  *)
(* GetEnvironmentStrings() that finds room for it.  When there is no room  *)
(* the program gets an empty string.                                       *)
(*                                                                         *)
(* The program allocates, frees and writes as in ShimHeap, but only blocks *)
(* of its own: the strings are the shim's.                                 *)
(***************************************************************************)
EXTENDS ShimHeap, SequencesExt

CONSTANTS
  SPACE,       \* the byte " "
  Argvs,       \* the argv a process may get: sequences of strings
  Envps        \* the environments

String == Seq(Value \ {0})

ASSUME StringsAssumption ==
  /\ SPACE \in Value \ {0}
  /\ \A argv \in Argvs : argv \in Seq(String)
  /\ \A envp \in Envps : envp \in Seq(String \ {<<>>})

VARIABLES
  shim_argv, shim_envp,    \* what the kernel put on the stack
  shim_cmdline,            \* the command line's address, or NULL
  g_env_block,             \* the environment block's, or NULL
  started                  \* shim_startup_init() has run

strings == <<shim_argv, shim_envp, shim_cmdline, g_env_block, started>>

EnvInit ==
  /\ Init
  /\ shim_argv \in Argvs
  /\ shim_envp \in Envps
  /\ shim_cmdline = NULL
  /\ g_env_block = NULL
  /\ started = FALSE

----------------------------------------------------------------------------
Concat(ss) == FlattenSeq(ss)

(* A fault: the terminators are not counted. *)
LengthsOnly(ss) == 1 + Len(Concat(ss))

(* "total": one terminator, and a byte more than its length for each. *)
Total(ss) == 1 + Len(Concat(ss)) + Len(ss)

(* A fault: a space is written before the first argument as well. *)
SpaceBeforeEach(argv) == Concat([i \in DOMAIN argv |-> <<SPACE>> \o argv[i]])

(* The arguments with a space between them. *)
Joined(argv) ==
  Concat([i \in DOMAIN argv |-> IF i > 1 THEN <<SPACE>> \o argv[i] ELSE argv[i]])

(* Every string and its terminator, and one terminator more. *)
Listed(envp) == Append(Concat([i \in DOMAIN envp |-> Append(envp[i], 0)]), 0)

(* A block for text of the size total, filled with text; NULL when there is
   no room. *)
MakesBlock(total, text, address) ==
  \E r \in HeapAlloc(total) :
    /\ Returns(r)
    /\ address = r.at
    /\ IF r.at = NULL
         THEN UNCHANGED <<mem, fault, blocks>>
         ELSE /\ Stored(r.at, Len(text), [k \in 0 .. Len(text) - 1 |-> text[k + 1]])
              /\ Accessed({r.at}, Len(text))
              /\ blocks' = Append(blocks, Block(r.at, total))

(* shim_startup_init(), before anything of the program *)
Startup ==
  /\ ~ started
  /\ MakesBlock(Total(shim_argv), Append(Joined(shim_argv), 0), shim_cmdline')
  /\ started' = TRUE
  /\ UNCHANGED <<shim_argv, shim_envp, g_env_block>>

(* shim_env_block() as GetEnvironmentStrings() calls it: once the block is
   there it is returned as it is. *)
GetEnvironmentStrings ==
  /\ started
  /\ g_env_block = NULL
  /\ MayReturn
  /\ MakesBlock(Total(shim_envp), Listed(shim_envp), g_env_block')
  /\ UNCHANGED <<shim_argv, shim_envp, shim_cmdline, started>>

Owned == {i \in Live : blocks[i].at \notin {shim_cmdline, g_env_block}}

Program ==
  \/ \E n \in Request : Malloc(n) \/ Calloc(n)
  \/ \E i \in Owned :
       \/ Free(i)
       \/ \E n \in Request, zero \in ZeroFlags : ReAlloc(i, n, zero)
       \/ \E k \in 0 .. blocks[i].size - 1, v \in Value : Write(i, k, v)

EnvNext ==
  \/ Startup
  \/ GetEnvironmentStrings
  \/ started /\ Program /\ UNCHANGED strings

EnvSpec == EnvInit /\ [][EnvNext]_<<vars, strings>>

----------------------------------------------------------------------------
(* The bytes of text stand in memory from address on. *)
Stands(text, address) ==
  \A k \in 1 .. Len(text) :
    address + k - 1 \in DOMAIN mem /\ mem[address + k - 1] = text[k]

(* Where the i-th argument begins in the command line. *)
Offset(i) == Len(Concat(SubSeq(shim_argv, 1, i - 1))) + i - 1

(* The command line holds every argument in its place, ended by a space or,
   the last, by the terminator, from shim_startup_init() on and whatever the
   program does with its own blocks. *)
CommandLineKept ==
  shim_cmdline # NULL =>
    \A i \in DOMAIN shim_argv :
      Stands(Append(shim_argv[i], IF i = Len(shim_argv) THEN 0 ELSE SPACE),
             shim_cmdline + Offset(i))

(* The strings from address on, each up to its terminator, before the first
   empty one. *)
StringsAt(address) ==
  LET end(a) == Min({e \in a .. BrkMax - 1 : mem[e] = 0} \union {BrkMax})
      start[i \in 0 .. BrkMax - HeapStart] ==
        IF i = 0 THEN address ELSE end(start[i - 1]) + 1
      n == Min({i \in 0 .. BrkMax - HeapStart :
                  start[i] >= BrkMax \/ end(start[i]) = start[i]})
  IN [i \in 1 .. n |->
        [k \in 1 .. end(start[i - 1]) - start[i - 1] |-> mem[start[i - 1] + k - 1]]]

(* The environment block, read as a program reads it, lists the environment,
   whenever the block was made and whatever happened to the heap since. *)
EnvironmentKept == g_env_block # NULL => StringsAt(g_env_block) = shim_envp
=============================================================================
