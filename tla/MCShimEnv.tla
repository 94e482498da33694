------------------------------ MODULE MCShimEnv ------------------------------
(***************************************************************************)
(* The strings in a heap of ten bytes in a word of 64, blocks aligned to   *)
(* two, the break moved by at least four.                                  *)
(***************************************************************************)
EXTENDS ShimEnv

MCArgvs == {<< <<1>> >>, << <<1>>, <<1>> >>}
MCEnvps == {<<>>, << <<1>> >>, << <<1>>, <<1>> >>}
=============================================================================
