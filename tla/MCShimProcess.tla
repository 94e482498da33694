---------------------------- MODULE MCShimProcess ----------------------------
(***************************************************************************)
(* Processes that register functions as often as they like, in a list of   *)
(* two or three, nest calls five or six deep and hand up to two entries to *)
(* _initterm() at a time.  The histories tell the first three or four      *)
(* registrations apart, of which the second is of a null pointer.          *)
(***************************************************************************)
EXTENDS ShimProcess

MCCodes == {0, 7}
MCNullFns == {2}
=============================================================================
