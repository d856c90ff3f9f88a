------------------------------- MODULE MCKrpc -------------------------------
(***************************************************************************)
(* Krpc with a tid of one bit (KrpcReuse) or of two (KrpcWindow): two      *)
(* calls of two attempts draw up to four times and three up to six, so     *)
(* that tids are reused, and answers to attempts given up may still come.  *)
(***************************************************************************)
EXTENDS Krpc, TLC

CallSymmetry == Permutations(Calls)
=============================================================================
