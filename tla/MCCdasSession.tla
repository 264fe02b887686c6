--------------------------- MODULE MCCdasSession ---------------------------
(* Two processes, one of which makes two calls at once.                    *)
EXTENDS CdasSession, TLC
CONSTANTS a1, a2, b1, A, B
MCClientOf == [k \in Calls |-> IF k = b1 THEN B ELSE A]
(* The write shares its client with a read.                                *)
MCMixes == {{a2}}
=============================================================================
