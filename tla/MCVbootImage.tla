---------------------------- MODULE MCVbootImage ----------------------------
(***************************************************************************)
(* Words of five bits, two algorithms, and header words at both ends of    *)
(* the range and around the sizes of the structures.                       *)
(***************************************************************************)
EXTENDS VbootImage

MCSigLen == [a \in 0 .. 1 |-> a + 1]
=============================================================================
