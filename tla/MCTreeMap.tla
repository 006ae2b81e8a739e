------------------------------ MODULE MCTreeMap ------------------------------
(***************************************************************************)
(* Twelve keys: the least with which a removal can rotate at two levels.   *)
(* One more string has the hash of another.                                *)
(***************************************************************************)
EXTENDS TreeMap

CONSTANTS NumKeys, v1

MCNames  == 0 .. NumKeys
MCHash   == [s \in MCNames |-> IF s = 0 THEN NumKeys \div 2 ELSE s]
==============================================================================
