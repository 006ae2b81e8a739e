------------------------------- MODULE MCLuad -------------------------------
(***************************************************************************)
(* The init script's daemons, or only the one that services.fonsmcd names. *)
(* fcheck looks for "fonsmcdd", which is no daemon's name.                 *)
(***************************************************************************)
EXTENDS Luad, TLC

CONSTANTS supd, fonsmcd, fonsmcdd

MCBoth     == <<supd, fonsmcd>>
MCOne      == <<fonsmcd>>
MCGrepped  == (supd :> supd) @@ (fonsmcd :> fonsmcdd)
=============================================================================
