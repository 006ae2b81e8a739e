------------------------------ MODULE MCBwCtl ------------------------------
(***************************************************************************)
(* Two backups, cron's and the hotplug script's, and the firewall's        *)
(* restore.  The addresses are 1.0.0.1 and 111.0.0.1, which is the first   *)
(* without two of its digits.  A count of the second has three digits.     *)
(***************************************************************************)
EXTENDS BwCtl, TLC

CONSTANTS cron, hotplug, firewall

MCJob == (cron :> "backup") @@ (hotplug :> "backup") @@ (firewall :> "restore")

MCLens    == [ip \in Ips |-> IF ip = 2 THEN {4} ELSE {1}]
MCOctet   == [ip \in AllIps |-> IF ip = 2 THEN 3 ELSE 1]

\* No host has 11.0.0.1: it is put with 0.0.0.0.
MCShorter == [ip \in AllIps |-> [n \in 1..2 |-> IF n = 2 THEN 1 ELSE 0]]

\* The two backups do the same.
Perms == Permutations({cron, hotplug})
=============================================================================
