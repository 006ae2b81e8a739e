---------------------------- MODULE MCFonStated ----------------------------
(***************************************************************************)
(* Three clients: "wan" sends SwitchWan and then a command of its own; its *)
(* SwitchWan script runs "child" (fs -l StartOnlined, as SwitchWanUp does);*)
(* "user" is independent of both.  One fonboot job, a timer that fires on  *)
(* every second pass and a watchdog timer that is due on every pass.       *)
(***************************************************************************)
EXTENDS FonStated, TLC

CONSTANTS wan, child, user

MCClients == {wan, child, user}

MCCmds == (wan :> <<"SwitchWan", "Online">>)
          @@ (child :> <<"StartOnlined">>)
          @@ (user :> <<"Event">>)

MCParent == (wan :> NoCommand)
            @@ (child :> [src |-> wan, n |-> 1])
            @@ (user :> NoCommand)

MCBoot == <<"BootServices">>
MCPeriod == <<2, 1>>
=============================================================================
