----------------------------- MODULE FonOnline -----------------------------
(***************************************************************************)
(* How the router decides that it is online: the prober (Onlined), the     *)
(* command daemon and the scripts Online and Offline                       *)
(* (luci.fon.state.setOnline and setOffline) in one loop.                  *)
(*                                                                         *)
(* The prober only sends commands; each travels in a process of its own    *)
(* ("fs -l ..."), so commands may overtake each other or be lost, and the  *)
(* daemon, taken as FonDispatch describes it, runs the accepted ones one   *)
(* by one.  The scripts publish the state twice, in /tmp/run/fonstate,     *)
(* which the prober rereads, and in the UCI state, which the scripts       *)
(* themselves test; then they start or stop the hotspot.                   *)
(***************************************************************************)
EXTENDS Onlined, Sequences

CONSTANTS MaxPending,    \* bound: commands under way at a time
          MaxFaults,     \* bound: kills of the daemon, restarts of the prober,
                         \* and changes of the number of hotspot users
          KillsMidScript \* whether the daemon may be killed during a script

ASSUME FonOnlineAssumption ==
    MaxPending \in Positive /\ MaxFaults \in Nat /\ KillsMidScript \in BOOLEAN

VARIABLES inflight,  \* commands sent and not yet accepted: how many of each
          up,        \* whether fonstated runs and listens
          queue,     \* commands accepted, in order
          script,    \* the script of the daemon ("job") and one it left behind
          uci,       \* fon.state.online in /var/state
          hotspot,   \* fon.state.hotspot; the chilli daemon follows it
          ap,        \* whether the public access point's interface is up
          users,     \* whether fon.state.hotspotcount is not 0
          skipped,   \* history: a stop of the hotspot was skipped for its users
          overlap,   \* history: two scripts ran at a time
          faults

outer  == <<inflight, up, queue, script, uci, hotspot, ap, users, skipped, overlap, faults>>
allVars == <<vars, outer>>

Commands == {"Online", "Offline"}
Runners  == {"job", "orphan"}
IdleScript == [cmd |-> "Offline", at |-> "idle"]

Pending == inflight["Online"] + inflight["Offline"] + Len(queue)

\* The type invariant.
FTypeOK ==
    /\ TypeOK
    /\ inflight \in [Commands -> 0 .. MaxPending]
    /\ queue    \in Seq(Commands) /\ Pending <= MaxPending
    /\ script   \in [Runners -> [cmd : Commands,
                                 at : {"idle", "test", "truncate", "write", "uci", "spot"}]]
    /\ {up, uci, hotspot, ap, users, skipped, overlap} \subseteq BOOLEAN
    /\ faults   \in 0 .. MaxFaults

FInit ==
    /\ Init
    /\ inflight = [c \in Commands |-> 0]
    /\ up = TRUE
    /\ queue = <<>>
    /\ script = [r \in Runners |-> IdleScript]
    /\ uci = FALSE /\ hotspot = FALSE /\ ap = FALSE /\ users = FALSE
    /\ skipped = FALSE /\ overlap = FALSE
    /\ faults = 0

Fault == faults < MaxFaults /\ faults' = faults + 1

-----------------------------------------------------------------------------
(* The prober.  send_cmd() hands the command to a process of its own.      *)

ProberTop ==
    /\ Top
    /\ cmd' # "none" => Pending < MaxPending
    /\ inflight' = IF cmd' = "none" THEN inflight ELSE [inflight EXCEPT ![cmd'] = @ + 1]
    /\ UNCHANGED <<up, queue, script, uci, hotspot, ap, users, skipped, overlap, faults>>

ProberSleep == Sleep /\ UNCHANGED outer

ProberRestart ==
    /\ Fault
    /\ Restart
    /\ UNCHANGED <<inflight, up, queue, script, uci, hotspot, ap, users, skipped, overlap>>

Network == NetChange /\ UNCHANGED outer

-----------------------------------------------------------------------------
(* The command daemon, as FonDispatch has it.                              *)

\* Mutant: the client sends its command and stays.
DeliverAndStay(c) ==
    /\ inflight[c] > 0
    /\ queue' = IF up THEN Append(queue, c) ELSE queue
    /\ UNCHANGED <<vars, inflight, up, script, uci, hotspot, ap, users, skipped, overlap, faults>>

\* A command in flight is accepted by the daemon, or lost if there is none.
Deliver(c) ==
    /\ inflight[c] > 0
    /\ inflight' = [inflight EXCEPT ![c] = @ - 1]
    /\ queue' = IF up THEN Append(queue, c) ELSE queue
    /\ UNCHANGED <<vars, up, script, uci, hotspot, ap, users, skipped, overlap, faults>>

StartScript ==
    /\ up /\ queue # <<>>
    /\ script["job"].at = "idle"
    /\ script' = [script EXCEPT !["job"] = [cmd |-> Head(queue), at |-> "test"]]
    /\ queue' = Tail(queue)
    /\ UNCHANGED <<vars, inflight, up, uci, hotspot, ap, users, skipped, overlap, faults>>

\* A script that runs when the daemon is killed goes on by itself (bound: one
\* such script at a time).
KillDaemon ==
    /\ up /\ Fault
    /\ script["job"].at = "idle" \/ (KillsMidScript /\ script["orphan"].at = "idle")
    /\ up' = FALSE
    /\ queue' = <<>>
    /\ script' = IF script["job"].at = "idle" THEN script
                 ELSE [script EXCEPT !["orphan"] = script["job"], !["job"] = IdleScript]
    /\ UNCHANGED <<vars, inflight, uci, hotspot, ap, users, skipped, overlap>>

StartDaemon ==
    /\ ~up
    /\ up' = TRUE
    /\ UNCHANGED <<vars, inflight, queue, script, uci, hotspot, ap, users, skipped, overlap, faults>>

-----------------------------------------------------------------------------
(* The scripts: setOnline() and setOffline(), each in the same five steps. *)

Active(r) == script[r].at # "idle"

\* Script r takes the step at a, and goes on to b.
Moves(r, a, b) ==
    /\ script[r].at = a
    /\ script' = [script EXCEPT ![r] = IF b = "idle" THEN IdleScript
                                       ELSE [cmd |-> script[r].cmd, at |-> b]]
    /\ overlap' = (overlap \/ \A q \in Runners : Active(q))
    /\ UNCHANGED <<pc, locals, cmd, net, inflight, up, queue, users, faults>>

GoesOnline(r) == script[r].cmd = "Online"

\* "do not run if we are already online", or offline.
AlreadyThere(r) == uci = GoesOnline(r)

TestState(r) ==
    /\ Moves(r, "test", IF AlreadyThere(r) THEN "idle" ELSE "truncate")
    /\ UNCHANGED <<file, uci, hotspot, ap, skipped>>

\* echo -n "Online" > /tmp/run/fonstate: the shell truncates, then writes.
TruncateFile(r) ==
    /\ Moves(r, "truncate", "write")
    /\ file' = ""
    /\ UNCHANGED <<uci, hotspot, ap, skipped>>

\* Mutant: setOnline publishes what setOffline does.
WriteFilePasted(r) ==
    /\ Moves(r, "write", "uci")
    /\ file' = "Offline"
    /\ UNCHANGED <<uci, hotspot, ap, skipped>>

WriteFile(r) ==
    /\ Moves(r, "write", "uci")
    /\ file' = script[r].cmd
    /\ UNCHANGED <<uci, hotspot, ap, skipped>>

\* Mutant: the UCI state is set and not saved.
SaveUciForgotten(r) ==
    /\ Moves(r, "uci", "spot")
    /\ UNCHANGED <<file, uci, hotspot, ap, skipped>>

SaveUci(r) ==
    /\ Moves(r, "uci", "spot")
    /\ uci' = GoesOnline(r)
    /\ UNCHANGED <<file, hotspot, ap, skipped>>

\* spot.start(): starting chilli brings up the interface of the access point.
HotspotStart ==
    /\ hotspot' = (hotspot \/ uci)
    /\ ap' = (ap \/ (~hotspot /\ uci))
    /\ UNCHANGED skipped

\* Mutant: chilli is stopped and the interface of the access point is not.
HotspotStopOnly ==
    /\ hotspot' = (hotspot /\ users)
    /\ skipped' = (skipped \/ (hotspot /\ users))
    /\ UNCHANGED ap

\* spot.stop(): the interface goes down before the early return.
HotspotStop ==
    /\ ap' = FALSE
    /\ hotspot' = (hotspot /\ users)
    /\ skipped' = (skipped \/ (hotspot /\ users))

RunSpot(r) ==
    /\ Moves(r, "spot", "idle")
    /\ IF GoesOnline(r) THEN HotspotStart ELSE HotspotStop
    /\ UNCHANGED <<file, uci>>

ScriptStep(r) ==
    TestState(r) \/ TruncateFile(r) \/ WriteFile(r) \/ SaveUci(r) \/ RunSpot(r)

\* Users come and go while the hotspot is up.
UsersChange ==
    /\ Fault
    /\ hotspot
    /\ users' = ~users
    /\ UNCHANGED <<vars, inflight, up, queue, script, uci, hotspot, ap, skipped, overlap>>

-----------------------------------------------------------------------------
Prober == ProberTop \/ ProberSleep
Deliveries == \E c \in Commands : Deliver(c)

FNext ==
    \/ Prober \/ ProberRestart \/ Network
    \/ Deliveries \/ StartScript \/ KillDaemon \/ StartDaemon
    \/ \E r \in Runners : ScriptStep(r)
    \/ UsersChange

\* The prober's loop, the clients, the daemon and its scripts all go on; a
\* killed daemon is started again (init.d/fonstate restart).
FSpec ==
    /\ FInit /\ [][FNext]_allVars
    /\ WF_allVars(Prober)
    /\ \A c \in Commands : WF_allVars(Deliver(c))
    /\ WF_allVars(StartScript) /\ WF_allVars(StartDaemon)
    /\ \A r \in Runners : WF_allVars(ScriptStep(r))

-----------------------------------------------------------------------------
Quiet == \A r \in Runners : ~Active(r)

\* Between scripts the two published states agree, and the file is never left
\* empty: every early return and every step of the scripts keeps the pair
\* together, as long as no two scripts overlapped.
StatesAgree == Quiet /\ ~overlap => file = IF uci THEN "Online" ELSE "Offline"

\* Between scripts the hotspot runs exactly while the router is online, and its
\* access point with it, unless a stop was skipped because users were on it.
HotspotFollows == Quiet /\ ~overlap /\ ~skipped => hotspot = uci /\ ap = uci

\* The body of setOnline runs only if the published state is not Online yet,
\* and that of setOffline only if it is ("do not run if we are already online").
RunsOnlyOnChange ==
    [][\A r \in Runners :
          script[r].at = "truncate" /\ script'[r].at = "write"
              => file # script[r].cmd]_allVars

Settles(state) ==
    <>[](net = state) /\ []~overlap =>
        <>[](uci = state /\ file = IF state THEN "Online" ELSE "Offline")

\* Once the network stays up, the router ends up online for good; once it stays
\* down, offline for good, whatever commands were lost, delayed, repeated or
\* overtaken by others, and whoever was killed in between, unless a daemon
\* killed in mid-script left two scripts running at a time.
ConvergesOnline  == Settles(TRUE)
ConvergesOffline == Settles(FALSE)
=============================================================================
