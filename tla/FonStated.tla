----------------------------- MODULE FonStated -----------------------------
(***************************************************************************)
(* The command daemon fonstated and its clients                            *)
(* (package/fonstate/src: main.c, fon/state.c, net/socket.c, lib/sys.c).   *)
(*                                                                         *)
(* "fs -l A -l B" detaches from its caller and then, for each -l in turn,  *)
(* connects to the datagram socket of the daemon and sends the name.  The  *)
(* daemon is a single thread: it drains the socket into fonqueue, runs the *)
(* queued jobs one by one, walks its timers, sleeps and starts over.  Every *)
(* program it runs is waited for; meanwhile nobody reads the socket.       *)
(*                                                                         *)
(* A command is [src, n], the n-th -l of client src or the n-th fonboot    *)
(* job of the daemon's start number src.                                   *)
(***************************************************************************)
EXTENDS Integers, Sequences, FiniteSets

CONSTANTS Clients,    \* the runs of "fs"
          Cmds,       \* Cmds[c]: the names client c sends, in order
          BootJobs,   \* the names of the fonboot sections, in order
          SlowEvents, \* names with a fonevent section without "fast"
          FastEvents, \* names with a fonevent section with "fast"
          Parent,     \* Parent[c]: the command whose script runs client c
          Timers,     \* the number of fontimer sections
          Period,     \* Period[t]: passes of the main loop between two firings
          Watchdogs,  \* the timers with a pid file
          SockCap,    \* datagrams the kernel buffers before send() blocks
          MaxStarts,  \* bound: how often the daemon is started
          NoCommand   \* not a command: a user, a timer, nothing

Starts   == 1 .. MaxStarts
Sources  == Clients \cup Starts
Commands == [src : Sources, n : Nat \ {0}]
Names    == UNION {{Cmds[c][i] : i \in DOMAIN Cmds[c]} : c \in Clients}
               \cup {BootJobs[i] : i \in DOMAIN BootJobs}

ASSUME ConstantsAssumption ==
    /\ Clients \cap Starts = {}
    /\ Cmds \in [Clients -> Seq(Names) \ {<<>>}]    \* without -l nothing is sent
    /\ BootJobs \in Seq(Names)
    /\ SlowEvents \cap FastEvents = {}
    /\ Timers \in Nat
    /\ Period \in [1 .. Timers -> Nat \ {0}]
    /\ Watchdogs \subseteq 1 .. Timers
    /\ SockCap \in Nat \ {0}
    /\ MaxStarts \in Nat
    /\ NoCommand \notin Commands

VARIABLES phase,     \* where the daemon is in main()
          starts,    \* how often it was started; numbers its sockets too
          boot,      \* boot[g]: fonboot jobs that start g has enqueued
          sock,      \* datagrams in the socket of the running daemon
          fonqueue,  \* the jobs
          heap,      \* command lines left in freed jobs
          steps,     \* programs still to run in this call; the first runs now
          timer,     \* the next timer of the walk
          count,     \* count[t] modulo the period
          orphans,   \* programs a killed daemon left running
          client,    \* the clients
          ran        \* history: commands whose job started, in order

daemonVars == <<phase, starts, boot, sock, fonqueue, heap, steps, timer, count, orphans>>
vars == <<daemonVars, client, ran>>

Phases == {"off", "setup", "boot", "recv", "queue", "timers"}

Name(m) == IF m.src \in Clients THEN Cmds[m.src][m.n] ELSE BootJobs[m.n]
IsFast(m) == Name(m) \in FastEvents

\* A program the daemon runs: for which command, and which.
Programs == [by : Commands \cup {NoCommand}, what : Names \cup {"action", ""}]
Jobs     == [by : Commands, cmdline : Names \cup {""}]

Idle    == [at |-> "idle", n |-> 1, conn |-> 0]

\* The type invariant.
TypeOK ==
    /\ phase    \in Phases
    /\ starts   \in 0 .. MaxStarts
    /\ boot     \in [Starts -> 0 .. Len(BootJobs)]
    /\ sock     \in Seq(Commands) /\ Len(sock) <= SockCap
    /\ fonqueue \in Seq(Jobs)
    /\ heap     \subseteq Names
    /\ steps    \in Seq(Programs)
    /\ timer    \in 1 .. Timers + 1
    /\ count    \in [1 .. Timers -> Nat]
    /\ orphans  \subseteq Programs
    /\ client   \in [Clients -> [at : {"idle", "connect", "send", "done"},
                                 n : Nat \ {0}, conn : 0 .. MaxStarts]]
    /\ ran      \in Seq(Commands)

Init ==
    /\ phase = "off"
    /\ starts = 0
    /\ boot = [g \in Starts |-> 0]
    /\ sock = <<>>
    /\ fonqueue = <<>>
    /\ heap = {}
    /\ steps = <<>>
    /\ timer = 1
    /\ count = [t \in 1 .. Timers |-> 0]
    /\ orphans = {}
    /\ client = [c \in Clients |-> Idle]
    /\ ran = <<>>

-----------------------------------------------------------------------------
(* The clients: main_client() and issue_command().                         *)

Listening == phase \notin {"off", "setup"}

\* Client c is one of the commands of the script that p runs.
RunsClient(p, c) ==
    p.by # NoCommand /\ p.by = Parent[c] /\ p.what = Name(p.by)

\* A script launches its clients while it runs; any other client is launched by
\* a user, a hotplug event or another daemon at any time.
MayLaunch(c) ==
    \/ Parent[c] = NoCommand
    \/ steps # <<>> /\ RunsClient(Head(steps), c)
    \/ \E p \in orphans : RunsClient(p, c)

Launch(c) ==
    /\ client[c].at = "idle"
    /\ MayLaunch(c)
    /\ client' = [client EXCEPT ![c].at = "connect"]
    /\ UNCHANGED <<daemonVars, ran>>

\* The next -l, or the end of the process.
NextCommand(r, c) ==
    IF r.n < Len(Cmds[c]) THEN [at |-> "connect", n |-> r.n + 1, conn |-> 0]
                          ELSE [at |-> "done", n |-> r.n + 1, conn |-> 0]

Connect(c) ==
    /\ client[c].at = "connect"
    /\ Listening
    /\ client' = [client EXCEPT ![c].at = "send", ![c].conn = starts]
    /\ UNCHANGED <<daemonVars, ran>>

ConnectFails(c) ==
    /\ client[c].at = "connect"
    /\ ~Listening
    /\ client' = [client EXCEPT ![c] = NextCommand(@, c)]
    /\ UNCHANGED <<daemonVars, ran>>

ConnectionAlive(c) == Listening /\ client[c].conn = starts

\* Mutant: a send that does not wait for room in the socket.
SendRegardless(c) ==
    /\ client[c].at = "send"
    /\ ConnectionAlive(c)
    /\ sock' = Append(sock, [src |-> c, n |-> client[c].n])
    /\ client' = [client EXCEPT ![c] = NextCommand(@, c)]
    /\ UNCHANGED <<phase, starts, boot, fonqueue, heap, steps, timer, count, orphans, ran>>

Send(c) ==
    /\ client[c].at = "send"
    /\ ConnectionAlive(c)
    /\ Len(sock) < SockCap
    /\ sock' = Append(sock, [src |-> c, n |-> client[c].n])
    /\ client' = [client EXCEPT ![c] = NextCommand(@, c)]
    /\ UNCHANGED <<phase, starts, boot, fonqueue, heap, steps, timer, count, orphans, ran>>

SendFails(c) ==
    /\ client[c].at = "send"
    /\ ~ConnectionAlive(c)
    /\ client' = [client EXCEPT ![c] = NextCommand(@, c)]
    /\ UNCHANGED <<daemonVars, ran>>

ClientStep(c) == Connect(c) \/ ConnectFails(c) \/ Send(c) \/ SendFails(c)

-----------------------------------------------------------------------------
(* Running programs: system_printf() forks and waits for the child.        *)

Blocked == steps # <<>>

\* Mutant: the clients do not detach, so that the script waits for their end.
MayEndAttached(p) == \A c \in Clients : RunsClient(p, c) => client[c].at = "done"

\* A script ends after the clients it runs have detached: it does not wait
\* for the commands to be delivered.
MayEnd(p) == \A c \in Clients : RunsClient(p, c) => client[c].at # "idle"

ProgramEnds ==
    /\ Blocked
    /\ MayEnd(Head(steps))
    /\ steps' = Tail(steps)
    /\ UNCHANGED <<phase, starts, boot, sock, fonqueue, heap, timer, count, orphans, client, ran>>

OrphanEnds(p) ==
    /\ MayEnd(p)
    /\ orphans' = orphans \ {p}
    /\ UNCHANGED <<phase, starts, boot, sock, fonqueue, heap, steps, timer, count, client, ran>>

-----------------------------------------------------------------------------
(* The daemon.                                                             *)

\* main() up to load_plugins(); a started daemon has empty lists.
Start ==
    /\ phase = "off" /\ starts < MaxStarts
    /\ phase' = "setup"
    /\ starts' = starts + 1
    /\ UNCHANGED <<boot, sock, fonqueue, heap, steps, timer, count, orphans, client, ran>>

SocketSetup ==
    /\ phase = "setup"
    /\ phase' = "boot"
    /\ UNCHANGED <<starts, boot, sock, fonqueue, heap, steps, timer, count, orphans, client, ran>>

\* Mutant: the job is put at the head of the list.
EnqueueJobFirst(m) ==
    IF IsFast(m)
    THEN /\ steps' = <<[by |-> m, what |-> "action"]>>
         /\ ran' = Append(ran, m)
         /\ UNCHANGED <<fonqueue>>
    ELSE /\ fonqueue' = <<[by |-> m, cmdline |-> Name(m)]>> \o fonqueue
         /\ UNCHANGED <<steps, ran>>

\* Mutant: the command line is not copied into any job.
EnqueueJobNoCopy(m) ==
    IF IsFast(m)
    THEN /\ steps' = <<[by |-> m, what |-> "action"]>>
         /\ ran' = Append(ran, m)
         /\ UNCHANGED <<fonqueue>>
    ELSE /\ \E line \in heap \cup {""} :
               fonqueue' = Append(fonqueue, [by |-> m, cmdline |-> line])
         /\ UNCHANGED <<steps, ran>>

\* enqueue_job().  A fast event runs here and now; the command line of the job
\* for another event is whatever the allocated memory holds.
EnqueueJob(m) ==
    IF IsFast(m)
    THEN /\ steps' = <<[by |-> m, what |-> "action"]>>
         /\ ran' = Append(ran, m)
         /\ UNCHANGED <<fonqueue>>
    ELSE /\ \E line \in IF Name(m) \in SlowEvents THEN heap \cup {""} ELSE {Name(m)} :
               fonqueue' = Append(fonqueue, [by |-> m, cmdline |-> line])
         /\ UNCHANGED <<steps, ran>>

BootJob ==
    /\ phase = "boot" /\ ~Blocked
    /\ boot[starts] < Len(BootJobs)
    /\ boot' = [boot EXCEPT ![starts] = @ + 1]
    /\ EnqueueJob([src |-> starts, n |-> boot[starts] + 1])
    /\ UNCHANGED <<phase, starts, sock, heap, timer, count, orphans, client>>

BootDone ==
    /\ phase = "boot" /\ ~Blocked
    /\ boot[starts] = Len(BootJobs)
    /\ phase' = "recv"
    /\ UNCHANGED <<starts, boot, sock, fonqueue, heap, steps, timer, count, orphans, client, ran>>

Receive ==
    /\ phase = "recv" /\ ~Blocked
    /\ sock # <<>>
    /\ sock' = Tail(sock)
    /\ EnqueueJob(Head(sock))
    /\ UNCHANGED <<phase, starts, boot, heap, timer, count, orphans, client>>

\* recv() returns EAGAIN.
ReceiveDone ==
    /\ phase = "recv" /\ ~Blocked
    /\ sock = <<>>
    /\ phase' = "queue"
    /\ UNCHANGED <<starts, boot, sock, fonqueue, heap, steps, timer, count, orphans, client, ran>>

\* The programs of a job: the event's action, if there is one, and then the
\* command line, which "if(q->cmdline)" never skips.
JobSteps(j) ==
    (IF Name(j.by) \in SlowEvents THEN <<[by |-> j.by, what |-> "action"]>> ELSE <<>>)
        \o <<[by |-> j.by, what |-> j.cmdline]>>

\* Mutant: the job is run and left in the queue.
ProcessQueueNoPop ==
    /\ phase = "queue" /\ ~Blocked
    /\ fonqueue # <<>>
    /\ steps' = JobSteps(Head(fonqueue))
    /\ heap' = heap \cup ({Head(fonqueue).cmdline} \ {""})
    /\ ran' = Append(ran, Head(fonqueue).by)
    /\ UNCHANGED <<phase, starts, boot, sock, fonqueue, timer, count, orphans, client>>

\* pop_queue() and the start of the job; free() leaves the command line behind.
ProcessQueue ==
    /\ phase = "queue" /\ ~Blocked
    /\ fonqueue # <<>>
    /\ fonqueue' = Tail(fonqueue)
    /\ steps' = JobSteps(Head(fonqueue))
    /\ heap' = heap \cup ({Head(fonqueue).cmdline} \ {""})
    /\ ran' = Append(ran, Head(fonqueue).by)
    /\ UNCHANGED <<phase, starts, boot, sock, timer, count, orphans, client>>

QueueDone ==
    /\ phase = "queue" /\ ~Blocked
    /\ fonqueue = <<>>
    /\ phase' = "timers"
    /\ timer' = 1
    /\ UNCHANGED <<starts, boot, sock, fonqueue, heap, steps, count, orphans, client, ran>>

\* A timer that is due runs its action; one with a pid file only if the process
\* is not found.
Due(t) == (count[t] + 1) % Period[t] = 0

ProcessTimer ==
    /\ phase = "timers" /\ ~Blocked
    /\ timer <= Timers
    /\ count' = [count EXCEPT ![timer] = (@ + 1) % Period[timer]]
    /\ timer' = timer + 1
    /\ \/ /\ Due(timer)
          /\ steps' = <<[by |-> NoCommand, what |-> "action"]>>
       \/ /\ ~Due(timer) \/ timer \in Watchdogs
          /\ UNCHANGED steps
    /\ UNCHANGED <<phase, starts, boot, sock, fonqueue, heap, orphans, client, ran>>

\* The end of a pass: poll() and a waitpid() that does not wait.
TimersDone ==
    /\ phase = "timers" /\ ~Blocked
    /\ timer = Timers + 1
    /\ phase' = "recv"
    /\ UNCHANGED <<starts, boot, sock, fonqueue, heap, steps, timer, count, orphans, client, ran>>

\* Mutant: the datagrams outlive the process.
KillKeepsSocket ==
    /\ phase # "off"
    /\ phase' = "off"
    /\ orphans' = IF Blocked THEN orphans \cup {Head(steps)} ELSE orphans
    /\ steps' = <<>>
    /\ fonqueue' = <<>>
    /\ heap' = {}
    /\ timer' = 1
    /\ count' = [t \in 1 .. Timers |-> 0]
    /\ UNCHANGED <<starts, boot, sock, client, ran>>

\* "/etc/init.d/fonstate stop" or a crash: the program that runs survives, all
\* else is gone with the process.
Kill ==
    /\ phase # "off"
    /\ phase' = "off"
    /\ orphans' = IF Blocked THEN orphans \cup {Head(steps)} ELSE orphans
    /\ steps' = <<>>
    /\ sock' = <<>>
    /\ fonqueue' = <<>>
    /\ heap' = {}
    /\ timer' = 1
    /\ count' = [t \in 1 .. Timers |-> 0]
    /\ UNCHANGED <<starts, boot, client, ran>>

DaemonStep ==
    \/ SocketSetup \/ BootJob \/ BootDone
    \/ Receive \/ ReceiveDone
    \/ ProcessQueue \/ QueueDone
    \/ ProcessTimer \/ TimersDone
    \/ ProgramEnds

Next ==
    \/ DaemonStep \/ Start \/ Kill
    \/ \E c \in Clients : Launch(c) \/ ClientStep(c)
    \/ \E p \in orphans : OrphanEnds(p)

Spec == Init /\ [][Next]_vars

\* The daemon, the clients and the programs it runs all make progress (every
\* wait of the daemon but the one for its child has a timeout or does not
\* block); nobody has to launch a client from outside or to kill the daemon.
Fairness ==
    /\ WF_vars(DaemonStep) /\ WF_vars(Start)
    /\ \A c \in Clients : WF_vars(Launch(c) /\ Parent[c] # NoCommand)
    /\ \A c \in Clients : WF_vars(ClientStep(c))

FairSpec == Spec /\ Fairness

-----------------------------------------------------------------------------
(* The daemon implements FonDispatch.                                      *)

CommandsOf(s) ==
    {[src |-> s, n |-> i] :
        i \in 1 .. IF s \in Clients THEN Len(Cmds[s]) ELSE Len(BootJobs)}

FastCommands == {m \in UNION {CommandsOf(s) : s \in Sources} : IsFast(m)}

JobCommands == [i \in 1 .. Len(fonqueue) |-> fonqueue[i].by]

Upto == [s \in Sources |-> IF s \in Clients THEN client[s].n - 1 ELSE boot[s]]

D == INSTANCE FonDispatch WITH
        Boot     <- Starts,
        Fast     <- FastCommands,
        upto     <- Upto,
        accepted <- JobCommands \o sock,
        active   <- IF steps = <<>> THEN NoCommand ELSE Head(steps).by

\* The socket buffer, the job queue and the loop that moves datagrams from one
\* to the other behave as the single queue of FonDispatch, through floods,
\* fast events, timers, kills and restarts.
ImplementsDispatch == D!Spec

\* No command is run twice by the daemon, whatever is killed and restarted
\* when: a client gives up on a command it could not send.
CommandsRunAtMostOnce == D!AtMostOnce

\* The commands of one "fs -l A -l B" start in the order of the -l options,
\* fast events and others each among themselves.
ClientOrder == D!SourceOrder

\* A command that is not an event runs its own script and nothing else, even
\* though the jobs of events carry the command lines of jobs freed before them.
OwnScriptOnly ==
    \A p \in orphans \cup {steps[i] : i \in DOMAIN steps} :
        p.by # NoCommand =>
            p.what = (IF Name(p.by) \in FastEvents THEN "action" ELSE Name(p.by))
                \/ Name(p.by) \in SlowEvents

HasRun(m) == \E i \in DOMAIN ran : ran[i] = m

\* A client that is launched while the daemon listens gets every one of its
\* commands run, unless the daemon is killed: also when the socket is full,
\* and when the client is run by a script the daemon is waiting for.
DeliveredUnlessKilled ==
    \A c \in Clients :
        (client[c].at = "connect" /\ client[c].n = 1 /\ Listening)
            ~> (phase = "off" \/ \A m \in CommandsOf(c) : HasRun(m))
=============================================================================
