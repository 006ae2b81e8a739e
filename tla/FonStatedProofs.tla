-------------------------- MODULE FonStatedProofs --------------------------
(***************************************************************************)
(* fonstated implements FonDispatch, for any number of clients, commands,  *)
(* boot jobs, timers and restarts and any size of the socket's buffer;     *)
(* with that, at most once and in order for the daemon itself.             *)
(***************************************************************************)
EXTENDS FonStated, SequenceTheorems, TLAPS

P == INSTANCE FonDispatchProofs WITH
        Boot     <- Starts,
        Fast     <- FastCommands,
        upto     <- Upto,
        accepted <- JobCommands \o sock,
        active   <- IF steps = <<>> THEN NoCommand ELSE Head(steps).by

KnownCommands == UNION {CommandsOf(s) : s \in Sources}

\* What is true of a program because of the command it was started for.
OwnProgram(p) ==
    p.by # NoCommand =>
        /\ p.by \in KnownCommands
        /\ \/ p.what = (IF Name(p.by) \in FastEvents THEN "action" ELSE Name(p.by))
           \/ Name(p.by) \in SlowEvents

\* A daemon that does not listen has received nothing and runs nothing.
OffInv ==
    /\ ~Listening => sock = <<>> /\ fonqueue = <<>> /\ steps = <<>>
    /\ phase # "off" => starts \in Starts

SockInv == \A i \in 1 .. Len(sock) : sock[i] \in KnownCommands /\ sock[i].src \in Clients

\* Fast events are never queued, and only boot jobs are before the first recv().
QueueInv ==
    \A i \in 1 .. Len(fonqueue) :
        /\ fonqueue[i].by \in KnownCommands
        /\ ~IsFast(fonqueue[i].by)
        /\ Name(fonqueue[i].by) \notin SlowEvents => fonqueue[i].cmdline = Name(fonqueue[i].by)
        /\ phase = "boot" => fonqueue[i].by.src \in Starts

\* The programs of one call are all for the same command.
StepsInv ==
    /\ \A i \in 1 .. Len(steps) : OwnProgram(steps[i])
    /\ \A i, j \in 1 .. Len(steps) : steps[i].by = steps[j].by

OrphansInv == \A p \in orphans : OwnProgram(p)

ClientInv == \A c \in Clients : client[c].at # "done" => client[c].n \in 1 .. Len(Cmds[c])

StatedInv ==
    /\ TypeOK
    /\ OffInv
    /\ SockInv
    /\ QueueInv
    /\ StepsInv
    /\ OrphansInv
    /\ ClientInv

-----------------------------------------------------------------------------
(* Commands and their names.                                               *)

\* A command that someone sends is a command, and has one of the names.
LEMMA KnownFacts ==
    ASSUME NEW m \in KnownCommands
    PROVE  /\ m \in Commands /\ m # NoCommand
           /\ Name(m) \in Names
           /\ m \in FastCommands <=> IsFast(m)
<1>1. PICK s \in Sources : m \in CommandsOf(s)
  BY DEF KnownCommands
<1>2. PICK i \in 1 .. (IF s \in Clients THEN Len(Cmds[s]) ELSE Len(BootJobs)) :
         m = [src |-> s, n |-> i]
  BY <1>1 DEF CommandsOf
<1>3. m.src = s /\ m.n = i
  BY <1>2
<1>4. ASSUME s \in Clients
      PROVE  m \in Commands /\ Name(m) \in Names
  <2>1. Cmds[s] \in Seq(Names) /\ Len(Cmds[s]) \in Nat /\ i \in 1 .. Len(Cmds[s])
    BY <1>2, <1>4, ConstantsAssumption, LenProperties
  <2>2. i \in Nat \ {0}
    BY <2>1
  <2>3. Name(m) = Cmds[s][i]
    BY <1>3, <1>4 DEF Name
  <2>4. m \in Commands
    BY <1>2, <2>2 DEF Commands
  <2> QED  BY <2>1, <2>3, <2>4, ElementOfSeq
<1>5. ASSUME s \notin Clients
      PROVE  m \in Commands /\ Name(m) \in Names
  <2>1. BootJobs \in Seq(Names) /\ Len(BootJobs) \in Nat /\ i \in 1 .. Len(BootJobs)
    BY <1>2, <1>5, ConstantsAssumption, LenProperties
  <2>2. i \in Nat \ {0}
    BY <2>1
  <2>3. Name(m) = BootJobs[i]
    BY <1>3, <1>5 DEF Name
  <2>4. m \in Commands
    BY <1>2, <2>2 DEF Commands
  <2> QED  BY <2>1, <2>3, <2>4, ElementOfSeq
<1>6. m \in FastCommands <=> IsFast(m)
  BY DEF FastCommands, KnownCommands
<1> QED  BY <1>4, <1>5, <1>6, ConstantsAssumption

\* What a client is about to send is one of its commands.
LEMMA ClientCommand ==
    ASSUME StatedInv, NEW c \in Clients, client[c].at # "done"
    PROVE  [src |-> c, n |-> client[c].n] \in KnownCommands
<1>1. client[c].n \in 1 .. Len(Cmds[c]) /\ c \in Sources
  BY DEF StatedInv, ClientInv, Sources
<1>2. [src |-> c, n |-> client[c].n] \in CommandsOf(c)
  BY <1>1 DEF CommandsOf
<1> QED  BY <1>1, <1>2 DEF KnownCommands

\* So is what the daemon enqueues when it starts.
LEMMA BootCommand ==
    ASSUME StatedInv, phase = "boot", boot[starts] < Len(BootJobs)
    PROVE  /\ [src |-> starts, n |-> boot[starts] + 1] \in KnownCommands
           /\ starts \in Starts /\ starts \notin Clients /\ boot[starts] \in Nat
<1>1. starts \in Starts /\ starts \notin Clients /\ starts \in Sources
  BY ConstantsAssumption DEF StatedInv, OffInv, Sources
<1>2. Len(BootJobs) \in Nat
  BY ConstantsAssumption, LenProperties
<1>3. boot[starts] \in 0 .. Len(BootJobs)
  BY <1>1 DEF StatedInv, TypeOK
<1>4. boot[starts] + 1 \in 1 .. Len(BootJobs)
  BY <1>2, <1>3
<1>5. [src |-> starts, n |-> boot[starts] + 1] \in CommandsOf(starts)
  BY <1>1, <1>4 DEF CommandsOf
<1> QED  BY <1>1, <1>3, <1>5 DEF KnownCommands

-----------------------------------------------------------------------------
(* Sequences.                                                              *)

LEMMA AppendFacts ==
    ASSUME NEW S, NEW q \in Seq(S), NEW e \in S
    PROVE  /\ Append(q, e) \in Seq(S)
           /\ Len(q) \in Nat /\ Len(Append(q, e)) = Len(q) + 1
           /\ \A i \in 1 .. Len(q) + 1 : Append(q, e)[i] = IF i <= Len(q) THEN q[i] ELSE e
  BY LenProperties, AppendProperties

LEMMA TailFacts ==
    ASSUME NEW S, NEW q \in Seq(S), q # <<>>
    PROVE  /\ Tail(q) \in Seq(S) /\ Head(q) \in S /\ Head(q) = q[1]
           /\ Len(q) \in Nat \ {0} /\ Len(Tail(q)) = Len(q) - 1
           /\ \A i \in 1 .. Len(q) - 1 : Tail(q)[i] = q[i + 1]
<1>1. Len(q) \in Nat
  BY LenProperties
<1>2. Len(q) # 0
  BY EmptySeq
<1> QED  BY <1>1, <1>2, HeadTailProperties, ElementOfSeq

\* A property of all elements survives taking the first one away, and adding one
\* that has it.
LEMMA SingletonFacts ==
    ASSUME NEW S, NEW e \in S
    PROVE  <<e>> \in Seq(S) /\ Len(<<e>>) = 1 /\ <<e>>[1] = e /\ <<e>> # <<>> /\ Head(<<e>>) = e
  OBVIOUS

-----------------------------------------------------------------------------
(* The invariant.                                                          *)

LEMMA InitStatedInv == Init => StatedInv
<1> SUFFICES ASSUME Init
             PROVE  StatedInv
  OBVIOUS
<1>1. Len(BootJobs) \in Nat
  BY ConstantsAssumption, LenProperties
<1>2. TypeOK
  BY <1>1, ConstantsAssumption DEF Init, TypeOK, Phases, Starts, Idle
<1>3. 1 .. Len(sock) = {} /\ 1 .. Len(fonqueue) = {} /\ 1 .. Len(steps) = {}
  BY DEF Init
<1>4. ClientInv
  <2> SUFFICES ASSUME NEW c \in Clients
               PROVE  client[c].n \in 1 .. Len(Cmds[c])
    BY DEF ClientInv
  <2>1. Cmds[c] \in Seq(Names) /\ Cmds[c] # <<>>
    BY ConstantsAssumption
  <2>2. Len(Cmds[c]) \in Nat \ {0}
    BY <2>1, TailFacts
  <2> QED  BY <2>2 DEF Init, Idle
<1> QED
  BY <1>2, <1>3, <1>4
     DEF StatedInv, OffInv, SockInv, QueueInv, StepsInv, OrphansInv, Init, Listening

\* enqueue_job(): a fast event runs at once, everything else is queued with its
\* own command line unless it is an event.
LEMMA EnqueueInv ==
    ASSUME StatedInv, NEW m \in KnownCommands, EnqueueJob(m), ~Blocked,
           UNCHANGED phase, phase = "boot" => m.src \in Starts
    PROVE  /\ fonqueue' \in Seq(Jobs) /\ steps' \in Seq(Programs) /\ ran' \in Seq(Commands)
           /\ QueueInv' /\ StepsInv'
<1>k. m \in Commands /\ m # NoCommand /\ Name(m) \in Names
  BY KnownFacts
<1>t. /\ fonqueue \in Seq(Jobs) /\ steps \in Seq(Programs) /\ ran \in Seq(Commands)
      /\ heap \subseteq Names
      /\ QueueInv /\ StepsInv
  BY DEF StatedInv, TypeOK
<1>1. CASE IsFast(m)
  <2> DEFINE p == [by |-> m, what |-> "action"]
  <2>1. steps' = <<p>> /\ ran' = Append(ran, m) /\ fonqueue' = fonqueue
    BY <1>1 DEF EnqueueJob
  <2>2. p \in Programs /\ OwnProgram(p)
    BY <1>1, <1>k DEF Programs, OwnProgram, IsFast
  <2> HIDE DEF p
  <2>3. steps' \in Seq(Programs) /\ Len(steps') = 1 /\ steps'[1] = p
    BY <2>1, <2>2, SingletonFacts
  <2>4. StepsInv'
    BY <2>2, <2>3 DEF StepsInv, OwnProgram
  <2>5. QueueInv'
    BY <1>t, <2>1 DEF QueueInv
  <2> QED  BY <1>k, <1>t, <2>1, <2>3, <2>4, <2>5, AppendFacts
<1>2. CASE ~IsFast(m)
  <2>1. PICK line :
           /\ line \in Names \cup {""}
           /\ Name(m) \notin SlowEvents => line = Name(m)
           /\ fonqueue' = Append(fonqueue, [by |-> m, cmdline |-> line])
    <3>1. CASE Name(m) \in SlowEvents
      <4>1. \E line \in heap \cup {""} :
               fonqueue' = Append(fonqueue, [by |-> m, cmdline |-> line])
        BY <1>2, <3>1 DEF EnqueueJob
      <4> QED  BY <3>1, <4>1, <1>t
    <3>2. CASE Name(m) \notin SlowEvents
      <4>1. \E line \in {Name(m)} :
               fonqueue' = Append(fonqueue, [by |-> m, cmdline |-> line])
        BY <1>2, <3>2 DEF EnqueueJob
      <4> QED  BY <4>1, <1>k
    <3> QED  BY <3>1, <3>2
  <2> DEFINE j == [by |-> m, cmdline |-> line]
  <2>2. /\ j \in Jobs /\ j.by = m
        /\ Name(m) \notin SlowEvents => j.cmdline = Name(m)
    BY <2>1, <1>k DEF Jobs
  <2>3. fonqueue' = Append(fonqueue, j) /\ steps' = steps /\ ran' = ran
    BY <1>2, <2>1 DEF EnqueueJob
  <2> HIDE DEF j
  <2>4. fonqueue' \in Seq(Jobs)
    BY <1>t, <2>2, <2>3, AppendFacts
  <2>n. Len(fonqueue) \in Nat /\ Len(fonqueue') = Len(fonqueue) + 1
    BY <1>t, <2>2, <2>3, AppendFacts
  <2>e. \A i \in 1 .. Len(fonqueue) + 1 :
           fonqueue'[i] = IF i <= Len(fonqueue) THEN fonqueue[i] ELSE j
    BY <1>t, <2>2, <2>3, AppendFacts
  <2>5. QueueInv'
    <3> SUFFICES ASSUME NEW i \in 1 .. Len(fonqueue')
                 PROVE  /\ fonqueue'[i].by \in KnownCommands
                        /\ ~IsFast(fonqueue'[i].by)
                        /\ Name(fonqueue'[i].by) \notin SlowEvents =>
                              fonqueue'[i].cmdline = Name(fonqueue'[i].by)
                        /\ phase = "boot" => fonqueue'[i].by.src \in Starts
      BY DEF QueueInv
    <3>0. i \in 1 .. Len(fonqueue) \/ i = Len(fonqueue) + 1
      BY <2>n
    <3>1. CASE i \in 1 .. Len(fonqueue)
      <4>1. fonqueue'[i] = fonqueue[i]
        BY <3>1, <2>n, <2>e
      <4> QED  BY <3>1, <4>1, <1>t, Zenon DEF QueueInv
    <3>2. CASE i = Len(fonqueue) + 1
      <4>1. fonqueue'[i] = j
        BY <3>2, <2>n, <2>e
      <4> QED  BY <4>1, <2>2, <1>2, Zenon
    <3> QED  BY <3>0, <3>1, <3>2, Zenon
  <2>6. StepsInv'
    BY <1>t, <2>3 DEF StepsInv
  <2> QED  BY <1>t, <2>3, <2>4, <2>5, <2>6
<1> QED  BY <1>1, <1>2

ClientStates == [at : {"idle", "connect", "send", "done"}, n : Nat \ {0}, conn : 0 .. MaxStarts]

\* A step of one client, which may put a datagram into the socket.
LEMMA ClientMoves ==
    ASSUME StatedInv, NEW c \in Clients, NEW r \in ClientStates,
           client' = [client EXCEPT ![c] = r],
           r.at # "done" => r.n \in 1 .. Len(Cmds[c]),
           sock' \in Seq(Commands), Len(sock') <= SockCap, SockInv',
           Listening \/ sock' = sock,
           UNCHANGED <<phase, starts, boot, fonqueue, heap, steps, timer, count, orphans, ran>>
    PROVE  StatedInv'
<1>1. TypeOK'
  BY DEF StatedInv, TypeOK, ClientStates
<1>2. OffInv'
  BY DEF StatedInv, OffInv, Listening
<1>3. QueueInv' /\ StepsInv' /\ OrphansInv'
  BY DEF StatedInv, QueueInv, StepsInv, OrphansInv
<1>4. ClientInv'
  BY DEF StatedInv, ClientInv, TypeOK
<1> QED  BY <1>1, <1>2, <1>3, <1>4 DEF StatedInv

\* The record of a client after its command was sent or lost.
LEMMA NextCommandFacts ==
    ASSUME StatedInv, NEW c \in Clients, client[c].at # "done"
    PROVE  /\ NextCommand(client[c], c) \in ClientStates
           /\ NextCommand(client[c], c).n = client[c].n + 1
           /\ NextCommand(client[c], c).at # "done" =>
                 NextCommand(client[c], c).n \in 1 .. Len(Cmds[c])
<1>1. Len(Cmds[c]) \in Nat
  BY ConstantsAssumption, LenProperties
<1>2. client[c].n \in 1 .. Len(Cmds[c])
  BY DEF StatedInv, ClientInv
<1>3. MaxStarts \in Nat
  BY ConstantsAssumption
<1> QED  BY <1>1, <1>2, <1>3 DEF NextCommand, ClientStates

\* The steps of the clients.
LEMMA ClientsInv ==
    ASSUME StatedInv, NEW c \in Clients, Launch(c) \/ ClientStep(c)
    PROVE  StatedInv'
<1>t. /\ client \in [Clients -> ClientStates] /\ client[c] \in ClientStates
      /\ sock \in Seq(Commands) /\ Len(sock) <= SockCap /\ SockInv
      /\ starts \in 0 .. MaxStarts
  BY DEF StatedInv, TypeOK, ClientStates
<1>n. client[c].at # "done" => client[c].n \in 1 .. Len(Cmds[c])
  BY DEF StatedInv, ClientInv
<1>s. sock' = sock => sock' \in Seq(Commands) /\ Len(sock') <= SockCap /\ SockInv'
  BY <1>t DEF SockInv
<1>1. CASE Launch(c)
  <2> DEFINE r == [client[c] EXCEPT !.at = "connect"]
  <2>1. r \in ClientStates /\ r.n = client[c].n
    BY <1>t DEF ClientStates
  <2>2. client' = [client EXCEPT ![c] = r]
    BY <1>1 DEF Launch
  <2> HIDE DEF r
  <2> QED  BY <1>1, <1>n, <1>s, <2>1, <2>2, ClientMoves DEF Launch, daemonVars
<1>2. CASE Connect(c)
  <2> DEFINE r == [client[c] EXCEPT !.at = "send", !.conn = starts]
  <2>1. r \in ClientStates /\ r.n = client[c].n
    BY <1>t DEF ClientStates
  <2>2. client' = [client EXCEPT ![c] = r]
    BY <1>2, <1>t DEF Connect, ClientStates
  <2> HIDE DEF r
  <2> QED  BY <1>2, <1>n, <1>s, <2>1, <2>2, ClientMoves DEF Connect, daemonVars
<1>3. CASE ConnectFails(c) \/ SendFails(c)
  <2> DEFINE r == NextCommand(client[c], c)
  <2>1. r \in ClientStates /\ (r.at # "done" => r.n \in 1 .. Len(Cmds[c]))
    BY <1>3, NextCommandFacts DEF ConnectFails, SendFails
  <2>2. client' = [client EXCEPT ![c] = r]
    BY <1>3 DEF ConnectFails, SendFails
  <2> HIDE DEF r
  <2> QED  BY <1>3, <1>s, <2>1, <2>2, ClientMoves DEF ConnectFails, SendFails, daemonVars
<1>4. CASE Send(c)
  <2> DEFINE r == NextCommand(client[c], c)
             m == [src |-> c, n |-> client[c].n]
  <2>1. r \in ClientStates /\ (r.at # "done" => r.n \in 1 .. Len(Cmds[c]))
    BY <1>4, NextCommandFacts DEF Send
  <2>2. client' = [client EXCEPT ![c] = r] /\ sock' = Append(sock, m)
    BY <1>4 DEF Send
  <2>3. m \in KnownCommands /\ m.src \in Clients
    BY <1>4, ClientCommand DEF Send
  <2>4. m \in Commands
    BY <2>3, KnownFacts
  <2> HIDE DEF r, m
  <2>5. /\ sock' \in Seq(Commands) /\ Len(sock) \in Nat /\ Len(sock') = Len(sock) + 1
        /\ \A i \in 1 .. Len(sock) + 1 : sock'[i] = IF i <= Len(sock) THEN sock[i] ELSE m
    BY <1>t, <2>2, <2>4, AppendFacts
  <2>6. SockInv'
    BY <1>t, <2>3, <2>5 DEF SockInv
  <2>7. Len(sock') <= SockCap /\ Listening
    BY <1>4, <2>5, ConstantsAssumption DEF Send, ConnectionAlive
  <2> QED  BY <1>4, <2>1, <2>2, <2>5, <2>6, <2>7, ClientMoves DEF Send
<1> QED  BY <1>1, <1>2, <1>3, <1>4 DEF ClientStep

\* The steps that only move the daemon on in main().
LEMMA PhaseMoves ==
    ASSUME StatedInv, Start \/ SocketSetup \/ BootDone \/ ReceiveDone \/ QueueDone \/ TimersDone
    PROVE  StatedInv'
<1>u. UNCHANGED <<boot, sock, fonqueue, heap, steps, count, orphans, client, ran>>
  BY DEF Start, SocketSetup, BootDone, ReceiveDone, QueueDone, TimersDone
<1>t. timer' \in 1 .. Timers + 1
  <2>1. timer' = timer \/ timer' = 1
    BY DEF Start, SocketSetup, BootDone, ReceiveDone, QueueDone, TimersDone
  <2> QED  BY <2>1, ConstantsAssumption DEF StatedInv, TypeOK
<1>p. /\ phase' \in Phases /\ starts' \in 0 .. MaxStarts
      /\ phase' # "off" => starts' \in Starts
      /\ phase' \in {"off", "setup"} => phase = "off"
      /\ phase' = "boot" => phase = "setup"
  <2>1. starts \in 0 .. MaxStarts /\ MaxStarts \in Nat /\ (phase # "off" => starts \in Starts)
    BY ConstantsAssumption DEF StatedInv, TypeOK, OffInv
  <2>2. CASE Start
    BY <2>1, <2>2 DEF Start, Phases, Starts
  <2>3. CASE SocketSetup
    BY <2>1, <2>3 DEF SocketSetup, Phases
  <2>4. CASE BootDone \/ ReceiveDone \/ QueueDone \/ TimersDone
    BY <2>1, <2>4 DEF BootDone, ReceiveDone, QueueDone, TimersDone, Phases
  <2> QED  BY <2>2, <2>3, <2>4
<1>1. TypeOK'
  BY <1>u, <1>t, <1>p DEF StatedInv, TypeOK
<1>2. OffInv'
  BY <1>u, <1>p DEF StatedInv, OffInv, Listening
<1>3. QueueInv'
  <2>1. CASE phase' = "boot"
    <3>1. 1 .. Len(fonqueue') = {}
      BY <1>u, <1>p, <2>1 DEF StatedInv, OffInv, Listening
    <3> QED  BY <3>1 DEF QueueInv
  <2>2. CASE phase' # "boot"
    BY <1>u, <2>2 DEF StatedInv, QueueInv
  <2> QED  BY <2>1, <2>2
<1>4. SockInv' /\ StepsInv' /\ OrphansInv' /\ ClientInv'
  BY <1>u DEF StatedInv, SockInv, StepsInv, OrphansInv, ClientInv
<1> QED  BY <1>1, <1>2, <1>3, <1>4 DEF StatedInv

\* enqueue_boot_jobs() and fon_socket_handle().
LEMMA EnqueueMoves ==
    ASSUME StatedInv, BootJob \/ Receive
    PROVE  StatedInv'
<1>1. CASE BootJob
  <2> DEFINE m == [src |-> starts, n |-> boot[starts] + 1]
  <2>1. phase = "boot" /\ boot[starts] < Len(BootJobs) /\ ~Blocked /\ EnqueueJob(m)
    BY <1>1 DEF BootJob
  <2>2. m \in KnownCommands /\ m.src \in Starts /\ boot[starts] \in Nat /\ starts \in Starts
    BY <2>1, BootCommand
  <2>3. boot' \in [Starts -> 0 .. Len(BootJobs)]
    <3>1. Len(BootJobs) \in Nat
      BY ConstantsAssumption, LenProperties
    <3>2. boot[starts] + 1 \in 0 .. Len(BootJobs)
      BY <2>1, <2>2, <3>1
    <3> QED  BY <1>1, <2>2, <3>2 DEF BootJob, StatedInv, TypeOK
  <2>4. UNCHANGED <<phase, starts, sock, heap, timer, count, orphans, client>>
    BY <1>1 DEF BootJob
  <2> HIDE DEF m
  <2>5. /\ fonqueue' \in Seq(Jobs) /\ steps' \in Seq(Programs) /\ ran' \in Seq(Commands)
        /\ QueueInv' /\ StepsInv'
    BY <2>1, <2>2, <2>4, EnqueueInv
  <2>6. TypeOK'
    BY <2>3, <2>4, <2>5 DEF StatedInv, TypeOK
  <2>7. OffInv'
    BY <2>1, <2>4 DEF StatedInv, OffInv, Listening
  <2>8. SockInv' /\ OrphansInv' /\ ClientInv'
    BY <2>4 DEF StatedInv, SockInv, OrphansInv, ClientInv
  <2> QED  BY <2>5, <2>6, <2>7, <2>8 DEF StatedInv
<1>2. CASE Receive
  <2> DEFINE m == Head(sock)
  <2>t. sock \in Seq(Commands) /\ sock # <<>> /\ Len(sock) <= SockCap /\ SockInv
    BY <1>2 DEF StatedInv, TypeOK, Receive
  <2>1. phase = "recv" /\ ~Blocked /\ EnqueueJob(m) /\ sock' = Tail(sock)
    BY <1>2 DEF Receive
  <2>2. /\ sock' \in Seq(Commands) /\ m = sock[1] /\ Len(sock) \in Nat \ {0}
        /\ Len(sock') = Len(sock) - 1
        /\ \A i \in 1 .. Len(sock) - 1 : sock'[i] = sock[i + 1]
    BY <2>t, <2>1, TailFacts
  <2>3. m \in KnownCommands
    BY <2>t, <2>2 DEF SockInv
  <2>4. UNCHANGED <<phase, starts, boot, heap, timer, count, orphans, client>>
    BY <1>2 DEF Receive
  <2> HIDE DEF m
  <2>5. /\ fonqueue' \in Seq(Jobs) /\ steps' \in Seq(Programs) /\ ran' \in Seq(Commands)
        /\ QueueInv' /\ StepsInv'
    BY <2>1, <2>3, <2>4, EnqueueInv
  <2>6. TypeOK'
    <3>1. Len(sock') <= SockCap
      BY <2>2, <2>t, ConstantsAssumption
    <3> QED  BY <2>2, <2>4, <2>5, <3>1 DEF StatedInv, TypeOK
  <2>7. OffInv'
    BY <2>1, <2>4 DEF StatedInv, OffInv, Listening
  <2>8. SockInv'
    BY <2>t, <2>2 DEF SockInv
  <2>9. OrphansInv' /\ ClientInv'
    BY <2>4 DEF StatedInv, OrphansInv, ClientInv
  <2> QED  BY <2>5, <2>6, <2>7, <2>8, <2>9 DEF StatedInv
<1> QED  BY <1>1, <1>2

\* The programs of a job are for the job's command, and are its own.
LEMMA JobStepsFacts ==
    ASSUME NEW j \in Jobs, j.by \in KnownCommands, ~IsFast(j.by),
           Name(j.by) \notin SlowEvents => j.cmdline = Name(j.by)
    PROVE  /\ JobSteps(j) \in Seq(Programs) /\ JobSteps(j) # <<>>
           /\ \A i \in 1 .. Len(JobSteps(j)) : JobSteps(j)[i].by = j.by /\ OwnProgram(JobSteps(j)[i])
<1> DEFINE a == [by |-> j.by, what |-> "action"]
           b == [by |-> j.by, what |-> j.cmdline]
<1>1. a \in Programs /\ b \in Programs /\ a.by = j.by /\ b.by = j.by
  BY DEF Programs, Jobs
<1>2. OwnProgram(b) /\ (Name(j.by) \in SlowEvents => OwnProgram(a))
  BY DEF OwnProgram, IsFast
<1>3. /\ Name(j.by) \in SlowEvents => JobSteps(j) = <<a>> \o <<b>>
      /\ Name(j.by) \notin SlowEvents => JobSteps(j) = <<>> \o <<b>>
  BY Zenon DEF JobSteps
<1> HIDE DEF a, b
<1>4. /\ <<a>> \in Seq(Programs) /\ <<b>> \in Seq(Programs) /\ <<>> \in Seq(Programs)
      /\ Len(<<a>>) = 1 /\ Len(<<b>>) = 1 /\ <<a>>[1] = a /\ <<b>>[1] = b
  BY <1>1
<1>5. CASE Name(j.by) \in SlowEvents
  <2> DEFINE q == <<a>> \o <<b>>
  <2>1. /\ q \in Seq(Programs) /\ Len(q) = 2
        /\ q[1] = a /\ q[2] = b
    <3> DEFINE x == <<a>>
               y == <<b>>
    <3>1. x \in Seq(Programs) /\ y \in Seq(Programs) /\ Len(x) = 1 /\ Len(y) = 1
      BY <1>4
    <3>2. x[1] = a /\ y[1] = b
      BY <1>4
    <3> HIDE DEF x, y
    <3>3. /\ x \o y \in Seq(Programs) /\ Len(x \o y) = Len(x) + Len(y)
          /\ \A i \in 1 .. Len(x) + Len(y) :
                (x \o y)[i] = IF i <= Len(x) THEN x[i] ELSE y[i - Len(x)]
      BY <3>1, ConcatProperties
    <3>4. (x \o y)[1] = a /\ (x \o y)[2] = b /\ Len(x \o y) = 2
      BY <3>1, <3>2, <3>3
    <3> QED  BY <3>3, <3>4 DEF x, y
  <2>2. JobSteps(j) = q
    BY <1>3, <1>5, Zenon
  <2> HIDE DEF q
  <2>3. q # <<>>
    <3>1. Len(<<>>) = 0
      OBVIOUS
    <3> QED  BY <2>1, <3>1
  <2>4. \A i \in 1 .. Len(q) : q[i] = a \/ q[i] = b
    BY <2>1
  <2> QED  BY <1>1, <1>2, <1>5, <2>1, <2>2, <2>3, <2>4
<1>6. CASE Name(j.by) \notin SlowEvents
  <2>1. JobSteps(j) = <<b>>
    BY <1>3, <1>4, <1>6, ConcatEmptySeq
  <2> QED  BY <1>1, <1>2, <2>1, SingletonFacts
<1> QED  BY <1>5, <1>6

\* process_queue(): the first job starts.
LEMMA ProcessQueueMoves ==
    ASSUME StatedInv, ProcessQueue
    PROVE  StatedInv'
<1> DEFINE j == Head(fonqueue)
<1>t. fonqueue \in Seq(Jobs) /\ fonqueue # <<>> /\ QueueInv /\ phase = "queue" /\ heap \subseteq Names
  BY DEF StatedInv, TypeOK, ProcessQueue
<1>1. /\ fonqueue' = Tail(fonqueue) /\ steps' = JobSteps(j)
      /\ heap' = heap \cup ({j.cmdline} \ {""}) /\ ran' = Append(ran, j.by)
      /\ UNCHANGED <<phase, starts, boot, sock, timer, count, orphans, client>>
  BY DEF ProcessQueue
<1>2. /\ fonqueue' \in Seq(Jobs) /\ j \in Jobs /\ j = fonqueue[1]
      /\ Len(fonqueue) \in Nat \ {0} /\ Len(fonqueue') = Len(fonqueue) - 1
      /\ \A i \in 1 .. Len(fonqueue) - 1 : fonqueue'[i] = fonqueue[i + 1]
  BY <1>t, <1>1, TailFacts
<1>3. /\ j.by \in KnownCommands /\ ~IsFast(j.by)
      /\ Name(j.by) \notin SlowEvents => j.cmdline = Name(j.by)
  BY <1>t, <1>2 DEF QueueInv
<1> HIDE DEF j
<1>4. /\ steps' \in Seq(Programs)
      /\ \A i \in 1 .. Len(steps') : steps'[i].by = j.by /\ OwnProgram(steps'[i])
  BY <1>1, <1>2, <1>3, JobStepsFacts
<1>5. ran' \in Seq(Commands)
  <2>1. j.by \in Commands /\ ran \in Seq(Commands)
    BY <1>3, KnownFacts DEF StatedInv, TypeOK
  <2> QED  BY <1>1, <2>1, AppendFacts
<1>6. heap' \subseteq Names
  BY <1>1, <1>2, <1>t DEF Jobs
<1>7. TypeOK'
  BY <1>1, <1>2, <1>4, <1>5, <1>6 DEF StatedInv, TypeOK
<1>8. StepsInv'
  BY <1>4 DEF StepsInv, OwnProgram
<1>9. QueueInv'
  <2> SUFFICES ASSUME NEW i \in 1 .. Len(fonqueue')
               PROVE  /\ fonqueue'[i].by \in KnownCommands
                      /\ ~IsFast(fonqueue'[i].by)
                      /\ Name(fonqueue'[i].by) \notin SlowEvents =>
                            fonqueue'[i].cmdline = Name(fonqueue'[i].by)
                      /\ phase = "boot" => fonqueue'[i].by.src \in Starts
    BY <1>1 DEF QueueInv
  <2>1. i + 1 \in 1 .. Len(fonqueue) /\ fonqueue'[i] = fonqueue[i + 1]
    BY <1>2
  <2> QED  BY <2>1, <1>t DEF QueueInv
<1>10. OffInv' /\ SockInv' /\ OrphansInv' /\ ClientInv'
  BY <1>t, <1>1 DEF StatedInv, OffInv, Listening, SockInv, OrphansInv, ClientInv
<1> QED  BY <1>7, <1>8, <1>9, <1>10 DEF StatedInv

\* process_timers().
LEMMA ProcessTimerMoves ==
    ASSUME StatedInv, ProcessTimer
    PROVE  StatedInv'
<1>1. /\ phase = "timers" /\ timer <= Timers /\ timer' = timer + 1
      /\ count' = [count EXCEPT ![timer] = (@ + 1) % Period[timer]]
      /\ UNCHANGED <<phase, starts, boot, sock, fonqueue, heap, orphans, client, ran>>
  BY DEF ProcessTimer
<1>2. timer \in 1 .. Timers /\ timer' \in 1 .. Timers + 1
  BY <1>1, ConstantsAssumption DEF StatedInv, TypeOK
<1>3. count' \in [1 .. Timers -> Nat]
  <2>1. count \in [1 .. Timers -> Nat] /\ count[timer] + 1 \in Nat /\ Period[timer] \in Nat \ {0}
    BY <1>2, ConstantsAssumption DEF StatedInv, TypeOK
  <2>2. (count[timer] + 1) % Period[timer] \in Nat
    BY <2>1
  <2> QED  BY <1>1, <2>1, <2>2
<1>4. steps' \in Seq(Programs) /\ StepsInv'
  <2> DEFINE p == [by |-> NoCommand, what |-> "action"]
  <2>1. CASE steps' = <<p>>
    <3>1. p \in Programs /\ OwnProgram(p)
      BY DEF Programs, OwnProgram
    <3> HIDE DEF p
    <3>2. steps' \in Seq(Programs) /\ Len(steps') = 1 /\ steps'[1] = p
      BY <2>1, <3>1, SingletonFacts
    <3> QED  BY <3>1, <3>2 DEF StepsInv, OwnProgram
  <2>2. CASE steps' = steps
    BY <2>2 DEF StatedInv, TypeOK, StepsInv
  <2> QED  BY <2>1, <2>2 DEF ProcessTimer
<1>5. TypeOK'
  BY <1>1, <1>2, <1>3, <1>4 DEF StatedInv, TypeOK
<1>6. OffInv' /\ SockInv' /\ QueueInv' /\ OrphansInv' /\ ClientInv'
  BY <1>1 DEF StatedInv, OffInv, Listening, SockInv, QueueInv, OrphansInv, ClientInv
<1> QED  BY <1>4, <1>5, <1>6 DEF StatedInv

\* A program ends, of the daemon or one it left behind, or the daemon is killed.
LEMMA EndMoves ==
    ASSUME StatedInv, ProgramEnds \/ Kill \/ \E p \in orphans : OrphanEnds(p)
    PROVE  StatedInv'
<1>t. steps \in Seq(Programs) /\ StepsInv /\ orphans \subseteq Programs /\ OrphansInv
  BY DEF StatedInv, TypeOK
<1>1. CASE ProgramEnds
  <2>1. /\ steps # <<>> /\ steps' = Tail(steps)
        /\ UNCHANGED <<phase, starts, boot, sock, fonqueue, heap, timer, count, orphans, client, ran>>
    BY <1>1 DEF ProgramEnds, Blocked
  <2>2. /\ steps' \in Seq(Programs) /\ Len(steps) \in Nat \ {0} /\ Len(steps') = Len(steps) - 1
        /\ \A i \in 1 .. Len(steps) - 1 : steps'[i] = steps[i + 1]
    BY <1>t, <2>1, TailFacts
  <2>3. StepsInv'
    <3>1. \A i \in 1 .. Len(steps') : i + 1 \in 1 .. Len(steps) /\ steps'[i] = steps[i + 1]
      BY <2>2
    <3> QED  BY <1>t, <3>1 DEF StepsInv, OwnProgram
  <2>4. TypeOK'
    BY <2>1, <2>2 DEF StatedInv, TypeOK
  <2>5. OffInv' /\ SockInv' /\ QueueInv' /\ OrphansInv' /\ ClientInv'
    BY <2>1 DEF StatedInv, OffInv, Listening, SockInv, QueueInv, OrphansInv, ClientInv
  <2> QED  BY <2>3, <2>4, <2>5 DEF StatedInv
<1>2. CASE Kill
  <2>1. /\ phase' = "off" /\ steps' = <<>> /\ sock' = <<>> /\ fonqueue' = <<>> /\ heap' = {}
        /\ timer' = 1 /\ count' = [t \in 1 .. Timers |-> 0]
        /\ UNCHANGED <<starts, boot, client, ran>>
    BY <1>2 DEF Kill
  <2>2. orphans' \subseteq Programs /\ OrphansInv'
    <3>1. CASE steps = <<>>
      BY <1>2, <1>t, <3>1 DEF Kill, Blocked, OrphansInv
    <3>2. CASE steps # <<>>
      <4>1. /\ Head(steps) \in Programs /\ Head(steps) = steps[1] /\ Len(steps) \in Nat \ {0}
        BY <1>t, <3>2, TailFacts
      <4>2. OwnProgram(Head(steps))
        BY <1>t, <4>1 DEF StepsInv
      <4>3. orphans' = orphans \cup {Head(steps)}
        BY <1>2, <3>2 DEF Kill, Blocked
      <4> QED  BY <1>t, <4>1, <4>2, <4>3 DEF OrphansInv, OwnProgram
    <3> QED  BY <3>1, <3>2
  <2>3. 1 .. Len(sock') = {} /\ 1 .. Len(fonqueue') = {} /\ 1 .. Len(steps') = {} /\ Len(sock') = 0
    BY <2>1
  <2>4. TypeOK'
    BY <2>1, <2>2, <2>3, ConstantsAssumption DEF StatedInv, TypeOK, Phases
  <2>5. OffInv' /\ SockInv' /\ QueueInv' /\ StepsInv' /\ ClientInv'
    BY <2>1, <2>3 DEF StatedInv, OffInv, SockInv, QueueInv, StepsInv, ClientInv
  <2> QED  BY <2>2, <2>4, <2>5 DEF StatedInv
<1>3. ASSUME NEW p \in orphans, OrphanEnds(p)
      PROVE  StatedInv'
  <2>1. /\ orphans' = orphans \ {p}
        /\ UNCHANGED <<phase, starts, boot, sock, fonqueue, heap, steps, timer, count, client, ran>>
    BY <1>3 DEF OrphanEnds
  <2>2. TypeOK' /\ OrphansInv'
    BY <2>1, <1>t DEF StatedInv, TypeOK, OrphansInv
  <2>3. OffInv' /\ SockInv' /\ QueueInv' /\ StepsInv' /\ ClientInv'
    BY <2>1 DEF StatedInv, OffInv, Listening, SockInv, QueueInv, StepsInv, ClientInv
  <2> QED  BY <2>2, <2>3 DEF StatedInv
<1> QED  BY <1>1, <1>2, <1>3

\* The inductive invariant of the daemon and its clients.
THEOREM StatedInvHolds == Spec => []StatedInv
<1>1. StatedInv /\ [Next]_vars => StatedInv'
  <2>1. ASSUME StatedInv, Next
        PROVE  StatedInv'
    BY <2>1, ClientsInv, PhaseMoves, EnqueueMoves, ProcessQueueMoves, ProcessTimerMoves, EndMoves
       DEF Next, DaemonStep
  <2>2. ASSUME StatedInv, UNCHANGED vars
        PROVE  StatedInv'
    BY <2>2
       DEF vars, daemonVars, StatedInv, TypeOK, OffInv, Listening, SockInv, QueueInv, StepsInv,
           OrphansInv, ClientInv
  <2> QED  BY <2>1, <2>2
<1> QED  BY <1>1, InitStatedInv, PTL DEF Spec

\* The daemon's lists, its timers and the clients keep their types.
THEOREM TypeCorrect == Spec => []TypeOK
<1>1. StatedInv => TypeOK
  BY DEF StatedInv
<1> QED  BY <1>1, StatedInvHolds, PTL

\* A command that is not an event runs its own script, even after a restart.
THEOREM OwnScriptHolds == Spec => []OwnScriptOnly
<1>1. StatedInv => OwnScriptOnly
  <2> SUFFICES ASSUME StatedInv, NEW p \in orphans \cup {steps[i] : i \in DOMAIN steps},
                      p.by # NoCommand
               PROVE  \/ p.what = (IF Name(p.by) \in FastEvents THEN "action" ELSE Name(p.by))
                      \/ Name(p.by) \in SlowEvents
    BY DEF OwnScriptOnly
  <2>1. steps \in Seq(Programs) /\ DOMAIN steps = 1 .. Len(steps)
    BY LenProperties DEF StatedInv, TypeOK
  <2>2. OwnProgram(p)
    BY <2>1 DEF StatedInv, StepsInv, OrphansInv
  <2> QED  BY <2>2 DEF OwnProgram
<1> QED  BY <1>1, StatedInvHolds, PTL

-----------------------------------------------------------------------------
(* The queue followed by the socket, as one sequence.                      *)

LEMMA ConcatFacts ==
    ASSUME NEW S, NEW q \in Seq(S), NEW s \in Seq(S)
    PROVE  /\ q \o s \in Seq(S) /\ Len(q) \in Nat /\ Len(s) \in Nat
           /\ Len(q \o s) = Len(q) + Len(s)
           /\ \A i \in 1 .. Len(q) + Len(s) :
                 (q \o s)[i] = IF i <= Len(q) THEN q[i] ELSE s[i - Len(q)]
  BY LenProperties, ConcatProperties

\* A datagram is appended to the whole.
LEMMA ConcatAppend ==
    ASSUME NEW S, NEW q \in Seq(S), NEW s \in Seq(S), NEW e \in S
    PROVE  q \o Append(s, e) = Append(q \o s, e)
<1>1. <<e>> \in Seq(S) /\ q \o s \in Seq(S)
  BY SingletonFacts, ConcatProperties
<1>2. Append(s, e) = s \o <<e>> /\ Append(q \o s, e) = (q \o s) \o <<e>>
  BY <1>1, AppendIsConcat
<1> QED  BY <1>1, <1>2, ConcatAssociative

\* A sequence is its head followed by its tail.
LEMMA HeadThenTail ==
    ASSUME NEW S, NEW s \in Seq(S), s # <<>>
    PROVE  <<Head(s)>> \o Tail(s) = s
<1> DEFINE h == <<Head(s)>>
           t == Tail(s)
           a == h \o t
<1>1. /\ t \in Seq(S) /\ Head(s) \in S /\ Head(s) = s[1]
      /\ Len(s) \in Nat \ {0} /\ Len(t) = Len(s) - 1
      /\ \A i \in 1 .. Len(s) - 1 : t[i] = s[i + 1]
  BY TailFacts
<1>2. h \in Seq(S) /\ Len(h) = 1 /\ h[1] = s[1]
  BY <1>1, SingletonFacts
<1> HIDE DEF h, t
<1>3. /\ a \in Seq(S) /\ Len(a) = Len(h) + Len(t)
      /\ \A i \in 1 .. Len(h) + Len(t) : a[i] = IF i <= Len(h) THEN h[i] ELSE t[i - Len(h)]
  BY <1>1, <1>2, ConcatFacts
<1> HIDE DEF a
<1>4. Len(a) = Len(s)
  BY <1>1, <1>2, <1>3
<1>5. ASSUME NEW i \in 1 .. Len(a)
      PROVE  a[i] = s[i]
  <2>1. CASE i = 1
    BY <2>1, <1>1, <1>2, <1>3
  <2>2. CASE i # 1
    <3>1. i - 1 \in 1 .. Len(s) - 1 /\ (i - 1) + 1 = i /\ i \in 1 .. Len(h) + Len(t) /\ ~(i <= Len(h))
      BY <2>2, <1>1, <1>2, <1>4
    <3>2. a[i] = t[i - 1]
      BY <3>1, <1>2, <1>3
    <3>3. t[i - 1] = s[i]
      BY <3>1, <1>1
    <3> QED  BY <3>2, <3>3
  <2> QED  BY <2>1, <2>2
<1>6. a = s
  BY <1>3, <1>4, <1>5, SeqEqual
<1> QED  BY <1>6 DEF a, h, t

\* The head of the socket moves to the end of the queue: the whole is the same.
LEMMA ConcatMove ==
    ASSUME NEW S, NEW q \in Seq(S), NEW s \in Seq(S), s # <<>>
    PROVE  Append(q, Head(s)) \o Tail(s) = q \o s
<1>1. Head(s) \in S /\ Tail(s) \in Seq(S) /\ <<Head(s)>> \in Seq(S)
  BY TailFacts, SingletonFacts
<1>2. Append(q, Head(s)) = q \o <<Head(s)>>
  BY <1>1, AppendIsConcat
<1>3. (q \o <<Head(s)>>) \o Tail(s) = q \o (<<Head(s)>> \o Tail(s))
  BY <1>1, ConcatAssociative
<1> QED  BY <1>2, <1>3, HeadThenTail

\* InsertAfter and DropAt at the border of two sequences.
LEMMA InsertBetween ==
    ASSUME NEW S, NEW q \in Seq(S), NEW s \in Seq(S), NEW e \in S
    PROVE  Append(q, e) \o s = D!InsertAfter(q \o s, Len(q), e)
<1> DEFINE u == Append(q, e)
           w == q \o s
           a == u \o s
           b == D!InsertAfter(w, Len(q), e)
<1>1. /\ w \in Seq(S) /\ Len(q) \in Nat /\ Len(s) \in Nat /\ Len(w) = Len(q) + Len(s)
      /\ \A i \in 1 .. Len(q) + Len(s) : w[i] = IF i <= Len(q) THEN q[i] ELSE s[i - Len(q)]
  BY ConcatFacts
<1>2. /\ u \in Seq(S) /\ Len(u) = Len(q) + 1
      /\ \A i \in 1 .. Len(q) + 1 : u[i] = IF i <= Len(q) THEN q[i] ELSE e
  BY AppendFacts
<1> HIDE DEF u, w
<1>3. /\ a \in Seq(S) /\ Len(a) = Len(u) + Len(s)
      /\ \A i \in 1 .. Len(u) + Len(s) : a[i] = IF i <= Len(u) THEN u[i] ELSE s[i - Len(u)]
  BY <1>2, ConcatFacts
<1>4. b = [i \in 1 .. Len(w) + 1 |-> IF i <= Len(q) THEN w[i] ELSE IF i = Len(q) + 1 THEN e ELSE w[i - 1]]
  BY DEF D!InsertAfter
<1> HIDE DEF a, b
<1>5. Len(a) = Len(w) + 1
  BY <1>1, <1>2, <1>3
<1>6. ASSUME NEW i \in 1 .. Len(a)
      PROVE  a[i] = b[i]
  <2>0. i \in 1 .. Len(w) + 1 /\ i \in 1 .. Len(u) + Len(s)
    BY <1>1, <1>2, <1>5, <1>3
  <2>1. CASE i <= Len(q)
    <3>1. a[i] = q[i]
      BY <2>0, <2>1, <1>1, <1>2, <1>3
    <3>2. b[i] = q[i]
      BY <2>0, <2>1, <1>1, <1>4
    <3> QED  BY <3>1, <3>2
  <2>2. CASE i = Len(q) + 1
    <3>1. a[i] = e
      BY <2>0, <2>2, <1>1, <1>2, <1>3
    <3>2. b[i] = e
      BY <2>0, <2>2, <1>1, <1>4
    <3> QED  BY <3>1, <3>2
  <2>3. CASE i > Len(q) + 1
    <3>0. i - 1 \in 1 .. Len(q) + Len(s) /\ ~(i - 1 <= Len(q)) /\ (i - 1) - Len(q) = i - Len(u) /\ ~(i <= Len(u))
      BY <2>0, <2>3, <1>1, <1>2
    <3>1. a[i] = s[i - Len(u)]
      BY <2>0, <3>0, <1>3
    <3>2. b[i] = w[i - 1]
      BY <2>0, <2>3, <1>1, <1>4
    <3>3. w[i - 1] = s[(i - 1) - Len(q)]
      BY <3>0, <1>1
    <3> QED  BY <3>0, <3>1, <3>2, <3>3
  <2> QED  BY <2>0, <2>1, <2>2, <2>3, <1>1
<1>7. DOMAIN a = 1 .. Len(a) /\ a = [i \in 1 .. Len(a) |-> a[i]]
  BY <1>3, LenProperties
<1>8. a = b
  BY <1>4, <1>5, <1>6, <1>7
<1> QED  BY <1>8 DEF a, b, u, w

LEMMA DropBetween ==
    ASSUME NEW S, NEW q \in Seq(S), NEW s \in Seq(S), s # <<>>
    PROVE  q \o Tail(s) = D!DropAt(q \o s, Len(q) + 1)
<1> DEFINE t == Tail(s)
           w == q \o s
           a == q \o t
           b == D!DropAt(w, Len(q) + 1)
<1>1. /\ w \in Seq(S) /\ Len(q) \in Nat /\ Len(w) = Len(q) + Len(s)
      /\ \A i \in 1 .. Len(q) + Len(s) : w[i] = IF i <= Len(q) THEN q[i] ELSE s[i - Len(q)]
  BY ConcatFacts
<1>2. /\ t \in Seq(S) /\ Len(s) \in Nat \ {0} /\ Len(t) = Len(s) - 1
      /\ \A i \in 1 .. Len(s) - 1 : t[i] = s[i + 1]
  BY TailFacts
<1> HIDE DEF t, w
<1>3. /\ a \in Seq(S) /\ Len(a) = Len(q) + Len(t)
      /\ \A i \in 1 .. Len(q) + Len(t) : a[i] = IF i <= Len(q) THEN q[i] ELSE t[i - Len(q)]
  BY <1>2, ConcatFacts
<1>4. b = [i \in 1 .. Len(w) - 1 |-> IF i < Len(q) + 1 THEN w[i] ELSE w[i + 1]]
  BY DEF D!DropAt
<1> HIDE DEF a, b
<1>5. Len(a) = Len(w) - 1
  BY <1>1, <1>2, <1>3
<1>6. ASSUME NEW i \in 1 .. Len(a)
      PROVE  a[i] = b[i]
  <2>0. i \in 1 .. Len(w) - 1 /\ i \in 1 .. Len(q) + Len(t)
    BY <1>1, <1>2, <1>5, <1>3
  <2>1. CASE i <= Len(q)
    <3>1. a[i] = q[i]
      BY <2>0, <2>1, <1>1, <1>3
    <3>2. b[i] = q[i]
      BY <2>0, <2>1, <1>1, <1>2, <1>4
    <3> QED  BY <3>1, <3>2
  <2>2. CASE i > Len(q)
    <3>0. /\ i + 1 \in 1 .. Len(q) + Len(s) /\ ~(i + 1 <= Len(q)) /\ ~(i < Len(q) + 1)
          /\ ~(i <= Len(q)) /\ i - Len(q) \in 1 .. Len(s) - 1 /\ (i - Len(q)) + 1 = (i + 1) - Len(q)
      BY <2>0, <2>2, <1>1, <1>2
    <3>1. a[i] = t[i - Len(q)]
      BY <2>0, <3>0, <1>3
    <3>2. t[i - Len(q)] = s[(i + 1) - Len(q)]
      BY <3>0, <1>2
    <3>3. b[i] = w[i + 1]
      BY <2>0, <3>0, <1>4
    <3>4. w[i + 1] = s[(i + 1) - Len(q)]
      BY <3>0, <1>1
    <3> QED  BY <3>1, <3>2, <3>3, <3>4
  <2> QED  BY <2>0, <2>1, <2>2, <1>1
<1>7. a = [i \in 1 .. Len(a) |-> a[i]]
  BY <1>3, LenProperties
<1>8. a = b
  BY <1>4, <1>5, <1>6, <1>7
<1> QED  BY <1>8 DEF a, b, t, w

LEMMA DropFirst ==
    ASSUME NEW S, NEW q \in Seq(S), NEW s \in Seq(S), q # <<>>
    PROVE  Tail(q) \o s = D!DropAt(q \o s, 1)
<1> DEFINE t == Tail(q)
           w == q \o s
           a == t \o s
           b == D!DropAt(w, 1)
<1>1. /\ w \in Seq(S) /\ Len(s) \in Nat /\ Len(w) = Len(q) + Len(s)
      /\ \A i \in 1 .. Len(q) + Len(s) : w[i] = IF i <= Len(q) THEN q[i] ELSE s[i - Len(q)]
  BY ConcatFacts
<1>2. /\ t \in Seq(S) /\ Len(q) \in Nat \ {0} /\ Len(t) = Len(q) - 1
      /\ \A i \in 1 .. Len(q) - 1 : t[i] = q[i + 1]
  BY TailFacts
<1> HIDE DEF t, w
<1>3. /\ a \in Seq(S) /\ Len(a) = Len(t) + Len(s)
      /\ \A i \in 1 .. Len(t) + Len(s) : a[i] = IF i <= Len(t) THEN t[i] ELSE s[i - Len(t)]
  BY <1>2, ConcatFacts
<1>4. b = [i \in 1 .. Len(w) - 1 |-> IF i < 1 THEN w[i] ELSE w[i + 1]]
  BY DEF D!DropAt
<1> HIDE DEF a, b
<1>5. Len(a) = Len(w) - 1
  BY <1>1, <1>2, <1>3
<1>6. ASSUME NEW i \in 1 .. Len(a)
      PROVE  a[i] = b[i]
  <2>0. i \in 1 .. Len(w) - 1 /\ i \in 1 .. Len(t) + Len(s) /\ i + 1 \in 1 .. Len(q) + Len(s) /\ ~(i < 1)
    BY <1>1, <1>2, <1>5, <1>3
  <2>b. b[i] = w[i + 1]
    BY <2>0, <1>4
  <2>1. CASE i <= Len(t)
    <3>1. i \in 1 .. Len(q) - 1 /\ i + 1 <= Len(q)
      BY <2>0, <2>1, <1>2
    <3>2. a[i] = q[i + 1]
      BY <2>0, <2>1, <3>1, <1>2, <1>3
    <3>3. w[i + 1] = q[i + 1]
      BY <2>0, <3>1, <1>1
    <3> QED  BY <2>b, <3>2, <3>3
  <2>2. CASE i > Len(t)
    <3>0. ~(i <= Len(t)) /\ ~(i + 1 <= Len(q)) /\ i - Len(t) = (i + 1) - Len(q)
      BY <2>0, <2>2, <1>1, <1>2
    <3>1. a[i] = s[(i + 1) - Len(q)]
      BY <2>0, <3>0, <1>3
    <3>2. w[i + 1] = s[(i + 1) - Len(q)]
      BY <2>0, <3>0, <1>1
    <3> QED  BY <2>b, <3>1, <3>2
  <2> QED  BY <2>0, <2>1, <2>2, <1>2
<1>7. a = [i \in 1 .. Len(a) |-> a[i]]
  BY <1>3, LenProperties
<1>8. a = b
  BY <1>4, <1>5, <1>6, <1>7
<1> QED  BY <1>8 DEF a, b, t, w

-----------------------------------------------------------------------------
(* The commands of a list of jobs.                                         *)

By(q) == [i \in 1 .. Len(q) |-> q[i].by]

LEMMA ByFacts ==
    ASSUME NEW q \in Seq(Jobs)
    PROVE  /\ By(q) \in Seq(Commands) /\ Len(q) \in Nat /\ Len(By(q)) = Len(q)
           /\ \A i \in 1 .. Len(q) : By(q)[i] = q[i].by
<1>1. Len(q) \in Nat
  BY LenProperties
<1>2. \A i \in 1 .. Len(q) : q[i].by \in Commands
  <2>1. \A j \in Jobs : j.by \in Commands
    BY DEF Jobs
  <2>2. \A i \in 1 .. Len(q) : q[i] \in Jobs
    BY ElementOfSeq
  <2> QED  BY <2>1, <2>2
<1>3. By(q) \in [1 .. Len(q) -> Commands]
  BY <1>2 DEF By
<1>4. By(q) \in Seq(Commands) /\ Len(By(q)) = Len(q)
  BY <1>1, <1>3, P!FunctionAsSeq
<1> QED  BY <1>1, <1>4 DEF By

LEMMA ByAppend ==
    ASSUME NEW q \in Seq(Jobs), NEW j \in Jobs
    PROVE  By(Append(q, j)) = Append(By(q), j.by)
<1> DEFINE u == Append(q, j)
           a == By(u)
           b == Append(By(q), j.by)
<1>1. /\ u \in Seq(Jobs) /\ Len(q) \in Nat /\ Len(u) = Len(q) + 1
      /\ \A i \in 1 .. Len(q) + 1 : u[i] = IF i <= Len(q) THEN q[i] ELSE j
  BY AppendFacts
<1>2. j.by \in Commands
  BY DEF Jobs
<1>3. By(q) \in Seq(Commands) /\ Len(By(q)) = Len(q) /\ \A i \in 1 .. Len(q) : By(q)[i] = q[i].by
  BY ByFacts
<1>4. /\ b \in Seq(Commands) /\ Len(b) = Len(q) + 1
      /\ \A i \in 1 .. Len(q) + 1 : b[i] = IF i <= Len(q) THEN By(q)[i] ELSE j.by
  <2> DEFINE c == By(q)
             e == j.by
  <2>1. c \in Seq(Commands) /\ Len(c) = Len(q) /\ e \in Commands
    BY <1>2, <1>3
  <2> HIDE DEF c, e
  <2>2. /\ Append(c, e) \in Seq(Commands) /\ Len(Append(c, e)) = Len(c) + 1
        /\ \A i \in 1 .. Len(c) + 1 : Append(c, e)[i] = IF i <= Len(c) THEN c[i] ELSE e
    BY <2>1, AppendFacts
  <2> QED  BY <2>1, <2>2 DEF c, e
<1> HIDE DEF u
<1>5. a \in Seq(Commands) /\ Len(a) = Len(u) /\ \A i \in 1 .. Len(u) : a[i] = u[i].by
  BY <1>1, ByFacts
<1> HIDE DEF a, b
<1>6. ASSUME NEW i \in 1 .. Len(a)
      PROVE  a[i] = b[i]
  <2>0. i \in 1 .. Len(u) /\ i \in 1 .. Len(q) + 1
    BY <1>1, <1>5
  <2>1. CASE i <= Len(q)
    <3>1. i \in 1 .. Len(q)
      BY <2>0, <2>1, <1>1
    <3> QED  BY <2>0, <2>1, <3>1, <1>1, <1>3, <1>4, <1>5
  <2>2. CASE ~(i <= Len(q))
    BY <2>0, <2>2, <1>1, <1>4, <1>5
  <2> QED  BY <2>1, <2>2
<1>7. a = b
  BY <1>1, <1>4, <1>5, <1>6, SeqEqual
<1> QED  BY <1>7 DEF a, b, u

LEMMA ByTail ==
    ASSUME NEW q \in Seq(Jobs), q # <<>>
    PROVE  By(q) # <<>> /\ By(q)[1] = Head(q).by /\ By(Tail(q)) = Tail(By(q))
<1> DEFINE t == Tail(q)
           c == By(q)
           a == By(t)
           b == Tail(c)
<1>1. /\ t \in Seq(Jobs) /\ Len(q) \in Nat \ {0} /\ Len(t) = Len(q) - 1 /\ Head(q) = q[1]
      /\ \A i \in 1 .. Len(q) - 1 : t[i] = q[i + 1]
  BY TailFacts
<1>2. c \in Seq(Commands) /\ Len(c) = Len(q) /\ \A i \in 1 .. Len(q) : c[i] = q[i].by
  BY ByFacts
<1> HIDE DEF t, c
<1>3. a \in Seq(Commands) /\ Len(a) = Len(t) /\ \A i \in 1 .. Len(t) : a[i] = t[i].by
  BY <1>1, ByFacts
<1>4. c # <<>> /\ c[1] = Head(q).by
  <2>1. Len(<<>>) = 0
    OBVIOUS
  <2> QED  BY <1>1, <1>2, <2>1
<1>5. b \in Seq(Commands) /\ Len(b) = Len(c) - 1 /\ \A i \in 1 .. Len(c) - 1 : b[i] = c[i + 1]
  BY <1>2, <1>4, TailFacts
<1> HIDE DEF a, b
<1>6. ASSUME NEW i \in 1 .. Len(a)
      PROVE  a[i] = b[i]
  <2>1. i \in 1 .. Len(q) - 1 /\ i + 1 \in 1 .. Len(q) /\ i \in 1 .. Len(t) /\ i \in 1 .. Len(c) - 1
    BY <1>1, <1>2, <1>3
  <2> QED  BY <2>1, <1>1, <1>2, <1>3, <1>5
<1>7. a = b
  BY <1>1, <1>2, <1>3, <1>5, <1>6, SeqEqual
<1> QED  BY <1>4, <1>7 DEF a, b, c, t

-----------------------------------------------------------------------------
(* Each step of the daemon is a step of FonDispatch or none.               *)

Accepted == JobCommands \o sock
Active   == IF steps = <<>> THEN NoCommand ELSE Head(steps).by

\* The mapping in terms of By.
LEMMA MappingFacts ==
    ASSUME StatedInv
    PROVE  /\ JobCommands = By(fonqueue) /\ JobCommands \in Seq(Commands)
           /\ Len(JobCommands) = Len(fonqueue)
           /\ sock \in Seq(Commands) /\ fonqueue \in Seq(Jobs)
           /\ Len(fonqueue) \in Nat /\ Len(sock) \in Nat
           /\ Accepted \in Seq(Commands) /\ Len(Accepted) = Len(fonqueue) + Len(sock)
           /\ \A i \in 1 .. Len(fonqueue) : Accepted[i] = fonqueue[i].by
           /\ \A i \in 1 .. Len(sock) : Accepted[Len(fonqueue) + i] = sock[i]
<1>1. sock \in Seq(Commands) /\ fonqueue \in Seq(Jobs)
  BY DEF StatedInv, TypeOK
<1> DEFINE q == JobCommands
<1>2. q = By(fonqueue)
  BY DEF JobCommands, By
<1>3. /\ q \in Seq(Commands) /\ Len(fonqueue) \in Nat /\ Len(q) = Len(fonqueue)
      /\ \A i \in 1 .. Len(fonqueue) : q[i] = fonqueue[i].by
  BY <1>1, <1>2, ByFacts
<1> HIDE DEF q
<1>4. /\ q \o sock \in Seq(Commands) /\ Len(sock) \in Nat /\ Len(q \o sock) = Len(q) + Len(sock)
      /\ \A i \in 1 .. Len(q) + Len(sock) :
            (q \o sock)[i] = IF i <= Len(q) THEN q[i] ELSE sock[i - Len(q)]
  BY <1>1, <1>3, ConcatFacts
<1> DEFINE w == q \o sock
<1> HIDE DEF w
<1>5. \A i \in 1 .. Len(fonqueue) : w[i] = fonqueue[i].by
  BY <1>3, <1>4 DEF w
<1>6. ASSUME NEW i \in 1 .. Len(sock)
      PROVE  w[Len(fonqueue) + i] = sock[i]
  <2>1. /\ Len(fonqueue) + i \in 1 .. Len(q) + Len(sock) /\ ~(Len(fonqueue) + i <= Len(q))
        /\ (Len(fonqueue) + i) - Len(q) = i
    BY <1>3, <1>4
  <2> QED  BY <2>1, <1>4 DEF w
<1>7. Accepted = w
  BY DEF Accepted, w, q
<1> QED  BY <1>1, <1>2, <1>3, <1>4, <1>5, <1>6, <1>7 DEF q, w

\* The state of FonDispatch that a state of the daemon stands for.
LEMMA AbstractState ==
    /\ D!vars = <<Upto, Accepted, Active, ran>>
    /\ UNCHANGED <<Upto, Accepted, Active, ran>> => UNCHANGED D!vars
  BY DEF D!vars, Accepted, Active

\* Initially nothing was sent.
LEMMA InitMaps == Init => D!Init
<1> SUFFICES ASSUME Init
             PROVE  D!Init
  OBVIOUS
<1>1. StatedInv
  BY InitStatedInv
<1>2. Upto = [s \in Sources |-> 0]
  BY DEF Upto, Init, Idle, Sources
<1>3. Accepted = <<>>
  <2>1. sock = <<>> /\ fonqueue = <<>>
    BY DEF Init
  <2>2. Len(fonqueue) = 0 /\ Len(sock) = 0
    BY <2>1
  <2>3. Accepted \in Seq(Commands) /\ Len(Accepted) = 0
    BY <1>1, <2>2, MappingFacts
  <2> QED  BY <2>3, EmptySeq
<1> QED  BY <1>2, <1>3 DEF D!Init, Init, Accepted

\* A client's command counts as sent or lost.
LEMMA AdvanceClient ==
    ASSUME StatedInv, NEW c \in Clients, NEW r, r.n = client[c].n + 1,
           client' = [client EXCEPT ![c] = r], boot' = boot
    PROVE  D!Advance(c) /\ D!Following(c) = [src |-> c, n |-> client[c].n] /\ c \in Sources
<1>1. c \in Sources /\ client[c].n \in Nat /\ client \in [Clients -> ClientStates]
  BY DEF Sources, StatedInv, TypeOK, ClientStates
<1>2. Upto[c] = client[c].n - 1 /\ Upto[c] + 1 = client[c].n
  BY <1>1 DEF Upto
<1>3. Upto' = [Upto EXCEPT ![c] = @ + 1]
  <2>1. Upto' = [s \in Sources |-> IF s \in Clients THEN client'[s].n - 1 ELSE boot[s]]
    BY DEF Upto
  <2>2. [Upto EXCEPT ![c] = @ + 1] = [s \in Sources |-> IF s = c THEN client[c].n ELSE Upto[s]]
    BY <1>1, <1>2 DEF Upto
  <2>3. \A s \in Sources : (IF s \in Clients THEN client'[s].n - 1 ELSE boot[s])
                                = (IF s = c THEN client[c].n ELSE Upto[s])
    BY <1>1 DEF Upto
  <2> QED  BY <2>1, <2>2, <2>3
<1> QED  BY <1>1, <1>2, <1>3 DEF D!Advance, D!Following

\* The clients: a command gets through, is lost, or nothing happens.
LEMMA ClientMaps ==
    ASSUME StatedInv, NEW c \in Clients, Launch(c) \/ ClientStep(c)
    PROVE  D!Next \/ UNCHANGED D!vars
<1>t. client \in [Clients -> ClientStates] /\ client[c] \in ClientStates
  BY DEF StatedInv, TypeOK, ClientStates
<1>1. CASE Launch(c) \/ Connect(c)
  <2>1. UNCHANGED <<boot, fonqueue, sock, steps, ran>>
    BY <1>1 DEF Launch, Connect, daemonVars
  <2>2. client' \in [Clients -> ClientStates] /\ \A s \in Clients : client'[s].n = client[s].n
    <3>1. starts \in 0 .. MaxStarts
      BY DEF StatedInv, TypeOK
    <3> QED  BY <1>1, <1>t, <3>1 DEF Launch, Connect, ClientStates
  <2>3. UNCHANGED Upto
    BY <2>1, <2>2 DEF Upto
  <2> QED  BY <2>1, <2>3, AbstractState DEF Accepted, Active, JobCommands
<1>2. CASE ConnectFails(c) \/ SendFails(c)
  <2> DEFINE r == NextCommand(client[c], c)
  <2>1. r.n = client[c].n + 1 /\ client' = [client EXCEPT ![c] = r]
    BY <1>2, NextCommandFacts DEF ConnectFails, SendFails
  <2>2. UNCHANGED <<boot, fonqueue, sock, steps, ran>>
    BY <1>2 DEF ConnectFails, SendFails, daemonVars
  <2> HIDE DEF r
  <2>3. D!Advance(c) /\ c \in Sources
    BY <2>1, <2>2, AdvanceClient
  <2>4. D!Lose(c)
    BY <2>2, <2>3 DEF D!Lose, JobCommands
  <2> QED  BY <2>3, <2>4 DEF D!Next
<1>3. CASE Send(c)
  <2> DEFINE r == NextCommand(client[c], c)
             m == [src |-> c, n |-> client[c].n]
  <2>1. r.n = client[c].n + 1 /\ client' = [client EXCEPT ![c] = r] /\ m \in KnownCommands
    BY <1>3, NextCommandFacts, ClientCommand DEF Send
  <2>2. UNCHANGED <<boot, fonqueue, steps, ran>> /\ sock' = Append(sock, m)
    BY <1>3 DEF Send
  <2>3. m \in Commands
    BY <2>1, KnownFacts
  <2> HIDE DEF r
  <2>4. D!Advance(c) /\ D!Following(c) = m /\ c \in Sources
    BY <2>1, <2>2, AdvanceClient
  <2> HIDE DEF m
  <2>5. JobCommands \o Append(sock, m) = Append(JobCommands \o sock, m)
    BY <2>3, MappingFacts, ConcatAppend
  <2>6. c \notin Starts
    BY ConstantsAssumption
  <2>7. D!Accept(c)
    BY <2>2, <2>4, <2>5, <2>6 DEF D!Accept, JobCommands
  <2> QED  BY <2>4, <2>7 DEF D!Next
<1> QED  BY <1>1, <1>2, <1>3 DEF ClientStep

\* What moves the daemon, its timers and its orphans without touching a command.
LEMMA StutterMaps ==
    ASSUME StatedInv,
           \/ Start \/ SocketSetup \/ BootDone \/ ReceiveDone \/ QueueDone \/ TimersDone
           \/ ProcessTimer
           \/ \E p \in orphans : OrphanEnds(p)
    PROVE  UNCHANGED D!vars
<1>1. UNCHANGED <<boot, fonqueue, sock, client, ran>>
  BY DEF Start, SocketSetup, BootDone, ReceiveDone, QueueDone, TimersDone, ProcessTimer, OrphanEnds
<1>2. UNCHANGED Active
  <2>1. CASE ProcessTimer
    <3>1. steps = <<>> /\ (steps' = <<[by |-> NoCommand, what |-> "action"]>> \/ steps' = steps)
      BY <2>1 DEF ProcessTimer, Blocked
    <3> QED  BY <3>1 DEF Active
  <2>2. CASE ~ProcessTimer
    BY <2>2 DEF Start, SocketSetup, BootDone, ReceiveDone, QueueDone, TimersDone, OrphanEnds, Active
  <2> QED  BY <2>1, <2>2
<1>3. UNCHANGED <<Upto, Accepted>>
  BY <1>1 DEF Upto, Accepted, JobCommands
<1> QED  BY <1>1, <1>2, <1>3, AbstractState

\* The end of a program is the end of its command, or comes before another of the
\* command's programs.
LEMMA EndMaps ==
    ASSUME StatedInv, ProgramEnds \/ Kill
    PROVE  D!Next \/ UNCHANGED D!vars
<1>1. CASE ProgramEnds
  <2>1. steps # <<>> /\ steps' = Tail(steps) /\ UNCHANGED <<boot, fonqueue, sock, client, ran>>
    BY <1>1 DEF ProgramEnds, Blocked
  <2>2. UNCHANGED <<Upto, Accepted, ran>>
    BY <2>1 DEF Upto, Accepted, JobCommands
  <2>3. Active' = NoCommand \/ Active' = Active
    <3>1. steps \in Seq(Programs) /\ StepsInv
      BY DEF StatedInv, TypeOK
    <3>2. /\ Tail(steps) \in Seq(Programs) /\ Head(steps) = steps[1]
          /\ Len(steps) \in Nat \ {0} /\ Len(Tail(steps)) = Len(steps) - 1
          /\ \A i \in 1 .. Len(steps) - 1 : Tail(steps)[i] = steps[i + 1]
      BY <2>1, <3>1, TailFacts
    <3>3. CASE Tail(steps) = <<>>
      BY <2>1, <3>3 DEF Active
    <3>4. CASE Tail(steps) # <<>>
      <4>1. Head(Tail(steps)) = Tail(steps)[1] /\ Len(Tail(steps)) \in Nat \ {0}
        BY <3>2, <3>4, TailFacts
      <4>2. 1 \in 1 .. Len(steps) - 1 /\ 2 \in 1 .. Len(steps) /\ 1 \in 1 .. Len(steps)
        BY <3>2, <4>1
      <4>3. Head(Tail(steps)) = steps[2]
        BY <3>2, <4>1, <4>2
      <4>4. steps[2].by = steps[1].by
        BY <3>1, <4>2 DEF StepsInv
      <4> QED  BY <2>1, <3>2, <3>4, <4>3, <4>4 DEF Active
    <3> QED  BY <3>3, <3>4
  <2>4. CASE Active' = Active
    BY <2>2, <2>4, AbstractState
  <2>5. CASE Active' = NoCommand /\ Active # NoCommand
    <3>1. D!Finish
      BY <2>2, <2>5 DEF D!Finish, Active, Accepted
    <3> QED  BY <3>1 DEF D!Next
  <2> QED  BY <2>3, <2>4, <2>5
<1>2. CASE Kill
  <2>1. fonqueue' = <<>> /\ sock' = <<>> /\ steps' = <<>> /\ UNCHANGED <<boot, client, ran>>
    BY <1>2 DEF Kill
  <2>2. Accepted' = <<>>
    <3>1. Len(fonqueue') = 0
      BY <2>1
    <3>2. JobCommands' = <<>>
      BY <3>1 DEF JobCommands
    <3> QED  BY <2>1, <3>2 DEF Accepted
  <2>3. UNCHANGED Upto
    BY <2>1 DEF Upto
  <2>4. D!Crash
    BY <2>1, <2>2, <2>3 DEF D!Crash, Accepted
  <2> QED  BY <2>4 DEF D!Next
<1> QED  BY <1>1, <1>2

\* What enqueue_job() does to the mapped state.
LEMMA EnqueueFacts ==
    ASSUME StatedInv, NEW m \in KnownCommands, EnqueueJob(m), ~Blocked
    PROVE  /\ Active = NoCommand
           /\ IsFast(m) => JobCommands' = JobCommands /\ Active' = m /\ ran' = Append(ran, m)
           /\ ~IsFast(m) => /\ JobCommands' = Append(JobCommands, m)
                            /\ Active' = Active /\ ran' = ran
<1>k. m \in Commands /\ Name(m) \in Names
  BY KnownFacts
<1>t. fonqueue \in Seq(Jobs) /\ heap \subseteq Names
  BY DEF StatedInv, TypeOK
<1>1. Active = NoCommand
  BY DEF Active, Blocked
<1>2. ASSUME IsFast(m)
      PROVE  JobCommands' = JobCommands /\ Active' = m /\ ran' = Append(ran, m)
  <2> DEFINE p == [by |-> m, what |-> "action"]
  <2>1. steps' = <<p>> /\ ran' = Append(ran, m) /\ fonqueue' = fonqueue /\ p.by = m
    BY <1>2 DEF EnqueueJob
  <2> HIDE DEF p
  <2>2. steps' # <<>> /\ Head(steps') = p
    BY <2>1, SingletonFacts
  <2> QED  BY <2>1, <2>2 DEF Active, JobCommands
<1>3. ASSUME ~IsFast(m)
      PROVE  JobCommands' = Append(JobCommands, m) /\ Active' = Active /\ ran' = ran
  <2>1. steps' = steps /\ ran' = ran
    BY <1>3 DEF EnqueueJob
  <2>2. PICK line : line \in Names \cup {""} /\ fonqueue' = Append(fonqueue, [by |-> m, cmdline |-> line])
    <3>1. CASE Name(m) \in SlowEvents
      <4>1. \E line \in heap \cup {""} :
               fonqueue' = Append(fonqueue, [by |-> m, cmdline |-> line])
        BY <1>3, <3>1 DEF EnqueueJob
      <4> QED  BY <4>1, <1>t
    <3>2. CASE Name(m) \notin SlowEvents
      <4>1. \E line \in {Name(m)} :
               fonqueue' = Append(fonqueue, [by |-> m, cmdline |-> line])
        BY <1>3, <3>2 DEF EnqueueJob
      <4> QED  BY <4>1, <1>k
    <3> QED  BY <3>1, <3>2
  <2> DEFINE j == [by |-> m, cmdline |-> line]
  <2>3. j \in Jobs /\ j.by = m /\ fonqueue' = Append(fonqueue, j)
    BY <2>2, <1>k DEF Jobs
  <2> HIDE DEF j
  <2>4. By(Append(fonqueue, j)) = Append(By(fonqueue), m)
    BY <2>3, <1>t, ByAppend
  <2>5. JobCommands' = By(fonqueue') /\ JobCommands = By(fonqueue)
    BY DEF JobCommands, By
  <2> QED  BY <2>1, <2>3, <2>4, <2>5 DEF Active
<1> QED  BY <1>1, <1>2, <1>3

\* A boot job goes behind the boot jobs and ahead of what has been received.
LEMMA BootMaps ==
    ASSUME StatedInv, BootJob
    PROVE  D!Next
<1> DEFINE m == [src |-> starts, n |-> boot[starts] + 1]
<1>1. /\ phase = "boot" /\ boot[starts] < Len(BootJobs) /\ ~Blocked /\ EnqueueJob(m)
      /\ boot' = [boot EXCEPT ![starts] = @ + 1] /\ UNCHANGED <<sock, client>>
  BY DEF BootJob
<1>2. /\ m \in KnownCommands /\ starts \in Starts /\ starts \notin Clients /\ boot[starts] \in Nat
      /\ starts \in Sources
  BY <1>1, BootCommand DEF Sources
<1>3. D!Advance(starts)
  <2>1. boot \in [Starts -> 0 .. Len(BootJobs)]
    BY DEF StatedInv, TypeOK
  <2>2. Upto' = [s \in Sources |-> IF s \in Clients THEN client[s].n - 1 ELSE boot'[s]]
    BY <1>1 DEF Upto
  <2>3. [Upto EXCEPT ![starts] = @ + 1]
           = [s \in Sources |-> IF s = starts THEN boot[starts] + 1 ELSE Upto[s]]
    BY <1>2 DEF Upto
  <2>4. \A s \in Sources : (IF s \in Clients THEN client[s].n - 1 ELSE boot'[s])
                                = (IF s = starts THEN boot[starts] + 1 ELSE Upto[s])
    BY <1>1, <1>2, <2>1 DEF Upto, Sources
  <2> QED  BY <2>2, <2>3, <2>4 DEF D!Advance
<1>4. D!Following(starts) = m
  BY <1>2 DEF D!Following, Upto
<1>5. m \in Commands /\ (m \in FastCommands <=> IsFast(m))
  BY <1>2, KnownFacts
<1> HIDE DEF m
<1>6. /\ Active = NoCommand
      /\ IsFast(m) => JobCommands' = JobCommands /\ Active' = m /\ ran' = Append(ran, m)
      /\ ~IsFast(m) => JobCommands' = Append(JobCommands, m) /\ Active' = Active /\ ran' = ran
  BY <1>1, <1>2, EnqueueFacts
<1>7. CASE IsFast(m)
  <2>1. D!StartBoot(starts)
    BY <1>1, <1>2, <1>3, <1>4, <1>5, <1>6, <1>7 DEF D!StartBoot, Active
  <2> QED  BY <1>2, <2>1 DEF D!Next
<1>8. CASE ~IsFast(m)
  <2> DEFINE p == Len(fonqueue)
  <2>m. /\ JobCommands \in Seq(Commands) /\ Len(JobCommands) = p /\ sock \in Seq(Commands)
        /\ p \in Nat /\ Len(sock) \in Nat /\ Len(Accepted) = p + Len(sock)
        /\ \A i \in 1 .. p : Accepted[i] = fonqueue[i].by
        /\ \A i \in 1 .. Len(sock) : Accepted[p + i] = sock[i]
    BY MappingFacts
  <2>1. p \in 0 .. Len(Accepted)
    BY <2>m
  <2>2. \A i \in 1 .. p : Accepted[i].src \in Starts
    BY <2>m, <1>1 DEF StatedInv, QueueInv
  <2>3. \A i \in p + 1 .. Len(Accepted) : Accepted[i].src \notin Starts
    <3> SUFFICES ASSUME NEW i \in p + 1 .. Len(Accepted)
                 PROVE  Accepted[i].src \notin Starts
      OBVIOUS
    <3>1. i - p \in 1 .. Len(sock) /\ p + (i - p) = i
      BY <2>m
    <3>2. Accepted[i] = sock[i - p]
      BY <3>1, <2>m
    <3>3. sock[i - p].src \in Clients
      BY <3>1 DEF StatedInv, SockInv
    <3> QED  BY <3>2, <3>3, ConstantsAssumption
  <2>4. Accepted' = D!InsertAfter(Accepted, p, m)
    <3>1. Append(JobCommands, m) \o sock = D!InsertAfter(JobCommands \o sock, Len(JobCommands), m)
      BY <2>m, <1>5, InsertBetween
    <3> QED  BY <3>1, <2>m, <1>1, <1>6, <1>8 DEF Accepted
  <2> HIDE DEF p
  <2>5. D!AcceptBoot(starts, p)
    BY <1>2, <1>3, <1>4, <1>5, <1>6, <1>8, <2>2, <2>3, <2>4 DEF D!AcceptBoot, Accepted, Active
  <2> QED  BY <1>2, <2>1, <2>5 DEF D!Next, Accepted
<1> QED  BY <1>7, <1>8

\* A datagram moves from the socket to the queue, which changes nothing, unless
\* it names a fast event: that overtakes the queue, in which none is fast.
LEMMA ReceiveMaps ==
    ASSUME StatedInv, Receive
    PROVE  D!Next \/ UNCHANGED D!vars
<1> DEFINE m == Head(sock)
<1>1. /\ sock # <<>> /\ ~Blocked /\ EnqueueJob(m) /\ sock' = Tail(sock)
      /\ UNCHANGED <<boot, client>>
  BY DEF Receive
<1>m. /\ JobCommands \in Seq(Commands) /\ Len(JobCommands) = Len(fonqueue) /\ sock \in Seq(Commands)
      /\ Len(fonqueue) \in Nat /\ Len(sock) \in Nat /\ Len(Accepted) = Len(fonqueue) + Len(sock)
      /\ \A i \in 1 .. Len(fonqueue) : Accepted[i] = fonqueue[i].by
      /\ \A i \in 1 .. Len(sock) : Accepted[Len(fonqueue) + i] = sock[i]
  BY MappingFacts
<1>2. m = sock[1] /\ Len(sock) \in Nat \ {0}
  BY <1>1, <1>m, TailFacts
<1>3. m \in KnownCommands
  BY <1>2 DEF StatedInv, SockInv
<1>4. m \in FastCommands <=> IsFast(m)
  BY <1>3, KnownFacts
<1>5. UNCHANGED Upto
  BY <1>1 DEF Upto
<1>6. /\ Active = NoCommand
      /\ IsFast(m) => JobCommands' = JobCommands /\ Active' = m /\ ran' = Append(ran, m)
      /\ ~IsFast(m) => JobCommands' = Append(JobCommands, m) /\ Active' = Active /\ ran' = ran
  BY <1>1, <1>3, EnqueueFacts
<1>7. CASE ~IsFast(m)
  <2>1. Append(JobCommands, m) \o Tail(sock) = JobCommands \o sock
    BY <1>1, <1>m, ConcatMove
  <2>2. UNCHANGED Accepted
    BY <1>1, <1>6, <1>7, <2>1 DEF Accepted
  <2> QED  BY <1>5, <1>6, <1>7, <2>2, AbstractState
<1>8. CASE IsFast(m)
  <2> DEFINE k == Len(fonqueue) + 1
  <2>1. k \in 1 .. Len(Accepted) /\ Accepted[k] = m
    BY <1>m, <1>2
  <2>2. \A i \in 1 .. k - 1 : Accepted[i] \notin FastCommands
    <3> SUFFICES ASSUME NEW i \in 1 .. k - 1
                 PROVE  Accepted[i] \notin FastCommands
      OBVIOUS
    <3>1. i \in 1 .. Len(fonqueue)
      BY <1>m
    <3>2. Accepted[i] \in KnownCommands /\ ~IsFast(Accepted[i])
      BY <3>1, <1>m DEF StatedInv, QueueInv
    <3> QED  BY <3>2, KnownFacts
  <2>3. Accepted' = D!DropAt(Accepted, k)
    <3>1. JobCommands \o Tail(sock) = D!DropAt(JobCommands \o sock, Len(JobCommands) + 1)
      BY <1>1, <1>m, DropBetween
    <3> QED  BY <3>1, <1>1, <1>m, <1>6, <1>8 DEF Accepted
  <2> HIDE DEF k, m
  <2>4. D!Start(k)
    BY <1>4, <1>5, <1>6, <1>8, <2>1, <2>2, <2>3 DEF D!Start, D!MayStart, Accepted, Active
  <2> QED  BY <2>1, <2>4 DEF D!Next, Accepted
<1> QED  BY <1>7, <1>8

\* The first job starts.
LEMMA ProcessQueueMaps ==
    ASSUME StatedInv, ProcessQueue
    PROVE  D!Next
<1> DEFINE j == Head(fonqueue)
<1>1. /\ fonqueue # <<>> /\ steps = <<>> /\ fonqueue' = Tail(fonqueue) /\ steps' = JobSteps(j)
      /\ ran' = Append(ran, j.by) /\ UNCHANGED <<boot, sock, client>>
  BY DEF ProcessQueue, Blocked
<1>m. /\ JobCommands = By(fonqueue) /\ JobCommands \in Seq(Commands) /\ fonqueue \in Seq(Jobs)
      /\ Len(fonqueue) \in Nat /\ Len(sock) \in Nat /\ sock \in Seq(Commands)
      /\ Len(Accepted) = Len(fonqueue) + Len(sock)
      /\ \A i \in 1 .. Len(fonqueue) : Accepted[i] = fonqueue[i].by
  BY MappingFacts
<1>2. j \in Jobs /\ j = fonqueue[1] /\ Len(fonqueue) \in Nat \ {0}
  BY <1>1, <1>m, TailFacts
<1>3. 1 \in 1 .. Len(Accepted) /\ Accepted[1] = j.by
  BY <1>m, <1>2
<1>4. Active' = j.by
  <2>1. /\ j.by \in KnownCommands /\ ~IsFast(j.by)
        /\ Name(j.by) \notin SlowEvents => j.cmdline = Name(j.by)
    BY <1>2 DEF StatedInv, QueueInv
  <2> HIDE DEF j
  <2>2. /\ steps' \in Seq(Programs) /\ steps' # <<>>
        /\ \A i \in 1 .. Len(steps') : steps'[i].by = j.by
    BY <1>1, <1>2, <2>1, JobStepsFacts
  <2>3. Head(steps') = steps'[1] /\ Len(steps') \in Nat \ {0}
    BY <2>2, TailFacts
  <2> QED  BY <2>2, <2>3 DEF Active
<1>5. Accepted' = D!DropAt(Accepted, 1)
  <2>1. JobCommands # <<>> /\ By(Tail(fonqueue)) = Tail(JobCommands)
    BY <1>1, <1>m, ByTail
  <2>2. JobCommands' = By(fonqueue')
    BY DEF JobCommands, By
  <2>3. Tail(JobCommands) \o sock = D!DropAt(JobCommands \o sock, 1)
    BY <2>1, <1>m, DropFirst
  <2> QED  BY <1>1, <2>1, <2>2, <2>3 DEF Accepted
<1>6. UNCHANGED Upto /\ Active = NoCommand
  BY <1>1 DEF Upto, Active
<1>7. D!Start(1)
  <2> HIDE DEF j
  <2> QED  BY <1>1, <1>3, <1>4, <1>5, <1>6 DEF D!Start, D!MayStart, Accepted, Active
<1> QED  BY <1>3, <1>7 DEF D!Next, Accepted

-----------------------------------------------------------------------------
\* Socket, queue and main loop together implement the queue of FonDispatch.
THEOREM Refinement == Spec => ImplementsDispatch
<1>1. StatedInv /\ [Next]_vars => [D!Next]_(D!vars)
  <2>1. ASSUME StatedInv, Next
        PROVE  D!Next \/ UNCHANGED D!vars
    BY <2>1, ClientMaps, StutterMaps, EndMaps, BootMaps, ReceiveMaps, ProcessQueueMaps
       DEF Next, DaemonStep
  <2>2. ASSUME UNCHANGED vars
        PROVE  UNCHANGED D!vars
    <3>1. UNCHANGED <<Upto, Accepted, Active, ran>>
      BY <2>2 DEF vars, daemonVars, Upto, Accepted, Active, JobCommands
    <3> QED  BY <3>1, AbstractState
  <2> QED  BY <2>1, <2>2
<1> QED  BY <1>1, InitMaps, StatedInvHolds, PTL DEF Spec, ImplementsDispatch, D!Spec

\* FonDispatch is the same under both names of its instance.
LEMMA SameDispatch == ImplementsDispatch => P!Spec
<1>1. D!Init => P!Init
  BY DEF D!Init, P!Init
<1>2. D!Next => P!Next
  BY Zenon DEF D!Next, P!Next, D!Accept, P!Accept, D!StartBoot, P!StartBoot, D!Lose, P!Lose,
       D!AcceptBoot, P!AcceptBoot, D!Start, P!Start, D!Finish, P!Finish, D!Crash, P!Crash,
       D!Advance, P!Advance, D!Following, P!Following, D!InsertAfter, P!InsertAfter,
       D!DropAt, P!DropAt, D!MayStart, P!MayStart
<1>3. UNCHANGED D!vars => UNCHANGED P!vars
  BY DEF D!vars, P!vars
<1>4. [D!Next]_(D!vars) => [P!Next]_(P!vars)
  BY <1>2, <1>3
<1> QED  BY <1>1, <1>4, PTL DEF ImplementsDispatch, D!Spec, P!Spec

\* The daemon runs no command twice, through any kills and restarts.
THEOREM DaemonAtMostOnce == Spec => []CommandsRunAtMostOnce
<1>1. P!AtMostOnce => CommandsRunAtMostOnce
  BY DEF CommandsRunAtMostOnce, D!AtMostOnce, P!AtMostOnce
<1> QED  BY <1>1, Refinement, SameDispatch, P!AtMostOnceHolds, PTL

\* The commands of one client start in the order of its -l options, fast ones and
\* others each among themselves.
THEOREM DaemonClientOrder == Spec => []ClientOrder
<1>1. P!SourceOrder => ClientOrder
  BY DEF ClientOrder, D!SourceOrder, P!SourceOrder, D!SameClass, P!SameClass
<1> QED  BY <1>1, Refinement, SameDispatch, P!SourceOrderHolds, PTL
=============================================================================
