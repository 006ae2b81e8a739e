-------------------------------- MODULE Luad --------------------------------
(***************************************************************************)
(* The hotspot daemons under luad (package/fonsmcd: src/luad.c,            *)
(* config/fonsmcd.init, fcheck.sh, StartFonsmcd) and those who start and   *)
(* stop them: fonstated's timer, cron, the boot scripts and service.lua.   *)
(*                                                                         *)
(* A daemon is known by its pid file.  Every script that starts one looks  *)
(* whether the file names a live process, and nothing else keeps two       *)
(* scripts apart: between the look and the creation of the file, and       *)
(* between a kill and the removal of the file, the others go on.           *)
(***************************************************************************)
EXTENDS Integers, Sequences, FiniteSets

CONSTANTS Daemons,    \* the daemons of the init script, in its order
          Service,    \* the one that services.fonsmcd runs
          Grepped,    \* Grepped[d]: the process name that fcheck looks for
          Pids,       \* process ids
          None,       \* no daemon
          MaxFaults   \* bound: crashes, hangs, late answers, foreign processes,
                      \* changes of the setting

Names  == {Daemons[i] : i \in DOMAIN Daemons}

\* Who runs a script: the init script as S98fonsmcd at boot and as fonsmcd from cron
\* later, fonstated, and the launcher that service.lua leaves behind.
Actors == {"boot", "cron", "fonstated", "service"}

ASSUME LuadAssumption ==
    /\ Daemons \in Seq(Names) /\ Service \in Names /\ None \notin Names
    /\ \A i, j \in DOMAIN Daemons : Daemons[i] = Daemons[j] => i = j
    /\ Pids \subseteq Nat \ {0} /\ Pids # {}
    /\ MaxFaults \in Nat

VARIABLES proc,     \* proc[p]: what runs with pid p
          term,     \* processes with a SIGTERM on its way
          file,     \* file[d]: the pid in /var/run/d/pid, Empty or NoDir
          todo,     \* todo[a]: what is left of the script a runs
          wait,     \* wait[a]: the process that the first of those waits for, Gone or 0
          cron,     \* the crontab has the line for fcheck
          hung,     \* fonstated spins in system_printf()
          svcpid,   \* there is a pid on record in services.fonsmcd.pid
          faults,
          cut,      \* history: cron's restart was killed and has not been completed since
          raced     \* history: raced[d]: a start-up of d met another, or a removal

scripts == <<todo, wait>>
vars == <<proc, term, file, scripts, cron, hung, svcpid, faults, cut, raced>>

Free     == [d |-> None, at |-> "free"]
Other    == [d |-> None, at |-> "other"]
Luad(d, at) == [d |-> d, at |-> at]

Starting == {"forked", "dir", "created", "failed"}
Ats      == {"forked", "dir", "created", "failed", "runs", "gaveup"}

Empty == 0
NoDir == -1
Gone  == -1     \* a launcher waits for a daemon that is no more

Alive(p) == proc[p] # Free
Running(d) == \E p \in Pids : proc[p] = Luad(d, "runs")
FreePids == {p \in Pids : ~Alive(p)}

Crons == {"cron", "nocron"}
Ops   == {"luad", "kill", "rm", "svcstop", "svcstart", "killall"}
Cmd(op, d) == [op |-> op, d |-> d]
Cmds == [op : Ops, d : Names] \cup [op : Crons, d : {None}]

-----------------------------------------------------------------------------
(* The scripts, as the commands they run.                                  *)

InitStart ==
    [i \in DOMAIN Daemons |-> Cmd("luad", Daemons[i])] \o <<Cmd("cron", None)>>

\* Mutant: the directory, and with it the pid file, stays.
InitStopNoRm ==
    <<Cmd("nocron", None)>> \o [i \in DOMAIN Daemons |-> Cmd("kill", Daemons[i])]

\* Every daemon is killed and its directory removed.
InitStop ==
    <<Cmd("nocron", None)>>
        \o [i \in 1 .. 2 * Len(Daemons) |->
              LET d == Daemons[(i + 1) \div 2] IN Cmd(IF i % 2 = 1 THEN "kill" ELSE "rm", d)]

InitRestart == InitStop \o InitStart

StartFonsmcd(on) ==
    IF on THEN <<Cmd("svcstop", Service), Cmd("svcstart", Service)>>
          ELSE <<Cmd("svcstop", Service), Cmd("killall", Service)>>

-----------------------------------------------------------------------------
(* The pid file functions of libdaemon.                                    *)

\* daemon_pid_file_is_running(): the process the file names, or 0; the file of
\* a process that died is removed.
PidRunning(d) == IF file[d] \in Pids /\ Alive(file[d]) THEN file[d] ELSE 0
Unstale(d) == IF file[d] \in Pids /\ ~Alive(file[d]) THEN Empty ELSE file[d]

\* daemon_pid_file_remove() does not ask whose file it is.
Removed(d) == IF file[d] = NoDir THEN NoDir ELSE Empty

-----------------------------------------------------------------------------
(* The scripts, step by step.                                              *)

Head1(a, op) == todo[a] # <<>> /\ Head(todo[a]).op = op
Arg(a) == Head(todo[a]).d

\* The processes dead have ended: their launchers get the end of the pipe.
Without(dead) == [p \in Pids |-> IF p \in dead THEN Free ELSE proc[p]]
WaitWithout(dead) ==
    [a \in Actors |-> IF wait[a] \in dead /\ Head1(a, "luad") THEN Gone ELSE wait[a]]

Dies(p) == proc' = Without({p}) /\ term' = term \ {p} /\ wait' = WaitWithout({p})

Pop(a) == /\ todo' = [todo EXCEPT ![a] = Tail(@)]
          /\ wait' = [wait EXCEPT ![a] = 0]

\* Mutant: no check that the daemon runs already.
LuadStartTwice(a) ==
    /\ Head1(a, "luad") /\ wait[a] = 0
    /\ LET d == Arg(a) IN
          /\ \E p \in FreePids :
                /\ proc' = [proc EXCEPT ![p] = Luad(d, "forked")]
                /\ wait' = [wait EXCEPT ![a] = p]
          /\ raced' = [raced EXCEPT ![d] =
                         @ \/ \E p \in Pids : proc[p] \in {Luad(d, "forked"), Luad(d, "dir")}]
    /\ UNCHANGED <<todo, file, term, cron, hung, svcpid, faults, cut>>

\* main() of luad up to the fork.
LuadStart(a) ==
    /\ Head1(a, "luad") /\ wait[a] = 0
    /\ LET d == Arg(a) IN
          /\ file' = [file EXCEPT ![d] = Unstale(d)]
          /\ \/ /\ PidRunning(d) # 0 \/ FreePids = {}
                /\ Pop(a)
                /\ UNCHANGED <<proc, raced>>
             \/ /\ PidRunning(d) = 0
                /\ \E p \in FreePids :
                      /\ proc' = [proc EXCEPT ![p] = Luad(d, "forked")]
                      /\ wait' = [wait EXCEPT ![a] = p]
                /\ raced' = [raced EXCEPT ![d] =
                               @ \/ \E p \in Pids : proc[p] \in {Luad(d, "forked"), Luad(d, "dir")}]
                /\ UNCHANGED todo
    /\ UNCHANGED <<term, cron, hung, svcpid, faults, cut>>

\* A wait that took too long; the process would still have come to its end.
TooLate == faults < MaxFaults /\ faults' = faults + 1

\* daemon_retval_wait(): the daemon has answered or is gone, or 20 seconds are over.
LuadReturns(a) ==
    /\ Head1(a, "luad") /\ wait[a] # 0
    /\ IF wait[a] # Gone /\ proc[wait[a]].at \in Starting THEN TooLate ELSE UNCHANGED faults
    /\ Pop(a)
    /\ UNCHANGED <<proc, term, file, cron, hung, svcpid, cut, raced>>

\* Mutant: the signal goes to whatever number is in the file.
KillSendUnchecked(a) ==
    /\ Head1(a, "kill") /\ wait[a] = 0
    /\ term' = term \cup {file[Arg(a)]}
    /\ wait' = [wait EXCEPT ![a] = file[Arg(a)]]
    /\ UNCHANGED <<todo, file, proc, cron, hung, svcpid, faults, cut, raced>>

\* luad -k: daemon_pid_file_kill_wait() sends the signal ...
KillSend(a) ==
    /\ Head1(a, "kill") /\ wait[a] = 0
    /\ LET d == Arg(a) IN
          /\ file' = [file EXCEPT ![d] = Unstale(d)]
          /\ IF PidRunning(d) = 0 THEN Pop(a) /\ UNCHANGED term
             ELSE /\ term' = term \cup {PidRunning(d)}
                  /\ wait' = [wait EXCEPT ![a] = PidRunning(d)]
                  /\ UNCHANGED todo
    /\ UNCHANGED <<proc, cron, hung, svcpid, faults, cut, raced>>

\* ... and waits for the process to end, or for five seconds: a foreign process
\* may ignore the signal.
KillReturns(a) ==
    /\ Head1(a, "kill") /\ wait[a] # 0
    /\ IF proc[wait[a]].d # None THEN TooLate ELSE UNCHANGED faults
    /\ Pop(a)
    /\ UNCHANGED <<proc, term, file, cron, hung, svcpid, cut, raced>>

\* rm -rf /var/run/d
RemoveDir(a) ==
    /\ Head1(a, "rm")
    /\ file' = [file EXCEPT ![Arg(a)] = NoDir]
    /\ raced' = [raced EXCEPT ![Arg(a)] = @ \/ \E p \in Pids : proc[p].d = Arg(a)]
    /\ Pop(a)
    /\ UNCHANGED <<proc, term, cron, hung, svcpid, faults, cut>>

Crontab(a) ==
    /\ Head1(a, "cron") \/ Head1(a, "nocron")
    /\ cron' = Head1(a, "cron")
    /\ cut' = (cut /\ ~(a = "cron" /\ cron'))
    /\ Pop(a)
    /\ UNCHANGED <<proc, term, file, hung, svcpid, faults, raced>>

\* Service.stop(): kill -9 of the pid on record: that of the launcher, or when it
\* is gone, of the process that got its pid.
ServiceStop(a) ==
    /\ Head1(a, "svcstop")
    /\ \/ /\ svcpid /\ todo["service"] # <<>>
          /\ todo' = [todo EXCEPT ![a] = Tail(@), !["service"] = <<>>]
          /\ wait' = [wait EXCEPT ![a] = 0, !["service"] = 0]
          /\ svcpid' = FALSE
          /\ UNCHANGED <<proc, term>>
       \/ /\ svcpid /\ todo["service"] = <<>>
          /\ \E p \in Pids : Alive(p) /\ Dies(p)
          /\ todo' = [todo EXCEPT ![a] = Tail(@)]
          /\ svcpid' = FALSE
       \/ /\ todo["service"] = <<>>
          /\ Pop(a)
          /\ UNCHANGED <<proc, term, svcpid>>
    /\ UNCHANGED <<file, cron, hung, faults, cut, raced>>

\* Service.start(): records the pid of the launcher, and does not wait for it.
ServiceStart(a) ==
    /\ Head1(a, "svcstart")
    /\ svcpid' = TRUE
    /\ todo' = [todo EXCEPT ![a] = Tail(@), !["service"] = <<Cmd("luad", Service)>>]
    /\ wait' = [wait EXCEPT ![a] = 0, !["service"] = 0]
    /\ UNCHANGED <<proc, term, file, cron, hung, faults, cut, raced>>

\* b waits for a command called d.
Called(b, d) == todo[b] # <<>> /\ Head(todo[b]).d = d /\ Head(todo[b]).op \in {"luad", "kill"}

\* What goes on when cron's restart is killed: the command that it waits for, if that
\* is not called d itself; a crontab that was to read the restart's echo reads nothing.
Orphans(d) ==
    IF todo["cron"] = <<>> \/ Called("cron", d) THEN {<<>>}
    ELSE {<<Head(todo["cron"])>>}
           \cup {o \in {<<>>} : wait["cron"] = 0}
           \cup {o \in {<<Cmd("nocron", None)>>} : Head1("cron", "cron")}

\* killall -9 fonsmcd goes by the name: daemons, launchers, a luad -k, and the init
\* script that cron runs as /etc/init.d/fonsmcd, between any two of its commands.
KillAll(a) ==
    /\ Head1(a, "killall")
    /\ LET d == Arg(a)
           killed == {p \in Pids : proc[p].d = d}
       IN  /\ proc' = Without(killed)
           /\ term' = term \ killed
           /\ \E orphan \in Orphans(d),
                 ended \in SUBSET {b \in Actors \ {"cron"} : Called(b, d)} :
                 /\ \A b \in Actors \ {"cron"} :
                       Called(b, d) /\ (wait[b] # 0 \/ b = "service") => b \in ended
                 /\ todo' = [b \in Actors |-> IF b = "cron" THEN orphan
                                ELSE IF b \in ended \cup {a} THEN Tail(todo[b]) ELSE todo[b]]
                 /\ wait' = [b \in Actors |->
                                IF b \in ended \cup {a} \/ (b = "cron" /\ orphan = <<>>)
                                THEN 0 ELSE wait[b]]
    /\ cut' = (cut \/ todo["cron"] # <<>>)
    /\ UNCHANGED <<file, cron, hung, svcpid, faults, raced>>

ScriptStep(a) ==
    \/ LuadStart(a) \/ LuadReturns(a) \/ KillSend(a) \/ KillReturns(a) \/ RemoveDir(a)
    \/ Crontab(a) \/ ServiceStop(a) \/ ServiceStart(a) \/ KillAll(a)

-----------------------------------------------------------------------------
(* Who runs the scripts.                                                   *)

Runs(a, script) ==
    /\ todo[a] = <<>>
    /\ todo' = [todo EXCEPT ![a] = script]
    /\ wait' = [wait EXCEPT ![a] = 0]

\* process_wdt(): nobody writes /tmp/run/fonsmcd.pid, the file it looks for.
Watchdog ==
    /\ ~hung
    /\ Runs("fonstated", InitStart)
    /\ UNCHANGED <<proc, term, file, cron, hung, svcpid, faults, cut, raced>>

\* system_printf() after a fork() that failed, without a child to wait for.
Hangs ==
    /\ ~hung /\ todo["fonstated"] = <<>> /\ faults < MaxFaults
    /\ hung' = TRUE
    /\ faults' = faults + 1
    /\ UNCHANGED <<proc, term, file, scripts, cron, svcpid, cut, raced>>

\* fon.advanced.sharewifi and fonstated runs StartFonsmcd.
ChangeShare ==
    /\ ~hung /\ faults < MaxFaults
    /\ \E on \in BOOLEAN : Runs("fonstated", StartFonsmcd(on))
    /\ faults' = faults + 1
    /\ UNCHANGED <<proc, term, file, cron, hung, svcpid, cut, raced>>

\* fcheck, every 15 minutes; the boot script has come to its end by then.
Fcheck ==
    /\ cron /\ todo["boot"] = <<>>
    /\ \E d \in Names : ~\E p \in Pids : proc[p].d # None /\ proc[p].d = Grepped[d]
    /\ Runs("cron", InitRestart)
    /\ UNCHANGED <<proc, term, file, cron, hung, svcpid, faults, cut, raced>>

-----------------------------------------------------------------------------
(* The daemon: main() of luad after the fork.                              *)

Becomes(p, at) == proc' = [proc EXCEPT ![p] = Luad(proc[p].d, at)]

rest == <<todo, cron, hung, svcpid, faults, cut, raced>>

MakeRuntimeDir(p) ==
    /\ proc[p].at = "forked"
    /\ Becomes(p, "dir")
    /\ file' = [file EXCEPT ![proc[p].d] = IF @ = NoDir THEN Empty ELSE @]
    /\ UNCHANGED <<term, wait, rest>>

\* daemon_pid_file_create() fails if there is a file, or no directory.
CreatePidFile(p) ==
    /\ proc[p].at = "dir"
    /\ IF file[proc[p].d] = Empty
       THEN /\ file' = [file EXCEPT ![proc[p].d] = p]
            /\ Becomes(p, "created")
       ELSE /\ Becomes(p, "failed")
            /\ UNCHANGED file
    /\ UNCHANGED <<term, wait, rest>>

\* It succeeds.
Creates(p) == CreatePidFile(p) /\ file[proc[p].d] = Empty

\* The handler for SIGTERM is set, and the Lua program runs.
RunLua(p) ==
    /\ proc[p].at = "created"
    /\ Becomes(p, "runs")
    /\ UNCHANGED <<term, wait, file, rest>>

\* restart_max() says yes: it adds to a number nobody initialised.
GiveUp(p) ==
    /\ proc[p].at = "runs"
    /\ Becomes(p, "gaveup")
    /\ UNCHANGED <<term, wait, file, rest>>

\* finish: the file is removed, also by a daemon that could not create it.
Finish(p) ==
    /\ proc[p].at \in {"failed", "gaveup"}
    /\ file' = [file EXCEPT ![proc[p].d] = Removed(proc[p].d)]
    /\ Dies(p)
    /\ UNCHANGED rest

\* SIGTERM ends a process; the handler of a daemon removes the pid file.
Terminate(p) ==
    /\ p \in term
    /\ Dies(p)
    /\ file' = IF proc[p].at \in {"runs", "gaveup"}
               THEN [file EXCEPT ![proc[p].d] = Removed(proc[p].d)] ELSE file
    /\ UNCHANGED rest

DaemonStep(p) ==
    MakeRuntimeDir(p) \/ CreatePidFile(p) \/ RunLua(p) \/ Finish(p)

\* kill -9 from elsewhere, or no memory.
Crash(p) ==
    /\ proc[p].d # None /\ faults < MaxFaults
    /\ Dies(p)
    /\ faults' = faults + 1
    /\ UNCHANGED <<file, todo, cron, hung, svcpid, cut, raced>>

\* A pid goes to a process that has nothing to do with all this; one such
\* process at a time, and it does not get the last pid.
OtherStarts(p) ==
    /\ ~Alive(p) /\ faults < MaxFaults
    /\ FreePids # {p} /\ \A q \in Pids : proc[q] # Other
    /\ proc' = [proc EXCEPT ![p] = Other]
    /\ faults' = faults + 1
    /\ UNCHANGED <<term, file, scripts, cron, hung, svcpid, cut, raced>>

OtherEnds(p) ==
    /\ proc[p] = Other
    /\ Dies(p)
    /\ UNCHANGED <<file, rest>>

-----------------------------------------------------------------------------
\* The boot scripts run the init script, and fonstated the events of BootServices.
Init ==
    /\ proc = [p \in Pids |-> Free]
    /\ term = {}
    /\ file = [d \in Names |-> NoDir]
    /\ \E on \in BOOLEAN :
          todo = [a \in Actors |-> CASE a = "boot" -> InitStart
                                     [] a = "fonstated" -> StartFonsmcd(on)
                                     [] OTHER -> <<>>]
    /\ wait = [a \in Actors |-> 0]
    /\ cron = FALSE /\ hung = FALSE /\ svcpid = FALSE /\ faults = 0
    /\ cut = FALSE
    /\ raced = [d \in Names |-> FALSE]

Next ==
    \/ \E a \in Actors : ScriptStep(a)
    \/ Watchdog \/ Hangs \/ ChangeShare \/ Fcheck
    \/ \E p \in Pids : \/ DaemonStep(p) \/ GiveUp(p) \/ Terminate(p)
                       \/ Crash(p) \/ OtherStarts(p) \/ OtherEnds(p)

Spec == Init /\ [][Next]_vars

\* Scripts and daemons do not stop half-way, signals arrive, cron and (unless it
\* hangs) fonstated come round again.  A start-up takes a moment, fonstated begins
\* one every 12 seconds and fcheck comes every 15 minutes: its kill or its rm does
\* not meet every start-up half-way.
Fairness ==
    /\ \A a \in Actors : WF_vars(ScriptStep(a))
    /\ \A p \in Pids : /\ WF_vars(DaemonStep(p))
                      /\ WF_vars(Terminate(p) /\ proc[p] # Other)
                      /\ SF_vars(RunLua(p)) /\ SF_vars(Creates(p))
    /\ WF_vars(Watchdog) /\ WF_vars(Fcheck)

FairSpec == Spec /\ Fairness

-----------------------------------------------------------------------------
\* The type invariant.  Signals go to processes that are alive, and to one each.
TypeOK ==
    /\ proc \in [Pids -> {Free, Other} \cup {Luad(d, at) : d \in Names, at \in Ats}]
    /\ term \subseteq Pids /\ \A p \in term : Alive(p)
    /\ file \in [Names -> Pids \cup {Empty, NoDir}]
    /\ todo \in [Actors -> Seq(Cmds)]
    /\ wait \in [Actors -> Pids \cup {0, Gone}]
    /\ cron \in BOOLEAN /\ hung \in BOOLEAN
    /\ svcpid \in BOOLEAN /\ faults \in 0 .. MaxFaults
    /\ cut \in BOOLEAN
    /\ raced \in [Names -> BOOLEAN]

Owning == {"created", "runs", "gaveup"}

\* Through crashes, late signals and pids that other processes get, a daemon has
\* one process at most and once it is up the pid file names it: unless two
\* start-ups have met, or a script removed the file of a daemon it did not kill.
FileNamesDaemon ==
    \A d \in Names : ~raced[d] =>
        \A p \in Pids : proc[p].d = d =>
            /\ \A q \in Pids : proc[q].d = d => q = p
            /\ proc[p].at \in Owning => file[d] = p

\* Whatever crashes, and if a foreign process has the pid in the file, every daemon
\* runs again some time: fcheck's restart sees to it, or fonstated's timer.  Both are
\* gone only when fonstated hangs (system_printf) after StartFonsmcd's killall has met
\* the restart: then the crontab may be left without its line.
Recovers == \A d \in Names : []<>(Running(d) \/ (hung /\ cut))

\* luad.c, main(): "Check that the daemon is not run twice a the same time".
NotTwice == \A d \in Names : \A p, q \in Pids :
    proc[p] = Luad(d, "runs") /\ proc[q] = Luad(d, "runs") => p = q
=============================================================================
