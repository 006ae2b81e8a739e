----------------------------- MODULE LuadProofs -----------------------------
(***************************************************************************)
(* Proofs about Luad: its types, and that a daemon has one process and the *)
(* pid file names it, as long as no start-up has met another or a removal. *)
(***************************************************************************)
EXTENDS Luad, TLAPS

\* While a daemon starts up, the file is not there; it does not fail to create it.
StartsAlone ==
    \A d \in Names : ~raced[d] =>
        \A p \in Pids : proc[p].d = d =>
            /\ proc[p].at = "forked" => file[d] \in {Empty, NoDir}
            /\ proc[p].at = "dir" => file[d] = Empty
            /\ proc[p].at # "failed"

IInv == FileNamesDaemon /\ StartsAlone

Procs == {Free, Other} \cup {Luad(d, at) : d \in Names, at \in Ats}

-----------------------------------------------------------------------------
(* Types.                                                                  *)

\* What the fields of a process may be.
LEMMA ProcFields ==
    ASSUME NEW x \in Procs
    PROVE  /\ x.d \in Names \cup {None} /\ x.at \in Ats \cup {"free", "other"}
           /\ x.d # None => x = Luad(x.d, x.at) /\ x.at \in Ats
           /\ x.d = None <=> x \in {Free, Other}
BY LuadAssumption DEF Procs, Free, Other, Luad, Ats

\* What a daemon's fields are.
LEMMA LuadFields ==
    ASSUME NEW d, NEW at
    PROVE  Luad(d, at).d = d /\ Luad(d, at).at = at
BY DEF Luad

\* The scripts are sequences of commands.
LEMMA ScriptsTyped ==
    /\ InitStart \in Seq(Cmds) /\ InitStop \in Seq(Cmds) /\ InitRestart \in Seq(Cmds)
    /\ \A on \in BOOLEAN : StartFonsmcd(on) \in Seq(Cmds)
<1>1. Len(Daemons) \in Nat /\ DOMAIN Daemons = 1 .. Len(Daemons)
  BY LuadAssumption
<1>2. \A i \in DOMAIN Daemons : Daemons[i] \in Names
  BY DEF Names
<1>3. /\ \A op \in Ops, d \in Names : Cmd(op, d) \in Cmds
      /\ \A op \in Crons : Cmd(op, None) \in Cmds
  BY DEF Cmd, Cmds
<1>4. InitStart \in Seq(Cmds)
  <2>1. [i \in DOMAIN Daemons |-> Cmd("luad", Daemons[i])] \in Seq(Cmds)
    BY <1>1, <1>2, <1>3 DEF Ops
  <2>2. <<Cmd("cron", None)>> \in Seq(Cmds)
    BY <1>3 DEF Crons
  <2> QED BY <2>1, <2>2 DEF InitStart
<1>5. InitStop \in Seq(Cmds)
  <2> DEFINE S == [i \in 1 .. 2 * Len(Daemons) |->
              LET d == Daemons[(i + 1) \div 2] IN Cmd(IF i % 2 = 1 THEN "kill" ELSE "rm", d)]
  <2>1. \A i \in 1 .. 2 * Len(Daemons) : (i + 1) \div 2 \in 1 .. Len(Daemons)
    BY <1>1
  <2>2. \A i \in 1 .. 2 * Len(Daemons) : S[i] \in Cmds
    BY <2>1, <1>1, <1>2, <1>3 DEF Ops
  <2>3. S \in Seq(Cmds)
    BY <2>2, <1>1
  <2>4. <<Cmd("nocron", None)>> \in Seq(Cmds)
    BY <1>3 DEF Crons
  <2> QED BY <2>3, <2>4 DEF InitStop
<1>6. InitRestart \in Seq(Cmds)
  BY <1>4, <1>5 DEF InitRestart
<1>7. \A on \in BOOLEAN : StartFonsmcd(on) \in Seq(Cmds)
  BY <1>3, LuadAssumption DEF StartFonsmcd, Ops
<1> QED BY <1>4, <1>5, <1>6, <1>7

\* A script has gone on by one command.
LEMMA PopTyped ==
    ASSUME TypeOK, NEW a \in Actors, todo[a] # <<>>, Pop(a)
    PROVE  todo' \in [Actors -> Seq(Cmds)] /\ wait' \in [Actors -> Pids \cup {0, Gone}]
BY DEF TypeOK, Pop

\* Processes have ended.
LEMMA WithoutTyped ==
    ASSUME TypeOK, NEW dead \in SUBSET Pids, proc' = Without(dead), term' = term \ dead
    PROVE  /\ proc' \in [Pids -> Procs] /\ WaitWithout(dead) \in [Actors -> Pids \cup {0, Gone}]
           /\ term' \subseteq Pids /\ \A p \in term' : Alive(p)'
           /\ \A p \in Pids : proc'[p] = proc[p] \/ proc'[p] = Free
BY DEF TypeOK, Without, WaitWithout, Alive, Procs

\* One process has ended.
LEMMA DiesTyped ==
    ASSUME TypeOK, NEW p \in Pids, Dies(p)
    PROVE  /\ proc' \in [Pids -> Procs] /\ wait' \in [Actors -> Pids \cup {0, Gone}]
           /\ term' \subseteq Pids /\ \A q \in term' : Alive(q)'
           /\ \A q \in Pids : proc'[q] = IF q = p THEN Free ELSE proc[q]
<1>1. {p} \in SUBSET Pids
  OBVIOUS
<1>2. \A q \in Pids : proc'[q] = IF q = p THEN Free ELSE proc[q]
  BY DEF Dies, Without
<1> QED BY <1>1, <1>2, WithoutTyped DEF Dies

\* The file is there and names nobody, or is not there.
LEMMA RemovedTyped ==
    ASSUME TypeOK, NEW d \in Names
    PROVE  [file EXCEPT ![d] = Removed(d)] \in [Names -> Pids \cup {Empty, NoDir}]
BY DEF TypeOK, Removed

\* A function that changed in two places.
LEMMA TwoExcepts ==
    ASSUME NEW S, NEW T, NEW f \in [S -> T], NEW a, NEW b, NEW x \in T, NEW y \in T
    PROVE  [f EXCEPT ![a] = x, ![b] = y] \in [S -> T]
<1>1. [f EXCEPT ![a] = x] \in [S -> T]
  OBVIOUS
<1> QED BY <1>1

\* The argument of a command.
LEMMA ArgTyped ==
    ASSUME TypeOK, NEW a \in Actors, NEW op \in Ops, Head1(a, op)
    PROVE  Arg(a) \in Names /\ todo[a] # <<>>
BY DEF TypeOK, Arg, Head1, Cmds, Ops, Crons

\* What goes on of a restart that was killed is a script.
LEMMA OrphansTyped ==
    ASSUME TypeOK, NEW d, NEW o \in Orphans(d)
    PROVE  o \in Seq(Cmds)
<1>1. todo["cron"] \in Seq(Cmds)
  BY DEF TypeOK, Actors
<1>2. Cmd("nocron", None) \in Cmds
  BY DEF Cmd, Cmds, Crons
<1>3. todo["cron"] # <<>> => <<Head(todo["cron"])>> \in Seq(Cmds)
  BY <1>1
<1>4. o = <<>> \/ (todo["cron"] # <<>> /\ o = <<Head(todo["cron"])>>) \/ o = <<Cmd("nocron", None)>>
  BY DEF Orphans
<1>5. <<>> \in Seq(Cmds) /\ <<Cmd("nocron", None)>> \in Seq(Cmds)
  BY <1>2
<1> QED BY <1>3, <1>4, <1>5

\* A process has moved on.
LEMMA BecomesTyped ==
    ASSUME TypeOK, NEW p \in Pids, proc[p].d \in Names, NEW at \in Ats, Becomes(p, at), term' = term
    PROVE  /\ proc' \in [Pids -> Procs] /\ term' \subseteq Pids /\ \A q \in term' : Alive(q)'
           /\ proc' = [proc EXCEPT ![p] = Luad(proc[p].d, at)]
BY DEF TypeOK, Becomes, Alive, Procs, Luad, Free, Other, Ats

LEMMA DaemonNamed ==
    ASSUME TypeOK, NEW p \in Pids, proc[p].at \in Ats
    PROVE  proc[p].d \in Names
BY DEF TypeOK, Luad, Free, Other, Ats

\* The type invariant is inductive.
LEMMA TypeStep == TypeOK /\ [Next]_vars => TypeOK'
<1> SUFFICES ASSUME TypeOK, [Next]_vars PROVE TypeOK'
  OBVIOUS
<1> USE LuadAssumption
<1>1. ASSUME NEW a \in Actors, ScriptStep(a) PROVE TypeOK'
  <2>1. CASE LuadStart(a)
    <3>1. Arg(a) \in Names /\ todo[a] # <<>>
      BY <2>1, ArgTyped DEF LuadStart, Ops
    <3>2. file' \in [Names -> Pids \cup {Empty, NoDir}]
      BY <2>1, <3>1 DEF LuadStart, Unstale, TypeOK
    <3>3. CASE Pop(a) /\ UNCHANGED <<proc, raced>>
      BY <2>1, <3>2, <3>3, <3>1, PopTyped DEF LuadStart, TypeOK, Alive
    <3>4. CASE /\ \E p \in FreePids : /\ proc' = [proc EXCEPT ![p] = Luad(Arg(a), "forked")]
                                     /\ wait' = [wait EXCEPT ![a] = p]
               /\ raced' = [raced EXCEPT ![Arg(a)] = @ \/ \E p \in Pids :
                                proc[p] \in {Luad(Arg(a), "forked"), Luad(Arg(a), "dir")}]
               /\ UNCHANGED todo
      <4>1. PICK p \in FreePids : /\ proc' = [proc EXCEPT ![p] = Luad(Arg(a), "forked")]
                                  /\ wait' = [wait EXCEPT ![a] = p]
        BY <3>4
      <4>2. p \in Pids
        BY DEF FreePids
      <4>3. proc' \in [Pids -> Procs] /\ \A q \in term : Alive(q)'
        BY <4>1, <4>2, <3>1 DEF TypeOK, Procs, Ats, Alive, Luad, Free
      <4>4. raced' \in [Names -> BOOLEAN]
        BY <3>4, <3>1 DEF TypeOK
      <4> QED BY <2>1, <3>2, <3>4, <4>1, <4>2, <4>3, <4>4 DEF LuadStart, TypeOK, Procs
    <3> QED BY <2>1, <3>3, <3>4 DEF LuadStart
  <2>2. CASE LuadReturns(a)
    BY <2>2, ArgTyped, PopTyped DEF LuadReturns, Ops, TypeOK, TooLate, Alive
  <2>3. CASE KillSend(a)
    <3>1. Arg(a) \in Names /\ todo[a] # <<>>
      BY <2>3, ArgTyped DEF KillSend, Ops
    <3>2. file' \in [Names -> Pids \cup {Empty, NoDir}]
      BY <2>3, <3>1 DEF KillSend, Unstale, TypeOK
    <3>3. CASE Pop(a) /\ UNCHANGED term
      BY <2>3, <3>2, <3>3, <3>1, PopTyped DEF KillSend, TypeOK, Alive
    <3>4. CASE /\ PidRunning(Arg(a)) # 0 /\ term' = term \cup {PidRunning(Arg(a))}
               /\ wait' = [wait EXCEPT ![a] = PidRunning(Arg(a))] /\ UNCHANGED todo
      <4>1. PidRunning(Arg(a)) \in Pids /\ Alive(PidRunning(Arg(a)))
        BY <3>4 DEF PidRunning
      <4>2. term' \subseteq Pids /\ \A q \in term' : Alive(q)'
        <5>1. UNCHANGED proc BY <2>3 DEF KillSend
        <5>2. \A q \in term : q \in Pids /\ Alive(q) BY DEF TypeOK
        <5> HIDE DEF PidRunning
        <5>3. \A q \in term' : q \in Pids /\ Alive(q) BY <3>4, <4>1, <5>2
        <5> QED BY <5>1, <5>3 DEF Alive
      <4>3. wait' \in [Actors -> Pids \cup {0, Gone}]
        BY <3>4, <4>1 DEF TypeOK
      <4> QED BY <2>3, <3>2, <3>4, <4>2, <4>3 DEF KillSend, TypeOK
    <3> QED BY <2>3, <3>3, <3>4 DEF KillSend
  <2>4. CASE KillReturns(a)
    BY <2>4, ArgTyped, PopTyped DEF KillReturns, Ops, TypeOK, TooLate, Alive
  <2>5. CASE RemoveDir(a)
    BY <2>5, ArgTyped, PopTyped DEF RemoveDir, Ops, TypeOK, Alive
  <2>6. CASE Crontab(a)
    <3>1. todo[a] # <<>> BY <2>6 DEF Crontab, Head1
    <3>2. cron' \in BOOLEAN /\ cut' \in BOOLEAN BY <2>6, <3>1 DEF Crontab, Head1, TypeOK
    <3> QED BY <2>6, <3>1, <3>2, PopTyped DEF Crontab, TypeOK, Alive
  <2>7. CASE ServiceStop(a)
    <3>1. Arg(a) \in Names /\ todo[a] # <<>>
      BY <2>7, ArgTyped DEF ServiceStop, Ops
    <3>2. Tail(todo[a]) \in Seq(Cmds) /\ <<>> \in Seq(Cmds)
      BY <3>1 DEF TypeOK
    <3>3. CASE /\ todo' = [todo EXCEPT ![a] = Tail(@), !["service"] = <<>>]
               /\ wait' = [wait EXCEPT ![a] = 0, !["service"] = 0]
               /\ svcpid' = FALSE /\ UNCHANGED <<proc, term>>
      <4>1. /\ todo' \in [Actors -> Seq(Cmds)] /\ wait' \in [Actors -> Pids \cup {0, Gone}]
        BY <3>2, <3>3, TwoExcepts DEF TypeOK
      <4>2. svcpid' \in BOOLEAN BY <3>3
      <4>3. UNCHANGED <<proc, term, file, cron, hung, faults, cut, raced>>
        BY <2>7, <3>3 DEF ServiceStop
      <4> QED BY <4>1, <4>2, <4>3 DEF TypeOK, Alive
    <3>4. CASE /\ \E p \in Pids : Alive(p) /\ Dies(p)
               /\ todo' = [todo EXCEPT ![a] = Tail(@)] /\ svcpid' = FALSE
      <4>1. PICK p \in Pids : Dies(p) BY <3>4
      <4>2. todo' \in [Actors -> Seq(Cmds)]
        BY <3>2, <3>4 DEF TypeOK
      <4>3. UNCHANGED <<file, cron, hung, faults, cut, raced>>
        BY <2>7 DEF ServiceStop
      <4>4. svcpid' \in BOOLEAN BY <3>4
      <4> QED BY <4>1, <4>2, <4>3, <4>4, DiesTyped DEF TypeOK, Procs
    <3>5. CASE Pop(a) /\ UNCHANGED <<proc, term, svcpid>>
      BY <2>7, <3>1, <3>5, PopTyped DEF ServiceStop, TypeOK, Alive
    <3> QED BY <2>7, <3>3, <3>4, <3>5 DEF ServiceStop
  <2>8. CASE ServiceStart(a)
    <3>1. Arg(a) \in Names /\ todo[a] # <<>>
      BY <2>8, ArgTyped DEF ServiceStart, Ops
    <3>2. Tail(todo[a]) \in Seq(Cmds) /\ <<Cmd("luad", Service)>> \in Seq(Cmds)
      BY <3>1 DEF TypeOK, Cmd, Cmds, Ops
    <3>3. /\ todo' \in [Actors -> Seq(Cmds)] /\ wait' \in [Actors -> Pids \cup {0, Gone}]
      BY <2>8, <3>2, TwoExcepts DEF ServiceStart, TypeOK
    <3>4. svcpid' \in BOOLEAN BY <2>8 DEF ServiceStart
    <3>5. UNCHANGED <<proc, term, file, cron, hung, faults, cut, raced>>
      BY <2>8 DEF ServiceStart
    <3> QED BY <3>3, <3>4, <3>5 DEF TypeOK, Alive
  <2>9. CASE KillAll(a)
    <3>1. Arg(a) \in Names /\ todo[a] # <<>>
      BY <2>9, ArgTyped DEF KillAll, Ops
    <3>2. Tail(todo[a]) \in Seq(Cmds)
      BY <3>1 DEF TypeOK
    <3>3. {p \in Pids : proc[p].d = Arg(a)} \in SUBSET Pids
      OBVIOUS
    <3>4. /\ proc' \in [Pids -> Procs]
          /\ term' \subseteq Pids /\ \A p \in term' : Alive(p)'
      BY <2>9, <3>3, WithoutTyped DEF KillAll
    <3>5. PICK orphan \in Orphans(Arg(a)),
               ended \in SUBSET {b \in Actors \ {"cron"} : Called(b, Arg(a))} :
               /\ todo' = [b \in Actors |-> IF b = "cron" THEN orphan
                              ELSE IF b \in ended \cup {a} THEN Tail(todo[b]) ELSE todo[b]]
               /\ wait' = [b \in Actors |->
                              IF b \in ended \cup {a} \/ (b = "cron" /\ orphan = <<>>)
                              THEN 0 ELSE wait[b]]
      BY <2>9 DEF KillAll
    <3>6. todo' \in [Actors -> Seq(Cmds)]
      <4>1. orphan \in Seq(Cmds)
        BY OrphansTyped, <3>5
      <4>2. \A b \in ended \cup {a} : Tail(todo[b]) \in Seq(Cmds)
        BY <3>1, <3>2 DEF TypeOK, Called
      <4> QED BY <3>5, <4>1, <4>2 DEF TypeOK
    <3>7. wait' \in [Actors -> Pids \cup {0, Gone}]
      BY <3>5 DEF TypeOK
    <3>8. cut' \in BOOLEAN /\ UNCHANGED <<file, cron, hung, svcpid, faults, raced>>
      BY <2>9 DEF KillAll, TypeOK
    <3> QED BY <3>4, <3>6, <3>7, <3>8 DEF TypeOK, Procs
  <2> QED BY <1>1, <2>1, <2>2, <2>3, <2>4, <2>5, <2>6, <2>7, <2>8, <2>9 DEF ScriptStep
<1>2. CASE Watchdog
  BY <1>2, ScriptsTyped DEF Watchdog, Runs, TypeOK, Alive, Actors
<1>3. CASE Hangs
  BY <1>3 DEF Hangs, TypeOK, Alive, scripts
<1>4. CASE ChangeShare
  BY <1>4, ScriptsTyped DEF ChangeShare, Runs, TypeOK, Alive, Actors
<1>5. CASE Fcheck
  BY <1>5, ScriptsTyped DEF Fcheck, Runs, TypeOK, Alive, Actors
<1>6. ASSUME NEW p \in Pids,
             DaemonStep(p) \/ GiveUp(p) \/ Terminate(p) \/ Crash(p) \/ OtherStarts(p) \/ OtherEnds(p)
      PROVE  TypeOK'
  <2>1. CASE MakeRuntimeDir(p)
    BY <2>1, DaemonNamed, BecomesTyped DEF MakeRuntimeDir, TypeOK, rest, Procs, Ats
  <2>2. CASE CreatePidFile(p)
    <3>1. proc[p].d \in Names
      BY <2>2, DaemonNamed DEF CreatePidFile, Ats
    <3>2. /\ proc' \in [Pids -> Procs] /\ term' \subseteq Pids /\ \A q \in term' : Alive(q)'
      BY <2>2, <3>1, BecomesTyped DEF CreatePidFile, Ats
    <3>3. file' \in [Names -> Pids \cup {Empty, NoDir}]
      BY <2>2, <3>1 DEF CreatePidFile, TypeOK
    <3> QED BY <2>2, <3>2, <3>3 DEF CreatePidFile, TypeOK, rest, Procs
  <2>3. CASE RunLua(p)
    BY <2>3, DaemonNamed, BecomesTyped DEF RunLua, TypeOK, rest, Procs, Ats
  <2>4. CASE GiveUp(p)
    BY <2>4, DaemonNamed, BecomesTyped DEF GiveUp, TypeOK, rest, Procs, Ats
  <2>5. CASE Finish(p)
    <3>1. file' \in [Names -> Pids \cup {Empty, NoDir}]
      BY <2>5, DaemonNamed, RemovedTyped DEF Finish, Ats
    <3>2. UNCHANGED <<todo, cron, hung, svcpid, faults, cut, raced>> /\ Dies(p)
      BY <2>5 DEF Finish, rest
    <3> QED BY <3>1, <3>2, DiesTyped DEF TypeOK, Procs
  <2>6. CASE Terminate(p)
    <3>1. file' \in [Names -> Pids \cup {Empty, NoDir}]
      <4>1. file \in [Names -> Pids \cup {Empty, NoDir}]
        BY DEF TypeOK
      <4> QED BY <2>6, <4>1, DaemonNamed, RemovedTyped DEF Terminate, Ats
    <3>2. UNCHANGED <<todo, cron, hung, svcpid, faults, cut, raced>> /\ Dies(p)
      BY <2>6 DEF Terminate, rest
    <3> QED BY <3>1, <3>2, DiesTyped DEF TypeOK, Procs
  <2>7. CASE Crash(p)
    <3>1. UNCHANGED <<file, todo, cron, hung, svcpid, cut, raced>> /\ Dies(p)
      BY <2>7 DEF Crash
    <3>2. faults' \in 0 .. MaxFaults
      BY <2>7 DEF Crash, TypeOK
    <3> QED BY <3>1, <3>2, DiesTyped DEF TypeOK, Procs
  <2>8. CASE OtherStarts(p)
    BY <2>8 DEF OtherStarts, TypeOK, Alive, scripts, Free, Other
  <2>9. CASE OtherEnds(p)
    <3>1. UNCHANGED <<file, todo, cron, hung, svcpid, faults, cut, raced>> /\ Dies(p)
      BY <2>9 DEF OtherEnds, rest
    <3> QED BY <3>1, DiesTyped DEF TypeOK, Procs
  <2> QED BY <1>6, <2>1, <2>2, <2>3, <2>4, <2>5, <2>6, <2>7, <2>8, <2>9 DEF DaemonStep
<1>7. CASE UNCHANGED vars
  BY <1>7 DEF vars, scripts, TypeOK, Alive
<1> QED BY <1>1, <1>2, <1>3, <1>4, <1>5, <1>6, <1>7 DEF Next

-----------------------------------------------------------------------------
(* One process, and the file names it.                                     *)

\* What the invariant says of daemon d.
Single(d) ==
    \A p \in Pids : proc[p].d = d =>
        /\ \A q \in Pids : proc[q].d = d => q = p
        /\ proc[p].at \in Owning => file[d] = p
        /\ proc[p].at = "forked" => file[d] \in {Empty, NoDir}
        /\ proc[p].at = "dir" => file[d] = Empty
        /\ proc[p].at # "failed"

LEMMA InvSingle == IInv <=> \A d \in Names : ~raced[d] => Single(d)
BY DEF IInv, FileNamesDaemon, StartsAlone, Single

\* Processes end, and the file stays or there is nobody whose file it could be.
LEMMA KeepsInv ==
    ASSUME IInv,
           \A p \in Pids : proc'[p] = proc[p] \/ proc'[p].d \notin Names,
           \A d \in Names : ~raced'[d] =>
               ~raced[d] /\ (file'[d] = file[d] \/ \A p \in Pids : proc'[p].d # d)
    PROVE  IInv'
<1> SUFFICES ASSUME NEW d \in Names, ~raced'[d] PROVE Single(d)'
  BY DEF IInv, FileNamesDaemon, StartsAlone, Single
<1>1. Single(d)
  BY InvSingle
<1> SUFFICES ASSUME NEW p \in Pids, proc'[p].d = d
             PROVE  /\ \A q \in Pids : proc'[q].d = d => q = p
                    /\ proc'[p].at \in Owning => file'[d] = p
                    /\ proc'[p].at = "forked" => file'[d] \in {Empty, NoDir}
                    /\ proc'[p].at = "dir" => file'[d] = Empty
                    /\ proc'[p].at # "failed"
  BY DEF Single
<1>2. proc'[p] = proc[p] /\ file'[d] = file[d]
  OBVIOUS
<1>3. \A q \in Pids : proc'[q].d = d => proc[q].d = d
  OBVIOUS
<1> QED BY <1>1, <1>2, <1>3 DEF Single

\* A process of a daemon on record is alive.
LEMMA NamedAlive ==
    ASSUME TypeOK, NEW p \in Pids, proc[p].d \in Names
    PROVE  Alive(p) /\ proc[p].at \in Ats /\ proc[p] \notin {Free, Other}
<1>1. proc[p] \in Procs
  BY DEF TypeOK, Procs
<1> QED BY <1>1, ProcFields, LuadAssumption DEF Alive, Free, Other

\* Looking at the file of a daemon that has a process leaves the file alone.
LEMMA UnstaleKeeps ==
    ASSUME TypeOK, NEW d \in Names, Single(d), NEW p \in Pids, proc[p].d = d
    PROVE  Unstale(d) = file[d]
<1>1. Alive(p) /\ proc[p].at \in Ats
  BY NamedAlive
<1>2. Empty \notin Pids /\ NoDir \notin Pids
  BY LuadAssumption DEF Empty, NoDir
<1>3. CASE proc[p].at \in Owning
  BY <1>1, <1>3 DEF Single, Unstale
<1>4. CASE proc[p].at \in {"forked", "dir"}
  BY <1>2, <1>4 DEF Single, Unstale
<1> QED BY <1>1, <1>3, <1>4 DEF Ats, Owning, Single

\* A file that names a running process is found, and no daemon begins.
LEMMA OwnerFound ==
    ASSUME TypeOK, NEW d \in Names, Single(d), PidRunning(d) = 0, NEW p \in Pids, proc[p].d = d
    PROVE  proc[p] \in {Luad(d, "forked"), Luad(d, "dir")}
<1>1. Alive(p) /\ proc[p].at \in Ats /\ proc[p] \in Procs
  BY NamedAlive DEF TypeOK, Procs
<1>2. proc[p] = Luad(d, proc[p].at)
  BY <1>1, ProcFields, LuadAssumption
<1>3. 0 \notin Pids
  BY LuadAssumption
<1>4. proc[p].at \notin Owning
  BY <1>1, <1>3 DEF Single, PidRunning
<1>5. proc[p].at \in {"forked", "dir"}
  BY <1>1, <1>4 DEF Single, Ats, Owning
<1> QED BY <1>2, <1>5

\* A daemon begins: if there is another one that has not got its file yet, that
\* is a race; and there is none that has.
LEMMA StartKeeps ==
    ASSUME TypeOK, IInv, NEW a \in Actors, LuadStart(a)
    PROVE  IInv'
<1>1. Arg(a) \in Names
  BY ArgTyped DEF LuadStart, Ops
<1> DEFINE e == Arg(a)
<1>2. file' = [file EXCEPT ![e] = Unstale(e)] /\ file \in [Names -> Pids \cup {Empty, NoDir}]
  BY DEF LuadStart, TypeOK
<1> HIDE DEF e
<1>3. CASE UNCHANGED <<proc, raced>>
  <2>1. \A d \in Names : ~raced[d] => file'[d] = file[d] \/ \A p \in Pids : proc[p].d # d
    BY <1>2, InvSingle, UnstaleKeeps
  <2> QED BY <1>3, <2>1, KeepsInv
<1>4. CASE /\ PidRunning(e) = 0
           /\ \E p \in FreePids : proc' = [proc EXCEPT ![p] = Luad(e, "forked")]
           /\ raced' = [raced EXCEPT ![e] = @ \/ \E p \in Pids :
                            proc[p] \in {Luad(e, "forked"), Luad(e, "dir")}]
  <2>1. PICK p \in FreePids : proc' = [proc EXCEPT ![p] = Luad(e, "forked")]
    BY <1>4
  <2>2. p \in Pids
    BY DEF FreePids
  <2>3. \A q \in Pids : proc'[q] = IF q = p THEN Luad(e, "forked") ELSE proc[q]
    BY <2>1, <2>2 DEF TypeOK
  <2>4. SUFFICES ASSUME NEW d \in Names, ~raced'[d] PROVE Single(d)'
    BY DEF IInv, FileNamesDaemon, StartsAlone, Single
  <2>5. ~raced[d] /\ (d = e => ~\E q \in Pids : proc[q] \in {Luad(e, "forked"), Luad(e, "dir")})
    <3> DEFINE met == \E q \in Pids : proc[q] \in {Luad(e, "forked"), Luad(e, "dir")}
    <3>1. raced \in [Names -> BOOLEAN] /\ raced' = [raced EXCEPT ![e] = raced[e] \/ met]
      BY <1>4 DEF TypeOK
    <3> HIDE DEF met
    <3>2. d = e => raced'[d] = (raced[d] \/ met)
      BY <3>1
    <3>3. d # e => raced'[d] = raced[d]
      BY <3>1
    <3>4. ~raced[d] /\ (d = e => ~met)
      BY <2>4, <3>2, <3>3
    <3> QED BY <3>4 DEF met
  <2>6. Single(d)
    BY <2>5, InvSingle
  <2>7. CASE d = e
    <3>1. \A q \in Pids : proc[q].d # d
      BY <1>4, <2>5, <2>6, <2>7, OwnerFound
    <3>2. \A q \in Pids : proc'[q].d = d => q = p
      BY <2>3, <3>1
    <3>3. proc'[p].at = "forked"
      BY <2>2, <2>3, LuadFields
    <3>4. file'[d] \in {Empty, NoDir}
      <4>1. file'[d] = Unstale(d) /\ file[d] \in Pids \cup {Empty, NoDir}
        BY <1>2, <2>7
      <4>2. ~(file[d] \in Pids /\ Alive(file[d]))
        BY <1>4, <2>7, LuadAssumption DEF PidRunning
      <4> QED BY <4>1, <4>2 DEF Unstale
    <3> QED BY <3>2, <3>3, <3>4 DEF Single, Owning
  <2>8. CASE d # e
    <3>1. file'[d] = file[d]
      BY <1>2, <2>8
    <3>2. \A q \in Pids : proc'[q].d = d => proc'[q] = proc[q]
      BY <2>3, <2>8, LuadFields
    <3> QED BY <2>6, <3>1, <3>2 DEF Single
  <2> QED BY <2>7, <2>8
<1> QED BY <1>3, <1>4 DEF LuadStart, e

\* A daemon goes on; only its own file may change.
LEMMA BecomesKeeps ==
    ASSUME TypeOK, IInv, NEW p \in Pids, proc[p].d \in Names, NEW at \in Ats, Becomes(p, at),
           raced' = raced,
           \A d \in Names : d # proc[p].d => file'[d] = file[d],
           ~raced[proc[p].d] => /\ at \in Owning => file'[proc[p].d] = p
                                /\ at # "forked"
                                /\ at = "dir" => file'[proc[p].d] = Empty
                                /\ at # "failed"
    PROVE  IInv'
<1> DEFINE e == proc[p].d
<1>1. \A q \in Pids : proc'[q] = IF q = p THEN Luad(e, at) ELSE proc[q]
  BY DEF Becomes, TypeOK
<1>2. SUFFICES ASSUME NEW d \in Names, ~raced[d] PROVE Single(d)'
  BY DEF IInv, FileNamesDaemon, StartsAlone, Single
<1>3. Single(d)
  BY <1>2, InvSingle
<1>4. \A q \in Pids : proc'[q].d = proc[q].d
  BY <1>1, LuadFields
<1>5. CASE d = e
  <2>1. \A q \in Pids : proc[q].d = d => q = p
    BY <1>3, <1>5 DEF Single
  <2>2. proc'[p].at = at
    BY <1>1, LuadFields
  <2> QED BY <1>2, <1>4, <1>5, <2>1, <2>2 DEF Single
<1>6. CASE d # e
  <2>1. \A q \in Pids : proc[q].d = d => proc'[q] = proc[q]
    BY <1>1, <1>6
  <2>2. file'[d] = file[d]
    BY <1>6
  <2> QED BY <1>3, <1>4, <2>1, <2>2 DEF Single
<1> QED BY <1>5, <1>6

\* A step that leaves processes, files and races alone.
LEMMA SameKeeps ==
    ASSUME IInv, UNCHANGED <<proc, file, raced>>
    PROVE  IInv'
BY KeepsInv

\* Processes end and files stay.
LEMMA EndsKeep ==
    ASSUME TypeOK, IInv, \A p \in Pids : proc'[p] = proc[p] \/ proc'[p] = Free,
           UNCHANGED <<file, raced>>
    PROVE  IInv'
<1>1. Free.d \notin Names
  BY LuadAssumption DEF Free
<1> QED BY <1>1, KeepsInv

\* A process ends and removes the file of its daemon.
LEMMA DiesRemoving ==
    ASSUME TypeOK, IInv, NEW p \in Pids, Dies(p), proc[p].d \in Names,
           file' = [file EXCEPT ![proc[p].d] = Removed(proc[p].d)], UNCHANGED raced
    PROVE  IInv'
<1>1. \A q \in Pids : proc'[q] = IF q = p THEN Free ELSE proc[q]
  BY DiesTyped
<1>2. Free.d \notin Names
  BY LuadAssumption DEF Free
<1>3. \A d \in Names : d # proc[p].d => file'[d] = file[d]
  BY DEF TypeOK
<1>4. ASSUME ~raced[proc[p].d] PROVE \A q \in Pids : proc'[q].d # proc[p].d
  <2>1. Single(proc[p].d)
    BY <1>4, InvSingle
  <2> QED BY <1>1, <1>2, <2>1 DEF Single
<1>5. \A d \in Names : ~raced'[d] =>
               ~raced[d] /\ (file'[d] = file[d] \/ \A q \in Pids : proc'[q].d # d)
  BY <1>3, <1>4
<1> QED BY <1>1, <1>2, <1>5, KeepsInv

\* The invariant is preserved by every step.
LEMMA InvStep == TypeOK /\ IInv /\ [Next]_vars => IInv'
<1> SUFFICES ASSUME TypeOK, IInv, [Next]_vars PROVE IInv'
  OBVIOUS
<1>1. ASSUME NEW a \in Actors, ScriptStep(a) PROVE IInv'
  <2>1. CASE LuadStart(a)
    BY <2>1, StartKeeps
  <2>2. CASE LuadReturns(a)
    BY <2>2, SameKeeps DEF LuadReturns
  <2>3. CASE KillSend(a)
    <3>1. Arg(a) \in Names
      BY <2>3, ArgTyped DEF KillSend, Ops
    <3>2. /\ file' = [file EXCEPT ![Arg(a)] = Unstale(Arg(a))] /\ UNCHANGED <<proc, raced>>
          /\ file \in [Names -> Pids \cup {Empty, NoDir}]
      BY <2>3 DEF KillSend, TypeOK
    <3>3. \A d \in Names : ~raced[d] => file'[d] = file[d] \/ \A p \in Pids : proc[p].d # d
      BY <3>1, <3>2, InvSingle, UnstaleKeeps
    <3> QED BY <3>2, <3>3, KeepsInv
  <2>4. CASE KillReturns(a)
    BY <2>4, SameKeeps DEF KillReturns
  <2>5. CASE RemoveDir(a)
    <3> DEFINE e == Arg(a)
               lives == \E p \in Pids : proc[p].d = e
    <3>1. e \in Names
      BY <2>5, ArgTyped DEF RemoveDir, Ops
    <3>2. /\ file' = [file EXCEPT ![e] = NoDir] /\ UNCHANGED proc
          /\ raced' = [raced EXCEPT ![e] = raced[e] \/ lives]
          /\ file \in [Names -> Pids \cup {Empty, NoDir}] /\ raced \in [Names -> BOOLEAN]
      BY <2>5 DEF RemoveDir, TypeOK
    <3> HIDE DEF e, lives
    <3>3. raced'[e] = (raced[e] \/ lives)
      BY <3>1, <3>2
    <3>4. \A d \in Names : d # e => raced'[d] = raced[d] /\ file'[d] = file[d]
      BY <3>2
    <3>5. \A d \in Names : ~raced'[d] =>
               ~raced[d] /\ (file'[d] = file[d] \/ \A p \in Pids : proc'[p].d # d)
      BY <3>2, <3>3, <3>4 DEF lives
    <3> QED BY <3>2, <3>5, KeepsInv
  <2>6. CASE Crontab(a)
    BY <2>6, SameKeeps DEF Crontab
  <2>7. CASE ServiceStop(a)
    <3>1. UNCHANGED <<file, raced>>
      BY <2>7 DEF ServiceStop
    <3>2. CASE UNCHANGED proc
      BY <3>1, <3>2, SameKeeps
    <3>3. CASE \E p \in Pids : Dies(p)
      BY <3>1, <3>3, DiesTyped, EndsKeep
    <3> QED BY <2>7, <3>2, <3>3 DEF ServiceStop
  <2>8. CASE ServiceStart(a)
    BY <2>8, SameKeeps DEF ServiceStart
  <2>9. CASE KillAll(a)
    <3>1. \A p \in Pids : proc'[p] = proc[p] \/ proc'[p] = Free
      BY <2>9 DEF KillAll, Without
    <3> QED BY <2>9, <3>1, EndsKeep DEF KillAll
  <2> QED BY <1>1, <2>1, <2>2, <2>3, <2>4, <2>5, <2>6, <2>7, <2>8, <2>9 DEF ScriptStep
<1>2. CASE Watchdog
  BY <1>2, SameKeeps DEF Watchdog
<1>3. CASE Hangs
  BY <1>3, SameKeeps DEF Hangs
<1>4. CASE ChangeShare
  BY <1>4, SameKeeps DEF ChangeShare
<1>5. CASE Fcheck
  BY <1>5, SameKeeps DEF Fcheck
<1>6. ASSUME NEW p \in Pids,
             DaemonStep(p) \/ GiveUp(p) \/ Terminate(p) \/ Crash(p) \/ OtherStarts(p) \/ OtherEnds(p)
      PROVE  IInv'
  <2>0. ~raced[proc[p].d] /\ proc[p].d \in Names => Single(proc[p].d)
    BY InvSingle
  <2>a. file \in [Names -> Pids \cup {Empty, NoDir}]
    BY DEF TypeOK
  <2>1. CASE MakeRuntimeDir(p)
    <3>1. proc[p].d \in Names /\ Becomes(p, "dir") /\ raced' = raced
      BY <2>1, DaemonNamed DEF MakeRuntimeDir, Ats, rest
    <3>2. ~raced[proc[p].d] => file'[proc[p].d] = Empty
      BY <2>0, <2>a, <2>1, <3>1 DEF MakeRuntimeDir, Single
    <3>3. \A d \in Names : d # proc[p].d => file'[d] = file[d]
      BY <2>a, <2>1 DEF MakeRuntimeDir
    <3> QED BY <3>1, <3>2, <3>3, BecomesKeeps DEF Ats, Owning
  <2>2. CASE CreatePidFile(p)
    <3>1. proc[p].d \in Names /\ raced' = raced
      BY <2>2, DaemonNamed DEF CreatePidFile, Ats, rest
    <3>2. CASE file[proc[p].d] = Empty
      <4>1. Becomes(p, "created") /\ file' = [file EXCEPT ![proc[p].d] = p]
        BY <2>2, <3>2 DEF CreatePidFile
      <4>2. file'[proc[p].d] = p /\ \A d \in Names : d # proc[p].d => file'[d] = file[d]
        BY <2>a, <3>1, <4>1
      <4> QED BY <3>1, <4>1, <4>2, BecomesKeeps DEF Ats, Owning
    <3>3. CASE file[proc[p].d] # Empty
      <4>1. Becomes(p, "failed") /\ UNCHANGED file
        BY <2>2, <3>3 DEF CreatePidFile
      <4>2. raced[proc[p].d]
        BY <2>0, <2>2, <3>1, <3>3 DEF CreatePidFile, Single
      <4> QED BY <3>1, <4>1, <4>2, BecomesKeeps DEF Ats, Owning
    <3> QED BY <3>2, <3>3
  <2>3. CASE RunLua(p)
    <3>1. proc[p].d \in Names /\ Becomes(p, "runs") /\ UNCHANGED <<file, raced>>
      BY <2>3, DaemonNamed DEF RunLua, Ats, rest
    <3>2. ~raced[proc[p].d] => file[proc[p].d] = p
      BY <2>0, <2>3, <3>1 DEF RunLua, Single, Owning
    <3> QED BY <3>1, <3>2, BecomesKeeps DEF Ats, Owning
  <2>4. CASE GiveUp(p)
    <3>1. proc[p].d \in Names /\ Becomes(p, "gaveup") /\ UNCHANGED <<file, raced>>
      BY <2>4, DaemonNamed DEF GiveUp, Ats, rest
    <3>2. ~raced[proc[p].d] => file[proc[p].d] = p
      BY <2>0, <2>4, <3>1 DEF GiveUp, Single, Owning
    <3> QED BY <3>1, <3>2, BecomesKeeps DEF Ats, Owning
  <2>5. CASE Finish(p)
    BY <2>5, DaemonNamed, DiesRemoving DEF Finish, Ats, rest
  <2>6. CASE Terminate(p)
    <3>1. Dies(p) /\ UNCHANGED raced
      BY <2>6 DEF Terminate, rest
    <3>2. CASE proc[p].at \in {"runs", "gaveup"}
      BY <2>6, <3>1, <3>2, DaemonNamed, DiesRemoving DEF Terminate, Ats
    <3>3. CASE proc[p].at \notin {"runs", "gaveup"}
      BY <2>6, <3>1, <3>3, DiesTyped, EndsKeep DEF Terminate
    <3> QED BY <3>2, <3>3
  <2>7. CASE Crash(p)
    BY <2>7, DiesTyped, EndsKeep DEF Crash
  <2>8. CASE OtherStarts(p)
    <3>1. \A q \in Pids : proc'[q] = proc[q] \/ proc'[q] = Other
      BY <2>8 DEF OtherStarts, TypeOK
    <3>2. Other.d \notin Names
      BY LuadAssumption DEF Other
    <3>3. UNCHANGED <<file, raced>>
      BY <2>8 DEF OtherStarts
    <3> QED BY <3>1, <3>2, <3>3, KeepsInv
  <2>9. CASE OtherEnds(p)
    BY <2>9, DiesTyped, EndsKeep DEF OtherEnds, rest
  <2> QED BY <1>6, <2>1, <2>2, <2>3, <2>4, <2>5, <2>6, <2>7, <2>8, <2>9 DEF DaemonStep
<1>7. CASE UNCHANGED vars
  BY <1>7, SameKeeps DEF vars
<1> QED BY <1>1, <1>2, <1>3, <1>4, <1>5, <1>6, <1>7 DEF Next

\* At boot no daemon has a process.
LEMMA InitInv == Init => TypeOK /\ IInv
<1> SUFFICES ASSUME Init PROVE TypeOK /\ IInv
  OBVIOUS
<1>1. todo \in [Actors -> Seq(Cmds)]
  <2>1. PICK on \in BOOLEAN : todo = [a \in Actors |-> CASE a = "boot" -> InitStart
                                     [] a = "fonstated" -> StartFonsmcd(on)
                                     [] OTHER -> <<>>]
    BY DEF Init
  <2> QED BY <2>1, ScriptsTyped
<1>2. TypeOK
  <2>1. /\ cron \in BOOLEAN /\ hung \in BOOLEAN /\ svcpid \in BOOLEAN
        /\ cut \in BOOLEAN /\ raced \in [Names -> BOOLEAN]
    BY DEF Init
  <2>2. proc \in [Pids -> {Free, Other} \cup {Luad(d, at) : d \in Names, at \in Ats}] /\ term = {}
    BY DEF Init
  <2>3. /\ file \in [Names -> Pids \cup {Empty, NoDir}] /\ wait \in [Actors -> Pids \cup {0, Gone}]
        /\ faults \in 0 .. MaxFaults
    BY LuadAssumption DEF Init
  <2> QED BY <1>1, <2>1, <2>2, <2>3 DEF TypeOK
<1>3. \A p \in Pids : proc[p].d \notin Names
  BY LuadAssumption DEF Init, Free
<1>4. IInv
  BY <1>3 DEF IInv, FileNamesDaemon, StartsAlone
<1> QED BY <1>2, <1>4

-----------------------------------------------------------------------------
\* Whatever scripts, signals and crashes do, signals go to live processes and
\* waits, files and scripts stay what they can be.
THEOREM TypeCorrect == Spec => []TypeOK
<1>1. Init => TypeOK
  BY InitInv
<1> QED BY <1>1, TypeStep, PTL DEF Spec

\* For any number of daemons and pids: a daemon has one process at most and the
\* pid file names it, until two start-ups meet or a file is removed under one.
THEOREM OneDaemonOnRecord == Spec => []FileNamesDaemon
<1>1. Init => TypeOK /\ IInv
  BY InitInv
<1>2. TypeOK /\ IInv /\ [Next]_vars => (TypeOK /\ IInv)'
  BY TypeStep, InvStep
<1>3. IInv => FileNamesDaemon
  BY DEF IInv
<1> QED BY <1>1, <1>2, <1>3, PTL DEF Spec
=============================================================================
