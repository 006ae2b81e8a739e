---------------------------- MODULE FonDispatch ----------------------------
(***************************************************************************)
(* What fonstated promises to the processes that send it commands.         *)
(*                                                                         *)
(* A command is a record [src, n]: the n-th command of source src, a source *)
(* being one run of "fs -l ... -l ..." or the boot list of one start of    *)
(* the daemon.  A command is accepted or never heard of; accepted commands *)
(* run one at a time, in the order of acceptance, except that boot jobs    *)
(* come before all others and that the commands declared fast overtake the *)
(* rest; a crash forgets what was accepted and did not start.              *)
(***************************************************************************)
EXTENDS Integers, Sequences

CONSTANTS Sources,    \* the processes that send commands, and the boot lists
          Boot,       \* the boot lists
          Fast,       \* the commands that run as soon as they are received
          NoCommand   \* not a command: nothing runs

Commands == [src : Sources, n : Nat \ {0}]

VARIABLES upto,      \* of each source, the last command accepted or lost
          accepted,  \* accepted commands that did not start, in order
          active,    \* the command that runs
          ran        \* every command that started, in the order of starting

vars == <<upto, accepted, active, ran>>

TypeOK ==
    /\ upto     \in [Sources -> Nat]
    /\ accepted \in Seq(Commands)
    /\ active   \in Commands \cup {NoCommand}
    /\ ran      \in Seq(Commands)

Init ==
    /\ upto = [s \in Sources |-> 0]
    /\ accepted = <<>>
    /\ active = NoCommand
    /\ ran = <<>>

Following(s) == [src |-> s, n |-> upto[s] + 1]

Advance(s) == upto' = [upto EXCEPT ![s] = @ + 1]

\* The next command of a source gets through, or is lost.
Accept(s) ==
    /\ s \notin Boot
    /\ Advance(s)
    /\ accepted' = Append(accepted, Following(s))
    /\ UNCHANGED <<active, ran>>

InsertAfter(q, p, e) ==
    [j \in 1 .. Len(q) + 1 |-> IF j <= p THEN q[j] ELSE IF j = p + 1 THEN e ELSE q[j - 1]]

\* A boot job is put behind the boot jobs and ahead of the received commands;
\* a fast one is not queued at all.
AcceptBoot(s, p) ==
    /\ s \in Boot
    /\ Following(s) \notin Fast
    /\ \A j \in 1 .. p : accepted[j].src \in Boot
    /\ \A j \in p + 1 .. Len(accepted) : accepted[j].src \notin Boot
    /\ Advance(s)
    /\ accepted' = InsertAfter(accepted, p, Following(s))
    /\ UNCHANGED <<active, ran>>

StartBoot(s) ==
    /\ s \in Boot
    /\ Following(s) \in Fast
    /\ active = NoCommand
    /\ Advance(s)
    /\ active' = Following(s)
    /\ ran' = Append(ran, Following(s))
    /\ UNCHANGED accepted

Lose(s) ==
    /\ Advance(s)
    /\ UNCHANGED <<accepted, active, ran>>

DropAt(q, i) == [j \in 1 .. Len(q) - 1 |-> IF j < i THEN q[j] ELSE q[j + 1]]

\* Only a fast command starts out of turn, and only past commands that are not.
MayStart(i) ==
    \/ i = 1
    \/ /\ accepted[i] \in Fast
       /\ \A j \in 1 .. i - 1 : accepted[j] \notin Fast

Start(i) ==
    /\ active = NoCommand
    /\ MayStart(i)
    /\ active' = accepted[i]
    /\ ran' = Append(ran, accepted[i])
    /\ accepted' = DropAt(accepted, i)
    /\ UNCHANGED upto

Finish ==
    /\ active # NoCommand
    /\ active' = NoCommand
    /\ UNCHANGED <<upto, accepted, ran>>

Crash ==
    /\ accepted' = <<>>
    /\ active' = NoCommand
    /\ UNCHANGED <<upto, ran>>

Next ==
    \/ \E s \in Sources : Accept(s) \/ StartBoot(s) \/ Lose(s)
    \/ \E s \in Sources, p \in 0 .. Len(accepted) : AcceptBoot(s, p)
    \/ \E i \in 1 .. Len(accepted) : Start(i)
    \/ Finish
    \/ Crash

Spec == Init /\ [][Next]_vars

-----------------------------------------------------------------------------
\* No command runs twice, and none of those that ran is still waiting.
AtMostOnce ==
    /\ \A i, j \in 1 .. Len(ran) : i # j => ran[i] # ran[j]
    /\ \A i \in 1 .. Len(ran), j \in 1 .. Len(accepted) : ran[i] # accepted[j]

SameClass(a, b) == a \in Fast <=> b \in Fast

\* Two commands of one source that are both fast or both not start in the order
\* in which the source sent them.
SourceOrder ==
    \A i, j \in 1 .. Len(ran) :
        i < j /\ ran[i].src = ran[j].src /\ SameClass(ran[i], ran[j])
            => ran[i].n < ran[j].n

-----------------------------------------------------------------------------
(* The inductive invariant: commands are numbered from 1 up to upto, those *)
(* of one source wait in order, and behind those of their class that ran.  *)

Numbered ==
    /\ \A i \in 1 .. Len(accepted) : accepted[i].n <= upto[accepted[i].src]
    /\ \A i \in 1 .. Len(ran) : ran[i].n <= upto[ran[i].src]

WaitInOrder ==
    \A i, j \in 1 .. Len(accepted) :
        i < j /\ accepted[i].src = accepted[j].src => accepted[i].n < accepted[j].n

BootNotFast ==
    \A i \in 1 .. Len(accepted) : accepted[i].src \in Boot => accepted[i] \notin Fast

RanBeforeWaiting ==
    \A i \in 1 .. Len(ran), j \in 1 .. Len(accepted) :
        ran[i].src = accepted[j].src /\ SameClass(ran[i], accepted[j])
            => ran[i].n < accepted[j].n

DispatchInv ==
    /\ TypeOK
    /\ Numbered
    /\ WaitInOrder
    /\ BootNotFast
    /\ RanBeforeWaiting
    /\ AtMostOnce
    /\ SourceOrder
=============================================================================
