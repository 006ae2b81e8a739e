------------------------------ MODULE Onlined ------------------------------
(***************************************************************************)
(* The connectivity prober (package/onlined/src/online.c).                 *)
(*                                                                         *)
(* online_start() is one endless loop.  An iteration first ages the        *)
(* offline back-off, probes the resolver if the delay has run out, sends   *)
(* "fs -l Online" or "fs -l Offline" when the probe contradicts what it    *)
(* believes, sleeps one second and rereads /tmp/run/fonstate, the file in  *)
(* which the scripts of fonstated publish the state.  What the daemon      *)
(* believes is therefore only ever changed by what others did: sending a   *)
(* command changes nothing here, and a lost command is repaired by the     *)
(* next probe or not at all.                                               *)
(*                                                                         *)
(* pc = "top" is line 72, pc = "sleep" line 131.                           *)
(***************************************************************************)
EXTENDS Integers

CONSTANTS IntervalOfflineMin,   \* INTERVAL_OFFLINE_MIN, in seconds
          DoubleTime,           \* INTERVAL_OFFLINE_DOUBLE_TIME
          IntervalOfflineMax,   \* INTERVAL_OFFLINE_MAX
          IntervalOnline,       \* INTERVAL_ONLINE
          IntervalError,        \* INTERVAL_ERROR
          ErrorsNeeded          \* ERRORS_NEEDED

Positive == Nat \ {0}

ASSUME IntervalsAssumption ==
    /\ IntervalOfflineMin \in Positive
    /\ DoubleTime         \in Positive
    /\ IntervalOfflineMax \in Positive
    /\ IntervalOnline     \in Positive
    /\ IntervalError      \in Positive
    /\ ErrorsNeeded       \in Positive

IsBackoffLadder(S) ==
    /\ IntervalOfflineMin \in S
    /\ \A i \in S : i < IntervalOfflineMax => 2 * i \in S

\* Doubling from the minimum meets the maximum (1, 2, 4, ..., 64 in the code).
ASSUME DoublingMeetsMax ==
    \E S \in SUBSET (IntervalOfflineMin .. IntervalOfflineMax) : IsBackoffLadder(S)

Ladder == CHOOSE S \in SUBSET (IntervalOfflineMin .. IntervalOfflineMax) :
             IsBackoffLadder(S)

VARIABLES pc,                \* "top" or "sleep"
          is_online,         \* what the daemon believes
          error_count,       \* failed probes in a row, counted while online
          delay,             \* seconds to the next probe
          double_delay,      \* seconds to the next doubling
          offline_interval,  \* seconds between probes while offline
          cmd,               \* the command sent in this iteration, or "none"
          file,              \* /tmp/run/fonstate
          net                \* whether test_dns() succeeds now

locals == <<is_online, error_count, delay, double_delay, offline_interval>>
vars   == <<pc, is_online, error_count, delay, double_delay, offline_interval,
            cmd, file, net>>

\* "" is the file between the truncation and the write of a shell's "echo >".
FileContents == {"Online", "Offline", ""}

\* The type invariant.  error_count is an int that grows while "Offline" is not
\* heard; it is only compared with ERRORS_NEEDED, so it saturates there.
TypeOK ==
    /\ pc               \in {"top", "sleep"}
    /\ is_online        \in BOOLEAN
    /\ error_count      \in 0 .. ErrorsNeeded
    /\ delay            \in Nat
    /\ double_delay     \in 1 .. DoubleTime
    /\ offline_interval \in Positive
    /\ cmd              \in {"none", "Online", "Offline"}
    /\ file             \in FileContents
    /\ net              \in BOOLEAN

OnlineStart ==
    /\ pc = "top"
    /\ is_online = FALSE
    /\ error_count = 0
    /\ delay = 0
    /\ double_delay = DoubleTime
    /\ offline_interval = IntervalOfflineMin
    /\ cmd = "none"

Init == OnlineStart /\ file = "Offline" /\ net \in BOOLEAN

-----------------------------------------------------------------------------
(* The back-off, aged at the top of every iteration (72-76).               *)

\* Mutant: the doubling is not stopped at INTERVAL_OFFLINE_MAX.
AgeingUnbounded == ~is_online

Ageing  == ~is_online /\ offline_interval < IntervalOfflineMax
Doubles == Ageing /\ double_delay = 1

AgedInterval == IF Doubles THEN 2 * offline_interval ELSE offline_interval

\* Mutant: the countdown is not reset after a doubling.
AgedDoubleDelayNoReset == IF Ageing THEN double_delay - 1 ELSE double_delay

AgedDoubleDelay ==
    IF Doubles THEN DoubleTime
    ELSE IF Ageing THEN double_delay - 1 ELSE double_delay

Backoff ==
    /\ offline_interval' = AgedInterval
    /\ double_delay' = AgedDoubleDelay

CountError == IF error_count < ErrorsNeeded THEN error_count + 1 ELSE error_count

AtTop == pc = "top" /\ pc' = "sleep" /\ UNCHANGED <<is_online, file, net>>

-----------------------------------------------------------------------------
(* One iteration of the loop.                                              *)

NotDue ==
    /\ AtTop
    /\ delay # 0
    /\ Backoff
    /\ UNCHANGED <<error_count, delay, cmd>>

\* Mutant: after an error the next probe waits as long as after a success.
ProbeFailsOnlineSlowly ==
    /\ AtTop
    /\ delay = 0 /\ ~net /\ is_online
    /\ CountError < ErrorsNeeded
    /\ Backoff
    /\ error_count' = CountError
    /\ delay' = IntervalOnline
    /\ UNCHANGED cmd

ProbeFailsOnline ==
    /\ AtTop
    /\ delay = 0 /\ ~net /\ is_online
    /\ CountError < ErrorsNeeded
    /\ Backoff
    /\ error_count' = CountError
    /\ delay' = IntervalError
    /\ UNCHANGED cmd

\* Mutant: the command is sent when the count reaches ERRORS_NEEDED, not after.
GoOfflineOnce ==
    /\ AtTop
    /\ delay = 0 /\ ~net /\ is_online
    /\ CountError >= ErrorsNeeded
    /\ error_count' = CountError
    /\ cmd' = IF error_count < ErrorsNeeded THEN "Offline" ELSE "none"
    /\ delay' = IntervalOfflineMin
    /\ offline_interval' = IntervalOfflineMin
    /\ double_delay' = DoubleTime

\* Mutant: the count starts over once the command is sent.
GoOfflineForgets ==
    /\ AtTop
    /\ delay = 0 /\ ~net /\ is_online
    /\ CountError >= ErrorsNeeded
    /\ error_count' = 0
    /\ cmd' = "Offline"
    /\ delay' = IntervalOfflineMin
    /\ offline_interval' = IntervalOfflineMin
    /\ double_delay' = DoubleTime

\* error_count is not reset: until the state file says Offline, every further
\* failed probe sends the command again.
GoOffline ==
    /\ AtTop
    /\ delay = 0 /\ ~net /\ is_online
    /\ CountError >= ErrorsNeeded
    /\ error_count' = CountError
    /\ cmd' = "Offline"
    /\ delay' = IntervalOfflineMin
    /\ offline_interval' = IntervalOfflineMin
    /\ double_delay' = DoubleTime

\* Mutant: the delay is doubled once more than the interval.
ProbeFailsOfflineDoubled ==
    /\ AtTop
    /\ delay = 0 /\ ~net /\ ~is_online
    /\ Backoff
    /\ delay' = 2 * AgedInterval
    /\ UNCHANGED <<error_count, cmd>>

ProbeFailsOffline ==
    /\ AtTop
    /\ delay = 0 /\ ~net /\ ~is_online
    /\ Backoff
    /\ delay' = AgedInterval
    /\ UNCHANGED <<error_count, cmd>>

\* Mutant: a success does not reset the count of errors.
ProbeSucceedsKeepsCount ==
    /\ AtTop
    /\ delay = 0 /\ net
    /\ Backoff
    /\ cmd' = IF is_online THEN "none" ELSE "Online"
    /\ delay' = IntervalOnline
    /\ UNCHANGED error_count

ProbeSucceeds ==
    /\ AtTop
    /\ delay = 0 /\ net
    /\ Backoff
    /\ cmd' = IF is_online THEN "none" ELSE "Online"
    /\ error_count' = 0
    /\ delay' = IntervalOnline

Top ==
    \/ NotDue
    \/ ProbeFailsOnline
    \/ GoOffline
    \/ ProbeFailsOffline
    \/ ProbeSucceeds

\* An empty file leaves curr_state, and with it the belief, as it was.
Reread == IF file = "" THEN is_online ELSE file = "Online"

Sleep ==
    /\ pc = "sleep"
    /\ pc' = "top"
    /\ delay' = delay - 1
    /\ is_online' = Reread
    /\ cmd' = "none"
    /\ UNCHANGED <<error_count, double_delay, offline_interval, file, net>>

-----------------------------------------------------------------------------
(* What others do to this process.                                         *)

\* The StartOnlined script: the service is killed with SIGKILL, wherever it is
\* in its loop, and started anew.
Restart ==
    /\ pc' = "top"
    /\ is_online' = FALSE
    /\ error_count' = 0
    /\ delay' = 0
    /\ double_delay' = DoubleTime
    /\ offline_interval' = IntervalOfflineMin
    /\ cmd' = "none"
    /\ UNCHANGED <<file, net>>

\* A script of fonstated truncates or writes the state file.
StateFile ==
    /\ \E v \in FileContents \ {file} : file' = v
    /\ UNCHANGED <<pc, locals, cmd, net>>

NetChange ==
    /\ net' = ~net
    /\ UNCHANGED <<pc, locals, cmd, file>>

Loop == Top \/ Sleep
Next == Loop \/ Restart \/ StateFile \/ NetChange

\* The loop never blocks for good: poll() has a timeout, the fs client detaches
\* before it sends, and test_dns() is bounded by the resolver's timeout.
Spec == Init /\ [][Next]_vars /\ WF_vars(Loop)

-----------------------------------------------------------------------------
(* Properties.                                                             *)

\* The back-off stops at INTERVAL_OFFLINE_MAX: doubling never overshoots it,
\* whatever mixture of online and offline periods aged the counter.
BackoffBounded == offline_interval \in Ladder

SettlesUnheard(state, c) ==
    (<>[](net = state /\ is_online = ~state) /\ <>[][~Restart]_vars) => []<>(cmd = c)

\* A command that is lost on the way to fonstated is repeated: as long as the
\* published state contradicts the network, the correcting command is sent
\* again and again (the loop never waits for an answer).
RepeatsUntilHeard ==
    /\ SettlesUnheard(FALSE, "Offline")
    /\ SettlesUnheard(TRUE, "Online")
=============================================================================
