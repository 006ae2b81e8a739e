---------------------------- MODULE OnlineProofs ----------------------------
(***************************************************************************)
(* First the prober by itself: its timing bounds, for every choice of the  *)
(* intervals.  Then the prober with the scripts it starts: the published   *)
(* states and the hotspot, for every choice of the intervals and of the    *)
(* bounds on commands and faults: whatever commands are lost, repeated or  *)
(* overtaken and whoever is killed, the state file, the UCI state, the     *)
(* hotspot and its access point agree between scripts as long as no two    *)
(* scripts overlapped.                                                     *)
(***************************************************************************)
EXTENDS OnlinedTimed, FonOnline, SequenceTheorems, TLAPS

-----------------------------------------------------------------------------
(* The prober's timing. *)


\* The ladder of back-off intervals exists, starts at the minimum, is closed
\* under the doubling of line 74 and stays at or below the maximum.
LEMMA LadderFacts ==
    /\ Ladder \subseteq IntervalOfflineMin .. IntervalOfflineMax
    /\ IntervalOfflineMin \in Ladder
    /\ \A i \in Ladder : i < IntervalOfflineMax => 2 * i \in Ladder
<1>1. Ladder \in SUBSET (IntervalOfflineMin .. IntervalOfflineMax) /\ IsBackoffLadder(Ladder)
  BY DoublingMeetsMax DEF Ladder
<1> QED  BY <1>1 DEF IsBackoffLadder

\* MaxDelay is a number of seconds at or above each of the delays the code uses.
LEMMA MaxDelayFacts ==
    /\ MaxDelay \in Nat
    /\ MaxDelay >= IntervalOnline
    /\ MaxDelay >= IntervalOfflineMax
    /\ MaxDelay >= IntervalError
  BY IntervalsAssumption DEF MaxDelay, Larger, Positive

\* The retries left are a natural number, at most Retries; one more error
\* trades one of them for one IntervalError of delay.
LEMMA RetriesFacts ==
    /\ Retries \in Nat
    /\ \A e \in 0 .. ErrorsNeeded - 1 :
          /\ (ErrorsNeeded - 1 - e) * IntervalError \in Nat
          /\ (ErrorsNeeded - 1 - e) * IntervalError <= Retries
    /\ \A e \in 0 .. ErrorsNeeded - 1 :
          e + 1 < ErrorsNeeded =>
             (ErrorsNeeded - 1 - e) * IntervalError
                = IntervalError + (ErrorsNeeded - 1 - (e + 1)) * IntervalError
<1> DEFINE E == ErrorsNeeded
           I == IntervalError
<1>1. E \in Nat /\ E >= 1 /\ I \in Nat /\ I >= 1
  BY IntervalsAssumption DEF Positive
<1>2. \A a, b \in Nat : a * b \in Nat
  OBVIOUS
<1>3. \A a, b \in Nat : a <= b => a * I <= b * I
  BY <1>1
<1>4. \A a \in Nat : (a + 1) * I = I + a * I
  BY <1>1
<1>5. Retries \in Nat
  BY <1>1, <1>2 DEF Retries
<1>6. ASSUME NEW e \in 0 .. E - 1
      PROVE  (E - 1 - e) * I \in Nat /\ (E - 1 - e) * I <= Retries
  <2>1. E - 1 - e \in Nat /\ E - 1 \in Nat /\ E - 1 - e <= E - 1
    BY <1>1
  <2> HIDE DEF E, I
  <2> QED  BY <2>1, <1>2, <1>3, <1>1 DEF Retries, E, I
<1>7. ASSUME NEW e \in 0 .. E - 1, e + 1 < E
      PROVE  (E - 1 - e) * I = I + (E - 1 - (e + 1)) * I
  <2>1. E - 1 - (e + 1) \in Nat /\ E - 1 - e = (E - 1 - (e + 1)) + 1
    BY <1>1, <1>7
  <2> HIDE DEF E, I
  <2> QED  BY <2>1, <1>4
<1> QED  BY <1>5, <1>6, <1>7

\* A second passes: delay d shrinks by one, overdue o grows by at most one.
LEMMA SecondPasses ==
    ASSUME NEW B \in Nat, NEW o \in Nat, NEW d \in Nat, NEW r \in Nat,
           NEW o2 \in Nat, NEW d2 \in Nat,
           o + d + r <= B, d2 = d - 1, o2 <= o + 1
    PROVE  o2 + d2 + r <= B
  OBVIOUS

\* The same without retries.
LEMMA SecondPassesNoRetry ==
    ASSUME NEW B \in Nat, NEW o \in Nat, NEW d \in Nat,
           NEW o2 \in Nat, NEW d2 \in Nat,
           o + d <= B, d2 = d - 1, o2 <= o + 1
    PROVE  o2 + d2 <= B
  OBVIOUS

\* A failed probe: one of the retries r becomes the delay i.
LEMMA RetryUsed ==
    ASSUME NEW B \in Nat, NEW o \in Nat, NEW r \in Nat,
           NEW o2 \in Nat, NEW i \in Nat, NEW r2 \in Nat,
           o + 0 + r <= B, o2 <= o, r = i + r2
    PROVE  o2 + i + r2 <= B
  OBVIOUS

-----------------------------------------------------------------------------
\* The initial state satisfies the inductive invariant.
LEMMA InitInv == TInit => IndInv
<1> SUFFICES ASSUME TInit
             PROVE  IndInv
  OBVIOUS
<1> USE DEF TInit, Init, OnlineStart
<1>b. is_online \in BOOLEAN /\ net \in BOOLEAN
  BY Zenon
<1>1. TTypeOK
  BY <1>b, IntervalsAssumption DEF TTypeOK, TypeOK, FileContents, Positive
<1>2. BackoffBounded /\ Waiting
  BY LadderFacts DEF BackoffBounded, Waiting
<1>3. delay <= MaxDelay /\ overdue + delay <= MaxDelay /\ error_count <= fails
  BY MaxDelayFacts
<1> QED  BY <1>1, <1>2, <1>3 DEF IndInv

\* RetriesLeft is a natural number at most Retries in every typed state.
LEMMA RetriesLeftBound == TypeOK => RetriesLeft \in Nat /\ RetriesLeft <= Retries
  BY RetriesFacts, IntervalsAssumption DEF TypeOK, RetriesLeft, Positive

\* Ageing the back-off keeps the interval on its ladder and the countdown to
\* the next doubling between 1 and DoubleTime.
LEMMA BackoffFacts ==
    ASSUME TypeOK, BackoffBounded
    PROVE  /\ AgedInterval \in Ladder
           /\ AgedInterval \in Positive /\ AgedInterval <= IntervalOfflineMax
           /\ AgedDoubleDelay \in 1 .. DoubleTime
<1>1. AgedInterval \in Ladder
  BY LadderFacts DEF BackoffBounded, AgedInterval, Doubles, Ageing
<1>2. AgedInterval \in Positive /\ AgedInterval <= IntervalOfflineMax
  BY <1>1, LadderFacts, IntervalsAssumption DEF Positive
<1>3. AgedDoubleDelay \in 1 .. DoubleTime
  BY IntervalsAssumption DEF TypeOK, AgedDoubleDelay, Doubles, Ageing, Positive
<1> QED  BY <1>1, <1>2, <1>3

\* Every branch of the top half of an iteration preserves the invariant.
LEMMA TopInv == IndInv /\ TTop => IndInv'
<1> SUFFICES ASSUME IndInv, TTop
             PROVE  IndInv'
  OBVIOUS
<1> USE DEF TTop, AtTop
<1>t. TTypeOK /\ TypeOK /\ BackoffBounded
  BY DEF IndInv, TTypeOK
<1>b. /\ AgedInterval \in Ladder
      /\ AgedInterval \in Positive /\ AgedInterval <= IntervalOfflineMax
      /\ AgedDoubleDelay \in 1 .. DoubleTime
  BY <1>t, BackoffFacts
<1>r. RetriesLeft \in Nat /\ RetriesLeft <= Retries /\ Retries \in Nat
  BY <1>t, RetriesLeftBound, RetriesFacts
<1>B. MaxDelay + Retries \in Nat
  BY <1>r, MaxDelayFacts
<1>1. CASE NotDue
  BY <1>1, <1>t, <1>b, <1>r, MaxDelayFacts, IntervalsAssumption
     DEF IndInv, TTypeOK, TypeOK, NotDue, Backoff, BackoffBounded, Waiting,
         RetriesLeft, Positive
<1>2. CASE ProbeFailsOnline
  <2>1. error_count + 1 < ErrorsNeeded /\ error_count' = error_count + 1
    BY <1>2, <1>t, IntervalsAssumption DEF ProbeFailsOnline, CountError, TypeOK, Positive
  <2>2. RetriesLeft = IntervalError + RetriesLeft'
    BY <2>1, <1>t, RetriesFacts, IntervalsAssumption DEF RetriesLeft, TypeOK, Positive
  <2>3. RetriesLeft' \in Nat
    BY <2>1, <1>t, RetriesFacts, IntervalsAssumption DEF RetriesLeft, TypeOK, Positive
  <2>4. overdue' \in Nat /\ overdue' <= overdue
    BY <1>t DEF TTypeOK
  <2>5. TTypeOK' /\ BackoffBounded' /\ error_count' <= fails'
    BY <1>2, <2>1, <2>4, <1>t, <1>b, IntervalsAssumption
       DEF IndInv, TTypeOK, TypeOK, ProbeFailsOnline, Backoff, BackoffBounded, Positive
  <2>6. Waiting' /\ delay' <= MaxDelay /\ (cmd = "Offline" => error_count = ErrorsNeeded)'
    BY <1>2, <2>1, <1>t, MaxDelayFacts, IntervalsAssumption
       DEF IndInv, TypeOK, ProbeFailsOnline, Waiting, Positive
  <2>7. overdue + delay + RetriesLeft <= MaxDelay + Retries /\ delay = 0
    BY <1>2, Zenon DEF IndInv, ProbeFailsOnline
  <2>8. overdue' + delay' + RetriesLeft' <= MaxDelay + Retries
    <3>1. delay' = IntervalError /\ IntervalError \in Nat /\ overdue \in Nat
      BY <1>2, <1>t, IntervalsAssumption DEF ProbeFailsOnline, TTypeOK, Positive
    <3> QED  BY <3>1, <2>2, <2>3, <2>4, <2>7, <1>r, <1>B, RetryUsed
  <2> QED  BY <1>2, <2>5, <2>6, <2>8 DEF IndInv, ProbeFailsOnline
<1>3. CASE GoOffline
  <2>1. error_count' = ErrorsNeeded /\ overdue' = 0 /\ RetriesLeft' = 0
    BY <1>3, <1>t, IntervalsAssumption DEF GoOffline, CountError, TypeOK, RetriesLeft, Positive
  <2>2. fails' = ErrorsNeeded
    BY <1>3, <1>t, IntervalsAssumption
       DEF GoOffline, CountError, IndInv, TTypeOK, TypeOK, Positive
  <2>3. TTypeOK' /\ BackoffBounded'
    BY <1>3, <2>1, <2>2, <1>t, LadderFacts, IntervalsAssumption
       DEF TTypeOK, TypeOK, GoOffline, BackoffBounded, Positive
  <2>4. Waiting' /\ delay' \in Nat /\ delay' <= MaxDelay
    BY <1>3, LadderFacts, MaxDelayFacts, IntervalsAssumption DEF GoOffline, Waiting, Positive
  <2>5. overdue' + delay' + RetriesLeft' <= MaxDelay + Retries
    BY <2>1, <2>4, <1>r, MaxDelayFacts
  <2> QED  BY <1>3, <2>1, <2>2, <2>3, <2>4, <2>5, IntervalsAssumption DEF IndInv, GoOffline, Positive
<1>4. CASE ProbeFailsOffline
  BY <1>4, <1>t, <1>b, <1>r, MaxDelayFacts, IntervalsAssumption
     DEF IndInv, TTypeOK, TypeOK, ProbeFailsOffline, Backoff, BackoffBounded, Waiting,
         Positive
<1>5. CASE ProbeSucceeds
  BY <1>5, <1>t, <1>b, <1>r, MaxDelayFacts, IntervalsAssumption
     DEF IndInv, TTypeOK, TypeOK, ProbeSucceeds, Backoff, BackoffBounded, Waiting,
         Positive
<1> QED  BY <1>1, <1>2, <1>3, <1>4, <1>5 DEF Top

\* A second of sleep turns one second of delay into at most one of overdue,
\* and a change of belief starts both bounds anew.
LEMMA SleepInv == IndInv /\ TSleep => IndInv'
<1> SUFFICES ASSUME IndInv, TSleep
             PROVE  IndInv'
  OBVIOUS
<1>r. RetriesLeft \in Nat /\ RetriesLeft <= Retries /\ Retries \in Nat /\ RetriesLeft' = RetriesLeft
  BY RetriesLeftBound, RetriesFacts DEF IndInv, TTypeOK, TSleep, Sleep, RetriesLeft
<1>d. /\ delay' = delay - 1 /\ delay \in Nat /\ delay' \in Nat
      /\ overdue \in Nat /\ overdue' \in Nat /\ overdue' <= overdue + 1
  BY DEF IndInv, TTypeOK, TypeOK, TSleep, Sleep, Waiting
<1>b. is_online' \in BOOLEAN /\ net' \in BOOLEAN
  BY Zenon DEF IndInv, TTypeOK, TypeOK, TSleep, Sleep, Reread
<1>t. TTypeOK' /\ BackoffBounded'
  BY <1>b, <1>d DEF IndInv, TTypeOK, TypeOK, TSleep, Sleep, BackoffBounded
<1>u. error_count' <= fails' /\ Waiting' /\ delay' <= MaxDelay
      /\ (cmd = "Offline" => error_count = ErrorsNeeded)'
  BY <1>d, MaxDelayFacts DEF IndInv, TSleep, Sleep, Waiting
<1>B. MaxDelay + Retries \in Nat
  BY <1>r, MaxDelayFacts
<1>1. CASE is_online' = is_online
  <2>1. ASSUME is_online, ~net
        PROVE  overdue' + delay' + RetriesLeft <= MaxDelay + Retries
    <3>1. overdue + delay + RetriesLeft <= MaxDelay + Retries
      BY <2>1, Zenon DEF IndInv
    <3> QED  BY <3>1, <1>d, <1>r, <1>B, SecondPasses
  <2>2. ASSUME ~is_online, net
        PROVE  overdue' + delay' <= MaxDelay
    <3>1. overdue + delay <= MaxDelay
      BY <2>2, Zenon DEF IndInv
    <3> QED  BY <3>1, <1>d, MaxDelayFacts, SecondPassesNoRetry
  <2> QED  BY <1>1, <1>r, <1>t, <1>u, <2>1, <2>2 DEF IndInv, TSleep, Sleep
<1>2. CASE is_online' # is_online
  <2>1. overdue' = 0
    BY <1>2 DEF TSleep
  <2>2. overdue' + delay' + RetriesLeft <= MaxDelay + Retries /\ overdue' + delay' <= MaxDelay
    BY <2>1, <1>d, <1>r, <1>u, MaxDelayFacts
  <2> QED  BY <2>2, <1>r, <1>t, <1>u DEF IndInv, TSleep, Sleep
<1> QED  BY <1>1, <1>2

\* Restarts, changes of the state file and of the network preserve it too.
LEMMA EnvironmentInv == IndInv /\ TEnvironment => IndInv'
<1> SUFFICES ASSUME IndInv, TEnvironment
             PROVE  IndInv'
  OBVIOUS
<1>r. RetriesLeft \in Nat /\ RetriesLeft <= Retries /\ Retries \in Nat
  BY RetriesLeftBound, RetriesFacts DEF IndInv, TTypeOK
<1>1. CASE Restart /\ fails' = 0 /\ overdue' = 0
  <2>b. is_online' \in BOOLEAN /\ net' \in BOOLEAN
    BY <1>1, Zenon DEF Restart, IndInv, TTypeOK, TypeOK
  <2>1. TTypeOK' /\ BackoffBounded' /\ Waiting'
    BY <1>1, <2>b, LadderFacts, IntervalsAssumption
       DEF IndInv, TTypeOK, TypeOK, Restart, BackoffBounded, Waiting, Positive
  <2>2. delay' <= MaxDelay /\ overdue' + delay' <= MaxDelay /\ error_count' <= fails'
    BY <1>1, MaxDelayFacts DEF Restart
  <2> QED  BY <1>1, <2>1, <2>2 DEF IndInv, Restart
<1>2. CASE StateFile /\ UNCHANGED <<fails, overdue>>
  BY <1>2 DEF IndInv, TTypeOK, TypeOK, StateFile, locals, BackoffBounded, Waiting, RetriesLeft
<1>3. CASE NetChange /\ overdue' = 0 /\ UNCHANGED fails
  <2>1. RetriesLeft' = RetriesLeft
    BY <1>3 DEF NetChange, locals, RetriesLeft
  <2> QED
    BY <1>3, <2>1, <1>r, MaxDelayFacts
       DEF IndInv, TTypeOK, TypeOK, NetChange, locals, BackoffBounded, Waiting
<1> QED  BY <1>1, <1>2, <1>3 DEF TEnvironment

\* The invariant is inductive, hence holds in every reachable state.
THEOREM IndInvHolds == TSpec => []IndInv
<1>1. IndInv /\ [TNext]_tvars => IndInv'
  <2> SUFFICES ASSUME IndInv, [TNext]_tvars
               PROVE  IndInv'
    OBVIOUS
  <2>1. CASE UNCHANGED tvars
    BY <2>1 DEF tvars, vars, IndInv, TTypeOK, TypeOK, BackoffBounded, Waiting, RetriesLeft
  <2> QED  BY <2>1, TopInv, SleepInv, EnvironmentInv DEF TNext
<1> QED  BY <1>1, InitInv, PTL DEF TSpec

\* Type correctness of the prober and its counters.
THEOREM TypeCorrect == TSpec => []TTypeOK
<1>1. IndInv => TTypeOK
  BY DEF IndInv
<1> QED  BY <1>1, IndInvHolds, PTL

\* The back-off never overshoots INTERVAL_OFFLINE_MAX.
THEOREM BackoffBoundedHolds == TSpec => []BackoffBounded
<1>1. IndInv => BackoffBounded
  BY DEF IndInv
<1> QED  BY <1>1, IndInvHolds, PTL

\* Offline is asked for only after ERRORS_NEEDED failures in a row.
THEOREM OfflineNeedsErrorsHolds == TSpec => []OfflineNeedsErrors
<1>1. IndInv => OfflineNeedsErrors
  BY IntervalsAssumption DEF IndInv, OfflineNeedsErrors, TTypeOK, TypeOK, Positive
<1> QED  BY <1>1, IndInvHolds, PTL

\* An outage is reported within the longest delay plus the retries.
THEOREM OutageReportedHolds == TSpec => []OutageReported
<1>1. IndInv => OutageReported
  BY RetriesLeftBound, RetriesFacts, MaxDelayFacts DEF IndInv, OutageReported, TTypeOK, TypeOK
<1> QED  BY <1>1, IndInvHolds, PTL

\* A recovery is reported within the longest delay.
THEOREM RecoveryReportedHolds == TSpec => []RecoveryReported
<1>1. IndInv => RecoveryReported
  BY MaxDelayFacts DEF IndInv, RecoveryReported, TTypeOK, TypeOK
<1> QED  BY <1>1, IndInvHolds, PTL

-----------------------------------------------------------------------------
(* The published states. *)


Stages == {"idle", "test", "truncate", "write", "uci", "spot"}

Told(b) == IF b THEN "Online" ELSE "Offline"

Agreed       == file = Told(uci)
HotspotIs(b) == ~skipped => hotspot = b /\ ap = b

\* What script r has found and done when it is at its stage.
StageInv(r) ==
    /\ script[r].at = "truncate" => uci = ~GoesOnline(r) /\ Agreed /\ HotspotIs(uci)
    /\ script[r].at = "write" => uci = ~GoesOnline(r) /\ file = "" /\ HotspotIs(uci)
    /\ script[r].at = "uci" =>
          uci = ~GoesOnline(r) /\ file = script[r].cmd /\ HotspotIs(uci)
    /\ script[r].at = "spot" => uci = GoesOnline(r) /\ Agreed /\ HotspotIs(~uci)

\* A script that has not yet changed anything.
Untouched(r) == script[r].at \in {"idle", "test"}

\* Until two scripts have overlapped, the one of the daemon waits at its first
\* step while one that was left behind goes on.
ScriptsInv ==
    ~overlap =>
        /\ Active("orphan") => Untouched("job")
        /\ (\A r \in Runners : Untouched(r)) => Agreed /\ HotspotIs(uci)
        /\ \A r \in Runners : StageInv(r)

\* The inductive invariant.
OnlineInv ==
    /\ FTypeOK
    /\ pc = "sleep" => delay > 0
    /\ ScriptsInv

-----------------------------------------------------------------------------
(* The prober.                                                             *)

ProberInv == TypeOK /\ (pc = "sleep" => delay > 0)

\* Ageing the back-off keeps the interval positive and the countdown to the
\* next doubling between 1 and DoubleTime.
LEMMA AgedFacts ==
    ASSUME TypeOK
    PROVE  AgedInterval \in Positive /\ AgedDoubleDelay \in 1 .. DoubleTime
  BY IntervalsAssumption
     DEF TypeOK, AgedInterval, AgedDoubleDelay, Doubles, Ageing, Positive

\* The upper half of an iteration ends with a positive delay: the sleep that
\* follows may take a second from it.
LEMMA TopKeeps == ASSUME ProberInv, Top PROVE ProberInv'
<1>a. AgedInterval \in Positive /\ AgedDoubleDelay \in 1 .. DoubleTime
  BY AgedFacts DEF ProberInv
<1>c. CountError \in 0 .. ErrorsNeeded
  BY IntervalsAssumption DEF CountError, ProberInv, TypeOK, Positive
<1> USE IntervalsAssumption DEF ProberInv, TypeOK, AtTop, Positive
<1>1. CASE NotDue
  BY <1>1, <1>a DEF NotDue, Backoff
<1>2. CASE ProbeFailsOnline
  BY <1>2, <1>a, <1>c DEF ProbeFailsOnline, Backoff
<1>3. CASE GoOffline
  BY <1>3, <1>c DEF GoOffline
<1>4. CASE ProbeFailsOffline
  BY <1>4, <1>a DEF ProbeFailsOffline, Backoff
<1>5. CASE ProbeSucceeds
  BY <1>5, <1>a DEF ProbeSucceeds, Backoff
<1> QED  BY <1>1, <1>2, <1>3, <1>4, <1>5 DEF Top

\* So do the sleep, with the rereading of the file, a restart and a change of
\* the network.
LEMMA SleepKeeps == ASSUME ProberInv, Sleep PROVE ProberInv'
<1>1. Reread \in BOOLEAN
  BY Zenon DEF Reread, ProberInv, TypeOK
<1> QED  BY <1>1 DEF Sleep, ProberInv, TypeOK

LEMMA RestartKeeps == ASSUME ProberInv, Restart PROVE ProberInv'
<1>1. is_online' \in BOOLEAN
  BY Zenon DEF Restart
<1> QED  BY <1>1, IntervalsAssumption DEF Restart, ProberInv, TypeOK, Positive

LEMMA NetChangeKeeps == ASSUME ProberInv, NetChange PROVE ProberInv'
<1>1. net' \in BOOLEAN
  BY Zenon DEF NetChange, ProberInv, TypeOK
<1> QED  BY <1>1 DEF NetChange, locals, ProberInv, TypeOK

\* A step that leaves the prober alone, except for what the state file says.
LEMMA ProberRests ==
    ASSUME ProberInv, UNCHANGED <<pc, locals, cmd, net>>, file' \in FileContents
    PROVE  ProberInv'
  BY DEF ProberInv, TypeOK, locals

-----------------------------------------------------------------------------
(* The types of the daemon's and the scripts' variables.                   *)

ScriptRecords == [cmd : Commands, at : Stages]

QueueType == /\ inflight \in [Commands -> 0 .. MaxPending]
             /\ queue \in Seq(Commands) /\ Pending <= MaxPending

FlagType == {up, uci, hotspot, ap, users, skipped, overlap} \subseteq BOOLEAN

\* The type invariant of the whole, taken apart.
LEMMA TypeParts ==
    FTypeOK <=> /\ TypeOK /\ QueueType /\ FlagType
                /\ script \in [Runners -> ScriptRecords]
                /\ faults \in 0 .. MaxFaults
  BY DEF FTypeOK, QueueType, FlagType, ScriptRecords, Stages

\* A step that leaves the scripts and what they publish alone keeps their
\* invariant.
LEMMA SameScripts ==
    ASSUME ScriptsInv, UNCHANGED <<script, file, uci, hotspot, ap, skipped, overlap>>
    PROVE  ScriptsInv'
  BY DEF ScriptsInv, StageInv, Untouched, Active, GoesOnline, Agreed, HotspotIs, Told

-----------------------------------------------------------------------------
(* One lemma per action.                                                   *)

\* The initial state satisfies the invariant.
LEMMA OnlineInit == FInit => OnlineInv
<1> SUFFICES ASSUME FInit
             PROVE  OnlineInv
  OBVIOUS
<1> USE FonOnlineAssumption DEF FInit
<1>b. is_online \in BOOLEAN /\ net \in BOOLEAN
  BY Zenon DEF Init, OnlineStart
<1>1. TypeOK /\ pc = "top"
  BY <1>b, IntervalsAssumption DEF Init, OnlineStart, TypeOK, FileContents, Positive
<1>2. QueueType
  BY DEF QueueType, Pending, Commands, Positive
<1>3. FlagType
  BY DEF FlagType
<1>4. script \in [Runners -> ScriptRecords]
  BY DEF IdleScript, ScriptRecords, Stages, Commands
<1>5. ScriptsInv
  BY DEF ScriptsInv, StageInv, Untouched, Active, Agreed, HotspotIs, Told, IdleScript,
         Runners, Init
<1> QED  BY <1>1, <1>2, <1>3, <1>4, <1>5, TypeParts DEF OnlineInv

LEMMA ProberTopInv == ASSUME OnlineInv, ProberTop PROVE OnlineInv'
<1>1. ProberInv'
  BY TopKeeps DEF OnlineInv, FTypeOK, ProberInv, ProberTop
<1>2. QueueType'
  <2>1. QueueType /\ Len(queue) \in Nat
    BY TypeParts, LenProperties DEF OnlineInv, QueueType
  <2>2. CASE cmd' = "none"
    BY <2>1, <2>2 DEF ProberTop, QueueType, Pending
  <2>3. CASE cmd' # "none"
    <3>1. cmd' \in Commands
      BY <1>1, <2>3 DEF ProberInv, TypeOK, Commands
    <3>2. inflight' = [inflight EXCEPT ![cmd'] = @ + 1] /\ Pending < MaxPending
      BY <2>3 DEF ProberTop
    <3> QED  BY <2>1, <3>1, <3>2, FonOnlineAssumption
             DEF QueueType, Pending, Commands, ProberTop, Positive
  <2> QED  BY <2>2, <2>3
<1>3. file' = file
  BY DEF ProberTop, Top, NotDue, ProbeFailsOnline, GoOffline, ProbeFailsOffline,
         ProbeSucceeds, AtTop
<1>4. ScriptsInv'
  BY <1>3, SameScripts DEF OnlineInv, ProberTop
<1>5. FTypeOK'
  BY <1>1, <1>2, TypeParts DEF OnlineInv, ProberInv, ProberTop, FTypeOK, QueueType
<1> QED  BY <1>1, <1>4, <1>5 DEF OnlineInv, ProberInv

LEMMA ProberOtherInv ==
    ASSUME OnlineInv, ProberSleep \/ ProberRestart \/ Network
    PROVE  OnlineInv'
<1>1. ProberInv'
  BY SleepKeeps, RestartKeeps, NetChangeKeeps
     DEF OnlineInv, FTypeOK, ProberInv, ProberSleep, ProberRestart, Network
<1>2. /\ UNCHANGED <<inflight, up, queue, script, uci, hotspot, ap, users, skipped, overlap>>
      /\ file' = file
  BY DEF ProberSleep, ProberRestart, Network, Sleep, Restart, NetChange, outer
<1>3. faults' \in 0 .. MaxFaults
  BY FonOnlineAssumption
     DEF ProberSleep, ProberRestart, Network, outer, Fault, OnlineInv, FTypeOK
<1>4. FTypeOK'
  BY <1>1, <1>2, <1>3 DEF OnlineInv, ProberInv, FTypeOK, Pending
<1> QED  BY <1>1, <1>2, <1>4, SameScripts DEF OnlineInv, ProberInv

LEMMA DeliverInv == ASSUME OnlineInv, NEW c \in Commands, Deliver(c) PROVE OnlineInv'
<1>1. ProberInv'
  BY ProberRests DEF Deliver, OnlineInv, FTypeOK, TypeOK, ProberInv, vars, locals
<1>2. QueueType'
  <2>1. QueueType /\ Len(queue) \in Nat
    BY TypeParts, LenProperties DEF OnlineInv, QueueType
  <2>2. queue' \in Seq(Commands) /\ Len(queue') \in Nat /\ Len(queue') <= Len(queue) + 1
    BY <2>1 DEF Deliver, QueueType
  <2> QED  BY <2>1, <2>2, FonOnlineAssumption DEF QueueType, Pending, Commands, Deliver, Positive
<1>3. ScriptsInv'
  BY SameScripts DEF OnlineInv, Deliver, vars
<1>4. FTypeOK'
  BY <1>1, <1>2 DEF OnlineInv, ProberInv, Deliver, FTypeOK, QueueType
<1> QED  BY <1>1, <1>3, <1>4 DEF OnlineInv, ProberInv

LEMMA StartScriptInv == ASSUME OnlineInv, StartScript PROVE OnlineInv'
<1>1. ProberInv'
  BY ProberRests DEF StartScript, OnlineInv, FTypeOK, TypeOK, ProberInv, vars, locals
<1>q. QueueType /\ queue # <<>>
  BY TypeParts DEF OnlineInv, StartScript
<1>2. Head(queue) \in Commands /\ queue' \in Seq(Commands) /\ Len(queue') = Len(queue) - 1
      /\ Len(queue) \in Nat
  BY <1>q, HeadTailProperties, LenProperties DEF QueueType, StartScript
<1>3. QueueType'
  BY <1>q, <1>2, FonOnlineAssumption DEF QueueType, Pending, Commands, StartScript, Positive
<1>4. script' \in [Runners -> ScriptRecords]
  BY <1>2, TypeParts DEF OnlineInv, StartScript, ScriptRecords, Stages, Runners
<1>5. FTypeOK'
  BY <1>1, <1>3, <1>4, TypeParts
     DEF OnlineInv, ProberInv, StartScript, FTypeOK, QueueType, ScriptRecords, Stages
<1>6. ScriptsInv'
  <2>1. /\ script["job"].at = "idle" /\ script'["job"].at = "test"
        /\ script'["orphan"] = script["orphan"]
    BY TypeParts DEF OnlineInv, StartScript, Runners
  <2>2. UNCHANGED <<file, uci, hotspot, ap, skipped, overlap>>
    BY DEF StartScript, vars
  <2> QED  BY <2>1, <2>2 DEF OnlineInv, ScriptsInv, StageInv, Untouched, Active, GoesOnline,
                             Agreed, HotspotIs, Told, Runners
<1> QED  BY <1>1, <1>5, <1>6 DEF OnlineInv, ProberInv

\* A script of the killed daemon goes on where it is, and no other is there.
LEMMA KillDaemonInv == ASSUME OnlineInv, KillDaemon PROVE OnlineInv'
<1>1. ProberInv'
  BY ProberRests DEF KillDaemon, OnlineInv, FTypeOK, TypeOK, ProberInv, vars, locals
<1>q. QueueType /\ FlagType /\ script \in [Runners -> ScriptRecords] /\ faults \in 0 .. MaxFaults
  BY TypeParts DEF OnlineInv
<1>2. QueueType'
  <2>1. queue' = <<>> /\ queue' \in Seq(Commands) /\ Len(queue') = 0 /\ Len(queue) \in Nat
    BY <1>q, LenProperties DEF KillDaemon, QueueType
  <2> QED  BY <2>1, <1>q, FonOnlineAssumption DEF QueueType, Pending, Commands, KillDaemon, Positive
<1>3. IdleScript \in ScriptRecords /\ IdleScript.at = "idle"
  BY DEF IdleScript, ScriptRecords, Stages, Commands
<1>4. script' \in [Runners -> ScriptRecords]
  BY <1>q, <1>3 DEF KillDaemon, Runners
<1>b. up' \in BOOLEAN
  BY Zenon DEF KillDaemon
<1>5. FlagType' /\ faults' \in 0 .. MaxFaults
  BY <1>q, <1>b, FonOnlineAssumption DEF FlagType, KillDaemon, Fault
<1>6. FTypeOK'
  BY <1>1, <1>2, <1>4, <1>5, TypeParts
     DEF ProberInv, FTypeOK, QueueType, FlagType, ScriptRecords, Stages
<1>7. ScriptsInv'
  <2>2. UNCHANGED <<file, uci, hotspot, ap, skipped, overlap>>
    BY DEF KillDaemon, vars
  <2>3. CASE script["job"].at = "idle"
    BY <2>2, <2>3, SameScripts DEF OnlineInv, KillDaemon
  <2>4. CASE script["job"].at # "idle"
    <3>1. /\ script["orphan"].at = "idle"
          /\ script'["orphan"] = script["job"] /\ script'["job"].at = "idle"
      BY <2>4, <1>q, <1>3 DEF KillDaemon, Runners
    <3> QED  BY <2>2, <3>1 DEF OnlineInv, ScriptsInv, StageInv, Untouched, Active, GoesOnline,
                               Agreed, HotspotIs, Told, Runners
  <2> QED  BY <2>3, <2>4
<1> QED  BY <1>1, <1>6, <1>7 DEF OnlineInv, ProberInv

LEMMA OtherInv == ASSUME OnlineInv, StartDaemon \/ UsersChange PROVE OnlineInv'
<1>1. ProberInv'
  BY ProberRests DEF StartDaemon, UsersChange, OnlineInv, FTypeOK, TypeOK, ProberInv, vars, locals
<1>2. ScriptsInv'
  BY SameScripts DEF OnlineInv, StartDaemon, UsersChange, vars
<1>3. UNCHANGED <<inflight, queue, script, uci, hotspot, ap, skipped, overlap>>
  BY DEF StartDaemon, UsersChange
<1>4. up' \in BOOLEAN /\ users' \in BOOLEAN
  BY TypeParts DEF OnlineInv, StartDaemon, UsersChange, FlagType
<1>5. faults' \in 0 .. MaxFaults
  BY TypeParts, FonOnlineAssumption DEF OnlineInv, StartDaemon, UsersChange, Fault
<1>6. FTypeOK'
  BY <1>1, <1>3, <1>4, <1>5 DEF OnlineInv, ProberInv, FTypeOK, Pending
<1> QED  BY <1>1, <1>2, <1>6 DEF OnlineInv, ProberInv

-----------------------------------------------------------------------------
(* The steps of the scripts.                                               *)

\* What the step from a to b of script r does to the scripts: only r moves,
\* and if no overlap is noted the other script is not there.
LEMMA MovesAlone ==
    ASSUME OnlineInv, NEW r \in Runners, NEW a \in Stages \ {"idle"}, NEW b \in Stages,
           Moves(r, a, b)
    PROVE  /\ script' \in [Runners -> ScriptRecords]
           /\ overlap' \in BOOLEAN
           /\ script[r].at = a /\ script'[r].at = b
           /\ b # "idle" => script'[r].cmd = script[r].cmd
           /\ ~overlap' => /\ ~overlap
                           /\ \A q \in Runners \ {r} :
                                 script[q].at = "idle" /\ script'[q].at = "idle"
<1>1. script \in [Runners -> ScriptRecords] /\ overlap \in BOOLEAN
  BY TypeParts DEF OnlineInv, FlagType
<1>2. IdleScript \in ScriptRecords /\ IdleScript.at = "idle"
  BY DEF IdleScript, ScriptRecords, Stages, Commands
<1> DEFINE after == IF b = "idle" THEN IdleScript ELSE [cmd |-> script[r].cmd, at |-> b]
<1>3. after \in ScriptRecords /\ after.at = b /\ (b # "idle" => after.cmd = script[r].cmd)
  BY <1>1, <1>2 DEF ScriptRecords
<1>4. script' = [script EXCEPT ![r] = after]
  BY DEF Moves
<1> HIDE DEF after
<1>5. script' \in [Runners -> ScriptRecords] /\ script'[r] = after
  BY <1>1, <1>3, <1>4
<1>6. overlap' \in BOOLEAN
  BY Zenon DEF Moves
<1>7. ASSUME ~overlap', NEW q \in Runners \ {r}
      PROVE  ~overlap /\ script[q].at = "idle" /\ script'[q].at = "idle"
  <2>1. ~overlap /\ ~(\A p \in Runners : Active(p))
    BY <1>7 DEF Moves
  <2>2. Active(r)
    BY DEF Moves, Active, Stages
  <2>3. Runners = {r, q}
    BY DEF Runners
  <2>4. script[q].at = "idle"
    BY <2>1, <2>2, <2>3 DEF Active
  <2>5. script'[q] = script[q]
    BY <1>1, <1>4
  <2> QED  BY <2>1, <2>4, <2>5
<1>8. ~overlap' => ~overlap
  BY Zenon DEF Moves
<1> QED  BY <1>3, <1>5, <1>6, <1>7, <1>8 DEF Moves

\* If script r, alone, moves to stage b and what it has done fits that stage,
\* the invariant of the scripts holds.
LEMMA AloneInv ==
    ASSUME NEW r \in Runners,
           \A q \in Runners \ {r} : script'[q].at = "idle",
           Untouched(r)' => (Agreed /\ HotspotIs(uci))',
           StageInv(r)'
    PROVE  ScriptsInv'
<1>1. \A q \in Runners \ {r} : StageInv(q)' /\ Untouched(q)' /\ ~Active(q)'
  BY DEF StageInv, Untouched, Active
<1>2. Active("orphan")' => Untouched("job")'
  BY <1>1 DEF Runners
<1> QED  BY <1>1, <1>2 DEF ScriptsInv

\* The types after a step of a script.
LEMMA ScriptTypes ==
    ASSUME OnlineInv, script' \in [Runners -> ScriptRecords],
           UNCHANGED <<pc, locals, cmd, net, inflight, up, queue, users, faults>>,
           file' \in FileContents,
           {uci', hotspot', ap', skipped', overlap'} \subseteq BOOLEAN
    PROVE  FTypeOK' /\ (pc = "sleep" => delay > 0)'
<1>1. ProberInv'
  BY ProberRests DEF OnlineInv, FTypeOK, ProberInv
<1>2. FTypeOK'
  BY <1>1 DEF OnlineInv, ProberInv, FTypeOK, Pending, ScriptRecords, Stages
<1> QED  BY <1>1, <1>2 DEF ProberInv

\* The facts every step of a script starts from.
LEMMA ScriptFacts ==
    ASSUME OnlineInv, NEW r \in Runners
    PROVE  /\ script[r].cmd \in Commands
           /\ {uci, hotspot, ap, skipped, overlap, users} \subseteq BOOLEAN
           /\ file \in FileContents
           /\ ~overlap => StageInv(r)
           /\ ~overlap /\ (\A q \in Runners : Untouched(q)) => Agreed /\ HotspotIs(uci)
  BY TypeParts DEF OnlineInv, ScriptsInv, FlagType, ScriptRecords, TypeOK

LEMMA TestStateInv == ASSUME OnlineInv, NEW r \in Runners, TestState(r) PROVE OnlineInv'
<1> DEFINE b == IF AlreadyThere(r) THEN "idle" ELSE "truncate"
<1>1. b \in Stages /\ Moves(r, "test", b) /\ "test" \in Stages \ {"idle"}
  BY DEF TestState, Stages
<1> HIDE DEF b
<1>2. /\ script' \in [Runners -> ScriptRecords] /\ overlap' \in BOOLEAN
      /\ script[r].at = "test" /\ script'[r].at = b
      /\ b # "idle" => script'[r].cmd = script[r].cmd
      /\ ~overlap' => /\ ~overlap
                      /\ \A q \in Runners \ {r} :
                            script[q].at = "idle" /\ script'[q].at = "idle"
  BY <1>1, MovesAlone
<1>3. UNCHANGED <<pc, locals, cmd, net, inflight, up, queue, users, faults>>
  BY <1>1 DEF Moves
<1>4. UNCHANGED <<file, uci, hotspot, ap, skipped>>
  BY DEF TestState
<1>5. FTypeOK' /\ (pc = "sleep" => delay > 0)'
  BY <1>2, <1>3, <1>4, ScriptFacts, ScriptTypes
<1>6. ASSUME ~overlap'
      PROVE  ScriptsInv'
  <2>1. Agreed /\ HotspotIs(uci)
    <3>1. \A q \in Runners : Untouched(q)
      BY <1>2, <1>6 DEF Untouched
    <3> QED  BY <3>1, <1>2, <1>6, ScriptFacts
  <2>2. (Agreed /\ HotspotIs(uci))'
    BY <2>1, <1>4 DEF Agreed, HotspotIs, Told
  <2>3. uci \in BOOLEAN
    BY ScriptFacts
  <2>4. b = "truncate" => uci = ~GoesOnline(r)
    <3>1. b = "truncate" => ~(uci = GoesOnline(r))
      BY DEF b, AlreadyThere
    <3> QED  BY <3>1, <2>3, Zenon DEF GoesOnline
  <2>5. b = "truncate" => (uci = ~GoesOnline(r))'
    BY <2>4, <1>2, <1>4 DEF GoesOnline
  <2>6. StageInv(r)'
    BY <2>2, <2>5, <1>2 DEF StageInv, b
  <2> QED  BY <2>2, <2>6, <1>2, <1>6, AloneInv
<1>7. ScriptsInv'
  BY <1>6 DEF ScriptsInv
<1> QED  BY <1>5, <1>7 DEF OnlineInv

LEMMA TruncateFileInv == ASSUME OnlineInv, NEW r \in Runners, TruncateFile(r) PROVE OnlineInv'
<1>1. Moves(r, "truncate", "write") /\ "truncate" \in Stages \ {"idle"} /\ "write" \in Stages
  BY DEF TruncateFile, Stages
<1>2. /\ script' \in [Runners -> ScriptRecords] /\ overlap' \in BOOLEAN
      /\ script[r].at = "truncate" /\ script'[r].at = "write"
      /\ script'[r].cmd = script[r].cmd
      /\ ~overlap' => /\ ~overlap
                      /\ \A q \in Runners \ {r} :
                            script[q].at = "idle" /\ script'[q].at = "idle"
  BY <1>1, MovesAlone
<1>3. UNCHANGED <<pc, locals, cmd, net, inflight, up, queue, users, faults>>
  BY <1>1 DEF Moves
<1>4. UNCHANGED <<uci, hotspot, ap, skipped>> /\ file' = ""
  BY DEF TruncateFile
<1>5. FTypeOK' /\ (pc = "sleep" => delay > 0)'
  BY <1>2, <1>3, <1>4, ScriptFacts, ScriptTypes DEF FileContents
<1>6. ASSUME ~overlap'
      PROVE  ScriptsInv'
  <2>1. uci = ~GoesOnline(r) /\ HotspotIs(uci)
    BY <1>2, <1>6, ScriptFacts DEF StageInv
  <2>2. (uci = ~GoesOnline(r))' /\ HotspotIs(uci)'
    BY <2>1, <1>2, <1>4 DEF GoesOnline, HotspotIs
  <2>3. StageInv(r)' /\ ~Untouched(r)'
    BY <2>2, <1>2, <1>4 DEF StageInv, Untouched
  <2> QED  BY <2>3, <1>2, <1>6, AloneInv
<1>7. ScriptsInv'
  BY <1>6 DEF ScriptsInv
<1> QED  BY <1>5, <1>7 DEF OnlineInv

LEMMA WriteFileInv == ASSUME OnlineInv, NEW r \in Runners, WriteFile(r) PROVE OnlineInv'
<1>1. Moves(r, "write", "uci") /\ "write" \in Stages \ {"idle"} /\ "uci" \in Stages
  BY DEF WriteFile, Stages
<1>2. /\ script' \in [Runners -> ScriptRecords] /\ overlap' \in BOOLEAN
      /\ script[r].at = "write" /\ script'[r].at = "uci"
      /\ script'[r].cmd = script[r].cmd
      /\ ~overlap' => /\ ~overlap
                      /\ \A q \in Runners \ {r} :
                            script[q].at = "idle" /\ script'[q].at = "idle"
  BY <1>1, MovesAlone
<1>3. UNCHANGED <<pc, locals, cmd, net, inflight, up, queue, users, faults>>
  BY <1>1 DEF Moves
<1>4. UNCHANGED <<uci, hotspot, ap, skipped>> /\ file' = script[r].cmd
  BY DEF WriteFile
<1>c. file' \in FileContents
  BY <1>4, ScriptFacts DEF FileContents, Commands
<1>5. FTypeOK' /\ (pc = "sleep" => delay > 0)'
  BY <1>2, <1>3, <1>4, <1>c, ScriptFacts, ScriptTypes
<1>6. ASSUME ~overlap'
      PROVE  ScriptsInv'
  <2>1. uci = ~GoesOnline(r) /\ HotspotIs(uci)
    BY <1>2, <1>6, ScriptFacts DEF StageInv
  <2>2. (uci = ~GoesOnline(r))' /\ HotspotIs(uci)'
    BY <2>1, <1>2, <1>4 DEF GoesOnline, HotspotIs
  <2>3. StageInv(r)' /\ ~Untouched(r)'
    BY <2>2, <1>2, <1>4 DEF StageInv, Untouched
  <2> QED  BY <2>3, <1>2, <1>6, AloneInv
<1>7. ScriptsInv'
  BY <1>6 DEF ScriptsInv
<1> QED  BY <1>5, <1>7 DEF OnlineInv

\* The UCI state follows the file: now both say what the script is for, and the
\* hotspot is still in the state before.
LEMMA SaveUciInv == ASSUME OnlineInv, NEW r \in Runners, SaveUci(r) PROVE OnlineInv'
<1>1. Moves(r, "uci", "spot") /\ "uci" \in Stages \ {"idle"} /\ "spot" \in Stages
  BY DEF SaveUci, Stages
<1>2. /\ script' \in [Runners -> ScriptRecords] /\ overlap' \in BOOLEAN
      /\ script[r].at = "uci" /\ script'[r].at = "spot"
      /\ script'[r].cmd = script[r].cmd
      /\ ~overlap' => /\ ~overlap
                      /\ \A q \in Runners \ {r} :
                            script[q].at = "idle" /\ script'[q].at = "idle"
  BY <1>1, MovesAlone
<1>3. UNCHANGED <<pc, locals, cmd, net, inflight, up, queue, users, faults>>
  BY <1>1 DEF Moves
<1>4. UNCHANGED <<file, hotspot, ap, skipped>> /\ uci' = GoesOnline(r)
  BY DEF SaveUci
<1>b. uci' \in BOOLEAN
  BY <1>4, Zenon DEF GoesOnline
<1>5. FTypeOK' /\ (pc = "sleep" => delay > 0)'
  BY <1>2, <1>3, <1>4, <1>b, ScriptFacts, ScriptTypes
<1>6. ASSUME ~overlap'
      PROVE  ScriptsInv'
  <2>1. uci = ~GoesOnline(r) /\ file = script[r].cmd /\ HotspotIs(uci)
    BY <1>2, <1>6, ScriptFacts DEF StageInv
  <2>2. (uci = GoesOnline(r))'
    BY <1>2, <1>4 DEF GoesOnline
  <2>3. Agreed'
    BY <2>1, <1>4, <1>b, ScriptFacts DEF Agreed, Told, GoesOnline, Commands
  <2>4. uci = ~uci'
    BY <2>1, <1>4, Zenon
  <2>5. HotspotIs(~uci)'
    BY <2>1, <2>4, <1>4 DEF HotspotIs
  <2>6. StageInv(r)' /\ ~Untouched(r)'
    BY <2>2, <2>3, <2>5, <1>2 DEF StageInv, Untouched
  <2> QED  BY <2>6, <1>2, <1>6, AloneInv
<1>7. ScriptsInv'
  BY <1>6 DEF ScriptsInv
<1> QED  BY <1>5, <1>7 DEF OnlineInv

\* The hotspot follows, or the skipped stop is on record.
LEMMA RunSpotInv == ASSUME OnlineInv, NEW r \in Runners, RunSpot(r) PROVE OnlineInv'
<1>1. Moves(r, "spot", "idle") /\ "spot" \in Stages \ {"idle"} /\ "idle" \in Stages
  BY DEF RunSpot, Stages
<1>2. /\ script' \in [Runners -> ScriptRecords] /\ overlap' \in BOOLEAN
      /\ script[r].at = "spot" /\ script'[r].at = "idle"
      /\ ~overlap' => /\ ~overlap
                      /\ \A q \in Runners \ {r} :
                            script[q].at = "idle" /\ script'[q].at = "idle"
  BY <1>1, MovesAlone
<1>3. UNCHANGED <<pc, locals, cmd, net, inflight, up, queue, users, faults>>
  BY <1>1 DEF Moves
<1>4. UNCHANGED <<file, uci>>
  BY DEF RunSpot
<1>s. (GoesOnline(r) /\ HotspotStart) \/ (~GoesOnline(r) /\ HotspotStop)
  BY Zenon DEF RunSpot
<1>f. {uci, hotspot, ap, skipped, users} \subseteq BOOLEAN
  BY ScriptFacts
<1>b. hotspot' \in BOOLEAN /\ ap' \in BOOLEAN /\ skipped' \in BOOLEAN
  <2>1. CASE HotspotStart
    BY <2>1, <1>f, Zenon DEF HotspotStart
  <2>2. CASE HotspotStop
    BY <2>2, Zenon DEF HotspotStop
  <2> QED  BY <2>1, <2>2, <1>s
<1>5. FTypeOK' /\ (pc = "sleep" => delay > 0)'
  BY <1>2, <1>3, <1>4, <1>b, <1>f, ScriptFacts, ScriptTypes
<1>6. ASSUME ~overlap'
      PROVE  ScriptsInv'
  <2>1. uci = GoesOnline(r) /\ Agreed /\ HotspotIs(~uci)
    BY <1>2, <1>6, ScriptFacts DEF StageInv
  <2>2. Agreed'
    BY <2>1, <1>4 DEF Agreed, Told
  <2>3. ASSUME ~skipped'
        PROVE  hotspot' = uci /\ ap' = uci
    <3>1. CASE GoesOnline(r) /\ HotspotStart
      <4>1. uci = TRUE /\ ~skipped
        BY <3>1, <2>1, <2>3 DEF HotspotStart
      <4>2. hotspot = FALSE
        BY <4>1, <2>1, Zenon DEF HotspotIs
      <4> QED  BY <3>1, <4>1, <4>2, <1>f DEF HotspotStart
    <3>2. CASE ~GoesOnline(r) /\ HotspotStop
      <4>0. uci = FALSE
        BY <3>2, <2>1, <1>f
      <4>1. uci = FALSE /\ ~(hotspot /\ users)
        BY <3>2, <4>0, <2>3 DEF HotspotStop
      <4> QED  BY <3>2, <4>1, Zenon DEF HotspotStop
    <3> QED  BY <3>1, <3>2, <1>s
  <2>4. HotspotIs(uci)'
    BY <2>3, <1>4 DEF HotspotIs
  <2>5. StageInv(r)'
    BY <1>2 DEF StageInv
  <2> QED  BY <2>2, <2>4, <2>5, <1>2, <1>6, AloneInv
<1>7. ScriptsInv'
  BY <1>6 DEF ScriptsInv
<1> QED  BY <1>5, <1>7 DEF OnlineInv

-----------------------------------------------------------------------------
\* A stuttering step keeps the invariant.
LEMMA StutterInv == OnlineInv /\ UNCHANGED allVars => OnlineInv'
<1> SUFFICES ASSUME OnlineInv, UNCHANGED allVars
             PROVE  OnlineInv'
  OBVIOUS
<1> USE DEF allVars, vars, outer
<1>1. ScriptsInv'
  BY SameScripts DEF OnlineInv
<1>2. FTypeOK' /\ (pc = "sleep" => delay > 0)'
  BY DEF OnlineInv, FTypeOK, TypeOK, Pending
<1> QED  BY <1>1, <1>2 DEF OnlineInv

\* Every reachable state of the loop of prober, daemon and scripts satisfies
\* the invariant.
THEOREM OnlineInvHolds == FSpec => []OnlineInv
<1>1. FInit => OnlineInv
  BY OnlineInit
<1>2. OnlineInv /\ [FNext]_allVars => OnlineInv'
  <2> SUFFICES ASSUME OnlineInv, [FNext]_allVars
               PROVE  OnlineInv'
    OBVIOUS
  <2>1. CASE Prober \/ ProberRestart \/ Network
    BY <2>1, ProberTopInv, ProberOtherInv DEF Prober
  <2>2. CASE Deliveries
    BY <2>2, DeliverInv DEF Deliveries
  <2>3. CASE StartScript
    BY <2>3, StartScriptInv
  <2>4. CASE KillDaemon
    BY <2>4, KillDaemonInv
  <2>5. CASE StartDaemon \/ UsersChange
    BY <2>5, OtherInv
  <2>6. ASSUME NEW r \in Runners, ScriptStep(r)
        PROVE  OnlineInv'
    BY <2>6, TestStateInv, TruncateFileInv, WriteFileInv, SaveUciInv, RunSpotInv
       DEF ScriptStep
  <2>7. CASE UNCHANGED allVars
    BY <2>7, StutterInv
  <2> QED  BY <2>1, <2>2, <2>3, <2>4, <2>5, <2>6, <2>7 DEF FNext
<1> QED  BY <1>1, <1>2, PTL DEF FSpec

\* Every variable of the loop keeps its type; the commands under way stay within
\* their bound and the prober's delay never runs below zero.
THEOREM FTypeCorrect == FSpec => []FTypeOK
<1>1. OnlineInv => FTypeOK
  BY DEF OnlineInv
<1> QED  BY <1>1, OnlineInvHolds, PTL

\* Between scripts, the state file that the prober rereads and the UCI state that
\* the scripts test say the same, unless two scripts overlapped (setOnline and
\* setOffline of luci.fon.state).
THEOREM StatesAgreeHolds == FSpec => []StatesAgree
<1>1. OnlineInv => StatesAgree
  BY DEF OnlineInv, ScriptsInv, StatesAgree, Quiet, Active, Untouched, Agreed, Told
<1> QED  BY <1>1, OnlineInvHolds, PTL

\* Between scripts, chilli and the public access point run exactly while the
\* router is online, unless two scripts overlapped or spot.stop() returned early
\* because of users.
THEOREM HotspotFollowsHolds == FSpec => []HotspotFollows
<1>1. OnlineInv => HotspotFollows
  BY DEF OnlineInv, ScriptsInv, HotspotFollows, Quiet, Active, Untouched, HotspotIs
<1> QED  BY <1>1, OnlineInvHolds, PTL

-----------------------------------------------------------------------------
(* Without a kill in mid-script there is no second script.                 *)

NoOrphan == script["orphan"].at = "idle" /\ ~overlap

\* If the daemon is never killed while a script runs, no two scripts ever overlap.
THEOREM NeverOverlaps == ASSUME ~KillsMidScript PROVE FSpec => []NoOrphan
<1>1. FInit => NoOrphan
  BY DEF FInit, NoOrphan, IdleScript, Runners
<1>2. OnlineInv /\ NoOrphan /\ [FNext]_allVars => NoOrphan'
  <2> SUFFICES ASSUME OnlineInv, NoOrphan, [FNext]_allVars
               PROVE  NoOrphan'
    OBVIOUS
  <2>1. script \in [Runners -> ScriptRecords]
    BY TypeParts DEF OnlineInv
  <2>2. CASE \/ Prober \/ ProberRestart \/ Network \/ Deliveries \/ StartDaemon \/ UsersChange
             \/ UNCHANGED allVars
    BY <2>2 DEF NoOrphan, Prober, ProberTop, ProberSleep, ProberRestart, Network, Deliveries,
                Deliver, StartDaemon, UsersChange, allVars, outer
  <2>3. CASE StartScript
    BY <2>1, <2>3 DEF NoOrphan, StartScript, Runners
  <2>4. CASE KillDaemon
    BY <2>4 DEF NoOrphan, KillDaemon
  <2>5. ASSUME NEW r \in Runners, ScriptStep(r)
        PROVE  NoOrphan'
    <3>1. PICK a \in Stages \ {"idle"}, b \in Stages : Moves(r, a, b)
      BY <2>5 DEF ScriptStep, TestState, TruncateFile, WriteFile, SaveUci, RunSpot, Stages
    <3>2. script[r].at # "idle"
      BY <3>1 DEF Moves
    <3>3. r = "job"
      BY <3>2 DEF NoOrphan, Runners
    <3>4. script'["orphan"] = script["orphan"]
      BY <2>1, <3>1, <3>3 DEF Moves, Runners
    <3>5. ~overlap'
      BY <3>1, Zenon DEF Moves, NoOrphan, Active, Runners
    <3> QED  BY <3>4, <3>5 DEF NoOrphan
  <2> QED  BY <2>2, <2>3, <2>4, <2>5 DEF FNext
<1> QED  BY <1>1, <1>2, OnlineInvHolds, PTL DEF FSpec

\* And then the comment on setOnline() and setOffline() holds: their bodies run
\* only if the published state is another ("do not run if we are already online").
THEOREM RunsOnlyOnChangeHolds == ASSUME ~KillsMidScript PROVE FSpec => RunsOnlyOnChange
<1>1. OnlineInv /\ NoOrphan =>
         \A r \in Runners : script[r].at = "truncate" => file # script[r].cmd
  <2> SUFFICES ASSUME OnlineInv, NoOrphan, NEW r \in Runners, script[r].at = "truncate"
               PROVE  file # script[r].cmd
    OBVIOUS
  <2>1. uci = ~GoesOnline(r) /\ Agreed /\ uci \in BOOLEAN
    BY ScriptFacts DEF NoOrphan, StageInv
  <2> QED  BY <2>1 DEF Agreed, Told, GoesOnline
<1>2. (\A r \in Runners : script[r].at = "truncate" => file # script[r].cmd) =>
         [\A r \in Runners :
             script[r].at = "truncate" /\ script'[r].at = "write"
                 => file # script[r].cmd]_allVars
  OBVIOUS
<1> QED  BY <1>1, <1>2, OnlineInvHolds, NeverOverlaps, PTL DEF RunsOnlyOnChange
==============================================================================
