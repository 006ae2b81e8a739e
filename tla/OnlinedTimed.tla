---------------------------- MODULE OnlinedTimed ----------------------------
(***************************************************************************)
(* Onlined with two history variables, for the properties that count:      *)
(*   fails    probes that failed in a row, up to now;                      *)
(*   overdue  seconds for which this incarnation of the daemon has         *)
(*            believed the opposite of what a probe would have said,       *)
(*            without having sent the command that corrects it (counted    *)
(*            to one beyond the bounds below).                             *)
(***************************************************************************)
EXTENDS Onlined

VARIABLES fails, overdue

tvars == <<vars, fails, overdue>>

Larger(a, b) == IF a < b THEN b ELSE a

\* The longest the daemon ever leaves between two probes.
MaxDelay == Larger(IntervalOnline, Larger(IntervalOfflineMax, IntervalError))

\* The seconds the retries after a first error take.
Retries == (ErrorsNeeded - 1) * IntervalError

TInit == Init /\ fails = 0 /\ overdue = 0

Mistaken == is_online # net

TTop ==
    /\ Top
    /\ fails' = IF delay # 0 THEN fails ELSE IF net THEN 0
                ELSE IF fails < ErrorsNeeded THEN fails + 1 ELSE fails
    /\ overdue' = IF cmd' # "none" THEN 0 ELSE overdue

TSleep ==
    /\ Sleep
    /\ overdue' = IF Mistaken /\ Mistaken' /\ is_online' = is_online
                  THEN IF overdue <= MaxDelay + Retries THEN overdue + 1 ELSE overdue
                  ELSE 0
    /\ UNCHANGED fails

TEnvironment ==
    \/ Restart   /\ fails' = 0 /\ overdue' = 0
    \/ StateFile /\ UNCHANGED <<fails, overdue>>
    \/ NetChange /\ overdue' = 0 /\ UNCHANGED fails

TNext == TTop \/ TSleep \/ TEnvironment

TSpec == TInit /\ [][TNext]_tvars /\ WF_vars(Loop)

TTypeOK == TypeOK /\ fails \in 0 .. ErrorsNeeded /\ overdue \in Nat

-----------------------------------------------------------------------------
\* "Go offline after getting five subsequent errors": the daemon asks for
\* Offline only after ERRORS_NEEDED probes failed with no success between
\* them, even though it counts only the ones that failed while it believed to
\* be online and keeps the count across what others do to the state file.
OfflineNeedsErrors == cmd = "Offline" => fails >= ErrorsNeeded

\* An outage is reported in bounded time: the daemon believes to be online
\* while every probe would fail for at most the longest delay plus the retries.
OutageReported == is_online /\ ~net => overdue <= MaxDelay + Retries

\* A recovery is reported within the longest delay between two probes.
RecoveryReported == ~is_online /\ net => overdue <= MaxDelay

-----------------------------------------------------------------------------
(* The inductive invariant the two bounds rest on: what is still to wait.  *)

RetriesLeft ==
    IF error_count < ErrorsNeeded
    THEN (ErrorsNeeded - 1 - error_count) * IntervalError ELSE 0

Waiting == IF pc = "sleep" THEN delay >= 1 ELSE delay >= 0

IndInv ==
    /\ TTypeOK
    /\ BackoffBounded
    /\ error_count <= fails
    /\ cmd = "Offline" => error_count = ErrorsNeeded
    /\ Waiting
    /\ delay <= MaxDelay
    /\ is_online /\ ~net => overdue + delay + RetriesLeft <= MaxDelay + Retries
    /\ ~is_online /\ net => overdue + delay <= MaxDelay
=============================================================================
