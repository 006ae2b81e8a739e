------------------------------- MODULE QosMon -------------------------------
(***************************************************************************)
(* The active congestion controller (package/qos-gargoyle/src/qosmon.c).   *)
(*                                                                         *)
(* Every period the main loop sends a ping if pinging is on, collects the  *)
(* pongs that arrive, scans the kernel's traffic classes and runs a state  *)
(* machine that sets the upper limit of the download link: CHK waits for   *)
(* the ping target to answer, INIT unloads the link and measures the ping  *)
(* time, IDLE, ACTIVE and REALTIME raise and lower the limit to keep the   *)
(* ping time.  A change of the class structure sends it back to CHK.       *)
(*                                                                         *)
(* One action is one pass of the loop.  Rates and times are in units of    *)
(* the instance; the steps of the controller, floating point in the code,  *)
(* are any move in the right direction between two of the Levels.          *)
(***************************************************************************)
EXTENDS Integers

CONSTANTS Link,           \* DBW_UL, the speed of the link
          Unload,         \* the limit during the measurement (1000 bps)
          Levels,         \* the limits the controller can choose
          Loads,          \* values of the filtered load, dbw_fil
          Period,         \* the ping period; longer trips count as this
          Trips,          \* trip times below the period
          Scale,          \* units of fil_triptime in one of rawfltime (1000)
          PingLimits,     \* ping limits on the command line, 0 for none
          PingLimitMin,   \* the sanity checks of the measured limit
          PingLimitMax,
          InitStart,      \* pongs before the filter starts (10000/period + 1)
          InitEnd,        \* pongs to end the measurement (15000/period + 1)
          Width,          \* nreceived counts modulo this (2^16)
          MaxLate,        \* bound: pings that may still be answered late
          Structures,     \* lists of classes that qosmon can hold
          MaxRebuilds,    \* bound: changes of the class structure
          Refusals        \* whether the kernel may refuse a change of limit

MinLimit  == (15 * Link) \div 100
FairLimit == (9 * Link) \div 10

ASSUME QosAssumption ==
    /\ Link \in Nat /\ Unload \in Nat \ {0} /\ Unload < MinLimit
    /\ Levels \subseteq MinLimit .. Link /\ {FairLimit, MinLimit, Link} \subseteq Levels
    /\ Loads \subseteq Nat /\ 0 \in Loads
    /\ Period \in Nat /\ Trips \subseteq 0 .. Period /\ Scale \in Nat
    /\ PingLimits \subseteq Nat
    /\ PingLimitMin \in Nat \ {0} /\ PingLimitMax \in Nat /\ PingLimitMin <= PingLimitMax
    /\ InitStart \in Nat /\ InitEnd \in Nat /\ MaxLate \in Nat
    /\ Width \in Nat \ {0} /\ InitEnd + MaxLate + 1 < Width
    /\ "gone" \notin Structures /\ "toomany" \notin Structures
    /\ MaxRebuilds \in Nat /\ Refusals \in BOOLEAN

VARIABLES add,             \* the option -a (ADDENTITLEMENT)
          pinglimit_cl,    \* the ping limit of the command line
          qstate,
          pingon,
          nreceived,       \* pongs received
          late,            \* pings that may still be answered
          fil_triptime,
          pinglimit,
          new_dbw_ul,
          saved_active,    \* saved_active_limit
          saved_realtime,  \* saved_realtime_limit
          dbw_ul,          \* the limit qosmon believes the kernel has
          dbw_fil,         \* the load of the last scan
          firstflg,
          known,           \* the classes recorded in dnstats
          classes,         \* the kernel's classes: a structure, "gone", "toomany"
          kernel,          \* the kernel's limit, 0 if there are no classes
          rebuilds

args   == <<add, pinglimit_cl>>
limits == <<new_dbw_ul, saved_active, saved_realtime, dbw_ul, kernel>>
pings  == <<nreceived, late>>
scan   == <<dbw_fil, firstflg, known>>
env    == <<classes, rebuilds>>
qvars  == <<args, qstate, pingon, pings, fil_triptime, pinglimit, limits, scan, env>>

Running == {"IDLE", "ACTIVE", "REALTIME"}
States  == Running \cup {"CHK", "INIT", "EXIT"}
Kernels == Structures \cup {"gone", "toomany"}

\* The type invariant: among others, no limit leaves the dynamic range.
QTypeOK ==
    /\ add \in BOOLEAN /\ pinglimit_cl \in PingLimits
    /\ qstate \in States /\ pingon \in BOOLEAN
    /\ nreceived \in 0 .. Width - 1 /\ late \in 0 .. MaxLate
    /\ fil_triptime \in Nat /\ pinglimit \in Nat
    /\ new_dbw_ul \in Levels /\ saved_active \in Levels /\ saved_realtime \in Levels
    /\ dbw_ul \in Levels \cup {Unload}
    /\ kernel \in Levels \cup {Unload, 0}
    /\ dbw_fil \in Loads /\ firstflg \in BOOLEAN
    /\ known \in Kernels /\ classes \in Kernels
    /\ rebuilds \in 0 .. MaxRebuilds

\* main() up to its loop.  A scan with too many classes ends the program.
QInit ==
    /\ add \in BOOLEAN /\ pinglimit_cl \in PingLimits
    /\ qstate = "CHK" /\ pingon = FALSE
    /\ nreceived = 0 /\ late = 0
    /\ fil_triptime = 0
    /\ pinglimit = pinglimit_cl
    /\ new_dbw_ul = FairLimit /\ saved_active = FairLimit /\ saved_realtime = FairLimit
    /\ dbw_ul = Link /\ kernel = Link
    /\ dbw_fil = 0 /\ firstflg = TRUE
    /\ classes \in Structures /\ known = classes
    /\ rebuilds = 0

-----------------------------------------------------------------------------
(* The parts of a pass.                                                    *)

Pinged == late + IF pingon THEN 1 ELSE 0

\* The inputs of a pass: how many pongs arrive, and the trip time of the last
\* ping, which is the period if it is not answered in time.
Answers == {a \in [pongs : 0 .. MaxLate + 1, raw : Trips \cup {Period}] :
              /\ a.pongs <= Pinged
              /\ a.raw # Period => pingon /\ a.pongs > 0}

Received(a) == (nreceived + a.pongs) % Width

\* Unanswered pings are lost or may still be answered.
Collect(a) == late' \in {l \in 0 .. MaxLate : l <= Pinged - a.pongs}

Changed == classes = "toomany" \/ (~firstflg /\ classes # known)

\* Without the device the scan finds nothing and leaves the load as it was.
ScanOk(load) ==
    /\ ~Changed
    /\ classes = "gone" => load = dbw_fil
    /\ dbw_fil' = load
    /\ firstflg' = FALSE
    /\ known' = classes

\* Integer division of C.
Quotient(a, b) == IF a >= 0 THEN a \div b ELSE -((-a) \div b)

\* alpha is 200, a fifth.
Filtered(a) ==
    IF pingon THEN fil_triptime + Quotient((a.raw * Scale - fil_triptime) * 200, 1000)
    ELSE fil_triptime

\* Whether the kernel takes a new limit.
Outcomes == IF classes = "gone" THEN {FALSE} ELSE IF Refusals THEN BOOLEAN ELSE {TRUE}

\* Mutant: the new limit is sent and not recorded.
TcClassModifyUnrecorded(l, rate, ok) ==
    [ul |-> l.ul, kernel |-> IF l.ul # rate /\ ok THEN rate ELSE l.kernel]

\* tc_class_modify(rate), given the pair l of dbw_ul and the kernel's limit.
TcClassModify(l, rate, ok) ==
    [ul |-> rate, kernel |-> IF l.ul # rate /\ ok THEN rate ELSE l.kernel]

Limit == [ul |-> dbw_ul, kernel |-> kernel]
SetLimit(l) == dbw_ul' = l.ul /\ kernel' = l.kernel

-----------------------------------------------------------------------------
(* One pass of the loop, for each outcome.                                 *)

\* An error of the scan or a different number of classes.
Reset(a) ==
    /\ Changed
    /\ Collect(a) /\ nreceived' = Received(a)
    /\ firstflg' = TRUE
    /\ pingon' = FALSE
    /\ qstate' = "CHK"
    /\ dbw_fil' \in IF classes = "gone" THEN {dbw_fil} ELSE Loads
    /\ known' = classes
    /\ UNCHANGED <<args, fil_triptime, pinglimit, limits, env>>

\* Mutant: pinging is not turned on.
CheckWaitsSilently(a) ==
    /\ qstate = "CHK" /\ Received(a) < 2
    /\ Collect(a) /\ nreceived' = Received(a)
    /\ \E load \in Loads : ScanOk(load)
    /\ fil_triptime' = Filtered(a)
    /\ UNCHANGED <<args, qstate, pingon, pinglimit, limits, env>>

CheckWaits(a) ==
    /\ qstate = "CHK" /\ Received(a) < 2
    /\ Collect(a) /\ nreceived' = Received(a)
    /\ \E load \in Loads : ScanOk(load)
    /\ pingon' = TRUE
    /\ fil_triptime' = Filtered(a)
    /\ UNCHANGED <<args, qstate, pinglimit, limits, env>>

\* "Forces an update": dbw_ul is 0 when the limit is set.
CheckToIdle(a) ==
    /\ qstate = "CHK" /\ Received(a) >= 2
    /\ pinglimit # 0 /\ ~add
    /\ Collect(a) /\ nreceived' = Received(a)
    /\ \E load \in Loads : ScanOk(load)
    /\ pingon' = TRUE
    /\ \E ok \in Outcomes :
          SetLimit(TcClassModify([Limit EXCEPT !.ul = 0], new_dbw_ul, ok))
    /\ fil_triptime' = a.raw * Scale
    /\ qstate' = "IDLE"
    /\ UNCHANGED <<args, pinglimit, new_dbw_ul, saved_active, saved_realtime, env>>

\* Mutant: the limit of the measurement becomes the proposed limit.
CheckToInitProposes(a) ==
    /\ qstate = "CHK" /\ Received(a) >= 2
    /\ pinglimit = 0 \/ add
    /\ Collect(a) /\ nreceived' = 0
    /\ \E load \in Loads : ScanOk(load)
    /\ pingon' = TRUE
    /\ new_dbw_ul' = Unload
    /\ \E ok \in Outcomes : SetLimit(TcClassModify(Limit, Unload, ok))
    /\ fil_triptime' = Filtered(a)
    /\ qstate' = "INIT"
    /\ UNCHANGED <<args, pinglimit, saved_active, saved_realtime, env>>

CheckToInit(a) ==
    /\ qstate = "CHK" /\ Received(a) >= 2
    /\ pinglimit = 0 \/ add
    /\ Collect(a) /\ nreceived' = 0
    /\ \E load \in Loads : ScanOk(load)
    /\ pingon' = TRUE
    /\ \E ok \in Outcomes : SetLimit(TcClassModify(Limit, Unload, ok))
    /\ fil_triptime' = Filtered(a)
    /\ qstate' = "INIT"
    /\ UNCHANGED <<args, pinglimit, new_dbw_ul, saved_active, saved_realtime, env>>

\* For the first ten seconds the filter is set to the last trip time.
Measured(a) == IF Received(a) < InitStart THEN a.raw * Scale ELSE Filtered(a)

Clamped(x) == IF x < PingLimitMin THEN PingLimitMin
              ELSE IF x > PingLimitMax THEN PingLimitMax ELSE x

Entitlement(t) == (11 * t) \div 10

Measure(a) ==
    /\ qstate = "INIT" /\ Received(a) <= InitEnd
    /\ Collect(a) /\ nreceived' = Received(a)
    /\ \E load \in Loads : ScanOk(load)
    /\ fil_triptime' = Measured(a)
    /\ UNCHANGED <<args, qstate, pingon, pinglimit, limits, env>>

\* Mutant: the limit is not restored after the measurement.
MeasureDoneThrottled(a) ==
    /\ qstate = "INIT" /\ Received(a) > InitEnd
    /\ Collect(a) /\ nreceived' = Received(a)
    /\ \E load \in Loads : ScanOk(load)
    /\ fil_triptime' = Measured(a)
    /\ qstate' = "IDLE"
    /\ pinglimit' = Clamped(IF add THEN pinglimit + Entitlement(Measured(a))
                                   ELSE 2 * Measured(a))
    /\ UNCHANGED <<args, pingon, limits, env>>

MeasureDone(a) ==
    /\ qstate = "INIT" /\ Received(a) > InitEnd
    /\ Collect(a) /\ nreceived' = Received(a)
    /\ \E load \in Loads : ScanOk(load)
    /\ fil_triptime' = Measured(a)
    /\ qstate' = "IDLE"
    /\ \E ok \in Outcomes : SetLimit(TcClassModify(Limit, new_dbw_ul, ok))
    /\ pinglimit' = Clamped(IF add THEN pinglimit + Entitlement(Measured(a))
                                   ELSE 2 * Measured(a))
    /\ UNCHANGED <<args, pingon, new_dbw_ul, saved_active, saved_realtime, env>>

StayIdle(a) ==
    /\ qstate = "IDLE"
    /\ Collect(a) /\ nreceived' = Received(a)
    /\ \E load \in Loads : ScanOk(load) /\ 100 * load < 15 * Link
    /\ pingon' = FALSE
    /\ fil_triptime' = Filtered(a)
    /\ UNCHANGED <<args, qstate, pinglimit, limits, env>>

\* A realtime class is active only if there are classes at all.
Mode(rt) == IF ~rt /\ add THEN "ACTIVE" ELSE "REALTIME"

Plimit(mode) ==
    IF mode = "ACTIVE" THEN (135 * pinglimit_cl) \div 100 + pinglimit ELSE pinglimit

\* The proposed limit when the pass starts: the last one that worked in the
\* mode if the mode is entered now.
Proposed(mode) ==
    IF qstate = mode THEN new_dbw_ul
    ELSE IF mode = "ACTIVE" THEN saved_active ELSE saved_realtime

\* Mutant: the limit is not set when a mode is entered.
EnteredLater(mode, ok) == Limit

\* The limit after the mode is entered; this is the first of two changes.
Entered(mode, ok) ==
    IF qstate = mode THEN Limit ELSE TcClassModify(Limit, Proposed(mode), ok)

\* The controller: the proposed limit moves up if the ping time is below the
\* limit and the link is used to 85%, and down if it is not below.
Steps(mode, a, load, ul) ==
    IF Filtered(a) >= Plimit(mode) THEN {v \in Levels : v <= Proposed(mode)}
    ELSE IF 100 * load < 85 * ul THEN {}
    ELSE {v \in Levels : v >= Proposed(mode)}

ControlLimit(mode, a, load) ==
    \E ok1, ok2 \in Outcomes :
        LET l == Entered(mode, ok1) IN
        \/ /\ Steps(mode, a, load, l.ul) = {}
           /\ new_dbw_ul' = Proposed(mode)
           /\ SetLimit(l)
        \/ \E v \in Steps(mode, a, load, l.ul) :
              /\ new_dbw_ul' = v
              /\ SetLimit(TcClassModify(l, v, ok2))

Control(a, load, rt) ==
    /\ qstate \in Running
    /\ qstate = "IDLE" => 100 * load >= 15 * Link
    /\ rt => classes # "gone"
    /\ Collect(a) /\ nreceived' = Received(a)
    /\ ScanOk(load)
    /\ pingon' = TRUE
    /\ fil_triptime' = Filtered(a)
    /\ saved_realtime' = IF qstate = "REALTIME" THEN new_dbw_ul ELSE saved_realtime
    /\ saved_active' = IF qstate = "ACTIVE" THEN new_dbw_ul ELSE saved_active
    /\ qstate' = IF 10 * load < Link THEN "IDLE" ELSE Mode(rt)
    /\ ControlLimit(Mode(rt), a, load)
    /\ UNCHANGED <<args, pinglimit, env>>

Pass ==
    /\ qstate # "EXIT"
    /\ \E a \in Answers :
          \/ Reset(a)
          \/ CheckWaits(a) \/ CheckToIdle(a) \/ CheckToInit(a)
          \/ Measure(a) \/ MeasureDone(a)
          \/ StayIdle(a)
          \/ \E load \in Loads, rt \in BOOLEAN : Control(a, load, rt)

\* Mutant: the limit is restored to the proposed one.
TerminateAtProposed ==
    /\ qstate # "EXIT"
    /\ qstate' = "EXIT"
    /\ \E ok \in Outcomes : SetLimit(TcClassModify(Limit, new_dbw_ul, ok))
    /\ UNCHANGED <<args, pingon, pings, fil_triptime, pinglimit, new_dbw_ul,
                   saved_active, saved_realtime, scan, env>>

\* SIGTERM, noticed at the top of the loop or in select().
Terminate ==
    /\ qstate # "EXIT"
    /\ qstate' = "EXIT"
    /\ \E ok \in Outcomes : SetLimit(TcClassModify(Limit, Link, ok))
    /\ UNCHANGED <<args, pingon, pings, fil_triptime, pinglimit, new_dbw_ul,
                   saved_active, saved_realtime, scan, env>>

\* The administrator or the init script changes the classes; the class that
\* holds the limit may be made anew, with the speed of the link as its limit.
Rebuild ==
    /\ rebuilds < MaxRebuilds /\ rebuilds' = rebuilds + 1
    /\ \E c \in Kernels \ {classes} :
          /\ classes' = c
          /\ kernel' \in IF c = "gone" THEN {0}
                         ELSE IF classes = "gone" THEN {Link} ELSE {kernel, Link}
    /\ UNCHANGED <<args, qstate, pingon, pings, fil_triptime, pinglimit, new_dbw_ul,
                   saved_active, saved_realtime, dbw_ul, scan>>

QNext == Pass \/ Terminate \/ Rebuild

\* select() has a timeout, so the loop goes on whatever the network does.
QSpec == QInit /\ [][QNext]_qvars /\ WF_qvars(Pass)
-----------------------------------------------------------------------------
(* Properties.                                                             *)

\* The link is usable: outside CHK and INIT the kernel never keeps the limit of
\* the measurement, and never one below the dynamic range ("1/.15"), however
\* the classes change in between.
LinkUsable ==
    qstate \in Running \cup {"EXIT"} /\ classes # "gone" => kernel \in MinLimit .. Link

\* "We got a signal to terminate so start by restoring the root TC class to the
\* original upper limit": tc_class_modify() does nothing if dbw_ul has the rate
\* already, so this needs what qosmon believes to be true, or harmless.
ExitRestores == qstate = "EXIT" /\ classes # "gone" => kernel = Link

\* While the controller runs, the limit it computed is the limit it enforces:
\* no path computes a limit and returns before it is set, and the ping limit it
\* divides by is not zero.
LimitEnforced == qstate \in Running => dbw_ul = new_dbw_ul /\ pinglimit > 0

Answering ==
    [][(qstate \in {"CHK", "INIT"} /\ pingon /\ qstate' = qstate /\ rebuilds' = rebuilds)
          => nreceived' # nreceived]_qvars

\* If pings are answered from some time on and the class structure can be held,
\* the controller ends up running and stays there, or is terminated.
SettlesRunning ==
    <>Answering /\ <>[](classes # "toomany") => <>[](qstate \in Running \cup {"EXIT"})

\* The inductive invariant behind the three invariants above: the kernel's limit
\* is the one qosmon believes in or the speed of the link, unless there are no
\* classes.
QIndInv ==
    /\ QTypeOK
    /\ LimitEnforced
    /\ classes = "gone" <=> kernel = 0
    /\ ~Refusals => kernel \in {dbw_ul, Link, 0}
    /\ ~Refusals => ExitRestores

-----------------------------------------------------------------------------
(* What a comment of the code says, and the code does not do.              *)

\* "Unload the link for the measurement."
MeasuresUnloaded ==
    [][qstate = "CHK" /\ qstate' = "INIT" /\ classes # "gone" => kernel' = Unload]_qvars
=============================================================================
