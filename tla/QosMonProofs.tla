---------------------------- MODULE QosMonProofs ----------------------------
(***************************************************************************)
(* Proofs about QosMon, for every speed of the link, every set of levels,  *)
(* loads and trip times and every number of changes of the classes.        *)
(***************************************************************************)
EXTENDS QosMon, TLAPS

Rates == Levels \cup {Unload}

\* The dynamic range is a range, and contains the initial limit.
LEMMA Ranges ==
    /\ MinLimit \in Nat /\ FairLimit \in Nat /\ Link \in Nat
    /\ 0 < Unload /\ Unload < MinLimit
    /\ Levels \subseteq MinLimit .. Link
    /\ FairLimit \in Levels /\ Link \in Levels
    /\ Unload \in Nat /\ Unload \notin Levels /\ 0 \notin Levels /\ 0 \notin Rates
  BY QosAssumption DEF MinLimit, FairLimit, Rates

\* The filter never makes a trip time negative, nor does a measurement.
LEMMA FilterNat ==
    ASSUME NEW r \in Nat, NEW t \in Nat
    PROVE  t + Quotient((r - t) * 200, 1000) \in Nat
  BY DEF Quotient

\* The inputs of a pass are numbers, and nreceived stays below its width.
LEMMA AnswerTypes ==
    ASSUME QTypeOK, NEW a \in Answers
    PROVE  /\ a.pongs \in Nat
           /\ a.raw \in Nat
           /\ a.raw * Scale \in Nat
           /\ Received(a) \in 0 .. Width - 1
  <1>0. MaxLate \in Nat /\ Trips \cup {Period} \subseteq Nat
    BY QosAssumption
  <1>1. a.pongs \in Nat /\ a.raw \in Nat
    <2>1. a \in [pongs : 0 .. MaxLate + 1, raw : Trips \cup {Period}]
      BY DEF Answers
    <2>2. a.pongs \in 0 .. MaxLate + 1 /\ a.raw \in Trips \cup {Period}
      BY <2>1
    <2> QED
      BY <2>2, <1>0
  <1>2. a.raw * Scale \in Nat
    BY <1>1, QosAssumption
  <1>3. Received(a) \in 0 .. Width - 1
    BY <1>1, QosAssumption DEF Received, QTypeOK
  <1> QED
    BY <1>1, <1>2, <1>3

\* Filtered and measured trip times are natural numbers.
LEMMA FilteredNat ==
    ASSUME QTypeOK, NEW a \in Answers
    PROVE  Filtered(a) \in Nat /\ Measured(a) \in Nat
  <1> DEFINE r == a.raw * Scale
  <1>1. r \in Nat
    BY AnswerTypes
  <1>2. fil_triptime \in Nat
    BY DEF QTypeOK
  <1>3. fil_triptime + Quotient((r - fil_triptime) * 200, 1000) \in Nat
    <2> HIDE DEF r
    <2> QED BY <1>1, <1>2, FilterNat
  <1>4. Filtered(a) \in Nat
    BY <1>2, <1>3 DEF Filtered
  <1> QED
    BY <1>1, <1>4 DEF Measured

\* The sanity checks leave a positive ping limit.
LEMMA ClampedPositive ==
    ASSUME NEW x \in Nat
    PROVE  Clamped(x) \in Nat /\ Clamped(x) > 0
  BY QosAssumption DEF Clamped

-----------------------------------------------------------------------------
(* What every change of the limit preserves.                               *)

\* The part of the invariant that is about a pair of dbw_ul and kernel.
LimitInv(l) ==
    /\ l.ul \in Rates
    /\ l.kernel \in Rates \cup {0}
    /\ classes = "gone" <=> l.kernel = 0
    /\ ~Refusals => l.kernel \in {l.ul, Link, 0}

\* tc_class_modify() keeps it, whether the kernel takes the limit or not; the
\* old dbw_ul may also be 0, which forces the update.
LEMMA ModifyKeeps ==
    ASSUME NEW l, NEW rate \in Rates, NEW ok \in Outcomes,
           LimitInv(l) \/ (LimitInv(Limit) /\ l = [Limit EXCEPT !.ul = 0])
    PROVE  /\ LimitInv(TcClassModify(l, rate, ok))
           /\ TcClassModify(l, rate, ok).ul = rate
  <1>1. ok \in BOOLEAN /\ (classes = "gone" => ~ok) /\ (classes # "gone" /\ ~Refusals => ok)
    BY QosAssumption DEF Outcomes
  <1>2. rate # 0
    BY Ranges
  <1>3. CASE LimitInv(l)
    BY <1>1, <1>2, <1>3 DEF LimitInv, TcClassModify
  <1>4. CASE LimitInv(Limit) /\ l = [Limit EXCEPT !.ul = 0]
    BY <1>1, <1>2, <1>4 DEF LimitInv, TcClassModify, Limit
  <1> QED
    BY <1>3, <1>4

\* The pair in the state has the property whenever the invariant holds.
LEMMA LimitOfInv ==
    ASSUME QIndInv
    PROVE  LimitInv(Limit)
  BY DEF QIndInv, QTypeOK, LimitInv, Limit, Rates

\* A step that sets a pair with the property and keeps the classes establishes
\* the part of the invariant that is about it.
LEMMA SetLimitInv ==
    ASSUME NEW l, LimitInv(l), SetLimit(l), classes' = classes
    PROVE  /\ dbw_ul' \in Rates
           /\ kernel' \in Rates \cup {0}
           /\ classes' = "gone" <=> kernel' = 0
           /\ ~Refusals => kernel' \in {dbw_ul', Link, 0}
           /\ dbw_ul' = l.ul
  BY DEF LimitInv, SetLimit
-----------------------------------------------------------------------------
(* The invariant, action by action.                                        *)

\* main() enters its loop with the invariant true.
LEMMA InitInv == QInit => QIndInv
  <1> SUFFICES ASSUME QInit PROVE QIndInv
    OBVIOUS
  <1>1. QTypeOK
    <2>1. PingLimits \subseteq Nat /\ Width - 1 \in Nat /\ MaxLate \in Nat /\ MaxRebuilds \in Nat
      BY QosAssumption
    <2>2. 0 \in Loads
      BY QosAssumption
    <2>3. dbw_fil \in Loads /\ firstflg \in BOOLEAN /\ pingon \in BOOLEAN
      BY <2>2 DEF QInit
    <2>4. nreceived \in 0 .. Width - 1 /\ late \in 0 .. MaxLate /\ rebuilds \in 0 .. MaxRebuilds
      BY <2>1 DEF QInit
    <2>5. fil_triptime \in Nat /\ pinglimit \in Nat
      BY <2>1 DEF QInit
    <2>6. /\ new_dbw_ul \in Levels /\ saved_active \in Levels /\ saved_realtime \in Levels
          /\ dbw_ul \in Levels /\ kernel \in Levels
      BY Ranges DEF QInit
    <2>7. qstate \in States /\ known \in Kernels /\ classes \in Kernels
      BY DEF QInit, States, Kernels
    <2> QED
      BY <2>3, <2>4, <2>5, <2>6, <2>7 DEF QInit, QTypeOK
  <1>2. kernel # 0 /\ classes # "gone"
    BY QosAssumption, Ranges DEF QInit
  <1> QED
    BY <1>1, <1>2 DEF QInit, QIndInv, LimitEnforced, ExitRestores, Running

\* What the collection of pongs and a scan do to the types.
LEMMA CollectTypes ==
    ASSUME QTypeOK, NEW a \in Answers, Collect(a)
    PROVE  late' \in 0 .. MaxLate
  BY DEF Collect

\* A scan that succeeds records values of the right types.
LEMMA ScanTypes ==
    ASSUME QTypeOK, NEW load \in Loads, ScanOk(load)
    PROVE  dbw_fil' \in Loads /\ firstflg' \in BOOLEAN /\ known' \in Kernels
  BY DEF ScanOk, QTypeOK

\* The parts of the type invariant that are no limits.
Rest ==
    /\ add \in BOOLEAN /\ pinglimit_cl \in PingLimits
    /\ qstate \in States /\ pingon \in BOOLEAN
    /\ nreceived \in 0 .. Width - 1 /\ late \in 0 .. MaxLate
    /\ fil_triptime \in Nat /\ pinglimit \in Nat
    /\ dbw_fil \in Loads /\ firstflg \in BOOLEAN
    /\ known \in Kernels /\ classes \in Kernels
    /\ rebuilds \in 0 .. MaxRebuilds

\* The invariant of the next state from its parts, for a step that sets the
\* limits to l and does not terminate.
LEMMA NextFromParts ==
    ASSUME Rest', NEW l, LimitInv(l), SetLimit(l), classes' = classes,
           new_dbw_ul' \in Levels, saved_active' \in Levels, saved_realtime' \in Levels,
           qstate' # "EXIT",
           qstate' \in Running => l.ul = new_dbw_ul' /\ pinglimit' > 0
    PROVE  QIndInv'
  <1>1. /\ dbw_ul' \in Rates
        /\ kernel' \in Rates \cup {0}
        /\ classes' = "gone" <=> kernel' = 0
        /\ ~Refusals => kernel' \in {dbw_ul', Link, 0}
        /\ dbw_ul' = l.ul
    BY SetLimitInv
  <1>2. QTypeOK'
    BY <1>1 DEF QTypeOK, Rest, Rates
  <1> QED
    BY <1>1, <1>2 DEF QIndInv, LimitEnforced, ExitRestores

\* Leaving the limits alone sets them to what they were.
LEMMA SameLimits ==
    ASSUME UNCHANGED limits
    PROVE  SetLimit(Limit)
  BY DEF limits, SetLimit, Limit

\* Falling back to CHK keeps the invariant: the limits are not touched.
LEMMA ResetInv ==
    ASSUME QIndInv, NEW a \in Answers, Reset(a)
    PROVE  QIndInv'
  <1>1. QTypeOK
    BY DEF QIndInv
  <1>2. late' \in 0 .. MaxLate /\ Received(a) \in 0 .. Width - 1
    BY <1>1, CollectTypes, AnswerTypes DEF Reset
  <1>3. Rest'
    BY <1>1, <1>2 DEF Reset, Rest, QTypeOK, args, env, States
  <1>4. LimitInv(Limit) /\ SetLimit(Limit)
    BY LimitOfInv, SameLimits DEF Reset
  <1>5. /\ new_dbw_ul' \in Levels /\ saved_active' \in Levels /\ saved_realtime' \in Levels
        /\ classes' = classes
    BY <1>1 DEF Reset, limits, env, QTypeOK
  <1>6. qstate' = "CHK"
    BY DEF Reset
  <1>7. qstate' \notin Running /\ qstate' # "EXIT"
    BY <1>6 DEF Running
  <1> QED
    BY <1>3, <1>4, <1>5, <1>7, NextFromParts

\* Waiting for the ping target keeps the invariant.
LEMMA CheckWaitsInv ==
    ASSUME QIndInv, NEW a \in Answers, CheckWaits(a)
    PROVE  QIndInv'
  <1>1. QTypeOK
    BY DEF QIndInv
  <1>2. PICK load \in Loads : ScanOk(load)
    BY DEF CheckWaits
  <1>3. late' \in 0 .. MaxLate /\ Received(a) \in 0 .. Width - 1 /\ Filtered(a) \in Nat
    BY <1>1, CollectTypes, AnswerTypes, FilteredNat DEF CheckWaits
  <1>4. dbw_fil' \in Loads /\ firstflg' \in BOOLEAN /\ known' \in Kernels
    BY <1>1, <1>2, ScanTypes
  <1>5. Rest'
    BY <1>1, <1>3, <1>4 DEF CheckWaits, Rest, QTypeOK, args, env
  <1>6. LimitInv(Limit) /\ SetLimit(Limit)
    BY LimitOfInv, SameLimits DEF CheckWaits
  <1>7. /\ new_dbw_ul' \in Levels /\ saved_active' \in Levels /\ saved_realtime' \in Levels
        /\ classes' = classes
    BY <1>1 DEF CheckWaits, limits, env, QTypeOK
  <1>8. qstate' = "CHK"
    BY DEF CheckWaits
  <1>9. qstate' \notin Running /\ qstate' # "EXIT"
    BY <1>8 DEF Running
  <1> QED
    BY <1>5, <1>6, <1>7, <1>9, NextFromParts

\* Going to IDLE with the limit of the command line forces the update.
LEMMA CheckToIdleInv ==
    ASSUME QIndInv, NEW a \in Answers, CheckToIdle(a)
    PROVE  QIndInv'
  <1>1. QTypeOK
    BY DEF QIndInv
  <1>2. PICK load \in Loads : ScanOk(load)
    BY DEF CheckToIdle
  <1>3. PICK ok \in Outcomes :
           SetLimit(TcClassModify([Limit EXCEPT !.ul = 0], new_dbw_ul, ok))
    BY DEF CheckToIdle
  <1> DEFINE l == TcClassModify([Limit EXCEPT !.ul = 0], new_dbw_ul, ok)
  <1>4. /\ late' \in 0 .. MaxLate /\ Received(a) \in 0 .. Width - 1
        /\ a.raw * Scale \in Nat
    BY <1>1, CollectTypes, AnswerTypes DEF CheckToIdle
  <1>5. dbw_fil' \in Loads /\ firstflg' \in BOOLEAN /\ known' \in Kernels
    BY <1>1, <1>2, ScanTypes
  <1>6. Rest'
    BY <1>1, <1>4, <1>5 DEF CheckToIdle, Rest, QTypeOK, args, env, States, Running
  <1>7. new_dbw_ul \in Levels /\ new_dbw_ul \in Rates
    BY <1>1 DEF QTypeOK, Rates
  <1>8. LimitInv(l) /\ l.ul = new_dbw_ul
    BY <1>7, LimitOfInv, ModifyKeeps
  <1>9. /\ new_dbw_ul' = new_dbw_ul
        /\ saved_active' \in Levels /\ saved_realtime' \in Levels
        /\ classes' = classes
    BY <1>1 DEF CheckToIdle, env, QTypeOK
  <1>10. qstate' # "EXIT" /\ pinglimit' > 0
    BY <1>1 DEF CheckToIdle, QTypeOK
  <1> HIDE DEF l
  <1> QED
    BY <1>3, <1>6, <1>7, <1>8, <1>9, <1>10, NextFromParts DEF l

\* Unloading the link leaves the proposed limit alone.
LEMMA CheckToInitInv ==
    ASSUME QIndInv, NEW a \in Answers, CheckToInit(a)
    PROVE  QIndInv'
  <1>1. QTypeOK
    BY DEF QIndInv
  <1>2. PICK load \in Loads : ScanOk(load)
    BY DEF CheckToInit
  <1>3. PICK ok \in Outcomes : SetLimit(TcClassModify(Limit, Unload, ok))
    BY DEF CheckToInit
  <1> DEFINE l == TcClassModify(Limit, Unload, ok)
  <1>4. late' \in 0 .. MaxLate /\ Filtered(a) \in Nat
    BY <1>1, CollectTypes, FilteredNat DEF CheckToInit
  <1>5. dbw_fil' \in Loads /\ firstflg' \in BOOLEAN /\ known' \in Kernels
    BY <1>1, <1>2, ScanTypes
  <1>6. 0 \in 0 .. Width - 1
    BY QosAssumption
  <1>7. Rest'
    BY <1>1, <1>4, <1>5, <1>6 DEF CheckToInit, Rest, QTypeOK, args, env, States
  <1>8. LimitInv(l)
    BY LimitOfInv, ModifyKeeps DEF Rates
  <1>9. /\ new_dbw_ul' \in Levels
        /\ saved_active' \in Levels /\ saved_realtime' \in Levels
        /\ classes' = classes
    BY <1>1 DEF CheckToInit, env, QTypeOK
  <1>10. qstate' = "INIT"
    BY DEF CheckToInit
  <1>11. qstate' \notin Running /\ qstate' # "EXIT"
    BY <1>10 DEF Running
  <1> HIDE DEF l
  <1> QED
    BY <1>3, <1>7, <1>8, <1>9, <1>11, NextFromParts DEF l

\* Measuring keeps the invariant.
LEMMA MeasureInv ==
    ASSUME QIndInv, NEW a \in Answers, Measure(a)
    PROVE  QIndInv'
  <1>1. QTypeOK
    BY DEF QIndInv
  <1>2. PICK load \in Loads : ScanOk(load)
    BY DEF Measure
  <1>3. late' \in 0 .. MaxLate /\ Received(a) \in 0 .. Width - 1 /\ Measured(a) \in Nat
    BY <1>1, CollectTypes, AnswerTypes, FilteredNat DEF Measure
  <1>4. dbw_fil' \in Loads /\ firstflg' \in BOOLEAN /\ known' \in Kernels
    BY <1>1, <1>2, ScanTypes
  <1>5. Rest'
    BY <1>1, <1>3, <1>4 DEF Measure, Rest, QTypeOK, args, env
  <1>6. LimitInv(Limit) /\ SetLimit(Limit)
    BY LimitOfInv, SameLimits DEF Measure
  <1>7. /\ new_dbw_ul' \in Levels /\ saved_active' \in Levels /\ saved_realtime' \in Levels
        /\ classes' = classes
    BY <1>1 DEF Measure, limits, env, QTypeOK
  <1>8. qstate' = "INIT"
    BY DEF Measure
  <1>9. qstate' \notin Running /\ qstate' # "EXIT"
    BY <1>8 DEF Running
  <1> QED
    BY <1>5, <1>6, <1>7, <1>9, NextFromParts

\* The end of the measurement restores the limit and sets a ping limit.
LEMMA MeasureDoneInv ==
    ASSUME QIndInv, NEW a \in Answers, MeasureDone(a)
    PROVE  QIndInv'
  <1>1. QTypeOK
    BY DEF QIndInv
  <1>2. PICK load \in Loads : ScanOk(load)
    BY DEF MeasureDone
  <1>3. PICK ok \in Outcomes : SetLimit(TcClassModify(Limit, new_dbw_ul, ok))
    BY DEF MeasureDone
  <1> DEFINE l == TcClassModify(Limit, new_dbw_ul, ok)
  <1>4. late' \in 0 .. MaxLate /\ Received(a) \in 0 .. Width - 1 /\ Measured(a) \in Nat
    BY <1>1, CollectTypes, AnswerTypes, FilteredNat DEF MeasureDone
  <1>5. dbw_fil' \in Loads /\ firstflg' \in BOOLEAN /\ known' \in Kernels
    BY <1>1, <1>2, ScanTypes
  <1>6. pinglimit' \in Nat /\ pinglimit' > 0
    <2>1. pinglimit \in Nat
      BY <1>1 DEF QTypeOK
    <2>2. \A t \in Nat : Entitlement(t) \in Nat /\ 2 * t \in Nat
      BY DEF Entitlement
    <2> DEFINE x == IF add THEN pinglimit + Entitlement(Measured(a)) ELSE 2 * Measured(a)
    <2>3. x \in Nat
      BY <1>4, <2>1, <2>2
    <2>4. pinglimit' = Clamped(x)
      BY DEF MeasureDone
    <2> HIDE DEF x
    <2> QED
      BY <2>3, <2>4, ClampedPositive
  <1>7. Rest'
    BY <1>1, <1>4, <1>5, <1>6 DEF MeasureDone, Rest, QTypeOK, args, env, States, Running
  <1>8. new_dbw_ul \in Levels /\ new_dbw_ul \in Rates
    BY <1>1 DEF QTypeOK, Rates
  <1>9. LimitInv(l) /\ l.ul = new_dbw_ul
    BY <1>8, LimitOfInv, ModifyKeeps
  <1>10. /\ new_dbw_ul' = new_dbw_ul
         /\ saved_active' \in Levels /\ saved_realtime' \in Levels
         /\ classes' = classes
    BY <1>1 DEF MeasureDone, env, QTypeOK
  <1>11. qstate' # "EXIT"
    BY DEF MeasureDone
  <1> HIDE DEF l
  <1> QED
    BY <1>3, <1>6, <1>7, <1>8, <1>9, <1>10, <1>11, NextFromParts DEF l

\* An idle pass keeps the invariant.
LEMMA StayIdleInv ==
    ASSUME QIndInv, NEW a \in Answers, StayIdle(a)
    PROVE  QIndInv'
  <1>1. QTypeOK
    BY DEF QIndInv
  <1>2. PICK load \in Loads : ScanOk(load)
    BY DEF StayIdle
  <1>3. late' \in 0 .. MaxLate /\ Received(a) \in 0 .. Width - 1 /\ Filtered(a) \in Nat
    BY <1>1, CollectTypes, AnswerTypes, FilteredNat DEF StayIdle
  <1>4. dbw_fil' \in Loads /\ firstflg' \in BOOLEAN /\ known' \in Kernels
    BY <1>1, <1>2, ScanTypes
  <1>5. Rest'
    BY <1>1, <1>3, <1>4 DEF StayIdle, Rest, QTypeOK, args, env
  <1>6. LimitInv(Limit) /\ SetLimit(Limit)
    BY LimitOfInv, SameLimits DEF StayIdle
  <1>7. /\ new_dbw_ul' \in Levels /\ saved_active' \in Levels /\ saved_realtime' \in Levels
        /\ classes' = classes
    BY <1>1 DEF StayIdle, limits, env, QTypeOK
  <1>8. qstate = "IDLE" /\ qstate' = "IDLE"
    BY DEF StayIdle
  <1>9. dbw_ul = new_dbw_ul /\ pinglimit > 0
    BY <1>8 DEF QIndInv, LimitEnforced, Running
  <1>10. qstate' # "EXIT" /\ Limit.ul = new_dbw_ul' /\ pinglimit' > 0
    BY <1>8, <1>9 DEF StayIdle, limits, Limit
  <1> QED
    BY <1>5, <1>6, <1>7, <1>10, NextFromParts

\* The controller: whatever mode is entered and however the limit moves, the
\* limit computed is set in the same pass.
LEMMA ControlLimitInv ==
    ASSUME QIndInv, qstate \in Running, NEW mode \in {"ACTIVE", "REALTIME"},
           NEW a \in Answers, NEW load \in Loads, ControlLimit(mode, a, load)
    PROVE  \E l : LimitInv(l) /\ SetLimit(l) /\ l.ul = new_dbw_ul' /\ new_dbw_ul' \in Levels
  <1>1. QTypeOK /\ dbw_ul = new_dbw_ul
    BY DEF QIndInv, LimitEnforced
  <1>2. PICK ok1 \in Outcomes, ok2 \in Outcomes :
           LET m == Entered(mode, ok1) IN
           \/ /\ Steps(mode, a, load, m.ul) = {}
              /\ new_dbw_ul' = Proposed(mode)
              /\ SetLimit(m)
           \/ \E v \in Steps(mode, a, load, m.ul) :
                 /\ new_dbw_ul' = v
                 /\ SetLimit(TcClassModify(m, v, ok2))
    BY DEF ControlLimit
  <1> DEFINE m == Entered(mode, ok1)
  <1>3. Proposed(mode) \in Levels /\ Proposed(mode) \in Rates
    BY <1>1 DEF Proposed, QTypeOK, Rates
  <1>4. LimitInv(m) /\ m.ul = Proposed(mode)
    <2>1. CASE qstate = mode
      BY <2>1, <1>1, LimitOfInv DEF Entered, Proposed, Limit
    <2>2. CASE qstate # mode
      <3>1. m = TcClassModify(Limit, Proposed(mode), ok1)
        BY <2>2 DEF Entered
      <3> HIDE DEF m
      <3> QED
        BY <3>1, <1>3, LimitOfInv, ModifyKeeps
    <2> QED
      BY <2>1, <2>2
  <1> HIDE DEF m
  <1>5. CASE new_dbw_ul' = Proposed(mode) /\ SetLimit(m)
    BY <1>3, <1>4, <1>5
  <1>6. CASE \E v \in Steps(mode, a, load, m.ul) :
                 new_dbw_ul' = v /\ SetLimit(TcClassModify(m, v, ok2))
    <2>1. PICK v \in Steps(mode, a, load, m.ul) :
                 new_dbw_ul' = v /\ SetLimit(TcClassModify(m, v, ok2))
      BY <1>6
    <2>2. v \in Levels /\ v \in Rates
      BY DEF Steps, Rates
    <2>3. LimitInv(TcClassModify(m, v, ok2)) /\ TcClassModify(m, v, ok2).ul = v
      BY <2>2, <1>4, ModifyKeeps
    <2> QED
      BY <2>1, <2>2, <2>3
  <1> QED
    BY <1>2, <1>5, <1>6 DEF m

\* A pass of the controller keeps the invariant.
LEMMA ControlInv ==
    ASSUME QIndInv, NEW a \in Answers, NEW load \in Loads, NEW rt \in BOOLEAN,
           Control(a, load, rt)
    PROVE  QIndInv'
  <1>1. QTypeOK /\ qstate \in Running /\ pinglimit > 0
    BY DEF QIndInv, Control, LimitEnforced
  <1>2. Mode(rt) \in {"ACTIVE", "REALTIME"}
    BY DEF Mode
  <1>3. ControlLimit(Mode(rt), a, load)
    BY DEF Control
  <1>4. PICK l : LimitInv(l) /\ SetLimit(l) /\ l.ul = new_dbw_ul' /\ new_dbw_ul' \in Levels
    BY <1>1, <1>2, <1>3, ControlLimitInv
  <1>5. late' \in 0 .. MaxLate /\ Received(a) \in 0 .. Width - 1 /\ Filtered(a) \in Nat
    BY <1>1, CollectTypes, AnswerTypes, FilteredNat DEF Control
  <1>6. dbw_fil' \in Loads /\ firstflg' \in BOOLEAN /\ known' \in Kernels
    BY <1>1, ScanTypes DEF Control
  <1>7. qstate' \in Running /\ qstate' # "EXIT"
    BY <1>2 DEF Control, Running
  <1>8. Rest'
    BY <1>1, <1>5, <1>6, <1>7 DEF Control, Rest, QTypeOK, args, env, States
  <1>9. saved_active' \in Levels /\ saved_realtime' \in Levels /\ classes' = classes
    BY <1>1 DEF Control, env, QTypeOK
  <1>10. pinglimit' > 0
    BY <1>1 DEF Control
  <1> QED
    BY <1>4, <1>7, <1>8, <1>9, <1>10, NextFromParts

\* Termination establishes ExitRestores, also where no update is sent.
LEMMA TerminateInv ==
    ASSUME QIndInv, Terminate
    PROVE  QIndInv'
  <1>1. QTypeOK
    BY DEF QIndInv
  <1>2. PICK ok \in Outcomes : SetLimit(TcClassModify(Limit, Link, ok))
    BY DEF Terminate
  <1> DEFINE l == TcClassModify(Limit, Link, ok)
  <1>3. Link \in Rates
    BY Ranges DEF Rates
  <1>4. LimitInv(l) /\ l.ul = Link
    BY <1>3, LimitOfInv, ModifyKeeps
  <1> HIDE DEF l
  <1>5. classes' = classes
    BY DEF Terminate, env
  <1>6. /\ dbw_ul' \in Rates
        /\ kernel' \in Rates \cup {0}
        /\ classes' = "gone" <=> kernel' = 0
        /\ ~Refusals => kernel' \in {dbw_ul', Link, 0}
        /\ dbw_ul' = l.ul
    BY <1>2, <1>4, <1>5, SetLimitInv DEF l
  <1>7. QTypeOK'
    BY <1>1, <1>6 DEF Terminate, QTypeOK, Rates, args, pings, scan, env, States
  <1>8. qstate' = "EXIT" /\ qstate' \notin Running
    BY DEF Terminate, Running
  <1> QED
    BY <1>4, <1>6, <1>7, <1>8 DEF QIndInv, LimitEnforced, ExitRestores

\* A change of the classes keeps the invariant: the limit is kept or is Link.
LEMMA RebuildInv ==
    ASSUME QIndInv, Rebuild
    PROVE  QIndInv'
  <1>1. QTypeOK
    BY DEF QIndInv
  <1>2. PICK c \in Kernels \ {classes} :
          /\ classes' = c
          /\ kernel' \in IF c = "gone" THEN {0}
                         ELSE IF classes = "gone" THEN {Link} ELSE {kernel, Link}
    BY DEF Rebuild
  <1>3. Link \in Levels /\ Link # 0
    BY Ranges
  <1>4. /\ kernel' \in Levels \cup {Unload, 0}
        /\ classes' = "gone" <=> kernel' = 0
        /\ kernel' \in {kernel, Link, 0}
    BY <1>1, <1>2, <1>3 DEF QIndInv, QTypeOK
  <1>5. rebuilds' \in 0 .. MaxRebuilds
    BY <1>1, QosAssumption DEF Rebuild, QTypeOK
  <1>6. QTypeOK'
    BY <1>1, <1>2, <1>4, <1>5 DEF Rebuild, QTypeOK, args, pings, scan
  <1>7. LimitEnforced'
    BY DEF QIndInv, LimitEnforced, Rebuild
  <1>8. ~Refusals => kernel' \in {dbw_ul', Link, 0}
    BY <1>4 DEF QIndInv, Rebuild
  <1>9. ~Refusals => ExitRestores'
    BY <1>2, <1>4 DEF QIndInv, ExitRestores, Rebuild
  <1> QED
    BY <1>4, <1>6, <1>7, <1>8, <1>9 DEF QIndInv

\* Nothing changes, nothing is lost.
LEMMA StutterInv ==
    ASSUME QIndInv, UNCHANGED qvars
    PROVE  QIndInv'
  BY DEF QIndInv, QTypeOK, LimitEnforced, ExitRestores, qvars, args, pings, limits, scan, env

\* Every step of the loop and of its environment keeps the invariant.
LEMMA NextInv == QIndInv /\ [QNext]_qvars => QIndInv'
  <1> SUFFICES ASSUME QIndInv, [QNext]_qvars PROVE QIndInv'
    OBVIOUS
  <1>1. CASE Pass
    <2>1. PICK a \in Answers :
             \/ Reset(a)
             \/ CheckWaits(a) \/ CheckToIdle(a) \/ CheckToInit(a)
             \/ Measure(a) \/ MeasureDone(a)
             \/ StayIdle(a)
             \/ \E load \in Loads, rt \in BOOLEAN : Control(a, load, rt)
      BY <1>1 DEF Pass
    <2>2. CASE \E load \in Loads, rt \in BOOLEAN : Control(a, load, rt)
      BY <2>2, ControlInv
    <2> QED
      BY <2>1, <2>2, ResetInv, CheckWaitsInv, CheckToIdleInv, CheckToInitInv, MeasureInv,
         MeasureDoneInv, StayIdleInv
  <1>2. CASE Terminate
    BY <1>2, TerminateInv
  <1>3. CASE Rebuild
    BY <1>3, RebuildInv
  <1>4. CASE UNCHANGED qvars
    BY <1>4, StutterInv
  <1> QED
    BY <1>1, <1>2, <1>3, <1>4 DEF QNext

-----------------------------------------------------------------------------
(* The theorems.                                                           *)

\* The inductive invariant of qosmon's main loop holds in every reachable state.
THEOREM QIndInvHolds == QSpec => []QIndInv
  <1>1. QInit => QIndInv
    BY InitInv
  <1>2. QIndInv /\ [QNext]_qvars => QIndInv'
    BY NextInv
  <1> QED
    BY <1>1, <1>2, PTL DEF QSpec

\* All limits of qosmon stay in the dynamic range and all counters in theirs.
THEOREM QTypeCorrect == QSpec => []QTypeOK
  <1>1. QIndInv => QTypeOK
    BY DEF QIndInv
  <1> QED
    BY <1>1, QIndInvHolds, PTL

\* The limit the controller computed is the one it enforces, and it never
\* divides by a ping limit of zero.
THEOREM LimitEnforcedHolds == QSpec => []LimitEnforced
  <1>1. QIndInv => LimitEnforced
    BY DEF QIndInv
  <1> QED
    BY <1>1, QIndInvHolds, PTL

\* If the kernel refuses no change, the link is usable whenever qosmon is past
\* its measurement, through every change of the classes.
THEOREM LinkUsableHolds ==
    ASSUME ~Refusals
    PROVE  QSpec => []LinkUsable
  <1>1. QIndInv => LinkUsable
    <2> SUFFICES ASSUME QIndInv, qstate \in Running \cup {"EXIT"}, classes # "gone"
                 PROVE  kernel \in MinLimit .. Link
      BY DEF LinkUsable
    <2>1. kernel \in {dbw_ul, Link}
      BY DEF QIndInv
    <2>2. CASE qstate \in Running
      <3>1. dbw_ul \in Levels
        BY <2>2 DEF QIndInv, QTypeOK, LimitEnforced
      <3> QED
        BY <2>1, <3>1, Ranges
    <2>3. CASE qstate = "EXIT"
      <3>1. kernel = Link
        BY <2>3 DEF QIndInv, ExitRestores
      <3> QED
        BY <3>1, Ranges
    <2> QED
      BY <2>2, <2>3
  <1> QED
    BY <1>1, QIndInvHolds, PTL

\* If the kernel refuses no change, a terminated qosmon leaves the link at its
\* full speed.
THEOREM ExitRestoresHolds ==
    ASSUME ~Refusals
    PROVE  QSpec => []ExitRestores
  <1>1. QIndInv => ExitRestores
    BY DEF QIndInv
  <1> QED
    BY <1>1, QIndInvHolds, PTL

-----------------------------------------------------------------------------
(* Where the measurement finds the link as the comment says.               *)

\* As long as the classes stay what they were at the start, CHK is the state of
\* the start alone, in which the limit is still the speed of the link.
StillInv ==
    /\ classes \in Structures /\ known = classes
    /\ qstate = "CHK" => dbw_ul = Link

\* If the classes never change and the kernel refuses nothing, the comment is right:
\* "Unload the link for the measurement".  A change of the classes is what
\* breaks it (run qosmon_measure).
THEOREM MeasuresUnloadedHolds ==
    ASSUME MaxRebuilds = 0, ~Refusals
    PROVE  QSpec => MeasuresUnloaded
  <1>1. QInit => StillInv
    BY DEF QInit, StillInv
  <1>2. ASSUME QIndInv, StillInv, [QNext]_qvars
        PROVE  StillInv'
    <2>1. ~Changed /\ classes \notin {"gone", "toomany"}
      BY <1>2, QosAssumption DEF StillInv, Changed
    <2>2. CASE Pass
      <3>1. PICK a \in Answers :
               \/ Reset(a)
               \/ CheckWaits(a) \/ CheckToIdle(a) \/ CheckToInit(a)
               \/ Measure(a) \/ MeasureDone(a)
               \/ StayIdle(a)
               \/ \E load \in Loads, rt \in BOOLEAN : Control(a, load, rt)
        BY <2>2 DEF Pass
      <3>2. ~Reset(a)
        BY <2>1 DEF Reset
      <3>3. CASE CheckWaits(a) \/ Measure(a) \/ StayIdle(a)
        BY <3>3, <1>2 DEF CheckWaits, Measure, StayIdle, ScanOk, StillInv, limits, env
      <3>4. CASE CheckToIdle(a) \/ CheckToInit(a) \/ MeasureDone(a)
        BY <3>4, <1>2 DEF CheckToIdle, CheckToInit, MeasureDone, ScanOk, StillInv, env
      <3>5. ASSUME NEW load \in Loads, NEW rt \in BOOLEAN, Control(a, load, rt)
            PROVE  StillInv'
        BY <3>5, <1>2 DEF Control, Mode, ScanOk, StillInv, env
      <3> QED
        BY <3>1, <3>2, <3>3, <3>4, <3>5
    <2>3. CASE Terminate
      BY <2>3, <1>2 DEF Terminate, StillInv, scan, env
    <2>4. ~Rebuild
      BY <1>2, QosAssumption DEF Rebuild, QIndInv, QTypeOK
    <2>5. CASE UNCHANGED qvars
      BY <2>5, <1>2 DEF StillInv, qvars, limits, scan, env
    <2> QED
      BY <2>2, <2>3, <2>4, <2>5, <1>2 DEF QNext
  <1>3. ASSUME QIndInv, StillInv, [QNext]_qvars
        PROVE  [qstate = "CHK" /\ qstate' = "INIT" /\ classes # "gone"
                   => kernel' = Unload]_qvars
    <2> SUFFICES ASSUME QNext, qstate = "CHK", qstate' = "INIT"
                 PROVE  kernel' = Unload
      BY <1>3
    <2>1. PICK a \in Answers : CheckToInit(a)
      BY DEF QNext, Pass, Reset, CheckWaits, CheckToIdle, Measure, MeasureDone, StayIdle,
             Control, Running, Terminate, Rebuild
    <2>2. PICK ok \in Outcomes : SetLimit(TcClassModify(Limit, Unload, ok))
      BY <2>1 DEF CheckToInit
    <2>3. ok = TRUE
      BY <2>2, <1>3, QosAssumption DEF Outcomes, StillInv
    <2>4. dbw_ul = Link /\ Link # Unload
      BY <1>3, Ranges DEF StillInv
    <2> QED
      BY <2>2, <2>3, <2>4 DEF SetLimit, TcClassModify, Limit
  <1>4. QIndInv /\ StillInv /\ [QNext]_qvars => StillInv'
    BY <1>2
  <1>5. QIndInv /\ StillInv /\ [QNext]_qvars =>
           [qstate = "CHK" /\ qstate' = "INIT" /\ classes # "gone" => kernel' = Unload]_qvars
    BY <1>3
  <1> QED
    BY <1>1, <1>4, <1>5, QIndInvHolds, PTL DEF QSpec, MeasuresUnloaded

-----------------------------------------------------------------------------
(* The length of the measurement.                                          *)

CountInv == qstate = "INIT" => nreceived <= InitEnd

\* Pongs only add up while the measurement lasts, and it lasts until more than
\* InitEnd of them have come.
MeasureCounts ==
    [][qstate = "INIT" /\ qstate' \in {"INIT", "IDLE"} =>
          /\ nreceived <= nreceived'
          /\ qstate' = "INIT" <=> nreceived' <= InitEnd]_qvars

\* The counter does not wrap within a measurement.
LEMMA ReceivedInInit ==
    ASSUME QIndInv, CountInv, qstate = "INIT", NEW a \in Answers
    PROVE  Received(a) = nreceived + a.pongs /\ a.pongs \in Nat /\ nreceived \in Nat
  <1>1. a.pongs \in 0 .. MaxLate + 1
    BY DEF Answers
  <1>2. nreceived \in Nat /\ nreceived <= InitEnd
    BY DEF QIndInv, QTypeOK, CountInv
  <1>3. nreceived + a.pongs \in 0 .. Width - 1
    BY <1>1, <1>2, QosAssumption
  <1>4. \A x \in 0 .. Width - 1 : x % Width = x
    BY QosAssumption
  <1> QED
    BY <1>1, <1>2, <1>3, <1>4 DEF Received

\* What a pass of the loop does to a measurement.
LEMMA PassInInit ==
    ASSUME QIndInv, CountInv, qstate = "INIT", Pass
    PROVE  \/ qstate' = "CHK"
           \/ /\ qstate' \in {"INIT", "IDLE"} /\ nreceived <= nreceived'
              /\ qstate' = "INIT" <=> nreceived' <= InitEnd
  <1>1. PICK a \in Answers : Reset(a) \/ Measure(a) \/ MeasureDone(a)
    BY DEF Pass, CheckWaits, CheckToIdle, CheckToInit, StayIdle, Control, Running
  <1>2. Received(a) = nreceived + a.pongs /\ a.pongs \in Nat /\ nreceived \in Nat
    BY ReceivedInInit
  <1>3. CASE Reset(a)
    BY <1>3 DEF Reset
  <1>4. CASE Measure(a)
    BY <1>2, <1>4 DEF Measure
  <1>5. CASE MeasureDone(a)
    BY <1>2, <1>5, QosAssumption DEF MeasureDone
  <1> QED
    BY <1>1, <1>3, <1>4, <1>5

LEMMA CountNext == QIndInv /\ CountInv /\ [QNext]_qvars => CountInv'
  <1> SUFFICES ASSUME QIndInv, CountInv, [QNext]_qvars, qstate' = "INIT"
               PROVE  nreceived' <= InitEnd
    BY DEF CountInv
  <1>1. CASE Pass /\ qstate = "INIT"
    BY <1>1, PassInInit
  <1>2. CASE Pass /\ qstate # "INIT"
    <2>1. PICK a \in Answers : CheckToInit(a)
      BY <1>2 DEF Pass, Reset, CheckWaits, CheckToIdle, Measure, MeasureDone, StayIdle,
                  Control, Mode
    <2> QED
      BY <2>1, QosAssumption DEF CheckToInit
  <1>3. CASE Rebuild \/ UNCHANGED qvars
    BY <1>3 DEF Rebuild, pings, qvars, CountInv
  <1>4. ~Terminate
    BY DEF Terminate
  <1> QED
    BY <1>1, <1>2, <1>3, <1>4 DEF QNext

\* The measurement of the ping time is neither cut short nor prolonged by the 16 bits
\* of nreceived, which qosmon resets only when it begins, nor by late answers to pings
\* sent before it: it goes on until more than InitEnd pongs have come.
THEOREM MeasurementLength == QSpec => MeasureCounts
  <1>1. QInit => CountInv
    BY DEF QInit, CountInv
  <1>2. QIndInv /\ CountInv /\ [QNext]_qvars =>
          [qstate = "INIT" /\ qstate' \in {"INIT", "IDLE"} =>
             /\ nreceived <= nreceived'
             /\ qstate' = "INIT" <=> nreceived' <= InitEnd]_qvars
    <2> SUFFICES ASSUME QIndInv, CountInv, QNext, qstate = "INIT", qstate' \in {"INIT", "IDLE"}
                 PROVE  /\ nreceived <= nreceived'
                        /\ qstate' = "INIT" <=> nreceived' <= InitEnd
      OBVIOUS
    <2>1. CASE Pass
      BY <2>1, PassInInit
    <2>2. CASE Rebuild
      <3>1. UNCHANGED <<nreceived, qstate>>
        BY <2>2 DEF Rebuild, pings
      <3> QED
        BY <3>1 DEF CountInv, QIndInv, QTypeOK
    <2>3. ~Terminate
      BY DEF Terminate
    <2> QED
      BY <2>1, <2>2, <2>3 DEF QNext
  <1> QED
    BY <1>1, <1>2, CountNext, QIndInvHolds, PTL DEF QSpec, MeasureCounts
=============================================================================
