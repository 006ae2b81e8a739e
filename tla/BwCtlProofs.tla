---------------------------- MODULE BwCtlProofs ----------------------------
(***************************************************************************)
(* For any number of programs and addresses, any interval and any bounds:  *)
(* BwCtl is type correct, the semaphore is accounted for, no address is    *)
(* charged for more than it used unless a backup was stamped late or a cut *)
(* line was read, and no program can be kept from its end by the others.   *)
(***************************************************************************)
EXTENDS BwCtl, FiniteSetTheorems, SequenceTheorems, WellFoundedInduction, TLAPS

------------------------------------------------------------------------------
(* Types *)

USE DEF NoSem, Absent

\* Every variable that no argument below needs in detail.
LEMMA TypeInit == Init => TypeOK
  <1> SUFFICES ASSUME Init PROVE TypeOK
    OBVIOUS
  <1>1. /\ held \in [Procs -> BOOLEAN] /\ sig \in [Procs -> BOOLEAN]
        /\ ok \in [Procs -> BOOLEAN]
    BY DEF Init
  <1>2. lost \in BOOLEAN /\ stolen \in BOOLEAN /\ there \in BOOLEAN
        /\ rule \in BOOLEAN /\ late \in BOOLEAN /\ garbled \in BOOLEAN
    BY DEF Init
  <1>3. /\ sem \in Int /\ tries \in [Procs -> 0..Tries]
        /\ stamp \in [Procs -> Nat] /\ fstamp \in Nat
        /\ now \in 1..MaxNow /\ faults \in 0..MaxFaults
        /\ runs \in [Procs -> 0..MaxRuns]
    BY BwAssumption DEF Init
  <1>4. pc \in [Procs -> Places]
    BY DEF Init, Places
  <1> QED
    BY <1>1, <1>2, <1>3, <1>4 DEF TypeOK

LEMMA TypeExit ==
    ASSUME NEW p \in Procs, TypeOK, Exit(p)
    PROVE  /\ pc' \in [Procs -> Places] /\ sig' \in [Procs -> BOOLEAN]
           /\ tries' \in [Procs -> 0..Tries] /\ ok' \in [Procs -> BOOLEAN]
           /\ stamp' \in [Procs -> Nat]
  BY BwAssumption DEF TypeOK, Exit, Goto, Places

LEMMA TypeRetry ==
    ASSUME NEW p \in Procs, TypeOK, Retry(p)
    PROVE  /\ pc' \in [Procs -> Places] /\ sig' \in [Procs -> BOOLEAN]
           /\ tries' \in [Procs -> 0..Tries] /\ ok' \in [Procs -> BOOLEAN]
           /\ stamp' \in [Procs -> Nat]
           /\ UNCHANGED lock
  <1>1. CASE tries[p] > 1
    <2>1. /\ tries' = [tries EXCEPT ![p] = tries[p] - 1]
          /\ Goto(p, "look") /\ UNCHANGED <<sig, ok, data, stamp>> /\ UNCHANGED lock
      BY <1>1 DEF Retry
    <2>2. tries' \in [Procs -> 0..Tries]
      BY <1>1, <2>1, BwAssumption DEF TypeOK
    <2>3. pc' \in [Procs -> Places]
      BY <2>1 DEF TypeOK, Goto, Places
    <2> QED
      BY <2>1, <2>2, <2>3 DEF TypeOK
  <1>2. CASE ~(tries[p] > 1)
    BY <1>2, TypeExit, BwAssumption DEF Retry, lock
  <1> QED
    BY <1>1, <1>2

LEMMA TypeAfterCall ==
    ASSUME NEW p \in Procs, TypeOK, AfterCall(p)
    PROVE  /\ pc' \in [Procs -> Places] /\ sig' \in [Procs -> BOOLEAN]
           /\ tries' \in [Procs -> 0..Tries] /\ ok' \in [Procs -> BOOLEAN]
           /\ stamp' \in [Procs -> Nat]
  <1>1. CASE Exit(p)
    BY <1>1, TypeExit
  <1>2. CASE ~Exit(p)
    BY <1>2 DEF TypeOK, AfterCall, Goto, call, Places
  <1> QED
    BY <1>1, <1>2

\* Whatever the file holds, a number is read for the time.
LEMMA TypeStamps ==
    ASSUME TypeOK
    PROVE  \A t \in Stamps(flines, fstamp) : t \in Nat
  <1>1. \A l : \A n \in Stray(l) : n \in Nat
    BY DEF Stray
  <1> QED
    BY <1>1 DEF Stamps, TypeOK

LEMMA TypeStep ==
    ASSUME TypeOK, NEW p \in Procs, Step(p)
    PROVE  TypeOK'
  <1>1. CASE get_sem(p)
    <2>1. held' \in [Procs -> BOOLEAN] /\ sem' \in Int
      <3>1. CASE sem = NoSem
        <4>1. sem' = 0 /\ held' = [held EXCEPT ![p] = TRUE]
          BY <1>1, <3>1 DEF get_sem
        <4>2. held' \in [Procs -> BOOLEAN]
          BY <4>1 DEF TypeOK
        <4> QED
          BY <4>1, <4>2
      <3>2. CASE sem # NoSem
        BY <1>1, <3>2 DEF TypeOK, get_sem
      <3> QED
        BY <3>1, <3>2
    <2>2. pc' \in [Procs -> Places]
      BY <1>1 DEF TypeOK, get_sem, Goto, Places
    <2> QED
      BY <1>1, <2>1, <2>2 DEF TypeOK, get_sem, call, file, kernel, bounds
  <1>2. CASE SetVal(p)
    BY <1>2 DEF TypeOK, SetVal, Goto, Places, call, file, kernel, bounds
  <1>3. CASE lock_sem(p)
    <2>1. CASE Retry(p)
      BY <1>3, <2>1, TypeRetry DEF TypeOK, lock_sem, lock, file, kernel, bounds
    <2>2. CASE ~Retry(p)
      BY <1>3, <2>2 DEF TypeOK, lock_sem, Goto, Places, lock, call, file, kernel, bounds
    <2> QED
      BY <2>1, <2>2
  <1>4. CASE SemTake(p)
    <2>1. CASE Retry(p)
      BY <1>4, <2>1, TypeRetry DEF TypeOK, SemTake, lock, file, kernel, bounds
    <2>2. CASE ~Retry(p)
      <3>1. /\ sem' = sem - 1 /\ held' = [held EXCEPT ![p] = TRUE]
            /\ tries' = [tries EXCEPT ![p] = Tries] /\ Goto(p, "call")
            /\ UNCHANGED <<lost, stolen, sig, ok, data, stamp>>
            /\ UNCHANGED <<file, kernel, now, bounds, used, late, garbled>>
        BY <1>4, <2>2 DEF SemTake
      <3>2. sem' \in Int /\ tries' \in [Procs -> 0..Tries]
        BY <3>1, BwAssumption DEF TypeOK
      <3>3. held' \in [Procs -> BOOLEAN]
        BY <3>1 DEF TypeOK
      <3>4. pc' \in [Procs -> Places]
        BY <3>1 DEF TypeOK, Goto, Places
      <3> QED
        BY <3>1, <3>2, <3>3, <3>4 DEF TypeOK, file, kernel, bounds
    <2> QED
      BY <2>1, <2>2
  <1>5. CASE unlock_sem(p)
    <2>1. CASE AfterCall(p)
      BY <1>5, <2>1, TypeAfterCall DEF TypeOK, unlock_sem, lock, file, kernel, bounds
    <2>2. CASE ~AfterCall(p)
      BY <1>5, <2>2 DEF TypeOK, unlock_sem, Goto, Places, lock, call, file, kernel, bounds
    <2> QED
      BY <2>1, <2>2
  <1>6. CASE SemPost(p)
    <2>1. sem' \in Int /\ held' \in [Procs -> BOOLEAN]
      BY <1>6 DEF TypeOK, SemPost
    <2>2. stolen' \in BOOLEAN
      BY <1>6 DEF SemPost
    <2> QED
      BY <1>6, <2>1, <2>2, TypeAfterCall DEF TypeOK, SemPost, file, kernel, bounds
  <1>7. CASE GetData(p)
    <2>1. pc' \in [Procs -> Places]
      BY <1>7 DEF TypeOK, GetData, Goto, Places
    <2>2. ok' \in [Procs -> BOOLEAN]
      <3>1. CASE rule
        <4> DEFINE n == Cardinality({ip \in AllIps : ip_map[ip] # Absent})
        <4> DEFINE b == NextIndex(n) >= n
        <4>1. ok' = [ok EXCEPT ![p] = b]
          BY <1>7, <3>1 DEF GetData
        <4>2. b \in BOOLEAN
          OBVIOUS
        <4> HIDE DEF b
        <4> QED
          BY <4>1, <4>2 DEF TypeOK
      <3>2. CASE ~rule
        BY <1>7, <3>2 DEF TypeOK, GetData
      <3> QED
        BY <3>1, <3>2
    <2> QED
      BY <1>7, <2>1, <2>2 DEF TypeOK, GetData, lock, file, bounds
  <1>8. CASE SetData(p)
    BY <1>8 DEF TypeOK, SetData, Goto, Places, lock, file, bounds
  <1>9. CASE RemoveRule(p)
    BY <1>9 DEF TypeOK, RemoveRule, Goto, Places, lock, call, file, bounds
  <1>10. CASE InsertRule(p)
    BY <1>10 DEF TypeOK, InsertRule, Goto, Places, lock, call, file, bounds
  <1>11. CASE Load(p)
    <2>1. CASE there
      <3>1. /\ \E t \in Stamps(flines, fstamp) : stamp' = [stamp EXCEPT ![p] = t]
            /\ Goto(p, "open") /\ UNCHANGED <<sig, tries, ok>>
            /\ garbled' = (garbled \/ \E i \in DOMAIN flines : Garbled(flines[i]))
        BY <1>11, <2>1 DEF Load
      <3>2. stamp' \in [Procs -> Nat]
        BY <3>1, TypeStamps DEF TypeOK
      <3>3. pc' \in [Procs -> Places]
        BY <3>1 DEF TypeOK, Goto, Places
      <3>4. garbled' \in BOOLEAN
        BY <3>1
      <3> QED
        BY <1>11, <3>1, <3>2, <3>3, <3>4 DEF TypeOK, Load, lock, file, kernel, bounds
    <2>2. CASE ~there
      BY <1>11, <2>2, TypeExit DEF TypeOK, Load, lock, file, kernel, bounds
    <2> QED
      BY <2>1, <2>2
  <1>12. CASE SaveOpen(p)
    <2>1. stamp' \in [Procs -> Nat] /\ fstamp' \in Nat
      BY <1>12, BwAssumption DEF TypeOK, SaveOpen
    <2>2. there' \in BOOLEAN
      BY <1>12 DEF SaveOpen
    <2>3. pc' \in [Procs -> Places]
      BY <1>12 DEF TypeOK, SaveOpen, Goto, Places
    <2> QED
      BY <1>12, <2>1, <2>2, <2>3 DEF TypeOK, SaveOpen, lock, kernel, bounds
  <1>13. CASE SaveWrite(p)
    <2>1. late' \in BOOLEAN
      BY <1>13 DEF SaveWrite
    <2> QED
      BY <1>13, <2>1, TypeExit DEF TypeOK, SaveWrite, lock, kernel, bounds
  <1> QED
    BY <1>1, <1>2, <1>3, <1>4, <1>5, <1>6, <1>7, <1>8, <1>9, <1>10, <1>11, <1>12,
       <1>13 DEF Step

LEMMA TypeNext == TypeOK /\ [Next]_vars => TypeOK'
  <1> SUFFICES ASSUME TypeOK, [Next]_vars PROVE TypeOK'
    OBVIOUS
  <1>1. CASE \E p \in Procs : Step(p)
    BY <1>1, TypeStep
  <1>2. CASE \E p \in Procs : Start(p)
    BY <1>2, BwAssumption DEF TypeOK, Start, Goto, Places, lock, call, file, kernel
  <1>3. ASSUME NEW p \in Procs, signal_handler(p) PROVE TypeOK'
    <2>1. faults' \in 0..MaxFaults
      BY <1>3, BwAssumption DEF TypeOK, signal_handler
    <2>4. stamp' \in [Procs -> Nat]
      <3>1. UNCHANGED stamp \/ stamp' = [stamp EXCEPT ![p] = 0]
        BY <1>3 DEF signal_handler
      <3> QED
        BY <3>1 DEF TypeOK
    <2>2. pc' \in [Procs -> Places]
      BY <1>3 DEF TypeOK, signal_handler, Goto, Places
    <2>3. sig' \in [Procs -> BOOLEAN]
      BY <1>3 DEF TypeOK, signal_handler
    <2> QED
      BY <1>3, <2>1, <2>2, <2>3, <2>4 DEF TypeOK, signal_handler, lock, file, kernel
  <1>4. ASSUME NEW p \in Procs, Kill(p) PROVE TypeOK'
    <2>1. lost' \in BOOLEAN
      BY <1>4 DEF Kill
    <2>2. held' \in [Procs -> BOOLEAN] /\ faults' \in 0..MaxFaults
      BY <1>4, BwAssumption DEF Kill, TypeOK
    <2> QED
      BY <1>4, <2>1, <2>2, TypeExit DEF TypeOK, Kill, file, kernel
  <1>5. CASE \E ip \in Ips : \E len \in Lens[ip] : match(ip, len)
    BY <1>5 DEF TypeOK, match, lock, call, file, bounds
  <1>6. CASE Tick
    BY <1>6, BwAssumption DEF TypeOK, Tick, lock, call, file, kernel, bounds
  <1>7. CASE Reboot
    <2>1. /\ held' \in [Procs -> BOOLEAN] /\ sig' \in [Procs -> BOOLEAN]
          /\ ok' \in [Procs -> BOOLEAN]
      BY <1>7 DEF Reboot
    <2>2. lost' \in BOOLEAN /\ stolen' \in BOOLEAN /\ rule' \in BOOLEAN
      BY <1>7 DEF Reboot
    <2>3. /\ sem' \in Int /\ tries' \in [Procs -> 0..Tries]
          /\ stamp' \in [Procs -> Nat] /\ faults' \in 0..MaxFaults
      BY <1>7, BwAssumption DEF TypeOK, Reboot
    <2>4. pc' \in [Procs -> Places]
      BY <1>7 DEF Reboot, Places
    <2> QED
      BY <1>7, <2>1, <2>2, <2>3, <2>4 DEF TypeOK, Reboot, file
  <1>8. CASE UNCHANGED vars
    BY <1>8 DEF TypeOK, vars, lock, call, file, kernel, bounds
  <1> QED
    BY <1>1, <1>2, <1>3, <1>4, <1>5, <1>6, <1>7, <1>8 DEF Next

\* Every variable keeps its type, for any number of programs.
THEOREM TypeCorrect == Spec => []TypeOK
  BY TypeInit, TypeNext, PTL DEF Spec

------------------------------------------------------------------------------
(* The semaphore *)

Holding == {"init", "call", "ulook", "post"}
Opened  == {"init", "look", "take", "call", "ulook", "post", "open_file", "write_file"}

\* SemAccounts needs to know where a holder can be and that who is past get_sem()
\* has a semaphore; the unit of a killed holder is nobody's.
SInv ==
    ~stolen =>
      /\ \A p \in Procs : held[p] => pc[p] \in Holding
      /\ \A p \in Procs : pc[p] \in {"init", "call"} => held[p]
      /\ \A p \in Procs : pc[p] \in Opened => sem # NoSem
      /\ \A p \in Procs : lost => ~held[p]
      /\ \A p, q \in Procs : held[p] /\ held[q] => p = q
      /\ lost => sem = 0
      /\ \A p \in Procs : held[p] => sem = 0
      /\ sem # NoSem /\ ~lost /\ (\A p \in Procs : ~held[p]) => sem = 1

LEMMA SInvAccounts == SInv => SemAccounts
  BY DEF SInv, SemAccounts

\* A step that leaves the semaphore alone moves one program.
LEMMA SemSame ==
    ASSUME TypeOK, SInv, NEW p \in Procs, NEW at, UNCHANGED lock,
           pc' = [pc EXCEPT ![p] = at],
           ~stolen /\ held[p] => at \in Holding,
           at \in {"init", "call"} => held[p],
           ~stolen /\ at \in Opened => sem # NoSem
    PROVE  SInv'
  <1> SUFFICES ASSUME ~stolen PROVE SInv'
    BY DEF SInv, lock
  <1>1. \A q \in Procs : pc'[q] = IF q = p THEN at ELSE pc[q]
    BY DEF TypeOK
  <1>2. UNCHANGED <<held, sem, lost, stolen>>
    BY DEF lock
  <1>3. \A q \in Procs : held[q] => pc'[q] \in Holding
    BY <1>1 DEF SInv
  <1>4. \A q \in Procs : pc'[q] \in {"init", "call"} => held[q]
    BY <1>1 DEF SInv
  <1>5. \A q \in Procs : pc'[q] \in Opened => sem # NoSem
    BY <1>1 DEF SInv
  <1> QED
    BY <1>2, <1>3, <1>4, <1>5 DEF SInv

LEMMA SemExit ==
    ASSUME TypeOK, SInv, NEW p \in Procs, UNCHANGED lock, Exit(p), ~stolen => ~held[p]
    PROVE  SInv'
  BY SemSame DEF Exit, Goto, Opened

LEMMA SemRetry ==
    ASSUME TypeOK, SInv, NEW p \in Procs, pc[p] \in {"look", "take"}, Retry(p)
    PROVE  SInv'
  <1>1. ~stolen => ~held[p] /\ sem # NoSem
    BY DEF SInv, Holding, Opened
  <1>2. UNCHANGED lock
    BY DEF Retry
  <1>3. CASE Exit(p)
    BY <1>1, <1>2, <1>3, SemExit
  <1>4. CASE ~Exit(p)
    BY <1>1, <1>2, <1>4, SemSame DEF Retry, Goto, Holding, Opened
  <1> QED
    BY <1>3, <1>4

\* What follows unlock() holds nothing.
LEMMA SemAfter ==
    ASSUME TypeOK, SInv, NEW p \in Procs, AfterCall(p)
    PROVE  /\ pc' = [pc EXCEPT ![p] = pc'[p]]
           /\ pc'[p] \in {"off", "open_file", "write_file"}
  BY DEF AfterCall, Exit, Goto, TypeOK

\* A step that takes the unit or gives it back, while nobody else has it.
LEMMA SemMove ==
    ASSUME SInv, ~stolen, ~lost', NEW p \in Procs,
           \A q \in Procs : q # p => pc'[q] = pc[q] /\ ~held'[q],
           \/ held'[p] /\ sem' = 0 /\ pc'[p] \in Holding
           \/ ~held'[p] /\ sem' = 1 /\ pc'[p] \notin {"init", "call"},
           \A q \in Procs : q # p => ~held[q]
    PROVE  SInv'
  <1>1. \A q \in Procs : held'[q] => q = p
    OBVIOUS
  <1>2. \A q \in Procs : held'[q] => pc'[q] \in Holding
    BY <1>1
  <1>3. \A q \in Procs : pc'[q] \in {"init", "call"} => held'[q]
    <2> SUFFICES ASSUME NEW q \in Procs, pc'[q] \in {"init", "call"} PROVE held'[q]
      OBVIOUS
    <2>1. CASE q = p
      BY <2>1
    <2>2. CASE q # p
      BY <2>2 DEF SInv
    <2> QED
      BY <2>1, <2>2
  <1>4. sem' # NoSem
    OBVIOUS
  <1>5. \A q \in Procs : held'[q] => sem' = 0
    BY <1>1
  <1>6. (\A q \in Procs : ~held'[q]) => sem' = 1
    OBVIOUS
  <1> QED
    BY <1>1, <1>2, <1>3, <1>4, <1>5, <1>6 DEF SInv

LEMMA SemStep ==
    ASSUME TypeOK, SInv, NEW p \in Procs, Step(p)
    PROVE  SInv'
  <1>1. CASE get_sem(p)
    <2>1. CASE sem = NoSem
      <3>1. ~stolen => ~lost /\ \A q \in Procs : ~held[q]
        BY <2>1 DEF SInv
      <3>2. /\ sem' = 0 /\ UNCHANGED <<lost, stolen>>
            /\ \A q \in Procs : held'[q] = (q = p \/ held[q])
        BY <1>1, <2>1 DEF get_sem, TypeOK
      <3>3. \A q \in Procs : pc'[q] = IF q = p THEN "init" ELSE pc[q]
        BY <1>1, <2>1 DEF get_sem, Goto, TypeOK
      <3>4. CASE stolen
        BY <3>2, <3>4 DEF SInv
      <3>5. CASE ~stolen
        BY <3>1, <3>2, <3>3, <3>5, SemMove DEF Holding
      <3> QED
        BY <3>4, <3>5
    <2>2. CASE sem # NoSem
      <3>1. ~stolen => ~held[p]
        BY <1>1 DEF SInv, get_sem, Holding
      <3>2. UNCHANGED lock
        BY <1>1, <2>2 DEF get_sem, lock
      <3> QED
        BY <1>1, <2>2, <3>1, <3>2, SemSame DEF get_sem, Goto, Holding, Opened
    <2> QED
      BY <2>1, <2>2
  <1>2. CASE SetVal(p)
    <2>1. ~stolen => held[p] /\ ~lost /\ \A q \in Procs : held[q] => q = p
      BY <1>2 DEF SetVal, SInv
    <2>2. /\ sem' = 1 /\ UNCHANGED <<lost, stolen>>
          /\ \A q \in Procs : held'[q] = (q # p /\ held[q])
      BY <1>2 DEF SetVal, TypeOK
    <2>3. \A q \in Procs : q # p => pc'[q] = pc[q]
      BY <1>2 DEF SetVal, Goto, TypeOK
    <2>4. pc'[p] \in {"ulook", "look"}
      BY <1>2 DEF SetVal, Goto, TypeOK
    <2>5. CASE stolen
      BY <2>2, <2>5 DEF SInv
    <2>6. CASE ~stolen
      BY <2>1, <2>2, <2>3, <2>4, <2>6, SemMove
    <2> QED
      BY <2>5, <2>6
  <1>3. CASE lock_sem(p)
    <2>1. CASE Retry(p)
      BY <1>3, <2>1, SemRetry DEF lock_sem
    <2>2. CASE ~Retry(p)
      <3>1. ~stolen => ~held[p]
        BY <1>3 DEF SInv, lock_sem, Holding
      <3>2. sem > 0 /\ Goto(p, "take") /\ UNCHANGED lock
        BY <1>3, <2>2 DEF lock_sem
      <3>3. sem # NoSem
        BY <3>2 DEF TypeOK
      <3> QED
        BY <3>1, <3>2, <3>3, SemSame DEF Goto
    <2> QED
      BY <2>1, <2>2
  <1>4. CASE SemTake(p)
    <2>1. CASE Retry(p)
      BY <1>4, <2>1, SemRetry DEF SemTake
    <2>2. CASE ~Retry(p)
      <3>1. sem > 0 /\ sem' = sem - 1 /\ UNCHANGED <<lost, stolen>>
        BY <1>4, <2>2 DEF SemTake
      <3>2. \A q \in Procs : held'[q] = (q = p \/ held[q])
        BY <1>4, <2>2 DEF SemTake, TypeOK
      <3>3. \A q \in Procs : pc'[q] = IF q = p THEN "call" ELSE pc[q]
        BY <1>4, <2>2 DEF SemTake, Goto, TypeOK
      <3>4. ~stolen => sem = 1 /\ ~lost /\ \A q \in Procs : ~held[q]
        BY <3>1 DEF SInv, TypeOK
      <3>5. CASE stolen
        BY <3>1, <3>5 DEF SInv
      <3>6. CASE ~stolen
        <4>1. sem' = 0 /\ ~lost'
          BY <3>1, <3>4, <3>6
        <4>2. held'[p] /\ \A q \in Procs : q # p => ~held[q] /\ ~held'[q]
          BY <3>2, <3>4, <3>6
        <4> QED
          BY <3>3, <3>6, <4>1, <4>2, SemMove DEF Holding
      <3> QED
        BY <3>5, <3>6
    <2> QED
      BY <2>1, <2>2
  <1>5. CASE unlock_sem(p)
    <2>1. UNCHANGED lock
      BY <1>5 DEF unlock_sem
    <2>2. ~stolen => sem # NoSem
      BY <1>5 DEF unlock_sem, SInv, Opened
    <2>3. CASE sem = 0
      BY <1>5, <2>1, <2>3, SemSame DEF unlock_sem, Goto, Holding, Opened
    <2>4. CASE sem # 0
      <3>1. ~stolen => ~held[p]
        BY <2>4 DEF SInv
      <3>2. AfterCall(p)
        BY <1>5, <2>4 DEF unlock_sem
      <3> QED
        BY <2>1, <2>2, <3>1, <3>2, SemAfter, SemSame DEF Holding
    <2> QED
      BY <2>3, <2>4
  <1>6. CASE SemPost(p)
    <2>1. CASE ~held[p]
      BY <1>6, <2>1 DEF SemPost, SInv
    <2>2. CASE held[p]
      <3>1. /\ sem' = sem + 1 /\ lost' = lost /\ stolen' = stolen
            /\ \A q \in Procs : held'[q] = (q # p /\ held[q])
        BY <1>6, <2>2 DEF SemPost, TypeOK
      <3>2. \A q \in Procs : q # p => pc'[q] = pc[q]
        BY <1>6, SemAfter DEF SemPost, TypeOK
      <3>3. pc'[p] \in {"off", "open_file", "write_file"}
        BY <1>6, SemAfter DEF SemPost
      <3>4. ~stolen => sem = 0 /\ ~lost /\ \A q \in Procs : held[q] => q = p
        BY <2>2 DEF SInv
      <3>5. CASE stolen
        BY <3>1, <3>5 DEF SInv
      <3>6. CASE ~stolen
        <4>1. sem' = 1 /\ ~lost'
          BY <3>1, <3>4, <3>6
        <4>2. ~held'[p] /\ \A q \in Procs : q # p => ~held[q] /\ ~held'[q]
          BY <3>1, <3>4, <3>6
        <4> QED
          BY <3>2, <3>3, <3>6, <4>1, <4>2, SemMove
      <3> QED
        BY <3>5, <3>6
    <2> QED
      BY <2>1, <2>2
  <1>7. CASE GetData(p) \/ SetData(p)
    <2>1. Goto(p, "ulook") /\ UNCHANGED lock /\ pc[p] = "call"
      BY <1>7 DEF GetData, SetData
    <2>2. ~stolen => sem # NoSem
      BY <2>1 DEF SInv, Opened
    <2> QED
      BY <2>1, <2>2, SemSame DEF Goto, Holding, Opened
  <1>8. CASE RemoveRule(p) \/ InsertRule(p) \/ Load(p)
    <2>1. pc[p] \in {"remove", "insert", "load"} /\ UNCHANGED lock
      BY <1>8 DEF RemoveRule, InsertRule, Load
    <2>2. ~stolen => ~held[p]
      BY <2>1 DEF SInv, Holding
    <2>3. CASE Exit(p)
      BY <2>1, <2>2, <2>3, SemExit
    <2>4. CASE ~Exit(p)
      <3>1. Goto(p, "insert") \/ Goto(p, "load") \/ Goto(p, "open")
        BY <1>8, <2>4 DEF RemoveRule, InsertRule, Load
      <3> QED
        BY <2>1, <2>2, <3>1, SemSame DEF Goto, Opened
    <2> QED
      BY <2>3, <2>4
  <1>9. CASE SaveOpen(p)
    <2>1. pc[p] = "open_file" /\ UNCHANGED lock /\ Goto(p, "write_file")
      BY <1>9 DEF SaveOpen
    <2>2. ~stolen => ~held[p] /\ sem # NoSem
      BY <2>1 DEF SInv, Holding, Opened
    <2> QED
      BY <2>1, <2>2, SemSame DEF Goto
  <1>10. CASE SaveWrite(p)
    <2>1. pc[p] = "write_file" /\ UNCHANGED lock /\ Exit(p)
      BY <1>10 DEF SaveWrite
    <2>2. ~stolen => ~held[p]
      BY <2>1 DEF SInv, Holding
    <2> QED
      BY <2>1, <2>2, SemExit
  <1> QED
    BY <1>1, <1>2, <1>3, <1>4, <1>5, <1>6, <1>7, <1>8, <1>9, <1>10 DEF Step

LEMMA SemNext == TypeOK /\ SInv /\ [Next]_vars => SInv'
  <1> SUFFICES ASSUME TypeOK, SInv, [Next]_vars PROVE SInv'
    OBVIOUS
  <1>1. CASE \E p \in Procs : Step(p)
    BY <1>1, SemStep
  <1>2. ASSUME NEW p \in Procs, Start(p) PROVE SInv'
    <2>1. ~stolen => ~held[p]
      BY <1>2 DEF Start, SInv, Holding
    <2>2. UNCHANGED lock /\ (Goto(p, "remove") \/ Goto(p, "open"))
      BY <1>2 DEF Start
    <2> QED
      BY <2>1, <2>2, SemSame DEF Goto, Opened
  <1>3. ASSUME NEW p \in Procs, signal_handler(p) PROVE SInv'
    <2>1. UNCHANGED lock
      BY <1>3 DEF signal_handler
    <2>2. CASE pc[p] \in {"insert", "load", "open"}
      <3>1. ~stolen => ~held[p]
        BY <2>2 DEF SInv, Holding
      <3> QED
        BY <1>3, <2>1, <2>2, <3>1, SemSame DEF signal_handler, Goto, Opened
    <2>3. CASE pc[p] \notin {"insert", "load", "open"}
      <3>1. pc[p] \in Opened
        BY <1>3, <2>3 DEF signal_handler, TypeOK, Places, Opened
      <3>2. ~stolen => sem # NoSem
        BY <3>1 DEF SInv
      <3> QED
        BY <1>3, <2>1, <2>3, <3>2, SemSame DEF signal_handler, Goto, Holding
    <2> QED
      BY <2>2, <2>3
  <1>4. ASSUME NEW p \in Procs, Kill(p) PROVE SInv'
    <2>1. UNCHANGED <<sem, stolen>> /\ lost' = (lost \/ held[p])
      BY <1>4 DEF Kill
    <2>2. \A q \in Procs : held'[q] = (q # p /\ held[q])
      BY <1>4 DEF Kill, TypeOK
    <2>3. \A q \in Procs : pc'[q] = IF q = p THEN "off" ELSE pc[q]
      BY <1>4 DEF Kill, Exit, Goto, TypeOK
    <2>4. CASE held[p]
      BY <2>1, <2>2, <2>3, <2>4 DEF SInv, Holding, Opened
    <2>5. CASE ~held[p]
      BY <2>1, <2>2, <2>3, <2>5 DEF SInv, Holding, Opened
    <2> QED
      BY <2>4, <2>5
  <1>5. CASE Reboot
    BY <1>5 DEF Reboot, SInv, Opened
  <1>6. CASE (\E ip \in Ips : \E len \in Lens[ip] : match(ip, len)) \/ Tick \/ UNCHANGED vars
    <2>1. UNCHANGED <<lock, pc>>
      BY <1>6 DEF match, Tick, vars
    <2> QED
      BY <2>1 DEF SInv, lock
  <1> QED
    BY <1>1, <1>2, <1>3, <1>4, <1>5, <1>6 DEF Next

\* However many programs use the library, at most one is inside a call, and the
\* semaphore is free when none is, unless a holder was killed or a signal handler
\* gave back what another holds (lock_sem(), unlock_sem()).
THEOREM SemaphoreAccounted == Spec => []SemAccounts
  <1>1. Init => SInv
    BY DEF Init, SInv, Opened
  <1> QED
    BY <1>1, TypeInit, TypeNext, SemNext, SInvAccounts, PTL DEF Spec

------------------------------------------------------------------------------
(* The intervals *)

LEMMA DivFacts ==
    ASSUME NEW n \in Nat \ {0}, NEW t \in Nat
    PROVE  /\ t \div n \in Nat
           /\ (t \div n) * n \in Nat
           /\ (t \div n) * n <= t
           /\ t < (t \div n) * n + n
  OBVIOUS

LEMMA DivMonotone ==
    ASSUME NEW n \in Nat \ {0}, NEW t \in Nat, NEW u \in Nat, t <= u
    PROVE  \/ t \div n = u \div n
           \/ (t \div n) * n + n <= (u \div n) * n
  <1>1. t \div n <= u \div n
    OBVIOUS
  <1>2. \A a, b \in Nat : a < b => a * n + n <= b * n
    OBVIOUS
  <1> QED
    BY <1>1, <1>2, DivFacts

\* The end of an interval in terms of the start of the period.
LEMMA ResetForm ==
    ASSUME NEW t \in Nat
    PROVE  LET b == (t \div Period) * Period
           IN  get_next_reset_time(t) =
                 IF ResetTime > 0 /\ b + ResetTime > t
                    THEN b + ResetTime ELSE b + Period + ResetTime
  <1> DEFINE q == t \div Period
  <1>1. q \in Nat /\ q * Period \in Nat
    BY DivFacts, BwAssumption
  <1>2. (q + 1) * Period = q * Period + Period
    BY <1>1, BwAssumption
  <1> QED
    BY <1>1, <1>2, BwAssumption DEF get_next_reset_time

LEMMA ResetLater ==
    ASSUME NEW t \in Nat
    PROVE  get_next_reset_time(t) \in Int /\ get_next_reset_time(t) > t
  <1> DEFINE b == (t \div Period) * Period
  <1>1. b \in Nat /\ b <= t /\ t < b + Period
    BY DivFacts, BwAssumption
  <1>2. get_next_reset_time(t) = IF ResetTime > 0 /\ b + ResetTime > t
                                    THEN b + ResetTime ELSE b + Period + ResetTime
    BY ResetForm
  <1> HIDE DEF b
  <1> QED
    BY <1>1, <1>2, BwAssumption

LEMMA ResetMonotone ==
    ASSUME NEW t \in Nat, NEW u \in Nat, t <= u
    PROVE  get_next_reset_time(t) <= get_next_reset_time(u)
  <1> DEFINE b == (t \div Period) * Period
             c == (u \div Period) * Period
  <1>1. b \in Nat /\ c \in Nat /\ (b = c \/ b + Period <= c)
    BY DivFacts, DivMonotone, BwAssumption
  <1>2. get_next_reset_time(t) = IF ResetTime > 0 /\ b + ResetTime > t
                                    THEN b + ResetTime ELSE b + Period + ResetTime
    BY ResetForm
  <1>3. get_next_reset_time(u) = IF ResetTime > 0 /\ c + ResetTime > u
                                    THEN c + ResetTime ELSE c + Period + ResetTime
    BY ResetForm
  <1> HIDE DEF b, c
  <1> QED
    BY <1>1, <1>2, <1>3, BwAssumption

------------------------------------------------------------------------------
(* What is charged *)

Lines == [ip : AllIps, bw : Int, from : Int, cut : Nat]

\* Neither of the things has happened that ChargedUnlessLateOrCut leaves out.
Clean == ~late /\ ~garbled
USE DEF Clean

\* A line counts what was used by the end of its interval: nothing to hold against
\* it once the kernel counts for a later one.
Honest(l, next, u) == /\ l.from <= next
                      /\ l.from = next => l.bw <= u[l.ip]

DataInv ==
    /\ data \in [Procs -> Seq(Lines)] /\ flines \in Seq(Lines)
    /\ ip_map \in [AllIps -> Int] /\ used \in [AllIps -> Nat]
    /\ next_reset \in Int /\ next_reset <= get_next_reset_time(now)

StampInv ==
    /\ fstamp = 0 => flines = <<>>
    /\ ~garbled => \A p \in Procs : Job[p] = "restore" /\ stamp[p] = 0 => data[p] = <<>>
    /\ \A p \in Procs : Job[p] = "backup" => stamp[p] \in 0..MaxNow
    /\ \A p \in Procs : pc[p] = "write_file" => stamp[p] # 0
    /\ \A p \in Procs : pc[p] \in {"open_file", "write_file"} => Job[p] = "backup"
    /\ \A p \in Procs : pc[p] \in {"remove", "insert", "load"} => Job[p] = "restore"

\* ChargedUnlessLateOrCut needs to know that no line on its way, in a program or in the
\* file, charges too much, that a line that was not stamped late belongs to the
\* interval of its stamp, and that what a restore has read as a line is whole.
ChargeInv ==
    Clean =>
      /\ \A ip \in AllIps : ip_map[ip] <= used[ip]
      /\ \A p \in Procs : \A i \in DOMAIN data[p] :
            Honest(data[p][i], next_reset, used)
      /\ \A i \in DOMAIN flines : Honest(flines[i], next_reset, used)
      /\ \A i \in DOMAIN flines : flines[i].from = get_next_reset_time(fstamp)
      /\ \A p \in Procs : Job[p] = "restore" =>
            \A i \in DOMAIN data[p] : data[p][i].from = get_next_reset_time(stamp[p])
      /\ \A p \in Procs : Job[p] = "restore" =>
            \A i \in DOMAIN data[p] : Readable(data[p][i]) => data[p][i].cut = 0

CInv == DataInv /\ StampInv /\ ChargeInv

\* p drops what it has read, or the end of it, or nothing.
Drops(p) ==
    \/ UNCHANGED <<data, stamp>>
    \/ /\ data' = [data EXCEPT ![p] = <<>>]
       /\ stamp' = stamp \/ stamp' = [stamp EXCEPT ![p] = 0]
    \/ /\ \E n \in 0..Len(data[p]) : data' = [data EXCEPT ![p] = SubSeq(data[p], 1, n)]
       /\ stamp' = stamp

\* What a step of p does that neither counts, nor loads, nor saves.
Quiet(p) ==
    /\ UNCHANGED <<fstamp, flines, next_reset, ip_map, now, used, late, garbled>>
    /\ Drops(p)

LEMMA QuietSteps ==
    ASSUME NEW p \in Procs,
           \/ get_sem(p) \/ SetVal(p) \/ lock_sem(p) \/ SemTake(p)
           \/ unlock_sem(p) \/ SemPost(p) \/ Start(p) \/ signal_handler(p) \/ Kill(p)
           \/ Load(p) /\ ~there
    PROVE  Quiet(p)
  <1>1. CASE get_sem(p) \/ SetVal(p) \/ Start(p)
    BY <1>1 DEF get_sem, SetVal, Start, Quiet, Drops, call, file, kernel
  <1>2. CASE lock_sem(p) \/ SemTake(p)
    BY <1>2 DEF lock_sem, SemTake, Retry, Exit, Quiet, Drops, call, file, kernel
  <1>3. CASE unlock_sem(p) \/ SemPost(p)
    BY <1>3 DEF unlock_sem, SemPost, AfterCall, Exit, Quiet, Drops, call, file, kernel
  <1>4. CASE signal_handler(p)
    BY <1>4 DEF signal_handler, Quiet, Drops, file, kernel
  <1>5. CASE Kill(p) \/ (Load(p) /\ ~there)
    BY <1>5 DEF Kill, Load, Exit, Quiet, Drops, file, kernel
  <1> QED
    BY <1>1, <1>2, <1>3, <1>4, <1>5

\* What is still there of what was read is what was read.
LinesKept ==
    \A q \in Procs : \A i \in DOMAIN data'[q] :
       i \in DOMAIN data[q] /\ data'[q][i] = data[q][i] /\ stamp'[q] = stamp[q]

LEMMA EmptyLines == <<>> \in Seq(Lines) /\ DOMAIN <<>> = {}
  OBVIOUS

\* What p reads or drops is p's alone.
LEMMA OneData ==
    ASSUME NEW p \in Procs, NEW d, data' = [data EXCEPT ![p] = d],
           data \in [Procs -> Seq(Lines)]
    PROVE  \A q \in Procs : data'[q] = IF q = p THEN d ELSE data[q]
  OBVIOUS

LEMMA DropsFacts ==
    ASSUME TypeOK, DataInv, NEW p \in Procs, Drops(p)
    PROVE  /\ data' \in [Procs -> Seq(Lines)]
           /\ \A q \in Procs : q # p => data'[q] = data[q] /\ stamp'[q] = stamp[q]
           /\ stamp'[p] \in {0, stamp[p]}
           /\ data'[p] = <<>> \/ (stamp'[p] = stamp[p] /\ data[p] # <<>>)
           /\ LinesKept
  <1>1. /\ data \in [Procs -> Seq(Lines)] /\ data[p] \in Seq(Lines)
        /\ stamp \in [Procs -> Nat]
    BY DEF DataInv, TypeOK
  <1>2. CASE UNCHANGED <<data, stamp>>
    BY <1>1, <1>2 DEF LinesKept
  <1>3. CASE /\ data' = [data EXCEPT ![p] = <<>>]
             /\ stamp' = stamp \/ stamp' = [stamp EXCEPT ![p] = 0]
    <2>1. data' \in [Procs -> Seq(Lines)]
      BY <1>1, <1>3, EmptyLines
    <2>2. \A q \in Procs : data'[q] = IF q = p THEN <<>> ELSE data[q]
      BY <1>1, <1>3, OneData
    <2>3. /\ \A q \in Procs : q # p => stamp'[q] = stamp[q]
          /\ stamp'[p] \in {0, stamp[p]}
      BY <1>1, <1>3
    <2> QED
      BY <2>1, <2>2, <2>3, EmptyLines DEF LinesKept
  <1>4. ASSUME NEW n \in 0..Len(data[p]), data' = [data EXCEPT ![p] = SubSeq(data[p], 1, n)],
               stamp' = stamp
        PROVE  /\ data' \in [Procs -> Seq(Lines)]
               /\ \A q \in Procs : q # p => data'[q] = data[q] /\ stamp'[q] = stamp[q]
               /\ stamp'[p] \in {0, stamp[p]}
               /\ data'[p] = <<>> \/ (stamp'[p] = stamp[p] /\ data[p] # <<>>)
               /\ LinesKept
    <2> DEFINE d == SubSeq(data[p], 1, n)
    <2>1. /\ d \in Seq(Lines) /\ DOMAIN d = 1..n /\ DOMAIN d \subseteq DOMAIN data[p]
          /\ \A i \in DOMAIN d : d[i] = data[p][i]
      <3>1. Len(data[p]) \in Nat /\ DOMAIN data[p] = 1..Len(data[p])
        BY <1>1
      <3>2. d \in Seq(Lines) /\ Len(d) = n /\ \A i \in 1..n : d[i] = data[p][i]
        BY <1>1, <3>1
      <3> HIDE DEF d
      <3>3. DOMAIN d = 1..n
        BY <3>2
      <3> QED
        BY <3>1, <3>2, <3>3
    <2>2. data' = [data EXCEPT ![p] = d]
      BY <1>4
    <2> HIDE DEF d
    <2>3. \A q \in Procs : data'[q] = IF q = p THEN d ELSE data[q]
      BY <1>1, <2>2, OneData
    <2>4. data' \in [Procs -> Seq(Lines)]
      BY <1>1, <2>1, <2>2
    <2>5. d = <<>> \/ data[p] # <<>>
      <3>1. CASE DOMAIN d = {}
        BY <2>1, <3>1
      <3>2. CASE DOMAIN d # {}
        BY <2>1, <3>2, EmptyLines
      <3> QED
        BY <3>1, <3>2
    <2>6. LinesKept
      <3> SUFFICES ASSUME NEW q \in Procs, NEW i \in DOMAIN data'[q]
                   PROVE  /\ i \in DOMAIN data[q] /\ data'[q][i] = data[q][i]
                          /\ stamp'[q] = stamp[q]
        BY DEF LinesKept
      <3>1. stamp'[q] = stamp[q]
        BY <1>4
      <3>2. CASE q = p
        <4>1. data'[q] = d
          BY <2>3, <3>2
        <4> QED
          BY <2>1, <3>1, <3>2, <4>1
      <3>3. CASE q # p
        <4>1. data'[q] = data[q]
          BY <2>3, <3>3
        <4> QED
          BY <3>1, <4>1
      <3> QED
        BY <3>2, <3>3
    <2> QED
      BY <1>4, <2>3, <2>4, <2>5, <2>6
  <1> QED
    BY <1>2, <1>3, <1>4 DEF Drops

LEMMA QuietKeeps ==
    ASSUME TypeOK, DataInv, ChargeInv, NEW p \in Procs, Quiet(p)
    PROVE  DataInv' /\ ChargeInv'
  <1>1. Drops(p) /\ UNCHANGED <<fstamp, flines, next_reset, ip_map, now, used, late, garbled>>
    BY DEF Quiet
  <1>2. data' \in [Procs -> Seq(Lines)] /\ LinesKept
    BY <1>1, DropsFacts
  <1>3. DataInv'
    BY <1>1, <1>2 DEF DataInv
  <1>4. CASE ~Clean
    BY <1>1, <1>3, <1>4 DEF ChargeInv
  <1>5. CASE Clean
    <2>1. \A q \in Procs : \A i \in DOMAIN data'[q] : Honest(data'[q][i], next_reset, used)
      <3> SUFFICES ASSUME NEW q \in Procs, NEW i \in DOMAIN data'[q]
                   PROVE  Honest(data'[q][i], next_reset, used)
        OBVIOUS
      <3>1. i \in DOMAIN data[q] /\ data'[q][i] = data[q][i]
        BY <1>2 DEF LinesKept
      <3>2. Honest(data[q][i], next_reset, used)
        BY <1>5, <3>1 DEF ChargeInv
      <3> QED
        BY <3>1, <3>2
    <2>2. ASSUME NEW q \in Procs, Job[q] = "restore", NEW i \in DOMAIN data'[q]
          PROVE  /\ data'[q][i].from = get_next_reset_time(stamp'[q])
                 /\ Readable(data'[q][i]) => data'[q][i].cut = 0
      <3>1. i \in DOMAIN data[q] /\ data'[q][i] = data[q][i] /\ stamp'[q] = stamp[q]
        BY <1>2 DEF LinesKept
      <3>2. /\ data[q][i].from = get_next_reset_time(stamp[q])
            /\ Readable(data[q][i]) => data[q][i].cut = 0
        BY <1>5, <2>2, <3>1 DEF ChargeInv
      <3> QED
        BY <3>1, <3>2
    <2>3. \A q \in Procs : \A i \in DOMAIN data'[q] :
             Honest(data'[q][i], next_reset', used')
      BY <1>1, <2>1
    <2>4. /\ \A ip \in AllIps : ip_map'[ip] <= used'[ip]
          /\ \A i \in DOMAIN flines' : Honest(flines'[i], next_reset', used')
          /\ \A i \in DOMAIN flines' : flines'[i].from = get_next_reset_time(fstamp')
      BY <1>1, <1>5 DEF ChargeInv
    <2>5. \A q \in Procs : Job[q] = "restore" =>
             \A i \in DOMAIN data'[q] :
                data'[q][i].from = get_next_reset_time(stamp'[q])
      BY <2>2
    <2>6. \A q \in Procs : Job[q] = "restore" =>
             \A i \in DOMAIN data'[q] : Readable(data'[q][i]) => data'[q][i].cut = 0
      BY <2>2
    <2> QED
      BY <1>3, <2>3, <2>4, <2>5, <2>6 DEF ChargeInv
  <1> QED
    BY <1>3, <1>4, <1>5

LEMMA HonestKept ==
    ASSUME DataInv, NEW l \in Lines, Honest(l, next_reset, used),
           NEW n \in Int, NEW u \in [AllIps -> Nat], next_reset <= n,
           n = next_reset => \A ip \in AllIps : used[ip] <= u[ip]
    PROVE  Honest(l, n, u)
  <1>1. l.ip \in AllIps /\ l.bw \in Int /\ l.from \in Int
    BY DEF Lines
  <1> QED
    BY <1>1 DEF Honest, DataInv

LEMMA SeqLines ==
    ASSUME NEW s \in Seq(Lines)
    PROVE  /\ Len(s) \in Nat /\ DOMAIN s = 1..Len(s)
           /\ \A i \in DOMAIN s : s[i] \in Lines
  OBVIOUS

\* What a step of the kernel does to the counters.
LEMMA KernelKeeps ==
    ASSUME DataInv, DataInv', ChargeInv, UNCHANGED <<data, stamp, flines, fstamp, late, garbled>>,
           next_reset <= next_reset',
           next_reset' = next_reset => \A ip \in AllIps : used[ip] <= used'[ip],
           Clean => \A ip \in AllIps : ip_map'[ip] <= used'[ip]
    PROVE  ChargeInv'
  <1>1. CASE ~Clean
    BY <1>1 DEF ChargeInv
  <1>2. CASE Clean
    <2>1. \A q \in Procs : \A i \in DOMAIN data[q] : Honest(data[q][i], next_reset', used')
      <3> SUFFICES ASSUME NEW q \in Procs, NEW i \in DOMAIN data[q]
                   PROVE  Honest(data[q][i], next_reset', used')
        OBVIOUS
      <3>1. data[q][i] \in Lines
        BY SeqLines DEF DataInv
      <3>2. Honest(data[q][i], next_reset, used)
        BY <1>2 DEF ChargeInv
      <3>3. next_reset' \in Int /\ used' \in [AllIps -> Nat]
        BY DEF DataInv
      <3> QED
        BY <3>1, <3>2, <3>3, HonestKept
    <2>2. \A i \in DOMAIN flines : Honest(flines[i], next_reset', used')
      <3> SUFFICES ASSUME NEW i \in DOMAIN flines
                   PROVE  Honest(flines[i], next_reset', used')
        OBVIOUS
      <3>1. flines[i] \in Lines
        BY SeqLines DEF DataInv
      <3>2. Honest(flines[i], next_reset, used)
        BY <1>2 DEF ChargeInv
      <3>3. next_reset' \in Int /\ used' \in [AllIps -> Nat]
        BY DEF DataInv
      <3> QED
        BY <3>1, <3>2, <3>3, HonestKept
    <2> QED
      BY <1>2, <2>1, <2>2 DEF ChargeInv
  <1> QED
    BY <1>1, <1>2

\* The reset that comes first when the interval is over.
LEMMA NowFacts ==
    ASSUME TypeOK, DataInv
    PROVE  /\ NextResetNow \in Int /\ next_reset <= NextResetNow
           /\ NextResetNow <= get_next_reset_time(now)
           /\ CountersNow \in [AllIps -> Int] /\ UsedNow \in [AllIps -> Nat]
           /\ NextResetNow = next_reset => UsedNow = used
           /\ ChargeInv /\ Clean => \A ip \in AllIps : CountersNow[ip] <= UsedNow[ip]
  <1>1. now \in Nat
    BY DEF TypeOK
  <1>2. get_next_reset_time(now) \in Int /\ get_next_reset_time(now) > now
    BY <1>1, ResetLater
  <1>3. CASE Expired
    <2>1. NextResetNow \in Int /\ next_reset < NextResetNow
      BY <1>1, <1>2, <1>3 DEF Expired, NextResetNow, DataInv
    <2>2. UsedNow = [ip \in AllIps |-> 0]
      BY <1>3 DEF UsedNow
    <2>3. \A ip \in AllIps : CountersNow[ip] \in Int /\ CountersNow[ip] <= 0
      BY <1>3 DEF CountersNow
    <2>4. CountersNow \in [AllIps -> Int]
      BY <2>3 DEF CountersNow
    <2> QED
      BY <1>2, <1>3, <2>1, <2>2, <2>3, <2>4 DEF NextResetNow, DataInv
  <1>4. CASE ~Expired
    <2>1. CountersNow = ip_map
      BY <1>4 DEF CountersNow, DataInv
    <2> QED
      BY <1>4, <2>1 DEF NextResetNow, UsedNow, DataInv, ChargeInv
  <1> QED
    BY <1>3, <1>4

LEMMA MatchKeeps ==
    ASSUME TypeOK, DataInv, ChargeInv, NEW ip \in Ips, NEW len \in Lens[ip], match(ip, len)
    PROVE  DataInv' /\ ChargeInv'
  <1>0. ip \in AllIps
    BY DEF AllIps
  <1>len. len \in Nat
    BY BwAssumption
  <1>1. /\ next_reset' = NextResetNow
        /\ UNCHANGED <<data, stamp, flines, fstamp, late, garbled, now>>
    BY DEF match, call, file
  <1>2. used' \in [AllIps -> Nat] /\ \A j \in AllIps : UsedNow[j] <= used'[j]
    BY <1>0, <1>len, NowFacts DEF match
  <1>3. ip_map' \in [AllIps -> Int]
    BY <1>0, <1>len, NowFacts DEF match
  <1>4. DataInv'
    BY <1>1, <1>2, <1>3, NowFacts DEF DataInv
  <1>5. ASSUME Clean, NEW j \in AllIps PROVE ip_map'[j] <= used'[j]
    <2>1. CountersNow[j] <= UsedNow[j] /\ CountersNow[j] \in Int /\ UsedNow[j] \in Nat
      BY <1>5, NowFacts
    <2>2. CASE j = ip
      BY <1>0, <1>len, <2>1, <2>2, NowFacts DEF match
    <2>3. CASE j # ip
      BY <1>0, <2>1, <2>3, NowFacts DEF match
    <2> QED
      BY <2>2, <2>3
  <1>6. next_reset' = next_reset => \A j \in AllIps : used[j] <= used'[j]
    BY <1>1, <1>2, NowFacts
  <1>7. next_reset <= next_reset'
    BY <1>1, NowFacts
  <1> QED
    BY <1>1, <1>4, <1>5, <1>6, <1>7, KernelKeeps

LEMMA TickKeeps ==
    ASSUME TypeOK, DataInv, ChargeInv, Tick
    PROVE  DataInv' /\ ChargeInv'
  <1>1. now \in Nat /\ now' = now + 1
    BY DEF Tick, TypeOK
  <1>2. UNCHANGED <<data, stamp, flines, fstamp, late, garbled, next_reset, ip_map, used>>
    BY DEF Tick, call, file, kernel
  <1>3. get_next_reset_time(now) <= get_next_reset_time(now + 1)
    BY <1>1, ResetMonotone
  <1>4. get_next_reset_time(now) \in Int /\ get_next_reset_time(now + 1) \in Int
    BY <1>1, ResetLater
  <1>5. get_next_reset_time(now)' = get_next_reset_time(now + 1)
    BY <1>1 DEF get_next_reset_time
  <1>6. DataInv'
    BY <1>2, <1>3, <1>4, <1>5 DEF DataInv
  <1>7. ChargeInv'
    BY <1>2 DEF ChargeInv
  <1> QED
    BY <1>6, <1>7

\* No counter: charged for nothing.
LEMMA NoCounters ==
    ASSUME DataInv, ip_map' = [ip \in AllIps |-> Absent],
           used' \in [AllIps -> Nat]
    PROVE  ip_map' \in [AllIps -> Int] /\ \A ip \in AllIps : ip_map'[ip] <= used'[ip]
  OBVIOUS

LEMMA RemoveKeeps ==
    ASSUME TypeOK, DataInv, ChargeInv, NEW p \in Procs, RemoveRule(p)
    PROVE  DataInv' /\ ChargeInv'
  <1>1. UNCHANGED <<data, stamp, flines, fstamp, late, garbled, next_reset, now, used>>
    BY DEF RemoveRule, call, file
  <1>2. ip_map' \in [AllIps -> Int] /\ \A ip \in AllIps : ip_map'[ip] <= used'[ip]
    BY <1>1, NoCounters DEF RemoveRule, DataInv
  <1>3. DataInv'
    BY <1>1, <1>2 DEF DataInv
  <1>4. next_reset <= next_reset' /\ \A ip \in AllIps : used[ip] <= used'[ip]
    BY <1>1 DEF DataInv
  <1> QED
    BY <1>1, <1>2, <1>3, <1>4, KernelKeeps

LEMMA InsertKeeps ==
    ASSUME TypeOK, DataInv, ChargeInv, NEW p \in Procs, InsertRule(p)
    PROVE  DataInv' /\ ChargeInv'
  <1>1. UNCHANGED <<data, stamp, flines, fstamp, late, garbled, now>>
        /\ next_reset' = get_next_reset_time(now)
    BY DEF InsertRule, call, file
  <1>2. now \in Nat
    BY DEF TypeOK
  <1>3. next_reset' \in Int /\ next_reset <= next_reset'
    BY <1>1, <1>2, ResetLater DEF DataInv
  <1>4. used' \in [AllIps -> Nat]
    BY DEF InsertRule, DataInv
  <1>5. next_reset' = next_reset => \A ip \in AllIps : used[ip] <= used'[ip]
    BY DEF InsertRule, DataInv
  <1>6. ip_map' \in [AllIps -> Int] /\ \A ip \in AllIps : ip_map'[ip] <= used'[ip]
    BY <1>4, NoCounters DEF InsertRule
  <1>7. DataInv'
    <2>1. next_reset' <= get_next_reset_time(now)'
      BY <1>1, <1>3
    <2> QED
      BY <1>1, <1>3, <1>4, <1>6, <2>1 DEF DataInv
  <1> QED
    BY <1>1, <1>3, <1>5, <1>6, <1>7, KernelKeeps

LEMMA RebootKeeps ==
    ASSUME TypeOK, DataInv, ChargeInv, Reboot
    PROVE  DataInv' /\ ChargeInv'
  <1>1. UNCHANGED <<flines, fstamp, late, garbled, next_reset, now, used>>
        /\ \A q \in Procs : data'[q] = <<>>
    BY DEF Reboot, file
  <1>2. ip_map' \in [AllIps -> Int] /\ \A ip \in AllIps : ip_map'[ip] <= used'[ip]
    BY <1>1, NoCounters DEF Reboot, DataInv
  <1>3. data' \in [Procs -> Seq(Lines)]
    BY EmptyLines DEF Reboot
  <1>4. DataInv'
    BY <1>1, <1>2, <1>3 DEF DataInv
  <1>5. ChargeInv'
    BY <1>1, <1>2, EmptyLines DEF ChargeInv
  <1> QED
    BY <1>4, <1>5

LEMMA LinesAreSeq ==
    ASSUME NEW n \in Nat, NEW f \in [1..n -> Lines]
    PROVE  f \in Seq(Lines) /\ DOMAIN f = 1..n
  BY SeqDef

\* What the kernel answers is honest.
LEMMA GetKeeps ==
    ASSUME TypeOK, DataInv, ChargeInv, NEW p \in Procs, GetData(p)
    PROVE  DataInv' /\ ChargeInv'
  <1>1. UNCHANGED <<stamp, flines, fstamp, late, garbled, now>> /\ Job[p] # "restore"
    BY DEF GetData, file
  <1>2. CASE ~rule
    <2>1. UNCHANGED <<next_reset, ip_map, used, data>>
      BY <1>2 DEF GetData
    <2> QED
      BY <1>1, <2>1 DEF DataInv, ChargeInv
  <1>3. CASE rule
    <2> DEFINE keys == {ip \in AllIps : ip_map[ip] # Absent}
               n == Cardinality(keys)
               d(k) == [i \in 1..n |-> IF i <= Cap
                                          THEN Line(k[i], CountersNow[k[i]], NextResetNow)
                                          ELSE Line(0, 0, NextResetNow)]
    <2>1. next_reset' = NextResetNow /\ ip_map' = CountersNow /\ used' = UsedNow
      BY <1>3 DEF GetData
    <2>2. PICK k \in Ascending(keys) : data' = [data EXCEPT ![p] = d(k)]
      BY <1>3 DEF GetData
    <2>3. n \in Nat
      <3>1. IsFiniteSet(AllIps)
        BY BwAssumption, FS_AddElement DEF AllIps
      <3> QED
        BY <3>1, FS_Subset, FS_CardinalityType
    <2>4. \A i \in 1..n : k[i] \in AllIps
      BY DEF Ascending
    <2>5. \A i \in 1..n :
             /\ d(k)[i] \in Lines /\ d(k)[i].from = NextResetNow
             /\ \/ d(k)[i].ip = 0 /\ d(k)[i].bw = 0
                \/ d(k)[i].bw = CountersNow[d(k)[i].ip]
      <3> SUFFICES ASSUME NEW i \in 1..n
                   PROVE  /\ d(k)[i] \in Lines /\ d(k)[i].from = NextResetNow
                          /\ \/ d(k)[i].ip = 0 /\ d(k)[i].bw = 0
                             \/ d(k)[i].bw = CountersNow[d(k)[i].ip]
        OBVIOUS
      <3>1. k[i] \in AllIps /\ 0 \in AllIps
        BY <2>4 DEF AllIps
      <3>2. CountersNow[k[i]] \in Int /\ NextResetNow \in Int
        BY <3>1, NowFacts
      <3>3. CASE i <= Cap
        <4>1. d(k)[i] = Line(k[i], CountersNow[k[i]], NextResetNow)
          BY <3>3
        <4> HIDE DEF d
        <4> QED
          BY <3>1, <3>2, <4>1 DEF Line, Lines
      <3>4. CASE ~(i <= Cap)
        <4>1. d(k)[i] = Line(0, 0, NextResetNow)
          BY <3>4
        <4> HIDE DEF d
        <4> QED
          BY <3>1, <3>2, <4>1 DEF Line, Lines
      <3> QED
        BY <3>3, <3>4
    <2>6. DOMAIN d(k) = 1..n /\ d(k) = [i \in 1..n |-> d(k)[i]]
      OBVIOUS
    <2> HIDE DEF d
    <2>7. d(k) \in Seq(Lines)
      <3>1. d(k) \in [1..n -> Lines]
        BY <2>5, <2>6
      <3> HIDE DEF n
      <3> QED
        BY <2>3, <3>1, LinesAreSeq
    <2> HIDE DEF n
    <2>8. DataInv'
      <3>1. data' \in [Procs -> Seq(Lines)]
        BY <2>2, <2>7 DEF DataInv
      <3> QED
        BY <1>1, <2>1, <3>1, NowFacts DEF DataInv
    <2>9. CASE ~Clean
      BY <1>1, <2>8, <2>9 DEF ChargeInv
    <2>10. CASE Clean
      <3>1. \A q \in Procs : data'[q] = IF q = p THEN d(k) ELSE data[q]
        BY <2>2, OneData DEF DataInv
      <3>2. ASSUME NEW i \in 1..n PROVE Honest(d(k)[i], next_reset', used')
        <4>1. d(k)[i].ip \in AllIps
          BY <2>5 DEF Lines
        <4>2. d(k)[i].bw <= UsedNow[d(k)[i].ip]
          <5>1. UsedNow[d(k)[i].ip] \in Nat
            BY <4>1, NowFacts
          <5>2. CountersNow[d(k)[i].ip] <= UsedNow[d(k)[i].ip]
            BY <2>10, <4>1, NowFacts
          <5> QED
            BY <2>5, <5>1, <5>2
        <4>3. d(k)[i].from = NextResetNow
          BY <2>5
        <4>4. NextResetNow \in Int
          BY NowFacts
        <4> QED
          BY <2>1, <4>2, <4>3, <4>4 DEF Honest
      <3>3. ASSUME NEW l \in Lines, Honest(l, next_reset, used)
            PROVE  Honest(l, next_reset', used')
        <4>1. next_reset' \in Int /\ used' \in [AllIps -> Nat]
          BY <2>8 DEF DataInv
        <4>2. next_reset <= next_reset'
          BY <2>1, NowFacts
        <4>3. next_reset' = next_reset => used' = used
          BY <2>1, NowFacts
        <4>4. next_reset' = next_reset => \A ip \in AllIps : used[ip] <= used'[ip]
          BY <4>3 DEF DataInv
        <4> QED
          BY <3>3, <4>1, <4>2, <4>4, HonestKept
      <3>4. \A q \in Procs : \A i \in DOMAIN data'[q] :
               Honest(data'[q][i], next_reset', used')
        <4> SUFFICES ASSUME NEW q \in Procs, NEW i \in DOMAIN data'[q]
                     PROVE  Honest(data'[q][i], next_reset', used')
          OBVIOUS
        <4>1. CASE q = p
          BY <2>6, <3>1, <3>2, <4>1
        <4>2. CASE q # p
          <5>1. data'[q] = data[q] /\ data[q] \in Seq(Lines)
            BY <3>1, <4>2 DEF DataInv
          <5>2. data[q][i] \in Lines
            BY <5>1, SeqLines
          <5>3. Honest(data[q][i], next_reset, used)
            BY <2>10, <5>1 DEF ChargeInv
          <5> QED
            BY <3>3, <5>1, <5>2, <5>3
        <4> QED
          BY <4>1, <4>2
      <3>5. \A i \in DOMAIN flines : Honest(flines[i], next_reset', used')
        BY <2>10, <3>3, SeqLines DEF ChargeInv, DataInv
      <3>6. \A ip \in AllIps : ip_map'[ip] <= used'[ip]
        BY <2>1, <2>10, NowFacts
      <3>7. \A q \in Procs : Job[q] = "restore" =>
               \A i \in DOMAIN data'[q] :
                  /\ data'[q][i].from = get_next_reset_time(stamp[q])
                  /\ Readable(data'[q][i]) => data'[q][i].cut = 0
        BY <1>1, <2>10, <3>1 DEF ChargeInv
      <3> QED
        BY <1>1, <2>8, <2>10, <3>4, <3>5, <3>6, <3>7 DEF ChargeInv
    <2> QED
      BY <2>8, <2>9, <2>10
  <1> QED
    BY <1>2, <1>3

\* A backup that is taken belongs to the interval of the counters.
LEMMA SetKeeps ==
    ASSUME TypeOK, DataInv, StampInv, ChargeInv, NEW p \in Procs, SetData(p)
    PROVE  DataInv' /\ ChargeInv'
  <1>1. UNCHANGED <<data, stamp, flines, fstamp, late, garbled, next_reset, now, used>>
        /\ Job[p] = "restore"
    BY DEF SetData, file
  <1>2. used' \in [AllIps -> Nat] /\ \A ip \in AllIps : used[ip] <= used'[ip]
    BY <1>1 DEF DataInv
  <1>3. next_reset <= next_reset'
    BY <1>1 DEF DataInv
  <1>4. CASE UNCHANGED ip_map
    BY <1>1, <1>4 DEF DataInv, ChargeInv
  <1>5. CASE ip_map' = [ip \in AllIps |-> Absent]
    <2>1. ip_map' \in [AllIps -> Int] /\ \A ip \in AllIps : ip_map'[ip] <= used'[ip]
      BY <1>2, <1>5, NoCounters
    <2>2. DataInv'
      BY <1>1, <2>1 DEF DataInv
    <2> QED
      BY <1>1, <1>2, <1>3, <2>1, <2>2, KernelKeeps
  <1>6. ASSUME BackupValid(stamp[p]), NEW last \in LastLine(data[p]),
               ip_map' = [ip \in AllIps |-> IF last[ip] = 0 THEN Absent
                                               ELSE data[p][last[ip]].bw]
        PROVE  DataInv' /\ ChargeInv'
    <2>1. data[p] \in Seq(Lines)
      BY DEF DataInv
    <2>2. Len(data[p]) \in Nat /\ DOMAIN data[p] = 1..Len(data[p])
          /\ \A i \in DOMAIN data[p] : data[p][i] \in Lines
      BY <2>1, SeqLines
    <2>3. \A ip \in AllIps : last[ip] # 0 =>
             /\ last[ip] \in DOMAIN data[p] /\ Address(data[p][last[ip]]) = ip
             /\ Readable(data[p][last[ip]])
      BY <2>2 DEF LastLine, Taken
    <2>4. \A ip \in AllIps : last[ip] # 0 => data[p][last[ip]].bw \in Int
      BY <2>2, <2>3 DEF Lines
    <2>5. ip_map' \in [AllIps -> Int]
      BY <1>6, <2>4
    <2>6. DataInv'
      BY <1>1, <2>5 DEF DataInv
    <2>7. ASSUME Clean, NEW ip \in AllIps PROVE ip_map'[ip] <= used'[ip]
      <3>1. CASE last[ip] = 0
        BY <1>2, <1>6, <3>1
      <3>2. CASE last[ip] # 0
        <4>1. last[ip] \in DOMAIN data[p] /\ data[p][last[ip]].ip = ip
          <5>1. data[p][last[ip]].cut = 0
            BY <1>1, <2>3, <2>7, <3>2 DEF ChargeInv
          <5> QED
            BY <2>3, <3>2, <5>1 DEF Address
        <4>2. stamp[p] # 0
          BY <1>1, <2>7, <4>1, EmptyLines DEF StampInv
        <4>3. data[p][last[ip]].from = next_reset
          BY <1>1, <1>6, <2>7, <4>1, <4>2 DEF BackupValid, ChargeInv
        <4>4. Honest(data[p][last[ip]], next_reset, used)
          BY <2>7, <4>1 DEF ChargeInv
        <4>5. data[p][last[ip]].bw <= used[ip]
          BY <4>1, <4>3, <4>4 DEF Honest
        <4>6. ip_map'[ip] = data[p][last[ip]].bw
          BY <1>6, <3>2
        <4> QED
          BY <1>1, <4>5, <4>6
      <3> QED
        BY <3>1, <3>2
    <2> QED
      BY <1>1, <1>2, <1>3, <2>6, <2>7, KernelKeeps
  <1> QED
    BY <1>4, <1>5, <1>6 DEF SetData

\* A file whose lines are all whole or gone is read as it was meant.
LEMMA WholeStamps ==
    ASSUME flines \in Seq(Lines), \A i \in DOMAIN flines : ~Garbled(flines[i])
    PROVE  /\ Stamps(flines, fstamp) = {fstamp}
           /\ \A i \in DOMAIN flines : Readable(flines[i]) => flines[i].cut = 0
  <1>1. \A i \in DOMAIN flines : Stray(flines[i]) = {}
    <2> SUFFICES ASSUME NEW i \in DOMAIN flines PROVE Stray(flines[i]) = {}
      OBVIOUS
    <2>1. flines[i].cut = 0 => Readable(flines[i])
      <3>1. flines[i].ip \in AllIps
        BY SeqLines DEF Lines
      <3> QED
        BY <3>1, BwAssumption DEF Readable
    <2>2. Readable(flines[i]) => Stray(flines[i]) = {}
      BY DEF Stray
    <2> QED
      BY <2>1, <2>2 DEF Garbled
  <1>2. Stamps(flines, fstamp) = {fstamp}
    BY <1>1 DEF Stamps
  <1> QED
    BY <1>2 DEF Garbled

LEMMA LoadKeeps ==
    ASSUME TypeOK, DataInv, ChargeInv, NEW p \in Procs, Load(p), there
    PROVE  DataInv' /\ ChargeInv'
  <1>1. /\ data' = [data EXCEPT ![p] = flines]
        /\ \E t \in Stamps(flines, fstamp) : stamp' = [stamp EXCEPT ![p] = t]
        /\ garbled' = (garbled \/ \E i \in DOMAIN flines : Garbled(flines[i]))
        /\ UNCHANGED <<flines, fstamp, late, next_reset, ip_map, now, used>>
    BY DEF Load, file, kernel
  <1>2. data' \in [Procs -> Seq(Lines)] /\ flines \in Seq(Lines)
    BY <1>1 DEF DataInv
  <1>3. DataInv'
    BY <1>1, <1>2 DEF DataInv
  <1>4. \A q \in Procs : data'[q] = IF q = p THEN flines ELSE data[q]
    BY <1>1, OneData DEF DataInv
  <1>5. CASE ~Clean'
    BY <1>3, <1>5 DEF ChargeInv
  <1>6. CASE Clean'
    <2>1. Clean /\ \A i \in DOMAIN flines : ~Garbled(flines[i])
      BY <1>1, <1>6
    <2>2. /\ stamp' = [stamp EXCEPT ![p] = fstamp]
          /\ \A i \in DOMAIN flines : Readable(flines[i]) => flines[i].cut = 0
      BY <1>1, <1>2, <2>1, WholeStamps
    <2>3. \A q \in Procs : stamp'[q] = IF q = p THEN fstamp ELSE stamp[q]
      BY <2>2 DEF TypeOK
    <2>4. \A q \in Procs : \A i \in DOMAIN data'[q] :
             Honest(data'[q][i], next_reset, used)
      BY <1>4, <2>1 DEF ChargeInv
    <2>5. \A q \in Procs : Job[q] = "restore" =>
             \A i \in DOMAIN data'[q] :
                /\ data'[q][i].from = get_next_reset_time(stamp'[q])
                /\ Readable(data'[q][i]) => data'[q][i].cut = 0
      BY <1>4, <2>1, <2>2, <2>3 DEF ChargeInv
    <2> QED
      BY <1>1, <1>3, <2>1, <2>4, <2>5 DEF ChargeInv
  <1> QED
    BY <1>5, <1>6

LEMMA OpenKeeps ==
    ASSUME TypeOK, DataInv, StampInv, ChargeInv, NEW p \in Procs, SaveOpen(p)
    PROVE  DataInv' /\ ChargeInv'
  <1>1. /\ flines' = <<>> /\ stamp' = [stamp EXCEPT ![p] = now]
        /\ UNCHANGED <<data, late, garbled, next_reset, ip_map, now, used>>
        /\ pc[p] = "open_file"
    BY DEF SaveOpen, kernel
  <1>2. DataInv'
    BY <1>1, EmptyLines DEF DataInv
  <1>3. Job[p] = "backup"
    BY <1>1 DEF StampInv
  <1>4. \A q \in Procs : Job[q] = "restore" => stamp'[q] = stamp[q]
    BY <1>1, <1>3 DEF TypeOK
  <1>5. ChargeInv'
    BY <1>1, <1>4, EmptyLines DEF ChargeInv
  <1> QED
    BY <1>2, <1>5

LEMMA FirstNaturals ==
    ASSUME NEW n \in Nat PROVE IsFiniteSet(1..n) /\ Cardinality(1..n) = n
  BY FS_Interval

\* A line and what is left of it have the same count and address.
SameLine(l, m) == l.ip = m.ip /\ l.bw = m.bw /\ l.from = m.from

LEMMA OverlayLines ==
    ASSUME NEW a \in Seq(Lines), NEW b \in Seq(Lines)
    PROVE  /\ Overlay(a, b) \in Seq(Lines)
           /\ \A i \in DOMAIN Overlay(a, b) :
                 \/ i \in DOMAIN a /\ Overlay(a, b)[i] = a[i]
                 \/ \E k \in DOMAIN b : SameLine(Overlay(a, b)[i], b[k])
  <1> DEFINE n == Ends(a)[Len(a)]
             gone == Cardinality({k \in DOMAIN b : Ends(b)[k] <= n})
             covered(k) == {c \in 1..(AddrWidth + MaxDigits + 1) : Ends(b)[k - 1] + c <= n}
             cut(k) == Cardinality(covered(k))
             tail == [i \in 1..(Len(b) - gone) |-> [b[gone + i] EXCEPT !.cut = @ + cut(gone + i)]]
  <1>1. Overlay(a, b) = a \o tail
    BY DEF Overlay
  <1>2. /\ Len(a) \in Nat /\ DOMAIN a = 1..Len(a) /\ \A i \in DOMAIN a : a[i] \in Lines
        /\ Len(b) \in Nat /\ DOMAIN b = 1..Len(b) /\ \A i \in DOMAIN b : b[i] \in Lines
    BY SeqLines
  <1>3. gone \in 0..Len(b)
    <2> DEFINE K == {k \in DOMAIN b : Ends(b)[k] <= n}
    <2>1. IsFiniteSet(1..Len(b)) /\ Cardinality(1..Len(b)) = Len(b)
      BY <1>2, FirstNaturals
    <2>2. K \in SUBSET (1..Len(b))
      BY <1>2
    <2> HIDE DEF K, n
    <2>3. IsFiniteSet(K) /\ Cardinality(K) <= Len(b)
      BY <2>1, <2>2, FS_Subset
    <2>4. Cardinality(K) \in Nat
      BY <2>3, FS_CardinalityType
    <2> QED
      BY <1>2, <2>3, <2>4 DEF K
  <1>4. \A k : cut(k) \in Nat
    <2> SUFFICES ASSUME NEW k PROVE cut(k) \in Nat
      OBVIOUS
    <2>1. IsFiniteSet(1..(AddrWidth + MaxDigits + 1))
      BY FS_Interval, BwAssumption DEF AddrWidth
    <2>2. covered(k) \in SUBSET (1..(AddrWidth + MaxDigits + 1))
      OBVIOUS
    <2> HIDE DEF covered
    <2> QED
      BY <2>1, <2>2, FS_Subset, FS_CardinalityType
  <1> HIDE DEF gone, cut, covered, n
  <1> DEFINE m == Len(b) - gone
  <1>5. m \in Nat
    BY <1>2, <1>3
  <1>6. \A i \in 1..m : /\ gone + i \in DOMAIN b /\ tail[i] \in Lines
                        /\ SameLine(tail[i], b[gone + i])
    <2> SUFFICES ASSUME NEW i \in 1..m
                 PROVE  /\ gone + i \in DOMAIN b /\ tail[i] \in Lines
                        /\ SameLine(tail[i], b[gone + i])
      OBVIOUS
    <2>1. gone + i \in DOMAIN b
      BY <1>2, <1>3
    <2>2. b[gone + i] \in Lines /\ cut(gone + i) \in Nat
      BY <1>2, <1>4, <2>1
    <2>3. tail[i] = [b[gone + i] EXCEPT !.cut = @ + cut(gone + i)]
      OBVIOUS
    <2> HIDE DEF tail
    <2>4. PICK l \in Lines : l = b[gone + i]
      BY <2>2
    <2>5. tail[i] = [l EXCEPT !.cut = l.cut + cut(gone + i)]
      BY <2>3, <2>4
    <2>6. l \in [ip : AllIps, bw : Int, from : Int, cut : Nat]
      BY DEF Lines
    <2>7. l.cut + cut(gone + i) \in Nat
      BY <2>2, <2>6
    <2>8. tail[i] \in [ip : AllIps, bw : Int, from : Int, cut : Nat]
      BY <2>5, <2>6, <2>7
    <2>9. tail[i].ip = l.ip /\ tail[i].bw = l.bw /\ tail[i].from = l.from
      BY <2>5, <2>6
    <2> QED
      BY <2>1, <2>4, <2>8, <2>9 DEF Lines, SameLine
  <1>7. tail \in Seq(Lines) /\ Len(tail) = m
    <2>1. tail \in [1..m -> Lines]
      BY <1>6
    <2>2. tail \in Seq(Lines) /\ DOMAIN tail = 1..m
      <3> HIDE DEF tail, m
      <3> QED
        BY <1>5, <2>1, LinesAreSeq
    <2> HIDE DEF tail, m
    <2> QED
      BY <1>5, <2>2
  <1> HIDE DEF tail, m
  <1>8. /\ a \o tail \in Seq(Lines) /\ DOMAIN (a \o tail) = 1..(Len(a) + m)
        /\ \A i \in 1..(Len(a) + m) : (a \o tail)[i] = IF i <= Len(a) THEN a[i]
                                                                   ELSE tail[i - Len(a)]
    BY <1>2, <1>5, <1>7
  <1>9. ASSUME NEW i \in DOMAIN (a \o tail)
        PROVE  \/ i \in DOMAIN a /\ (a \o tail)[i] = a[i]
               \/ \E k \in DOMAIN b : SameLine((a \o tail)[i], b[k])
    <2>1. CASE i <= Len(a)
      BY <1>2, <1>5, <1>8, <1>9, <2>1
    <2>2. CASE ~(i <= Len(a))
      <3>1. i - Len(a) \in 1..m /\ (a \o tail)[i] = tail[i - Len(a)]
        BY <1>2, <1>5, <1>8, <1>9, <2>2
      <3> QED
        BY <1>6, <3>1
    <2> QED
      BY <2>1, <2>2
  <1> QED
    BY <1>1, <1>8, <1>9

\* Over an empty file a text is written as it is.
LEMMA OverlayEmpty ==
    ASSUME NEW a \in Seq(Lines)
    PROVE  \A i \in DOMAIN Overlay(a, <<>>) :
              i \in DOMAIN a /\ Overlay(a, <<>>)[i] = a[i]
  BY OverlayLines, EmptyLines

LEMMA WriteKeeps ==
    ASSUME TypeOK, DataInv, ChargeInv, NEW p \in Procs, SaveWrite(p)
    PROVE  DataInv' /\ ChargeInv'
  <1>1. /\ fstamp' = stamp[p] /\ flines' = Overlay(data[p], flines)
        /\ UNCHANGED <<next_reset, ip_map, now, used>>
        /\ late' = (late \/ \E i \in DOMAIN flines' :
                               flines'[i].from # get_next_reset_time(stamp[p]))
        /\ garbled' = garbled
    BY DEF SaveWrite, kernel
  <1>2. data' = [data EXCEPT ![p] = <<>>] /\ stamp' = [stamp EXCEPT ![p] = 0]
    BY DEF SaveWrite, Exit
  <1>3. data[p] \in Seq(Lines) /\ flines \in Seq(Lines)
    BY DEF DataInv
  <1>4. flines' \in Seq(Lines)
    BY <1>1, <1>3, OverlayLines
  <1>5. data' \in [Procs -> Seq(Lines)]
    BY <1>2, EmptyLines DEF DataInv
  <1>6. DataInv'
    BY <1>1, <1>4, <1>5 DEF DataInv
  <1>7. \A q \in Procs : DOMAIN data'[q] # {} => data'[q] = data[q] /\ stamp'[q] = stamp[q]
    BY <1>2, EmptyLines DEF DataInv, TypeOK
  <1>8. CASE ~Clean'
    BY <1>6, <1>8 DEF ChargeInv
  <1>9. CASE Clean'
    <2>1. Clean /\ \A i \in DOMAIN flines' : flines'[i].from = get_next_reset_time(fstamp')
      BY <1>1, <1>9
    <2>2. ASSUME NEW i \in DOMAIN flines' PROVE Honest(flines'[i], next_reset, used)
      <3>1. CASE i \in DOMAIN data[p] /\ flines'[i] = data[p][i]
        BY <2>1, <3>1 DEF ChargeInv
      <3>2. ASSUME NEW k \in DOMAIN flines, SameLine(flines'[i], flines[k])
            PROVE  Honest(flines'[i], next_reset, used)
        <4>1. Honest(flines[k], next_reset, used)
          BY <2>1 DEF ChargeInv
        <4> QED
          BY <3>2, <4>1 DEF SameLine, Honest
      <3> QED
        BY <1>1, <1>3, <2>2, <3>1, <3>2, OverlayLines
    <2>3. \A q \in Procs : \A i \in DOMAIN data'[q] :
             Honest(data'[q][i], next_reset, used)
      BY <1>7, <2>1 DEF ChargeInv
    <2>4. \A q \in Procs : Job[q] = "restore" =>
             \A i \in DOMAIN data'[q] :
                /\ data'[q][i].from = get_next_reset_time(stamp'[q])
                /\ Readable(data'[q][i]) => data'[q][i].cut = 0
      BY <1>7, <2>1 DEF ChargeInv
    <2>5. \A ip \in AllIps : ip_map[ip] <= used[ip]
      BY <2>1 DEF ChargeInv
    <2> QED
      BY <1>1, <1>6, <2>1, <2>2, <2>3, <2>4, <2>5 DEF ChargeInv
  <1> QED
    BY <1>8, <1>9

\* A step that moves p and at most drops what it has read.
LEMMA StampMove ==
    ASSUME TypeOK, DataInv, StampInv, NEW p \in Procs, NEW at, Goto(p, at),
           UNCHANGED <<fstamp, flines, garbled>>, Drops(p),
           at = "write_file" => stamp'[p] # 0,
           at \in {"open_file", "write_file"} => Job[p] = "backup",
           at \in {"remove", "insert", "load"} => Job[p] = "restore"
    PROVE  StampInv'
  <1>1. \A q \in Procs : pc'[q] = IF q = p THEN at ELSE pc[q]
    BY DEF Goto, TypeOK
  <1>2. \A q \in Procs : q # p => data'[q] = data[q] /\ stamp'[q] = stamp[q]
    BY DropsFacts
  <1>3. /\ data'[p] = <<>> \/ (data[p] # <<>> /\ stamp'[p] = stamp[p])
        /\ stamp'[p] \in {0, stamp[p]}
    BY DropsFacts
  <1>4. ~garbled => \A q \in Procs : Job[q] = "restore" /\ stamp'[q] = 0 => data'[q] = <<>>
    BY <1>2, <1>3 DEF StampInv
  <1>5. \A q \in Procs : pc'[q] = "write_file" => stamp'[q] # 0
    BY <1>1, <1>2 DEF StampInv
  <1>6. \A q \in Procs : pc'[q] \in {"open_file", "write_file"} => Job[q] = "backup"
    BY <1>1 DEF StampInv
  <1>7. \A q \in Procs : pc'[q] \in {"remove", "insert", "load"} => Job[q] = "restore"
    BY <1>1 DEF StampInv
  <1>8. \A q \in Procs : Job[q] = "backup" => stamp'[q] \in 0..MaxNow
    BY <1>2, <1>3, BwAssumption DEF StampInv
  <1> QED
    BY <1>4, <1>5, <1>6, <1>7, <1>8 DEF StampInv

LEMMA StampExit ==
    ASSUME TypeOK, DataInv, StampInv, NEW p \in Procs, Exit(p),
           UNCHANGED <<fstamp, flines, garbled>>
    PROVE  StampInv'
  BY StampMove DEF Exit, Drops

LEMMA StampStep ==
    ASSUME TypeOK, DataInv, StampInv, NEW p \in Procs, Step(p)
    PROVE  StampInv'
  <1>1. CASE get_sem(p) \/ SetVal(p)
    <2>1. Goto(p, "init") \/ Goto(p, "look") \/ Goto(p, "ulook")
      BY <1>1 DEF get_sem, SetVal
    <2>2. UNCHANGED <<fstamp, flines, garbled, data, stamp>>
      BY <1>1 DEF get_sem, SetVal, call, file
    <2> QED
      BY <2>1, <2>2, StampMove DEF Drops
  <1>2. CASE lock_sem(p) \/ SemTake(p)
    <2>1. UNCHANGED <<fstamp, flines, garbled>>
      BY <1>2 DEF lock_sem, SemTake, file
    <2>2. CASE Exit(p)
      BY <2>1, <2>2, StampExit
    <2>3. CASE ~Exit(p)
      <3>1. Goto(p, "take") \/ Goto(p, "look") \/ Goto(p, "call")
        BY <1>2, <2>3 DEF lock_sem, SemTake, Retry
      <3>2. UNCHANGED <<data, stamp>>
        BY <1>2, <2>3 DEF lock_sem, SemTake, Retry, call
      <3> QED
        BY <2>1, <3>1, <3>2, StampMove DEF Drops
    <2> QED
      BY <2>2, <2>3
  <1>3. CASE unlock_sem(p) \/ SemPost(p)
    <2>1. UNCHANGED <<fstamp, flines, garbled>>
      BY <1>3 DEF unlock_sem, SemPost, file
    <2>2. CASE Exit(p)
      BY <2>1, <2>2, StampExit
    <2>3. CASE ~Exit(p)
      <3>1. \/ Goto(p, "post")
            \/ Goto(p, "open_file") /\ Job[p] = "backup"
            \/ Goto(p, "write_file") /\ Job[p] = "backup" /\ stamp[p] # 0
        BY <1>3, <2>3 DEF unlock_sem, SemPost, AfterCall
      <3>2. UNCHANGED <<data, stamp>>
        BY <1>3, <2>3 DEF unlock_sem, SemPost, AfterCall, call
      <3> QED
        BY <2>1, <3>1, <3>2, StampMove DEF Drops
    <2> QED
      BY <2>2, <2>3
  <1>4. CASE GetData(p)
    <2>1. UNCHANGED <<fstamp, flines, garbled, stamp>> /\ Job[p] # "restore"
      BY <1>4 DEF GetData, file
    <2>2. \A q \in Procs : pc'[q] = IF q = p THEN "ulook" ELSE pc[q]
      BY <1>4 DEF GetData, Goto, TypeOK
    <2>3. \A q \in Procs : q # p => data'[q] = data[q]
      <3>1. CASE rule
        <4>1. \E d : data' = [data EXCEPT ![p] = d]
          BY <1>4, <3>1 DEF GetData
        <4> QED
          BY <4>1 DEF DataInv
      <3>2. CASE ~rule
        BY <1>4, <3>2 DEF GetData
      <3> QED
        BY <3>1, <3>2
    <2>4. ~garbled => \A q \in Procs : Job[q] = "restore" /\ stamp'[q] = 0 => data'[q] = <<>>
      BY <2>1, <2>3 DEF StampInv
    <2> QED
      BY <2>1, <2>2, <2>4 DEF StampInv
  <1>5. CASE SetData(p)
    <2>1. UNCHANGED <<fstamp, flines, garbled, data, stamp>> /\ Goto(p, "ulook")
      BY <1>5 DEF SetData, file
    <2> QED
      BY <2>1, StampMove DEF Drops
  <1>6. CASE RemoveRule(p) \/ InsertRule(p)
    <2>1. UNCHANGED <<fstamp, flines, garbled, data, stamp>>
      BY <1>6 DEF RemoveRule, InsertRule, call, file
    <2>2. (Goto(p, "insert") \/ Goto(p, "load")) /\ pc[p] \in {"remove", "insert"}
      BY <1>6 DEF RemoveRule, InsertRule
    <2>3. Job[p] = "restore"
      BY <2>2 DEF StampInv
    <2> QED
      BY <2>1, <2>2, <2>3, StampMove DEF Drops
  <1>7. CASE Load(p)
    <2>1. UNCHANGED <<fstamp, flines>> /\ pc[p] = "load" /\ Job[p] = "restore"
      BY <1>7 DEF Load, file, StampInv
    <2>2. CASE ~there
      <3>1. garbled' = garbled /\ Exit(p)
        BY <1>7, <2>2 DEF Load
      <3> QED
        BY <2>1, <3>1, StampExit
    <2>3. CASE there
      <3>1. PICK t \in Stamps(flines, fstamp) : stamp' = [stamp EXCEPT ![p] = t]
        BY <1>7, <2>3 DEF Load
      <3>2. /\ data' = [data EXCEPT ![p] = flines] /\ Goto(p, "open")
            /\ garbled' = (garbled \/ \E i \in DOMAIN flines : Garbled(flines[i]))
        BY <1>7, <2>3 DEF Load
      <3>3. \A q \in Procs : data'[q] = IF q = p THEN flines ELSE data[q]
        BY <3>2, OneData DEF DataInv
      <3>4. \A q \in Procs : stamp'[q] = IF q = p THEN t ELSE stamp[q]
        BY <3>1 DEF TypeOK
      <3>5. \A q \in Procs : pc'[q] = IF q = p THEN "open" ELSE pc[q]
        BY <3>2 DEF Goto, TypeOK
      <3>6. ~garbled' => t = fstamp /\ ~garbled
        BY <3>2, WholeStamps DEF DataInv
      <3>7. ~garbled' => \A q \in Procs : Job[q] = "restore" /\ stamp'[q] = 0 => data'[q] = <<>>
        BY <3>3, <3>4, <3>6 DEF StampInv
      <3>8. \A q \in Procs : pc'[q] = "write_file" => stamp'[q] # 0
        BY <3>4, <3>5 DEF StampInv
      <3>9. \A q \in Procs : Job[q] = "backup" => stamp'[q] \in 0..MaxNow
        BY <2>1, <3>4 DEF StampInv
      <3> QED
        BY <2>1, <3>5, <3>7, <3>8, <3>9 DEF StampInv
    <2> QED
      BY <2>2, <2>3
  <1>8. CASE SaveOpen(p)
    <2>1. /\ flines' = <<>> /\ stamp' = [stamp EXCEPT ![p] = now]
          /\ UNCHANGED <<data, garbled>> /\ Goto(p, "write_file") /\ pc[p] = "open_file"
      BY <1>8 DEF SaveOpen
    <2>2. \A q \in Procs : stamp'[q] = IF q = p THEN now ELSE stamp[q]
      BY <2>1 DEF TypeOK
    <2>3. \A q \in Procs : pc'[q] = IF q = p THEN "write_file" ELSE pc[q]
      BY <2>1 DEF Goto, TypeOK
    <2>4. now # 0
      BY DEF TypeOK
    <2>5. Job[p] = "backup"
      BY <2>1 DEF StampInv
    <2>6. ~garbled => \A q \in Procs : Job[q] = "restore" /\ stamp'[q] = 0 => data'[q] = <<>>
      BY <2>1, <2>2, <2>5 DEF StampInv
    <2>7. \A q \in Procs : pc'[q] = "write_file" => stamp'[q] # 0
      BY <2>2, <2>3, <2>4 DEF StampInv
    <2>8. \A q \in Procs : pc'[q] \in {"open_file", "write_file"} => Job[q] = "backup"
      BY <2>3, <2>5 DEF StampInv
    <2>9. \A q \in Procs : Job[q] = "backup" => stamp'[q] \in 0..MaxNow
      <3>1. now \in 0..MaxNow
        BY BwAssumption DEF TypeOK
      <3> QED
        BY <2>2, <3>1 DEF StampInv
    <2> QED
      BY <2>1, <2>3, <2>6, <2>7, <2>8, <2>9 DEF StampInv
  <1>9. CASE SaveWrite(p)
    <2>1. fstamp' = stamp[p] /\ pc[p] = "write_file" /\ Exit(p) /\ garbled' = garbled
      BY <1>9 DEF SaveWrite
    <2>2. fstamp' # 0
      BY <2>1 DEF StampInv
    <2>3. \A q \in Procs : pc'[q] = IF q = p THEN "off" ELSE pc[q]
      BY <2>1 DEF Exit, Goto, TypeOK
    <2>4. \A q \in Procs : q # p => data'[q] = data[q] /\ stamp'[q] = stamp[q]
      BY <2>1 DEF Exit, DataInv, TypeOK
    <2>5. data'[p] = <<>> /\ stamp'[p] = 0
      BY <2>1 DEF Exit, DataInv, TypeOK
    <2>6. ~garbled => \A q \in Procs : Job[q] = "restore" /\ stamp'[q] = 0 => data'[q] = <<>>
      BY <2>4, <2>5 DEF StampInv
    <2>7. \A q \in Procs : pc'[q] = "write_file" => stamp'[q] # 0
      BY <2>3, <2>4 DEF StampInv
    <2>8. \A q \in Procs : Job[q] = "backup" => stamp'[q] \in 0..MaxNow
      BY <2>4, <2>5, BwAssumption DEF StampInv
    <2> QED
      BY <2>1, <2>2, <2>3, <2>6, <2>7, <2>8 DEF StampInv
  <1> QED
    BY <1>1, <1>2, <1>3, <1>4, <1>5, <1>6, <1>7, <1>8, <1>9 DEF Step

LEMMA ChargeNext == TypeOK /\ CInv /\ [Next]_vars => CInv'
  <1> SUFFICES ASSUME TypeOK, DataInv, StampInv, ChargeInv, [Next]_vars
               PROVE  DataInv' /\ StampInv' /\ ChargeInv'
    BY DEF CInv
  <1>1. ASSUME NEW p \in Procs, Step(p) PROVE DataInv' /\ StampInv' /\ ChargeInv'
    <2>1. StampInv'
      BY <1>1, StampStep
    <2>2. CASE \/ get_sem(p) \/ SetVal(p) \/ lock_sem(p) \/ SemTake(p)
               \/ unlock_sem(p) \/ SemPost(p)
      BY <2>1, <2>2, QuietSteps, QuietKeeps
    <2>3. CASE GetData(p) \/ SetData(p)
      BY <2>1, <2>3, GetKeeps, SetKeeps
    <2>4. CASE RemoveRule(p) \/ InsertRule(p)
      BY <2>1, <2>4, RemoveKeeps, InsertKeeps
    <2>5. CASE SaveOpen(p) \/ SaveWrite(p)
      BY <2>1, <2>5, OpenKeeps, WriteKeeps
    <2>6. CASE Load(p)
      <3>1. CASE there
        BY <2>1, <2>6, <3>1, LoadKeeps
      <3>2. CASE ~there
        BY <2>1, <2>6, <3>2, QuietSteps, QuietKeeps
      <3> QED
        BY <3>1, <3>2
    <2>7. \/ get_sem(p) \/ SetVal(p) \/ lock_sem(p) \/ SemTake(p)
          \/ unlock_sem(p) \/ SemPost(p)
          \/ GetData(p) \/ SetData(p)
          \/ RemoveRule(p) \/ InsertRule(p) \/ Load(p)
          \/ SaveOpen(p) \/ SaveWrite(p)
      BY <1>1 DEF Step
    <2> QED
      BY <2>2, <2>3, <2>4, <2>5, <2>6, <2>7
  <1>2. ASSUME NEW p \in Procs, Start(p) \/ signal_handler(p) \/ Kill(p)
        PROVE  DataInv' /\ StampInv' /\ ChargeInv'
    <2>1. DataInv' /\ ChargeInv' /\ Quiet(p)
      BY <1>2, QuietSteps, QuietKeeps
    <2>2. UNCHANGED <<fstamp, flines, garbled>> /\ Drops(p)
      BY <2>1 DEF Quiet
    <2>3. CASE Kill(p)
      BY <2>1, <2>2, <2>3, StampExit DEF Kill
    <2>4. CASE Start(p)
      <3>1. (Goto(p, "remove") /\ Job[p] = "restore") \/ Goto(p, "open")
        BY <2>4 DEF Start
      <3> QED
        BY <2>1, <2>2, <3>1, StampMove
    <2>5. CASE signal_handler(p)
      <3>1. Goto(p, "open") \/ Goto(p, "ulook")
        BY <2>5 DEF signal_handler
      <3> QED
        BY <2>1, <2>2, <3>1, StampMove
    <2> QED
      BY <1>2, <2>3, <2>4, <2>5
  <1>3. CASE Reboot
    <2>1. StampInv'
      BY <1>3, BwAssumption DEF Reboot, file, StampInv
    <2> QED
      BY <1>3, <2>1, RebootKeeps
  <1>4. CASE (\E ip \in Ips : \E len \in Lens[ip] : match(ip, len)) \/ Tick
    <2>1. StampInv'
      BY <1>4 DEF match, Tick, call, file, StampInv
    <2> QED
      BY <1>4, <2>1, MatchKeeps, TickKeeps
  <1>5. CASE UNCHANGED vars
    BY <1>5 DEF vars, lock, call, file, kernel, bounds, DataInv, StampInv, ChargeInv
  <1> QED
    BY <1>1, <1>2, <1>3, <1>4, <1>5 DEF Next

LEMMA ChargeInit == Init => CInv
  <1> SUFFICES ASSUME Init PROVE CInv
    OBVIOUS
  <1>1. get_next_reset_time(1) \in Int
    BY ResetLater
  <1>2. DataInv
    BY <1>1, EmptyLines DEF Init, DataInv
  <1>3. StampInv
    BY BwAssumption DEF Init, StampInv
  <1>4. ChargeInv
    BY EmptyLines DEF Init, ChargeInv
  <1> QED
    BY <1>2, <1>3, <1>4 DEF CInv

\* However many programs back up and restore, whatever is killed and however often
\* the router reboots: no address is charged for more than it used in the interval,
\* unless a backup was stamped in another interval than the one it was read in
\* (save_usage_to_file(), ipt_bandwidth_set_ctl()), or a restore has read what a second
\* backup had left of a line (load_usage_from_file()).
THEOREM ChargedForUse == Spec => []ChargedUnlessLateOrCut
  <1>1. CInv => ChargedUnlessLateOrCut
    BY DEF CInv, ChargeInv, ChargedUnlessLateOrCut
  <1> QED
    BY <1>1, ChargeInit, TypeInit, TypeNext, ChargeNext, PTL DEF Spec

------------------------------------------------------------------------------
(* No program blocks, and none runs for ever *)

\* The induction over natural numbers that the lemmas below rest on: a set of
\* natural numbers, such as that of the sizes of the counterexamples, has a least one.
LEMMA LeastNatural ==
    ASSUME NEW T, T \subseteq Nat, T # {}
    PROVE  \E n \in T : \A m \in T : n <= m
  <1> DEFINE R == {ss \in Nat \X Nat : ss[1] < ss[2]}
  <1>1. IsWellFoundedOn(R, Nat)
    BY NatLessThanWellFounded, Zenon DEF OpToRel
  <1>2. \E n \in T : \A m \in T : <<m, n>> \notin R
    <2> HIDE DEF R
    <2> QED BY <1>1, WFMin, Zenon
  <1>3. PICK n \in T : \A m \in T : <<m, n>> \notin R
    BY <1>2
  <1>4. ASSUME NEW m \in T, ~(n <= m) PROVE FALSE
    <2>1. m \in Nat /\ n \in Nat /\ m < n
      BY <1>4
    <2>2. <<m, n>> \in R
      BY <2>1
    <2> QED
      BY <1>3, <2>2
  <1> QED
    BY <1>4

LEMMA GreatestNatural ==
    ASSUME NEW T, NEW N \in Nat, T \subseteq 0..N, T # {}
    PROVE  \E n \in T : \A m \in T : m <= n
  <1> DEFINE U == {i \in 0..N : N - i \in T}
  <1>1. U \subseteq Nat
    OBVIOUS
  <1>2. U # {}
    <2>1. PICK x : x \in T
      OBVIOUS
    <2>2. x \in 0..N /\ N - x \in 0..N /\ N - (N - x) = x
      BY <2>1
    <2>3. N - x \in U
      BY <2>1, <2>2
    <2> QED
      BY <2>3
  <1>3. PICK u \in U : \A v \in U : u <= v
    <2> HIDE DEF U
    <2> QED BY <1>1, <1>2, LeastNatural
  <1>4. N - u \in T /\ u \in 0..N
    BY <1>3
  <1>5. ASSUME NEW m \in T PROVE m <= N - u
    <2>1. m \in 0..N /\ N - m \in 0..N /\ N - (N - m) = m
      BY <1>5
    <2>2. N - m \in U
      BY <2>1
    <2>3. u <= N - m
      BY <1>3, <2>2
    <2> QED
      BY <1>4, <2>1, <2>3
  <1> QED
    BY <1>4, <1>5

\* The keys of the map can be brought in order: GetData finds what it returns.
LEMMA AscendingExists ==
    ASSUME NEW S, IsFiniteSet(S), S \subseteq Nat, NEW K \in SUBSET S
    PROVE  \E k : k \in Ascending(K)
  <1> DEFINE Bad == {n \in Nat : \E L \in SUBSET S :
                                   Cardinality(L) = n /\ ~\E k : k \in Ascending(L)}
  <1>1. \A L \in SUBSET S : IsFiniteSet(L) /\ Cardinality(L) \in Nat
    BY FS_Subset, FS_CardinalityType
  <1>2. ASSUME Bad # {} PROVE FALSE
    <2>1. Bad \subseteq Nat
      OBVIOUS
    <2>2. PICK n \in Bad : \A m \in Bad : n <= m
      <3> HIDE DEF Bad
      <3> QED BY <1>2, <2>1, LeastNatural
    <2>3. PICK L \in SUBSET S : Cardinality(L) = n /\ ~\E k : k \in Ascending(L)
      BY <2>2
    <2>4. n \in Nat /\ IsFiniteSet(L)
      BY <1>1, <2>3
    <2>5. L # {}
      <3>1. ASSUME L = {} PROVE FALSE
        <4>1. Cardinality(L) = 0
          BY <3>1, FS_EmptySet
        <4>2. [i \in 1..0 |-> 0] \in Ascending(L)
          BY <4>1 DEF Ascending
        <4> QED
          BY <2>3, <4>2
      <3> QED
        BY <3>1
    <2>6. PICK x \in L : \A y \in L : x <= y
      BY <2>5, LeastNatural
    <2> DEFINE M == L \ {x}
    <2>7. M \in SUBSET S /\ Cardinality(M) = n - 1 /\ n - 1 \in Nat
      <3>1. Cardinality(M) = Cardinality(L) - 1
        BY <2>4, <2>6, FS_RemoveElement
      <3>2. M \in SUBSET S
        OBVIOUS
      <3> QED
        BY <1>1, <2>3, <3>1, <3>2
    <2>8. n - 1 \notin Bad
      BY <2>2, <2>4
    <2>9. PICK k : k \in Ascending(M)
      <3> HIDE DEF M
      <3> QED BY <2>7, <2>8
    <2>10. /\ k \in [1..(n - 1) -> M]
           /\ \A i, j \in 1..(n - 1) : i < j => k[i] < k[j]
      BY <2>7, <2>9 DEF Ascending
    <2> DEFINE f == [i \in 1..n |-> IF i = 1 THEN x ELSE k[i - 1]]
    <2>11. \A i \in 2..n : i - 1 \in 1..(n - 1) /\ f[i] = k[i - 1] /\ f[i] \in M
      <3> SUFFICES ASSUME NEW i \in 2..n
                   PROVE i - 1 \in 1..(n - 1) /\ f[i] = k[i - 1] /\ f[i] \in M
        OBVIOUS
      <3>1. i - 1 \in 1..(n - 1) /\ i \in 1..n /\ i # 1
        BY <2>4
      <3>2. f[i] = k[i - 1]
        BY <3>1
      <3>3. k[i - 1] \in M
        BY <2>10, <3>1
      <3> QED
        BY <3>1, <3>2, <3>3
    <2>12. 1 \in 1..n /\ f[1] = x
      BY <2>7
    <2>13. ASSUME NEW i \in 1..n PROVE f[i] \in L
      <3> HIDE DEF f
      <3>1. CASE i = 1
        BY <2>12, <3>1
      <3>2. CASE i # 1
        <4>1. i \in 2..n
          BY <2>4, <3>2
        <4> QED
          BY <2>11, <4>1
      <3> QED
        BY <3>1, <3>2
    <2>14. f \in [1..n -> L]
      <3>1. f = [i \in 1..n |-> f[i]]
        OBVIOUS
      <3> HIDE DEF f
      <3> QED BY <2>13, <3>1
    <2>15. ASSUME NEW i \in 1..n, NEW j \in 1..n, i < j PROVE f[i] < f[j]
      <3>1. j \in 2..n /\ i \in Nat
        BY <2>15, <2>4
      <3>2. f[j] = k[j - 1] /\ j - 1 \in 1..(n - 1) /\ f[j] \in M
        BY <2>11, <3>1
      <3>3. CASE i = 1
        <4>1. f[j] \in L /\ f[j] # x /\ x <= f[j] /\ x \in Nat /\ f[j] \in Nat
          BY <2>6, <3>2
        <4> HIDE DEF f
        <4> QED BY <2>12, <3>3, <4>1
      <3>4. CASE i # 1
        <4>1. i \in 2..n /\ i - 1 < j - 1
          BY <3>1, <3>4, <2>4, <2>15
        <4>2. f[i] = k[i - 1] /\ i - 1 \in 1..(n - 1)
          BY <2>11, <4>1
        <4> HIDE DEF f
        <4> QED BY <2>10, <3>2, <4>1, <4>2
      <3> QED
        BY <3>3, <3>4
    <2>16. f \in Ascending(L)
      <3> HIDE DEF f
      <3> QED BY <2>3, <2>14, <2>15 DEF Ascending
    <2> QED
      BY <2>3, <2>16
  <1>3. Cardinality(K) \notin Bad
    BY <1>2
  <1> QED
    BY <1>1, <1>3

\* Of the lines that the kernel takes there is a last one for every address.
LEMMA LastLineExists ==
    ASSUME NEW lines, Len(lines) \in Nat, DOMAIN lines = 1..Len(lines)
    PROVE  \E last : last \in LastLine(lines)
  <1> DEFINE T == Taken(lines)
             Of(ip) == {i \in T : Address(lines[i]) = ip}
             Is(ip, n) == /\ n \in {0} \cup T
                          /\ n # 0 => Address(lines[n]) = ip
                          /\ \A i \in T : Address(lines[i]) = ip => i <= n
  <1>1. T \subseteq 1..Len(lines)
    BY DEF Taken
  <1>2. ASSUME NEW ip \in AllIps PROVE \E n \in {0} \cup T : Is(ip, n)
    <2> HIDE DEF T
    <2>1. CASE Of(ip) = {}
      <3>1. Is(ip, 0)
        BY <1>1, <2>1
      <3> QED
        BY <3>1
    <2>2. CASE Of(ip) # {}
      <3>1. Of(ip) \subseteq 0..Len(lines)
        <4>1. \A i \in Of(ip) : i \in T
          OBVIOUS
        <4>2. \A i \in T : i \in 0..Len(lines)
          BY <1>1
        <4> QED
          BY <4>1, <4>2
      <3>2. PICK n \in Of(ip) : \A m \in Of(ip) : m <= n
        <4> HIDE DEF Of
        <4> QED BY <2>2, <3>1, GreatestNatural
      <3>3. Is(ip, n)
        BY <3>2
      <3> QED
        BY <3>3
    <2> QED
      BY <2>1, <2>2
  <1> DEFINE last == [ip \in AllIps |-> CHOOSE n \in {0} \cup T : Is(ip, n)]
  <1>3. \A ip \in AllIps : last[ip] \in {0} \cup T /\ Is(ip, last[ip])
    <2> HIDE DEF Is, T
    <2> QED BY <1>2
  <1>4. last \in LastLine(lines)
    <2>1. last = [ip \in AllIps |-> last[ip]]
      OBVIOUS
    <2> HIDE DEF last
    <2>2. last \in [AllIps -> {0} \cup T]
      BY <1>3, <2>1
    <2> QED
      BY <1>3, <2>2 DEF LastLine
  <1> QED
    BY <1>4

\* A program that has called get_sem() finds a semaphore with a value from 0 up,
\* whatever signal handlers have posted, and one that looks has a try left.
PInv ==
    /\ \A p \in Procs : tries[p] >= 1
    /\ \A p \in Procs : pc[p] \in Opened => sem >= 0
    /\ sem >= NoSem

\* How many steps a program can still take at most that is at a place with so many
\* tries: each try costs a look and an attempt.
LeftAt(at, t) ==
    CASE at = "off"        -> 0
      [] at = "write_file" -> 1
      [] at = "open_file"  -> 2
      [] at = "post"       -> 3
      [] at = "ulook"      -> 4
      [] at = "call"       -> 5
      [] at = "take"       -> 2 * t + 4
      [] at = "look"       -> 2 * t + 5
      [] at = "init"       -> 2 * Tries + 6
      [] at = "open"       -> 2 * Tries + 7
      [] at = "load"       -> 2 * Tries + 8
      [] at = "insert"     -> 2 * Tries + 9
      [] at = "remove"     -> 2 * Tries + 10

Left(p) == LeftAt(pc[p], tries[p])

LEMMA PInvInit == Init => PInv
  BY BwAssumption DEF Init, PInv, Opened

\* p has moved to a place with fewer steps left, and the semaphore is no worse.
Moves(p, at, t) ==
    /\ at \in Places /\ t \in 1..Tries
    /\ pc' = [pc EXCEPT ![p] = at] /\ tries' = [tries EXCEPT ![p] = t]
    /\ LeftAt(at, t) < LeftAt(pc[p], tries[p])
    /\ sem' \in Int /\ sem' >= NoSem /\ (sem >= 0 => sem' >= 0)
    /\ at \in Opened => sem' >= 0

\* What the proofs below need of a program about to step.
LEMMA PFacts ==
    ASSUME TypeOK, PInv, NEW p \in Procs
    PROVE  /\ tries[p] \in 1..Tries /\ Tries \in 1..Tries /\ Tries \in Nat
           /\ tries = [tries EXCEPT ![p] = tries[p]]
           /\ sem \in Int /\ sem >= NoSem
           /\ pc[p] \in Opened => sem >= 0
  BY BwAssumption DEF TypeOK, PInv

LEMMA ExitMoves ==
    ASSUME TypeOK, PInv, NEW p \in Procs, Exit(p), pc[p] # "off",
           sem' \in Int, sem' >= NoSem, sem >= 0 => sem' >= 0
    PROVE  Moves(p, "off", Tries)
  <1>1. pc[p] \in Places /\ tries[p] \in 1..Tries /\ Tries \in Nat
    BY PFacts DEF TypeOK
  <1>2. LeftAt("off", Tries) < LeftAt(pc[p], tries[p])
    BY <1>1 DEF LeftAt, Places
  <1> QED
    BY <1>1, <1>2, PFacts DEF Moves, Exit, Goto, Places, Opened

LEMMA RetryMoves ==
    ASSUME TypeOK, PInv, NEW p \in Procs, Retry(p), pc[p] \in {"look", "take"}
    PROVE  \E at, t : Moves(p, at, t)
  <1>1. sem' = sem /\ pc[p] \in Opened
    BY DEF Retry, lock, Opened
  <1>2. CASE Exit(p)
    BY <1>1, <1>2, ExitMoves, PFacts
  <1>3. CASE ~Exit(p)
    <2>1. /\ tries[p] > 1
          /\ tries' = [tries EXCEPT ![p] = tries[p] - 1]
          /\ pc' = [pc EXCEPT ![p] = "look"]
      BY <1>3 DEF Retry, Goto
    <2>2. tries[p] - 1 \in 1..Tries
      BY <2>1, PFacts
    <2>3. LeftAt("look", tries[p] - 1) < LeftAt(pc[p], tries[p])
      BY <2>2, PFacts DEF LeftAt
    <2>4. Moves(p, "look", tries[p] - 1)
      BY <1>1, <2>1, <2>2, <2>3, PFacts DEF Moves, Places
    <2> QED
      BY <2>4
  <1> QED
    BY <1>2, <1>3

LEMMA AfterMoves ==
    ASSUME TypeOK, PInv, NEW p \in Procs, AfterCall(p), pc[p] \in {"ulook", "post"},
           sem' \in Int, sem' >= 0
    PROVE  \E at, t : Moves(p, at, t)
  <1>1. CASE Exit(p)
    BY <1>1, ExitMoves
  <1>2. CASE ~Exit(p)
    <2>1. /\ tries' = tries
          /\ \/ pc' = [pc EXCEPT ![p] = "open_file"]
             \/ pc' = [pc EXCEPT ![p] = "write_file"]
      BY <1>2 DEF AfterCall, Goto, call
    <2>2. LeftAt("open_file", tries[p]) < LeftAt(pc[p], tries[p])
      BY DEF LeftAt
    <2>3. LeftAt("write_file", tries[p]) < LeftAt(pc[p], tries[p])
      BY DEF LeftAt
    <2>4. Moves(p, "open_file", tries[p]) \/ Moves(p, "write_file", tries[p])
      BY <2>1, <2>2, <2>3, PFacts DEF Moves, Places
    <2> QED
      BY <2>4
  <1> QED
    BY <1>1, <1>2

\* A step that changes nothing but the place.
LEMMA GotoMoves ==
    ASSUME TypeOK, PInv, NEW p \in Procs, NEW at \in Places, Goto(p, at), tries' = tries,
           sem' \in Int, sem' >= NoSem, sem >= 0 => sem' >= 0, at \in Opened => sem' >= 0,
           LeftAt(at, tries[p]) < LeftAt(pc[p], tries[p])
    PROVE  \E a, t : Moves(p, a, t)
  <1>1. Moves(p, at, tries[p])
    BY PFacts DEF Moves, Goto
  <1> QED
    BY <1>1

\* Each step that a program takes by itself brings it nearer to its end.
LEMMA StepMoves ==
    ASSUME TypeOK, PInv, NEW p \in Procs, Step(p)
    PROVE  \E at, t : Moves(p, at, t)
  <1>f. /\ tries[p] \in 1..Tries /\ Tries \in Nat
        /\ sem \in Int /\ sem >= NoSem
        /\ pc[p] \in Opened => sem >= 0
    BY PFacts
  <1>1. CASE get_sem(p)
    <2>1. CASE sem = NoSem
      <3>1. Goto(p, "init") /\ tries' = tries /\ sem' = 0 /\ pc[p] = "open"
        BY <1>1, <2>1 DEF get_sem, call
      <3>2. LeftAt("init", tries[p]) < LeftAt(pc[p], tries[p])
        BY <1>f, <3>1 DEF LeftAt
      <3> QED
        BY <3>1, <3>2, GotoMoves DEF Places
    <2>2. CASE sem # NoSem
      <3>1. /\ tries' = tries /\ sem' = sem /\ pc[p] = "open" /\ sem >= 0
            /\ Goto(p, "ulook") \/ Goto(p, "look")
        BY <1>f, <1>1, <2>2 DEF get_sem, call
      <3>2. /\ LeftAt("ulook", tries[p]) < LeftAt(pc[p], tries[p])
            /\ LeftAt("look", tries[p]) < LeftAt(pc[p], tries[p])
        BY <1>f, <3>1 DEF LeftAt
      <3>3. CASE Goto(p, "ulook")
        BY <1>f, <3>1, <3>2, <3>3, GotoMoves DEF Places
      <3>4. CASE Goto(p, "look")
        BY <1>f, <3>1, <3>2, <3>4, GotoMoves DEF Places
      <3> QED
        BY <3>1, <3>3, <3>4
    <2> QED
      BY <2>1, <2>2
  <1>2. CASE SetVal(p)
    <2>1. /\ tries' = tries /\ sem' = 1 /\ pc[p] = "init"
          /\ Goto(p, "ulook") \/ Goto(p, "look")
      BY <1>2 DEF SetVal, call
    <2>2. /\ LeftAt("ulook", tries[p]) < LeftAt(pc[p], tries[p])
          /\ LeftAt("look", tries[p]) < LeftAt(pc[p], tries[p])
      BY <1>f, <2>1 DEF LeftAt
    <2>3. CASE Goto(p, "ulook")
      BY <2>1, <2>2, <2>3, GotoMoves DEF Places
    <2>4. CASE Goto(p, "look")
      BY <2>1, <2>2, <2>4, GotoMoves DEF Places
    <2> QED
      BY <2>1, <2>3, <2>4
  <1>3. CASE lock_sem(p)
    <2>1. CASE Retry(p)
      BY <1>3, <2>1, RetryMoves DEF lock_sem
    <2>2. CASE ~Retry(p)
      <3>1. Goto(p, "take") /\ tries' = tries /\ sem' = sem /\ pc[p] = "look" /\ sem > 0
        BY <1>3, <2>2 DEF lock_sem, call, lock
      <3>2. LeftAt("take", tries[p]) < LeftAt(pc[p], tries[p])
        BY <1>f, <3>1 DEF LeftAt
      <3> QED
        BY <1>f, <3>1, <3>2, GotoMoves DEF Places
    <2> QED
      BY <2>1, <2>2
  <1>4. CASE SemTake(p)
    <2>1. CASE Retry(p)
      BY <1>4, <2>1, RetryMoves DEF SemTake
    <2>2. CASE ~Retry(p)
      <3>1. /\ pc[p] = "take" /\ sem > 0 /\ sem' = sem - 1
            /\ tries' = [tries EXCEPT ![p] = Tries] /\ pc' = [pc EXCEPT ![p] = "call"]
        BY <1>4, <2>2 DEF SemTake, Goto
      <3>2. LeftAt("call", Tries) < LeftAt(pc[p], tries[p])
        BY <1>f, <3>1 DEF LeftAt
      <3>3. Moves(p, "call", Tries)
        BY <1>f, <3>1, <3>2 DEF Moves, Places
      <3> QED
        BY <3>3
    <2> QED
      BY <2>1, <2>2
  <1>5. CASE unlock_sem(p)
    <2>1. pc[p] = "ulook" /\ sem' = sem /\ sem >= 0
      BY <1>f, <1>5 DEF unlock_sem, lock, Opened
    <2>2. CASE AfterCall(p)
      BY <1>f, <2>1, <2>2, AfterMoves
    <2>3. CASE ~AfterCall(p)
      <3>1. Goto(p, "post") /\ tries' = tries
        BY <1>5, <2>3 DEF unlock_sem, call
      <3>2. LeftAt("post", tries[p]) < LeftAt(pc[p], tries[p])
        BY <2>1 DEF LeftAt
      <3> QED
        BY <1>f, <2>1, <3>1, <3>2, GotoMoves DEF Places
    <2> QED
      BY <2>2, <2>3
  <1>6. CASE SemPost(p)
    <2>1. pc[p] = "post" /\ sem' = sem + 1 /\ sem >= 0 /\ AfterCall(p)
      BY <1>f, <1>6 DEF SemPost, Opened
    <2> QED
      BY <1>f, <2>1, AfterMoves
  <1>7. CASE GetData(p) \/ SetData(p)
    <2>1. Goto(p, "ulook") /\ tries' = tries /\ sem' = sem /\ pc[p] = "call"
      BY <1>7 DEF GetData, SetData, lock
    <2>2. LeftAt("ulook", tries[p]) < LeftAt(pc[p], tries[p]) /\ sem >= 0
      BY <1>f, <2>1 DEF LeftAt, Opened
    <2> QED
      BY <1>f, <2>1, <2>2, GotoMoves DEF Places
  <1>8. CASE RemoveRule(p)
    <2>1. Goto(p, "insert") /\ tries' = tries /\ sem' = sem /\ pc[p] = "remove"
      BY <1>8 DEF RemoveRule, lock, call
    <2>2. LeftAt("insert", tries[p]) < LeftAt(pc[p], tries[p])
      BY <1>f, <2>1 DEF LeftAt
    <2> QED
      BY <1>f, <2>1, <2>2, GotoMoves DEF Places, Opened
  <1>9. CASE InsertRule(p)
    <2>1. Goto(p, "load") /\ tries' = tries /\ sem' = sem /\ pc[p] = "insert"
      BY <1>9 DEF InsertRule, lock, call
    <2>2. LeftAt("load", tries[p]) < LeftAt(pc[p], tries[p])
      BY <1>f, <2>1 DEF LeftAt
    <2> QED
      BY <1>f, <2>1, <2>2, GotoMoves DEF Places, Opened
  <1>10. CASE Load(p)
    <2>1. sem' = sem /\ pc[p] = "load"
      BY <1>10 DEF Load, lock
    <2>2. CASE Exit(p)
      BY <1>f, <2>1, <2>2, ExitMoves
    <2>3. CASE ~Exit(p)
      <3>1. Goto(p, "open") /\ tries' = tries
        BY <1>10, <2>3 DEF Load
      <3>2. LeftAt("open", tries[p]) < LeftAt(pc[p], tries[p])
        BY <1>f, <2>1 DEF LeftAt
      <3> QED
        BY <1>f, <2>1, <3>1, <3>2, GotoMoves DEF Places, Opened
    <2> QED
      BY <2>2, <2>3
  <1>11. CASE SaveOpen(p)
    <2>1. Goto(p, "write_file") /\ tries' = tries /\ sem' = sem /\ pc[p] = "open_file"
      BY <1>11 DEF SaveOpen, lock
    <2>2. LeftAt("write_file", tries[p]) < LeftAt(pc[p], tries[p]) /\ sem >= 0
      BY <1>f, <2>1 DEF LeftAt, Opened
    <2> QED
      BY <1>f, <2>1, <2>2, GotoMoves DEF Places
  <1>12. CASE SaveWrite(p)
    <2>1. Exit(p) /\ sem' = sem /\ pc[p] = "write_file"
      BY <1>12 DEF SaveWrite, lock
    <2> QED
      BY <1>f, <2>1, ExitMoves
  <1> QED
    BY <1>1, <1>2, <1>3, <1>4, <1>5, <1>6, <1>7, <1>8, <1>9, <1>10, <1>11, <1>12
    DEF Step

\* Where the other programs are does not matter to one that does not step.
LEMMA MovesKeep ==
    ASSUME TypeOK, PInv, NEW p \in Procs, NEW at, NEW t, Moves(p, at, t)
    PROVE  PInv'
  <1>1. \A q \in Procs : /\ pc'[q] = IF q = p THEN at ELSE pc[q]
                         /\ tries'[q] = IF q = p THEN t ELSE tries[q]
    BY DEF Moves, TypeOK
  <1>2. \A q \in Procs : tries'[q] >= 1
    BY <1>1 DEF Moves, PInv
  <1>3. \A q \in Procs : pc'[q] \in Opened => sem' >= 0
    BY <1>1 DEF Moves, PInv
  <1> QED
    BY <1>2, <1>3 DEF Moves, PInv

LEMMA PInvNext == TypeOK /\ PInv /\ [Next]_vars => PInv'
  <1> SUFFICES ASSUME TypeOK, PInv, [Next]_vars PROVE PInv'
    OBVIOUS
  <1>1. ASSUME NEW p \in Procs, Step(p) PROVE PInv'
    BY <1>1, StepMoves, MovesKeep
  <1>2. ASSUME NEW p \in Procs, Start(p) PROVE PInv'
    <2>1. UNCHANGED <<sem, tries>> /\ \A q \in Procs : pc'[q] \in Opened => pc[q] \in Opened
      BY <1>2 DEF Start, Goto, lock, call, TypeOK, Opened
    <2> QED
      BY <2>1 DEF PInv
  <1>3. ASSUME NEW p \in Procs, signal_handler(p) PROVE PInv'
    <2>1. UNCHANGED <<sem, tries>> /\ \A q \in Procs : pc'[q] \in Opened => pc[q] \in Opened
      BY <1>3 DEF signal_handler, Goto, lock, TypeOK, Opened, Places
    <2> QED
      BY <2>1 DEF PInv
  <1>4. ASSUME NEW p \in Procs, Kill(p) PROVE PInv'
    <2>1. sem' = sem /\ Exit(p) /\ pc[p] # "off"
      BY <1>4 DEF Kill
    <2> QED
      BY <2>1, PFacts, ExitMoves, MovesKeep
  <1>5. ASSUME NEW ip \in Ips, NEW len \in Lens[ip], match(ip, len) PROVE PInv'
    BY <1>5 DEF match, lock, call, PInv
  <1>6. CASE Tick
    BY <1>6 DEF Tick, lock, call, PInv
  <1>7. CASE Reboot
    BY <1>7, BwAssumption DEF Reboot, PInv, Opened
  <1>8. CASE UNCHANGED vars
    BY <1>8 DEF vars, lock, call, PInv
  <1> QED
    BY <1>1, <1>2, <1>3, <1>4, <1>5, <1>6, <1>7, <1>8 DEF Next

LEMMA AlwaysCanGo ==
    ASSUME TypeOK, PInv, DataInv, NEW p \in Procs, pc[p] # "off"
    PROVE  CanGo(p)
  <1>1. pc[p] \in {"look", "take"} => sem >= 0 /\ sem \in Int /\ tries[p] >= 1 /\ tries[p] \in Nat
    BY BwAssumption DEF PInv, TypeOK, Opened
  <1>2. Ascending({ip \in AllIps : ip_map[ip] # Absent}) # {}
    <2>1. IsFiniteSet(AllIps) /\ AllIps \subseteq Nat
      BY BwAssumption, FS_AddElement DEF AllIps
    <2>2. {ip \in AllIps : ip_map[ip] # Absent} \in SUBSET AllIps
      OBVIOUS
    <2> QED
      BY <2>1, <2>2, AscendingExists
  <1>3. LastLine(data[p]) # {}
    <2>1. data[p] \in Seq(Lines)
      BY DEF DataInv
    <2>2. Len(data[p]) \in Nat /\ DOMAIN data[p] = 1..Len(data[p])
      BY <2>1, SeqLines
    <2> QED
      BY <2>2, LastLineExists
  <1>4. pc[p] \in Places
    BY DEF TypeOK
  <1> QED
    BY <1>1, <1>2, <1>3, <1>4 DEF CanGo, Places

\* A program that runs always has a step whose guard holds, wherever the others are
\* and whoever was killed with the semaphore: the wait for it is bounded (lock_sem()),
\* the semaphore that another gave back twice is still one (unlock_sem()), and every
\* call of the kernel has a result.
THEOREM NeverStuck == Spec => [](\A p \in Procs : pc[p] # "off" => CanGo(p))
  <1>1. Init => PInv
    BY PInvInit
  <1>2. TypeOK /\ PInv /\ DataInv => \A p \in Procs : pc[p] # "off" => CanGo(p)
    BY AlwaysCanGo
  <1>3. CInv => DataInv
    BY DEF CInv
  <1> QED
    BY <1>1, <1>2, <1>3, TypeCorrect, PInvNext, ChargeInit, ChargeNext, PTL DEF Spec

\* What p still has to do shrinks with each step it takes, and no step of another
\* program, of the kernel or of the clock adds to it: only a new start, or a signal,
\* whose handler runs once.
RunsOut(p) ==
    /\ Left(p) \in 0 .. 2 * Tries + 10 /\ (Left(p) = 0 => pc[p] = "off")
    /\ Step(p) => Left(p)' < Left(p)
    /\ Left(p)' > Left(p) => Start(p) \/ signal_handler(p)

LEMMA LeftType ==
    ASSUME TypeOK, PInv, NEW p \in Procs
    PROVE  Left(p) \in 0 .. 2 * Tries + 10 /\ (Left(p) = 0 => pc[p] = "off")
  <1>1. pc[p] \in Places /\ tries[p] \in 1..Tries /\ Tries \in Nat
    BY PFacts DEF TypeOK
  <1> DEFINE l == LeftAt(pc[p], tries[p])
  <1>2. l \in Int /\ 0 <= l /\ l <= 2 * Tries + 10 /\ (l = 0 => pc[p] = "off")
    <2>1. l \in Int
      BY <1>1 DEF LeftAt, Places
    <2>2. 0 <= l /\ (l = 0 => pc[p] = "off")
      BY <1>1 DEF LeftAt, Places
    <2>3. l <= 2 * Tries + 10
      BY <1>1 DEF LeftAt, Places
    <2> QED
      BY <2>1, <2>2, <2>3
  <1>3. l \in 0 .. 2 * Tries + 10
    <2> HIDE DEF l
    <2> QED BY <1>1, <1>2
  <1> QED
    BY <1>2, <1>3 DEF Left

LEMMA RunsOutNext ==
    ASSUME TypeOK, PInv, [Next]_vars, NEW p \in Procs
    PROVE  RunsOut(p)
  <1>1. ASSUME NEW q \in Procs, NEW at, NEW t, Moves(q, at, t) PROVE Left(p)' <= Left(p)
    <2>1. /\ pc'[p] = IF p = q THEN at ELSE pc[p]
          /\ tries'[p] = IF p = q THEN t ELSE tries[p]
      BY <1>1 DEF Moves, TypeOK
    <2>2. CASE p = q
      <3>1. PInv'
        BY <1>1, MovesKeep
      <3>2. LeftAt(at, t) < LeftAt(pc[p], tries[p])
        BY <1>1, <2>2 DEF Moves
      <3>3. Left(p) \in Int /\ LeftAt(at, t) \in Int
        <4>1. at \in Places /\ t \in Int /\ Tries \in Nat
          BY <1>1, PFacts DEF Moves
        <4>2. LeftAt(at, t) \in Int
          BY <4>1 DEF LeftAt, Places
        <4> QED
          BY <4>2, LeftType
      <3> QED
        BY <2>1, <2>2, <3>2, <3>3 DEF Left
    <2>3. CASE p # q
      <3>1. Left(p)' = Left(p)
        BY <2>1, <2>3 DEF Left
      <3> QED
        BY <3>1, LeftType
    <2> QED
      BY <2>2, <2>3
  <1>2. ASSUME Step(p) PROVE Left(p)' < Left(p)
    <2>1. PICK at, t : Moves(p, at, t)
      BY <1>2, StepMoves
    <2>2. pc'[p] = at /\ tries'[p] = t
      BY <2>1 DEF Moves, TypeOK
    <2> QED
      BY <2>1, <2>2 DEF Moves, Left
  <1>3. ASSUME pc'[p] = pc[p], tries'[p] = tries[p] PROVE Left(p)' <= Left(p)
    <2>1. Left(p)' = Left(p)
      BY <1>3 DEF Left
    <2> QED
      BY <2>1, LeftType
  <1>4. Left(p)' <= Left(p) \/ Start(p) \/ signal_handler(p)
    <2>1. ASSUME NEW q \in Procs, Step(q) PROVE Left(p)' <= Left(p)
      BY <1>1, <2>1, StepMoves
    <2>2. ASSUME NEW q \in Procs, q # p, Start(q) \/ signal_handler(q) PROVE Left(p)' <= Left(p)
      <3>1. pc'[p] = pc[p] /\ tries'[p] = tries[p]
        BY <2>2 DEF Start, signal_handler, Goto, call, TypeOK
      <3> QED
        BY <1>3, <3>1
    <2>3. ASSUME NEW q \in Procs, Kill(q) PROVE Left(p)' <= Left(p)
      <3>1. sem' = sem /\ Exit(q) /\ pc[q] # "off"
        BY <2>3 DEF Kill
      <3> QED
        BY <1>1, <3>1, PFacts, ExitMoves
    <2>4. CASE Tick \/ (\E ip \in Ips : \E len \in Lens[ip] : match(ip, len)) \/ UNCHANGED vars
      <3>1. pc'[p] = pc[p] /\ tries'[p] = tries[p]
        BY <2>4 DEF Tick, match, vars, call
      <3> QED
        BY <1>3, <3>1
    <2>5. CASE Reboot
      <3>1. pc'[p] = "off"
        BY <2>5 DEF Reboot
      <3>2. Left(p)' = 0
        BY <3>1 DEF Left, LeftAt
      <3> QED
        BY <3>2, LeftType
    <2> QED
      BY <2>1, <2>2, <2>3, <2>4, <2>5 DEF Next
  <1>5. Left(p)' > Left(p) => Start(p) \/ signal_handler(p)
    <2>1. ASSUME Left(p)' <= Left(p) PROVE ~(Left(p)' > Left(p))
      <3>1. Left(p) \in Int
        BY LeftType
      <3>2. Left(p)' \in Int
        <4>1. TypeOK' /\ PInv'
          BY TypeNext, PInvNext
        <4>2. pc'[p] \in Places /\ tries'[p] \in 0..Tries /\ Tries \in Nat
          BY <4>1, BwAssumption DEF TypeOK
        <4> QED
          BY <4>2 DEF Left, LeftAt, Places
      <3> QED
        BY <2>1, <3>1, <3>2
    <2> QED
      BY <1>4, <2>1
  <1> QED
    BY <1>2, <1>5, LeftType DEF RunsOut

\* Every program ends after at most 2 * Tries + 10 steps of its own, and as many again
\* after a signal, whatever the other programs do: with NeverStuck, nobody can keep
\* another from its end, not even by holding the semaphore (max_wait_milliseconds).
THEOREM ProgramsEnd == Spec => [][\A p \in Procs : RunsOut(p)]_vars
  <1>1. TypeOK /\ PInv /\ [Next]_vars => [\A p \in Procs : RunsOut(p)]_vars
    BY RunsOutNext
  <1> QED
    BY <1>1, TypeCorrect, PInvInit, PInvNext, PTL DEF Spec

------------------------------------------------------------------------------
(* Before the first interval ends *)

LEMMA ResetSame ==
    ASSUME NEW t \in Nat, NEW u \in Nat, t <= u, u < get_next_reset_time(t)
    PROVE  get_next_reset_time(u) = get_next_reset_time(t)
  <1> DEFINE b == (t \div Period) * Period
             c == (u \div Period) * Period
  <1>1. b \in Nat /\ c \in Nat /\ (b = c \/ b + Period <= c) /\ c <= u /\ u < c + Period
    BY DivFacts, DivMonotone, BwAssumption
  <1>2. get_next_reset_time(t) = IF ResetTime > 0 /\ b + ResetTime > t
                                    THEN b + ResetTime ELSE b + Period + ResetTime
    BY ResetForm
  <1>3. get_next_reset_time(u) = IF ResetTime > 0 /\ c + ResetTime > u
                                    THEN c + ResetTime ELSE c + Period + ResetTime
    BY ResetForm
  <1>4. b = c \/ c = b + Period
    <2> DEFINE i == t \div Period
               j == u \div Period
    <2>1. i \in Nat /\ j \in Nat /\ b = i * Period /\ c = j * Period
      BY DivFacts, BwAssumption
    <2>2. c < b + Period + Period
      <3> HIDE DEF b, c
      <3> QED BY <1>1, <1>2, BwAssumption
    <2>3. j < i + 2
      <3>1. ASSUME j >= i + 2 PROVE FALSE
        <4>1. j * Period >= (i + 2) * Period
          BY <2>1, <3>1, BwAssumption
        <4>2. (i + 2) * Period = i * Period + Period + Period
          BY <2>1, BwAssumption
        <4> HIDE DEF i, j
        <4> QED BY <2>1, <2>2, <4>1, <4>2, BwAssumption
      <3> QED
        BY <2>1, <3>1
    <2>4. j = i + 1 => j * Period = i * Period + Period
      BY <2>1, BwAssumption
    <2> HIDE DEF i, j
    <2>5. j < i => j * Period + Period <= i * Period
      <3>1. \A x, y \in Nat : x < y => x * Period + Period <= y * Period
        BY BwAssumption
      <3> QED
        BY <2>1, <3>1
    <2>6. j >= i
      <3> HIDE DEF b, c
      <3> QED BY <1>1, <2>1, <2>5, BwAssumption
    <2>7. j = i \/ j = i + 1
      BY <2>1, <2>3, <2>6
    <2> QED
      BY <2>1, <2>4, <2>7
  <1> HIDE DEF b, c
  <1> QED
    BY <1>1, <1>2, <1>3, <1>4, BwAssumption

\* The end of the interval in which the model starts, and its end comes after the run's.
First == get_next_reset_time(1)
Within == MaxNow < First

OneInv ==
    /\ ~late /\ next_reset = First
    /\ \A p \in Procs : \A i \in DOMAIN data[p] : data[p][i].from = First
    /\ \A i \in DOMAIN flines : flines[i].from = First

LEMMA WithinFacts ==
    ASSUME Within, NEW t \in 1..MaxNow
    PROVE  get_next_reset_time(t) = First /\ t < First
  <1>1. First \in Int
    BY ResetLater DEF First
  <1> QED
    BY <1>1, ResetSame, BwAssumption DEF First, Within

LEMMA OneNow ==
    ASSUME Within, TypeOK, OneInv
    PROVE  NextResetNow = First /\ get_next_reset_time(now) = First
  <1>1. First \in Int /\ now < First /\ get_next_reset_time(now) = First /\ now \in Int
    BY WithinFacts, ResetLater DEF First, TypeOK
  <1>2. ~Expired
    BY <1>1 DEF Expired, OneInv
  <1> QED
    BY <1>1, <1>2 DEF NextResetNow, OneInv

\* A step that reads, loads or saves nothing new.
LEMMA OneQuiet ==
    ASSUME TypeOK, OneInv, DataInv, UNCHANGED <<flines, next_reset, late>>,
           data' = data \/ \E p \in Procs : Drops(p)
    PROVE  OneInv'
  <1>1. \A q \in Procs : \A i \in DOMAIN data'[q] :
           i \in DOMAIN data[q] /\ data'[q][i] = data[q][i]
    <2>1. CASE data' = data
      BY <2>1
    <2>2. CASE \E p \in Procs : Drops(p)
      BY <2>2, DropsFacts DEF LinesKept
    <2> QED
      BY <2>1, <2>2
  <1> QED
    BY <1>1 DEF OneInv

LEMMA OneGet ==
    ASSUME Within, TypeOK, DataInv, OneInv, NEW p \in Procs, GetData(p)
    PROVE  OneInv'
  <1>1. UNCHANGED <<flines, late>>
    BY DEF GetData, file
  <1>2. CASE ~rule
    BY <1>1, <1>2, OneQuiet DEF GetData
  <1>3. CASE rule
    <2> DEFINE keys == {ip \in AllIps : ip_map[ip] # Absent}
               n == Cardinality(keys)
               d(k) == [i \in 1..n |-> IF i <= Cap
                                          THEN Line(k[i], CountersNow[k[i]], NextResetNow)
                                          ELSE Line(0, 0, NextResetNow)]
    <2>1. next_reset' = First
      BY <1>3, OneNow DEF GetData
    <2>2. PICK k \in Ascending(keys) : data' = [data EXCEPT ![p] = d(k)]
      BY <1>3 DEF GetData
    <2>3. \A i \in DOMAIN d(k) : d(k)[i].from = First
      BY OneNow DEF Line
    <2> HIDE DEF d
    <2>4. \A q \in Procs : data'[q] = IF q = p THEN d(k) ELSE data[q]
      BY <2>2, OneData DEF DataInv
    <2>5. \A q \in Procs : \A i \in DOMAIN data'[q] : data'[q][i].from = First
      BY <2>3, <2>4 DEF OneInv
    <2> QED
      BY <1>1, <2>1, <2>5 DEF OneInv
  <1> QED
    BY <1>2, <1>3

LEMMA OneWrite ==
    ASSUME Within, TypeOK, DataInv, StampInv, OneInv, NEW p \in Procs, SaveWrite(p)
    PROVE  OneInv'
  <1>1. /\ flines' = Overlay(data[p], flines) /\ next_reset' = next_reset
        /\ late' = (late \/ \E i \in DOMAIN flines' :
                               flines'[i].from # get_next_reset_time(stamp[p]))
        /\ pc[p] = "write_file"
    BY DEF SaveWrite, kernel
  <1>2. data' = [data EXCEPT ![p] = <<>>]
    BY DEF SaveWrite, Exit
  <1>3. stamp[p] \in 1..MaxNow
    BY <1>1, BwAssumption DEF StampInv
  <1>4. get_next_reset_time(stamp[p]) = First
    BY <1>3, WithinFacts
  <1>5. data[p] \in Seq(Lines) /\ flines \in Seq(Lines)
    BY DEF DataInv
  <1>6. \A i \in DOMAIN flines' : flines'[i].from = First
    BY <1>1, <1>5, OverlayLines DEF OneInv, SameLine
  <1>7. ~late'
    BY <1>1, <1>4, <1>6 DEF OneInv
  <1>8. \A q \in Procs : DOMAIN data'[q] # {} => data'[q] = data[q]
    BY <1>2, EmptyLines DEF DataInv
  <1> QED
    BY <1>1, <1>6, <1>7, <1>8 DEF OneInv

LEMMA OneNext ==
    ASSUME Within, TypeOK, DataInv, StampInv, OneInv, [Next]_vars
    PROVE  OneInv'
  <1>1. ASSUME NEW p \in Procs, Quiet(p) PROVE OneInv'
    BY <1>1, OneQuiet DEF Quiet
  <1>2. ASSUME NEW p \in Procs, Step(p) PROVE OneInv'
    <2>1. CASE \/ get_sem(p) \/ SetVal(p) \/ lock_sem(p) \/ SemTake(p)
               \/ unlock_sem(p) \/ SemPost(p) \/ (Load(p) /\ ~there)
      BY <1>1, <2>1, QuietSteps
    <2>2. CASE GetData(p)
      BY <2>2, OneGet
    <2>3. CASE SetData(p) \/ RemoveRule(p)
      BY <2>3, OneQuiet DEF SetData, RemoveRule, call, file
    <2>4. CASE InsertRule(p)
      BY <2>4, OneNow DEF InsertRule, call, file, OneInv
    <2>5. CASE Load(p) /\ there
      <3>1. data' = [data EXCEPT ![p] = flines] /\ UNCHANGED <<flines, next_reset, late>>
        BY <2>5 DEF Load, file, kernel
      <3>2. \A q \in Procs : data'[q] = IF q = p THEN flines ELSE data[q]
        BY <3>1, OneData DEF DataInv
      <3> QED
        BY <3>1, <3>2 DEF OneInv
    <2>6. CASE SaveOpen(p)
      BY <2>6, EmptyLines DEF SaveOpen, kernel, OneInv
    <2>7. CASE SaveWrite(p)
      BY <2>7, OneWrite
    <2> QED
      BY <1>2, <2>1, <2>2, <2>3, <2>4, <2>5, <2>6, <2>7 DEF Step
  <1>3. ASSUME NEW p \in Procs, Start(p) \/ signal_handler(p) \/ Kill(p) PROVE OneInv'
    BY <1>1, <1>3, QuietSteps
  <1>4. ASSUME NEW ip \in Ips, NEW len \in Lens[ip], match(ip, len) PROVE OneInv'
    BY <1>4, OneNow DEF match, call, file, OneInv
  <1>5. CASE Tick \/ UNCHANGED vars
    BY <1>5, OneQuiet DEF Tick, vars, call, file, kernel
  <1>6. CASE Reboot
    BY <1>6, EmptyLines DEF Reboot, file, OneInv
  <1> QED
    BY <1>2, <1>3, <1>4, <1>5, <1>6 DEF Next

\* As long as no interval has ended, nobody is charged for more than was used, whatever
\* is backed up, restored, killed and rebooted, unless a restore has read what a second
\* backup had left of a line: what the run bwctl_stale shows needs the end of an interval
\* between the reading of the counters and the stamp of the file (save_usage_to_file()).
THEOREM ChargedWithinInterval ==
    ASSUME Within PROVE Spec => [](~garbled => ChargedOnlyForUse)
  <1>1. Init => OneInv
    BY EmptyLines DEF Init, OneInv, First
  <1>2. TypeOK /\ CInv /\ OneInv /\ [Next]_vars => OneInv'
    BY OneNext DEF CInv
  <1>3. CInv /\ OneInv => (~garbled => ChargedOnlyForUse)
    BY DEF CInv, ChargeInv, OneInv, ChargedOnlyForUse
  <1> QED
    BY <1>1, <1>2, <1>3, TypeCorrect, ChargeInit, ChargeNext, PTL DEF Spec

------------------------------------------------------------------------------
(* With one program that backs up *)

OneBackup == \A p, q \in Procs : Job[p] = "backup" /\ Job[q] = "backup" => p = q

\* The file is empty between the opening and the writing, and so no line is ever cut.
WholeInv ==
    /\ ~garbled
    /\ \A p \in Procs : \A i \in DOMAIN data[p] : data[p][i].cut = 0
    /\ \A i \in DOMAIN flines : flines[i].cut = 0
    /\ \A p \in Procs : Job[p] = "backup" /\ stamp[p] # 0 => flines = <<>>

\* A step that does not touch the file.
LEMMA WholeQuiet ==
    ASSUME TypeOK, WholeInv, DataInv, UNCHANGED <<flines, garbled>>,
           UNCHANGED <<data, stamp>> \/ \E p \in Procs : Drops(p)
    PROVE  WholeInv'
  <1>1. /\ \A q \in Procs : \A i \in DOMAIN data'[q] :
              i \in DOMAIN data[q] /\ data'[q][i] = data[q][i]
        /\ \A q \in Procs : stamp'[q] \in {0, stamp[q]}
    <2>1. CASE UNCHANGED <<data, stamp>>
      BY <2>1
    <2>2. ASSUME NEW p \in Procs, Drops(p)
          PROVE  /\ \A q \in Procs : \A i \in DOMAIN data'[q] :
                       i \in DOMAIN data[q] /\ data'[q][i] = data[q][i]
                 /\ \A q \in Procs : stamp'[q] \in {0, stamp[q]}
      BY <2>2, DropsFacts DEF LinesKept
    <2> QED
      BY <2>1, <2>2
  <1> QED
    BY <1>1 DEF WholeInv

LEMMA WholeGet ==
    ASSUME TypeOK, DataInv, WholeInv, NEW p \in Procs, GetData(p)
    PROVE  WholeInv'
  <1>1. UNCHANGED <<flines, garbled, stamp>>
    BY DEF GetData, file
  <1>2. CASE ~rule
    BY <1>1, <1>2, WholeQuiet DEF GetData
  <1>3. CASE rule
    <2> DEFINE keys == {ip \in AllIps : ip_map[ip] # Absent}
               n == Cardinality(keys)
               d(k) == [i \in 1..n |-> IF i <= Cap
                                          THEN Line(k[i], CountersNow[k[i]], NextResetNow)
                                          ELSE Line(0, 0, NextResetNow)]
    <2>1. PICK k \in Ascending(keys) : data' = [data EXCEPT ![p] = d(k)]
      BY <1>3 DEF GetData
    <2>2. \A i \in DOMAIN d(k) : d(k)[i].cut = 0
      BY DEF Line
    <2> HIDE DEF d
    <2>3. \A q \in Procs : data'[q] = IF q = p THEN d(k) ELSE data[q]
      BY <2>1, OneData DEF DataInv
    <2>4. \A q \in Procs : \A i \in DOMAIN data'[q] : data'[q][i].cut = 0
      BY <2>2, <2>3 DEF WholeInv
    <2> QED
      BY <1>1, <2>4 DEF WholeInv
  <1> QED
    BY <1>2, <1>3

LEMMA WholeFile ==
    ASSUME OneBackup, TypeOK, DataInv, StampInv, WholeInv, NEW p \in Procs,
           (Load(p) /\ there) \/ SaveOpen(p) \/ SaveWrite(p)
    PROVE  WholeInv'
  <1>1. CASE Load(p) /\ there
    <2>1. /\ data' = [data EXCEPT ![p] = flines] /\ flines' = flines /\ pc[p] = "load"
          /\ \E t : stamp' = [stamp EXCEPT ![p] = t]
          /\ garbled' = (garbled \/ \E i \in DOMAIN flines : Garbled(flines[i]))
      BY <1>1 DEF Load, file
    <2>2. Job[p] = "restore"
      BY <2>1 DEF StampInv
    <2>3. \A q \in Procs : data'[q] = IF q = p THEN flines ELSE data[q]
      BY <2>1, OneData DEF DataInv
    <2>4. \A q \in Procs : Job[q] = "backup" => stamp'[q] = stamp[q]
      BY <2>1, <2>2 DEF TypeOK
    <2>5. ~garbled'
      BY <2>1 DEF WholeInv, Garbled
    <2> QED
      BY <2>1, <2>3, <2>4, <2>5 DEF WholeInv
  <1>2. CASE SaveOpen(p)
    BY <1>2, EmptyLines DEF SaveOpen, WholeInv
  <1>3. CASE SaveWrite(p)
    <2>1. /\ flines' = Overlay(data[p], flines) /\ pc[p] = "write_file"
          /\ data' = [data EXCEPT ![p] = <<>>] /\ stamp' = [stamp EXCEPT ![p] = 0]
          /\ garbled' = garbled
      BY <1>3 DEF SaveWrite, Exit
    <2>2. Job[p] = "backup" /\ stamp[p] # 0
      BY <2>1 DEF StampInv
    <2>3. flines = <<>> /\ data[p] \in Seq(Lines)
      BY <2>2 DEF WholeInv, DataInv
    <2>4. \A i \in DOMAIN flines' : flines'[i].cut = 0
      BY <2>1, <2>3, OverlayEmpty DEF WholeInv
    <2>5. \A q \in Procs : data'[q] = IF q = p THEN <<>> ELSE data[q]
      BY <2>1, OneData DEF DataInv
    <2>6. \A q \in Procs : Job[q] = "backup" => stamp'[q] = 0
      BY <2>1, <2>2 DEF OneBackup, TypeOK
    <2> QED
      BY <2>1, <2>4, <2>5, <2>6, EmptyLines DEF WholeInv
  <1> QED
    BY <1>1, <1>2, <1>3

LEMMA WholeNext ==
    ASSUME OneBackup, TypeOK, DataInv, StampInv, WholeInv, [Next]_vars
    PROVE  WholeInv'
  <1>1. ASSUME NEW p \in Procs, Quiet(p) PROVE WholeInv'
    BY <1>1, WholeQuiet DEF Quiet
  <1>2. ASSUME NEW p \in Procs, Step(p) PROVE WholeInv'
    <2>1. CASE \/ get_sem(p) \/ SetVal(p) \/ lock_sem(p) \/ SemTake(p)
               \/ unlock_sem(p) \/ SemPost(p) \/ (Load(p) /\ ~there)
      BY <1>1, <2>1, QuietSteps
    <2>2. CASE GetData(p)
      BY <2>2, WholeGet
    <2>3. CASE SetData(p) \/ RemoveRule(p) \/ InsertRule(p)
      BY <2>3, WholeQuiet DEF SetData, RemoveRule, InsertRule, call, file
    <2>4. CASE (Load(p) /\ there) \/ SaveOpen(p) \/ SaveWrite(p)
      BY <2>4, WholeFile
    <2> QED
      BY <1>2, <2>1, <2>2, <2>3, <2>4 DEF Step
  <1>3. ASSUME NEW p \in Procs, Start(p) \/ signal_handler(p) \/ Kill(p) PROVE WholeInv'
    BY <1>1, <1>3, QuietSteps
  <1>4. CASE (\E ip \in Ips : \E len \in Lens[ip] : match(ip, len)) \/ Tick \/ UNCHANGED vars
    BY <1>4, WholeQuiet DEF match, Tick, vars, call, file
  <1>5. CASE Reboot
    BY <1>5, EmptyLines DEF Reboot, file, WholeInv
  <1> QED
    BY <1>2, <1>3, <1>4, <1>5 DEF Next

\* When no two programs back up, no restore ever reads part of a line, and what can be
\* charged wrongly is charged by a late stamp alone: the numbers without a fixed width
\* need a second writer (save_usage_to_file(), load_usage_from_file()).
THEOREM ChargedOneBackup ==
    ASSUME OneBackup PROVE Spec => [](~garbled /\ (~late => ChargedOnlyForUse))
  <1>1. Init => WholeInv
    BY EmptyLines DEF Init, WholeInv
  <1>2. TypeOK /\ CInv /\ WholeInv /\ [Next]_vars => WholeInv'
    BY WholeNext DEF CInv
  <1>3. CInv /\ WholeInv => ~garbled /\ (~late => ChargedOnlyForUse)
    BY DEF CInv, ChargeInv, WholeInv, ChargedOnlyForUse
  <1> QED
    BY <1>1, <1>2, <1>3, TypeCorrect, ChargeInit, ChargeNext, PTL DEF Spec
=============================================================================
