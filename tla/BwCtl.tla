------------------------------- MODULE BwCtl -------------------------------
(***************************************************************************)
(* One quota: the counters of the kernel's bandwidth match (the patch      *)
(* 650-custom_netfilter_match_modules), the library that reads and writes  *)
(* them under a semaphore (libiptbwctl), and the programs backup_quotas,   *)
(* restore_quotas and print_quotas.                                        *)
(*                                                                         *)
(* The semaphore has no owner and is not undone when its holder dies; its  *)
(* value is looked at in one call and changed in the next.  A backup reads *)
(* the counters under the semaphore and writes the file, with the time of  *)
(* the writing, after it has let go.  The kernel takes a backup when that  *)
(* time lies in the interval that the counters are for.                    *)
(***************************************************************************)
EXTENDS Integers, Sequences, FiniteSets

CONSTANTS Procs,      \* programs that use the library
          Job,        \* Job[p]: "backup", "print" or "restore"
          Ips,        \* addresses with packets
          Cap,        \* blocks of one address that fit in the query buffer
          Lens,       \* Lens[ip]: lengths of its packets
          Byte,       \* values of a byte of the buffer
          Tries,      \* max_wait_milliseconds / 25
          Radix,      \* of the numbers in the backup file
          MaxDigits,  \* of a 64-bit count
          Octet,      \* Octet[ip]: digits of the first number of an address
          Shorter,    \* Shorter[ip][n]: the address that is left without n of them
          Period,     \* seconds of a reset interval
          ResetTime,  \* --reset_time: the offset of its start
          MaxRuns,    \* bound: how often a program is started
          MaxNow,     \* bound: the clock
          MaxUsed,    \* bound: bytes after which an address rests for the interval
          MaxFaults   \* bound: kills, signals and reboots

AllIps == Ips \cup {0}      \* 0.0.0.0: what a block that was not filled in names

ASSUME BwAssumption ==
    /\ Job \in [Procs -> {"backup", "print", "restore"}]
    /\ Ips \subseteq Nat \ {0} /\ IsFiniteSet(Ips)
    /\ Lens \in [Ips -> SUBSET Nat]
    /\ Cap \in Nat \ {0} /\ Byte \in Nat \ {0} /\ Tries \in Nat \ {0}
    /\ Radix \in Nat \ {0, 1} /\ MaxDigits \in Nat \ {0} /\ Octet \in [AllIps -> 1..3]
    /\ Shorter \in [AllIps -> [1..2 -> AllIps]]
    /\ Period \in Nat \ {0} /\ ResetTime \in 0..(Period - 1)
    /\ MaxNow \in Nat \ {0} /\ MaxRuns \in Nat /\ MaxUsed \in Nat /\ MaxFaults \in Nat

VARIABLES sem,      \* value of the semaphore, NoSem before it is created
          pc,       \* pc[p]: where p is
          sig,      \* sig[p]: p runs the handler of SIGTERM
          tries,    \* tries[p]: what is left of max_wait_milliseconds
          ok,       \* ok[p]: the call has succeeded
          data,     \* data[p]: what was read, from the kernel or from the file
          stamp,    \* stamp[p]: the time that goes with it
          there, fstamp, flines,    \* the backup file: exists, its time, its lines
          rule,     \* the quota's rule is in the table
          next_reset, ip_map,       \* its interval's end, and its counters
          now,
          runs, faults,             \* counters for the bounds
          held,     \* history: held[p]: the semaphore's unit is p's to give back
          lost,     \* history: who held the unit was killed
          stolen,   \* history: a handler gave back what it did not hold
          used,     \* history: used[ip]: bytes in the interval up to next_reset
          late,     \* history: a line stood under a time of another interval than its own
          garbled   \* history: a restore has read what was left of a line

lock   == <<sem, held, lost, stolen>>
call   == <<sig, tries, ok, data, stamp>>
file   == <<there, fstamp, flines>>
kernel == <<rule, next_reset, ip_map>>
bounds == <<runs, faults>>
vars == <<lock, pc, call, file, kernel, now, bounds, used, late, garbled>>

NoSem  == -1
Absent == -1        \* no counter for this address

\* A line of the file or a block of the buffer; "from" is the end of the interval
\* in which the count was read (history: neither the file nor the buffer has it), and
\* "cut" how many of the line's characters another text has been written over.
Line(ip, bw, from) == [ip |-> ip, bw |-> bw, from |-> from, cut |-> 0]

------------------------------------------------------------------------------
(* The kernel's counters *)

\* When the interval ends that t lies in.
get_next_reset_time(t) ==
    LET next == (t \div Period + 1) * Period
        alt  == next + ResetTime - Period
    IN  IF ResetTime = 0 THEN next
        ELSE IF alt > t THEN alt ELSE next + ResetTime

\* The interval is over: the test is strict, in its last second it still runs.
Expired == next_reset < now

\* The reset that a packet or a query does first, when it comes after the end.
NextResetNow == IF Expired THEN get_next_reset_time(now) ELSE next_reset
CountersNow  == [ip \in AllIps |-> IF Expired /\ ip_map[ip] # Absent
                                      THEN 0 ELSE ip_map[ip]]
UsedNow      == IF Expired THEN [ip \in AllIps |-> 0] ELSE used

\* A packet of len bytes from or to ip meets the rule.  (That packets are ignored
\* during a set is without effect: nobody writes set_id, with which the rule's id is
\* compared.)
match(ip, len) ==
    /\ rule /\ UsedNow[ip] < MaxUsed
    /\ next_reset' = NextResetNow
    /\ ip_map' = [CountersNow EXCEPT ![ip] =
                     IF CountersNow[ip] = Absent THEN len ELSE CountersNow[ip] + len]
    /\ used' = [UsedNow EXCEPT ![ip] = UsedNow[ip] + len]
    /\ UNCHANGED <<lock, pc, call, file, rule, now, bounds, late, garbled>>

Tick ==
    /\ now < MaxNow /\ now' = now + 1
    /\ UNCHANGED <<lock, pc, call, file, kernel, bounds, used, late, garbled>>

------------------------------------------------------------------------------
(* The semaphore *)

Goto(p, at) == pc' = [pc EXCEPT ![p] = at]

\* p exits, and its memory goes.
Exit(p) ==
    /\ Goto(p, "off")
    /\ sig' = [sig EXCEPT ![p] = FALSE]
    /\ tries' = [tries EXCEPT ![p] = Tries]
    /\ ok' = [ok EXCEPT ![p] = FALSE]
    /\ data' = [data EXCEPT ![p] = <<>>]
    /\ stamp' = [stamp EXCEPT ![p] = 0]

\* get_sem(): the first to come creates the semaphore, with the value 0, ...
get_sem(p) ==
    /\ pc[p] = "open"
    /\ IF sem = NoSem
          THEN /\ sem' = 0 /\ held' = [held EXCEPT ![p] = TRUE]
               /\ Goto(p, "init")
          ELSE /\ Goto(p, IF sig[p] THEN "ulook" ELSE "look")
               /\ UNCHANGED <<sem, held>>
    /\ UNCHANGED <<lost, stolen, call, file, kernel, now, bounds, used, late, garbled>>

\* ... and sets it to 1 in a call of its own.
SetVal(p) ==
    /\ pc[p] = "init"
    /\ sem' = 1 /\ held' = [held EXCEPT ![p] = FALSE]
    /\ Goto(p, IF sig[p] THEN "ulook" ELSE "look")
    /\ UNCHANGED <<lost, stolen, call, file, kernel, now, bounds, used, late, garbled>>

\* Mutant: the wait is counted down past zero.
RetryForever(p) ==
    /\ tries' = [tries EXCEPT ![p] = tries[p] - 1]
    /\ Goto(p, "look")
    /\ UNCHANGED <<lock, sig, ok, data, stamp>>

\* One more try in 25 milliseconds, unless max_wait_milliseconds are over.
Retry(p) ==
    /\ \/ /\ tries[p] > 1
          /\ tries' = [tries EXCEPT ![p] = tries[p] - 1]
          /\ Goto(p, "look")
          /\ UNCHANGED <<sig, ok, data, stamp>>
       \/ tries[p] = 1 /\ Exit(p)
    /\ UNCHANGED lock

\* lock_sem(): look at the value, ...
lock_sem(p) ==
    /\ pc[p] = "look"
    /\ \/ sem > 0 /\ Goto(p, "take") /\ UNCHANGED <<lock, call>>
       \/ sem = 0 /\ Retry(p)
    /\ UNCHANGED <<file, kernel, now, bounds, used, late, garbled>>

\* Mutant: the result of semop() is not looked at.
SemTakeUnchecked(p) ==
    /\ pc[p] = "take"
    /\ IF sem > 0 THEN sem' = sem - 1 /\ held' = [held EXCEPT ![p] = TRUE]
                  ELSE UNCHANGED <<sem, held>>
    /\ tries' = [tries EXCEPT ![p] = Tries]
    /\ Goto(p, "call")
    /\ UNCHANGED <<lost, stolen, sig, ok, data, stamp, file, kernel, now, bounds,
                   used, late, garbled>>

\* Mutant: semop() without IPC_NOWAIT sleeps until the value is positive.
SemTakeWaits(p) ==
    /\ pc[p] = "take" /\ sem > 0
    /\ sem' = sem - 1 /\ held' = [held EXCEPT ![p] = TRUE]
    /\ tries' = [tries EXCEPT ![p] = Tries]
    /\ Goto(p, "call")
    /\ UNCHANGED <<lost, stolen, sig, ok, data, stamp, file, kernel, now, bounds,
                   used, late, garbled>>

\* ... then take one, which fails when another was faster.
SemTake(p) ==
    /\ pc[p] = "take"
    /\ \/ /\ sem > 0
          /\ sem' = sem - 1 /\ held' = [held EXCEPT ![p] = TRUE]
          /\ tries' = [tries EXCEPT ![p] = Tries]
          /\ Goto(p, "call")
          /\ UNCHANGED <<lost, stolen, sig, ok, data, stamp>>
       \/ sem = 0 /\ Retry(p)
    /\ UNCHANGED <<file, kernel, now, bounds, used, late, garbled>>

\* What follows when the semaphore is given back: the file is written, or in the signal
\* handler, if it is open, flushed.
AfterCall(p) ==
    \/ /\ ~sig[p] /\ ok[p] /\ Job[p] = "backup"
       /\ Goto(p, "open_file") /\ UNCHANGED call
    \/ /\ sig[p] /\ Job[p] = "backup" /\ stamp[p] # 0
       /\ Goto(p, "write_file") /\ UNCHANGED call
    \/ /\ Job[p] = "backup" => IF sig[p] THEN stamp[p] = 0 ELSE ~ok[p]
       /\ Exit(p)

\* unlock_sem(), in the call and in the signal handler: when the value is 0, ...
unlock_sem(p) ==
    /\ pc[p] = "ulook"
    /\ \/ sem = 0 /\ Goto(p, "post") /\ UNCHANGED call
       \/ sem # 0 /\ AfterCall(p)
    /\ UNCHANGED <<lock, file, kernel, now, bounds, used, late, garbled>>

\* ... add one, whoever took it.
SemPost(p) ==
    /\ pc[p] = "post"
    /\ sem' = sem + 1
    /\ held' = [held EXCEPT ![p] = FALSE]
    /\ stolen' = (stolen \/ ~held[p])
    /\ AfterCall(p)
    /\ UNCHANGED <<lost, file, kernel, now, bounds, used, late, garbled>>

------------------------------------------------------------------------------
(* Reading: get_bandwidth_data(), ipt_bandwidth_get_ctl() *)

\* The keys of the map in ascending order.
Ascending(K) == {k \in [1..Cardinality(K) -> K] :
                     \A i, j \in 1..Cardinality(K) : i < j => k[i] < k[j]}

Smaller(a, b) == IF a < b THEN a ELSE b

\* The index of the next request as the library finds it in the buffer, which by
\* now holds the answer to the first, shifted by one byte: the low byte of the
\* total is the index's high byte (the targets are big-endian).
NextIndex(total) == (total % Byte) * Byte * Byte * Byte + Smaller(total, Cap)

\* The counters of the addresses that fit in one answer.  Is the index below the
\* total, the library asks again, with an id that the answer has overwritten, and
\* fails; otherwise it returns the total, and the rest of the array as it was
\* allocated.
GetData(p) ==
    /\ pc[p] = "call" /\ Job[p] # "restore"
    /\ \/ /\ rule
          /\ next_reset' = NextResetNow /\ ip_map' = CountersNow /\ used' = UsedNow
          /\ LET keys == {ip \in AllIps : ip_map[ip] # Absent}
                 total == Cardinality(keys)
             IN  \E k \in Ascending(keys) :
                   /\ ok' = [ok EXCEPT ![p] = NextIndex(total) >= total]
                   /\ data' = [data EXCEPT ![p] =
                                [i \in 1..total |->
                                   IF i <= Cap
                                      THEN Line(k[i], CountersNow[k[i]], NextResetNow)
                                      ELSE Line(0, 0, NextResetNow)]]
       \/ /\ ~rule /\ ok' = [ok EXCEPT ![p] = FALSE]
          /\ UNCHANGED <<next_reset, ip_map, used, data>>
    /\ Goto(p, "ulook")
    /\ UNCHANGED <<lock, sig, tries, stamp, file, rule, now, bounds, late, garbled>>

------------------------------------------------------------------------------
(* The text of the backup file: "%-15ld\n", then "%-15s\t%lld\n" for each address *)

\* The count has as many characters as it has digits, the address always 15 and the tab.
AddrWidth == 16
Digits(n) == 1 + Cardinality({d \in 1..(MaxDigits - 1) : Radix^d <= n})
Width(l)  == AddrWidth + Digits(l.bw) + 1 - l.cut

\* Where each line ends, counted from the end of the time.
Ends(lines) ==
    LET end[k \in 0..Len(lines)] == IF k = 0 THEN 0 ELSE end[k - 1] + Width(lines[k])
    IN  end

\* The file when the text mine has been written over the text old, both from the
\* beginning: what reaches further stays, the first line of it without those of its
\* characters that mine covers.
Overlay(mine, old) ==
    LET n    == Ends(mine)[Len(mine)]
        gone == Cardinality({k \in DOMAIN old : Ends(old)[k] <= n})
    IN  mine \o [i \in 1..(Len(old) - gone) |->
            LET k == gone + i
                covered == {c \in 1..(AddrWidth + MaxDigits + 1) : Ends(old)[k - 1] + c <= n}
            IN  [old[k] EXCEPT !.cut = @ + Cardinality(covered)]]

\* load_usage_from_file(), token by token.  An address, though its first digits may be
\* missing, and its count make a line; ...
Readable(l) == l.cut < Octet[l.ip]
Address(l)  == IF l.cut = 0 THEN l.ip ELSE Shorter[l.ip][l.cut]

\* ... what is no address goes to last_backup: of a line with less than that, the
\* number that its last digits make (if there is more left than the end of the line).
Stray(l) == {n \in 0..l.bw : /\ ~Readable(l) /\ Width(l) > 1
                             /\ n = l.bw % Radix^Smaller(Width(l) - 1, Digits(l.bw))}

\* The time that is read: the one at the beginning, or the last stray number.
Stamps(lines, first) ==
    LET last == {i \in DOMAIN lines : /\ Stray(lines[i]) # {}
                                      /\ \A j \in DOMAIN lines : j > i => Stray(lines[j]) = {}}
    IN  IF last = {} THEN {first} ELSE UNION {Stray(lines[i]) : i \in last}

\* A line that is not whole, and not all gone either.
Garbled(l) == l.cut # 0 /\ (Readable(l) \/ Stray(l) # {})

------------------------------------------------------------------------------
(* Writing: set_bandwidth_data(), ipt_bandwidth_set_ctl() *)

\* Mutant: a backup of any interval is taken.
BackupNotChecked(t) == TRUE

\* The time of the backup belongs to the interval of the counters; 0: not checked.
BackupValid(t) == t = 0 \/ get_next_reset_time(t) = next_reset

\* The lines that the kernel takes: those of the first buffer, none of the others.
Taken(lines) == {i \in DOMAIN lines : /\ Readable(lines[i])
                                     /\ Cardinality({j \in 1..i : Readable(lines[j])}) <= Cap}

\* last[ip]: the last line for ip of those, 0 when there is none.
LastLine(lines) ==
    {last \in [AllIps -> {0} \cup Taken(lines)] :
        \A ip \in AllIps :
            /\ last[ip] # 0 => Address(lines[last[ip]]) = ip
            /\ \A i \in Taken(lines) : Address(lines[i]) = ip => i <= last[ip]}

\* Every counter is cleared, then the backup's time is looked at.
SetData(p) ==
    /\ pc[p] = "call" /\ Job[p] = "restore"
    /\ \/ /\ rule /\ BackupValid(stamp[p])
          /\ \E last \in LastLine(data[p]) :
               ip_map' = [ip \in AllIps |-> IF last[ip] = 0 THEN Absent
                                               ELSE data[p][last[ip]].bw]
       \/ rule /\ ~BackupValid(stamp[p]) /\ ip_map' = [ip \in AllIps |-> Absent]
       \/ ~rule /\ UNCHANGED ip_map
    /\ ok' = [ok EXCEPT ![p] = TRUE]
    /\ Goto(p, "ulook")
    /\ UNCHANGED <<lock, sig, tries, data, stamp, file, rule, next_reset, now,
                   bounds, used, late, garbled>>

------------------------------------------------------------------------------
(* The programs *)

\* backup_quotas (from cron and from the hotplug script), print_quotas (from the
\* web pages), restore_quotas (from the firewall's scripts).
Start(p) ==
    /\ pc[p] = "off" /\ runs[p] < MaxRuns
    /\ runs' = [runs EXCEPT ![p] = runs[p] + 1]
    /\ Goto(p, IF Job[p] = "restore" THEN "remove" ELSE "open")
    /\ UNCHANGED <<lock, call, file, kernel, now, faults, used, late, garbled>>

\* restore_quotas removes the rule, and the counters go with it, ...
RemoveRule(p) ==
    /\ pc[p] = "remove"
    /\ rule' = FALSE /\ ip_map' = [ip \in AllIps |-> Absent]
    /\ Goto(p, "insert")
    /\ UNCHANGED <<lock, call, file, next_reset, now, bounds, used, late, garbled>>

\* ... inserts it anew (checkentry), ...
InsertRule(p) ==
    /\ pc[p] = "insert"
    /\ rule' = TRUE /\ ip_map' = [ip \in AllIps |-> Absent]
    /\ next_reset' = get_next_reset_time(now)
    /\ used' = IF next_reset' = next_reset THEN used ELSE [ip \in AllIps |-> 0]
    /\ Goto(p, "load")
    /\ UNCHANGED <<lock, call, file, now, bounds, late, garbled>>

\* ... and loads the backup, if there is one (load_usage_from_file).
Load(p) ==
    /\ pc[p] = "load"
    /\ \/ /\ there
          /\ data' = [data EXCEPT ![p] = flines]
          /\ \E t \in Stamps(flines, fstamp) : stamp' = [stamp EXCEPT ![p] = t]
          /\ garbled' = (garbled \/ \E i \in DOMAIN flines : Garbled(flines[i]))
          /\ Goto(p, "open")
          /\ UNCHANGED <<sig, tries, ok>>
       \/ ~there /\ Exit(p) /\ UNCHANGED garbled
    /\ UNCHANGED <<lock, file, kernel, now, bounds, used, late>>

\* save_usage_to_file: fopen() cuts the file off, the time is taken, ...
SaveOpen(p) ==
    /\ pc[p] = "open_file"
    /\ there' = TRUE /\ fstamp' = 0 /\ flines' = <<>>
    /\ stamp' = [stamp EXCEPT ![p] = now]
    /\ Goto(p, "write_file")
    /\ UNCHANGED <<lock, sig, tries, ok, data, kernel, now, bounds, used, late, garbled>>

\* ... and fclose() writes the text, or exit() what there is of it.
SaveWrite(p) ==
    /\ pc[p] = "write_file"
    /\ fstamp' = stamp[p]
    /\ flines' = Overlay(data[p], flines)
    /\ late' = (late \/ \E i \in DOMAIN flines' :
                           flines'[i].from # get_next_reset_time(stamp[p]))
    /\ Exit(p)
    /\ UNCHANGED <<lock, there, kernel, now, bounds, used, garbled>>

------------------------------------------------------------------------------
(* What ends a program early *)

\* SIGTERM or SIGINT once the handler is installed: unlock(), then exit(), which writes
\* out as many lines as have been printed.  The static bandwidth_semaphore is still -1
\* as long as get_sem() is to come.
signal_handler(p) ==
    /\ pc[p] \notin {"off", "remove"} /\ ~sig[p]
    /\ faults < MaxFaults /\ faults' = faults + 1
    /\ sig' = [sig EXCEPT ![p] = TRUE]
    /\ \/ /\ pc[p] = "write_file"
          /\ \E n \in 0..Len(data[p]) : data' = [data EXCEPT ![p] = SubSeq(@, 1, n)]
          /\ UNCHANGED stamp
       \/ /\ data' = [data EXCEPT ![p] = <<>>]
          /\ stamp' = [stamp EXCEPT ![p] = 0]
    /\ Goto(p, IF pc[p] \in {"insert", "load", "open"} THEN "open" ELSE "ulook")
    /\ UNCHANGED <<lock, tries, ok, file, kernel, now, used, late, garbled, runs>>

\* Killed, or out of memory (safe_malloc calls exit): nothing is given back.
Kill(p) ==
    /\ pc[p] # "off"
    /\ faults < MaxFaults /\ faults' = faults + 1
    /\ lost' = (lost \/ held[p])
    /\ held' = [held EXCEPT ![p] = FALSE]
    /\ Exit(p)
    /\ UNCHANGED <<sem, stolen, file, kernel, now, used, late, garbled, runs>>

\* The file is all that is left, and a new semaphore will be made.
Reboot ==
    /\ faults < MaxFaults /\ faults' = faults + 1
    /\ sem' = NoSem /\ held' = [p \in Procs |-> FALSE]
    /\ lost' = FALSE /\ stolen' = FALSE
    /\ pc' = [p \in Procs |-> "off"]
    /\ sig' = [p \in Procs |-> FALSE] /\ ok' = [p \in Procs |-> FALSE]
    /\ tries' = [p \in Procs |-> Tries]
    /\ data' = [p \in Procs |-> <<>>] /\ stamp' = [p \in Procs |-> 0]
    /\ rule' = FALSE /\ ip_map' = [ip \in AllIps |-> Absent]
    /\ UNCHANGED <<file, next_reset, now, used, late, garbled, runs>>

------------------------------------------------------------------------------
\* The firewall has come up for the first time: restore_quotas has inserted the
\* rule and found no backup to load.
Init ==
    /\ sem = NoSem /\ held = [p \in Procs |-> FALSE]
    /\ lost = FALSE /\ stolen = FALSE
    /\ pc = [p \in Procs |-> "off"]
    /\ sig = [p \in Procs |-> FALSE] /\ ok = [p \in Procs |-> FALSE]
    /\ tries = [p \in Procs |-> Tries]
    /\ data = [p \in Procs |-> <<>>] /\ stamp = [p \in Procs |-> 0]
    /\ there = FALSE /\ fstamp = 0 /\ flines = <<>>
    /\ rule = TRUE /\ next_reset = get_next_reset_time(1)
    /\ ip_map = [ip \in AllIps |-> Absent]
    /\ now = 1 /\ runs = [p \in Procs |-> 0] /\ faults = 0
    /\ used = [ip \in AllIps |-> 0] /\ late = FALSE /\ garbled = FALSE

\* What a program does by itself.
Step(p) ==
    \/ get_sem(p) \/ SetVal(p) \/ lock_sem(p) \/ SemTake(p)
    \/ unlock_sem(p) \/ SemPost(p)
    \/ GetData(p) \/ SetData(p)
    \/ RemoveRule(p) \/ InsertRule(p) \/ Load(p)
    \/ SaveOpen(p) \/ SaveWrite(p)

Next ==
    \/ \E p \in Procs : Step(p) \/ Start(p) \/ signal_handler(p) \/ Kill(p)
    \/ \E ip \in Ips : \E len \in Lens[ip] : match(ip, len)
    \/ Tick \/ Reboot

Spec == Init /\ [][Next]_vars

------------------------------------------------------------------------------
Places == {"off", "remove", "insert", "load", "open", "init", "look", "take",
           "call", "ulook", "post", "open_file", "write_file"}

TypeOK ==
    /\ sem \in Int /\ held \in [Procs -> BOOLEAN]
    /\ lost \in BOOLEAN /\ stolen \in BOOLEAN
    /\ pc \in [Procs -> Places]
    /\ sig \in [Procs -> BOOLEAN] /\ ok \in [Procs -> BOOLEAN]
    /\ tries \in [Procs -> 0..Tries]
    /\ stamp \in [Procs -> Nat] /\ fstamp \in Nat
    /\ there \in BOOLEAN /\ rule \in BOOLEAN
    /\ now \in 1..MaxNow /\ faults \in 0..MaxFaults /\ runs \in [Procs -> 0..MaxRuns]
    /\ late \in BOOLEAN /\ garbled \in BOOLEAN

\* Only one program at a time is between the kernel's two ends of a call, and the
\* semaphore is free whenever none is: it is neither posted twice nor forgotten.
\* Two things are left out, by name: a holder that was killed, and a signal
\* handler that gave back what another holds (lock(), unlock_sem()).
SemAccounts ==
    ~stolen =>
      /\ \A p \in Procs : pc[p] = "call" => held[p]
      /\ \A p, q \in Procs : held[p] /\ held[q] => p = q
      /\ sem = NoSem => ~lost
      /\ sem # NoSem =>
           sem = IF lost \/ \E p \in Procs : held[p] THEN 0 ELSE 1

\* No address is charged, after whatever backups, restores, kills and reboots, for
\* more than it used in the interval the counters are for.  Two things are left out, by
\* name: a line under a time that is not of the line's own interval, because the time
\* was taken late or is that of a shorter text written over an older one
\* (save_usage_to_file()), and a restore that read what such a text had left of a line:
\* another address, or a number that is taken for the time (load_usage_from_file()).
ChargedUnlessLateOrCut ==
    ~late /\ ~garbled => \A ip \in AllIps : ip_map[ip] <= used[ip]

\* The same without the exceptions.
ChargedOnlyForUse ==
    \A ip \in AllIps : ip_map[ip] <= used[ip]

\* The guards of Step(p): the places from which there is always a way on, and those
\* where it takes a semaphore, a try, or a result of the kernel's call.
CanGo(p) ==
    \/ pc[p] \in {"remove", "insert", "load", "open", "init", "ulook", "post",
                  "open_file", "write_file"}
    \/ /\ pc[p] \in {"look", "take"}
       /\ sem > 0 \/ (sem = 0 /\ tries[p] >= 1)
    \/ /\ pc[p] = "call" /\ Job[p] # "restore"
       /\ rule => Ascending({ip \in AllIps : ip_map[ip] # Absent}) # {}
    \/ /\ pc[p] = "call" /\ Job[p] = "restore"
       /\ rule /\ BackupValid(stamp[p]) => LastLine(data[p]) # {}

\* Whatever the others do, and wherever they were killed, a program that runs has a
\* next step: with the semaphore lost for good lock() runs out of tries, it never
\* sleeps in the kernel (IPC_NOWAIT in lock_sem() and unlock_sem()).
NeverBlocks == \A p \in Procs : /\ pc[p] # "off" => CanGo(p)
                                /\ CanGo(p) <=> ENABLED Step(p)
=============================================================================
