# CarrierWrt: a TLA+ model of the router's control programs

CarrierWrt is a build overlay on OpenWrt: products, patches and packages. Most
packages are recipes for third-party code. What the repository adds of its own,
and what runs concurrently and for months, is a set of small control programs, the
Lua and shell scripts they drive, a kernel module with its user-space library, and
the check of a firmware image before an upgrade. This project models them.

Paths below are relative to the repository's `package/` directory unless they start
with `patches/`.

## 1. Inventory

| component | state | operations | talks to |
|---|---|---|---|
| `onlined/src/online.c` | belief, error count, delay, back-off | one endless loop: age, probe, send, sleep, reread | `fs` client, `/tmp/run/fonstate`, the resolver |
| `fonstate/src` daemon `fonstated` | datagram socket, job queue, events, timers, process table | receive, enqueue, run, walk timers | every `fs` client; forks scripts and waits for them |
| `fonstate/src` client `fs` | a list of `-l` options | detach, connect, send, next | `fonstated` |
| `fon-luci/.../fon.lua`, `fonstate/files/etc/fonstated/*` | `/tmp/run/fonstate`, UCI state `fon.state.online` | `setOnline`, `setOffline` | run by `fonstated`; run the hotspot scripts |
| `fon-luci/.../fon/spot.lua` | UCI state `fon.state.hotspot`, the access point's interface, chilli | `start`, `stop`, `restart`, `changed` | run by the scripts and by `fonsmcd` |
| `fon-luci/.../fon/service.lua` | pids in the UCI state | `start`, `stop`, `restart` | `StartOnlined`, `StartFonsmcd`, the web interface |
| `fonsmcd`: `luad.c`, `fonsmcd.init`, `fcheck.sh`, `StartFonsmcd` | pid files, processes, crontab, pending signals | start, kill, supervise, restart, check | boot, cron, `fonstated`'s timer, `service.lua`, libdaemon |
| `fonstate/src/lib/ps.c`, `signal.c`, watchdog of `state.c` | table of processes, rebuilt from a `SIGALRM` handler | `ps`, `ps_find`, `process_wdt` | timers of `fonstated` |
| `qos-gargoyle/src/qosmon.c` | state machine, limits, counters, recorded classes | one pass per ping period; terminate | the kernel's traffic classes, the ping target |
| `libiptbwctl/src/ipt_bwctl.c`, the bandwidth match of `patches/qos-gargoyle/.../650-custom_netfilter_match_modules.patch` | a System V semaphore, counters per address, end of the interval, usage files | match, get, set, lock, unlock, save, load | iptables rules, the quota programs |
| `gargoyle-firewall-util/src` (`backup_quotas`, `restore_quotas`, `print_quotas`) | backup files, rules | backup, delete and insert rules, restore | cron, hotplug, the firewall script |
| `vboot_utils` (`fonrsa.c`, `vbutil_firmware.c`, the host and verification libraries) | an image: key block, preamble, body | make, verify | the upgrade script |
| `bwmon-gargoyle`, `webmon-gargoyle` | history files | get, set | `libiptbwctl`, kernel |
| `openwisp-firmware` | configuration, fallback state | fetch, test, apply, fall back | a server |
| `libericstools/src/tree_map.c` | nodes of a balanced tree, keyed by numbers or hashed strings | set, get, remove, smallest, largest, destroy | the quota and bandwidth programs; copied into the kernel's matches |
| the rest of `libericstools`, `fonbase`, `factory-defaults` | lists, strings; UCI | sequential libraries and scripts | |
| LuCI in `fon-luci`, `anyfi`, `6LoWPAN`, `easycwmp`, the rest | | vendored code, pages, recipes | |

What is hard here, and why the model is worth its keep:

* **Nobody acknowledges anything.** A command is a datagram from a detached
  process. It may be lost (no daemon), delayed (the daemon runs a script for a
  minute) or overtaken by a later one. The prober notices only through a file
  that a script writes.
* **Waiting in circles.** The daemon waits for a script; the script runs `fs`;
  `fs` may block on the socket that only the daemon drains.
* **Restarts in the middle.** Killing the daemon loses its queue and leaves its
  script running beside the ones the next daemon starts.
* **Belief and fact.** `onlined` keeps counters across changes of its belief;
  `qosmon` keeps what it thinks the kernel's limit is across changes of the
  kernel's classes; a pid file says that a daemon runs.
* **Look, then act.** Two start-ups look at the pid file before either creates it.
  The semaphore's value is read in one call and changed in the next, and nobody
  gives it back when its holder is killed.
* **Time between two steps.** A backup is read in one interval and stamped in the
  next.
* **Balance by counting.** A tree's balances are never computed, only adjusted on the way
  back up through remembered addresses; a mistake shows many operations later.
* **Sums of foreign numbers.** The check of an image adds offsets and sizes that the
  file's author chose before it reads there.

The list of hazards, each at its line, is in `PROJECT.json`.

What makes each component correct: `onlined` reports an outage and a recovery in
bounded time, never on fewer errors than promised, and keeps reporting until
heard; `fonstated` runs what it accepted at most once and in order, and never
stops; the scripts keep the two published states and the hotspot together;
a daemon under `luad` runs, runs once, and comes back; `qosmon` never leaves the link
throttled, computes only limits in range and undoes what it did when it ends; the
quota programs charge no address for what it did not use, through backups, resets
and kills, and never wait for ever; the image check stays inside the file, goes by
what was signed, and accepts what the tool makes; the maps behave like sets of pairs and
lose no node.

## 2. Modules

| module | models | extends |
|---|---|---|
| `Onlined` | the prober's loop, one action per branch | |
| `OnlinedTimed` | the same with history variables for the properties that count | `Onlined` |
| `FonDispatch` | abstract: what `fonstated` promises | |
| `FonDispatchProofs` | proofs | `FonDispatch` |
| `FonStated` | `fonstated` and its clients; refines `FonDispatch` | instance of `FonDispatch` |
| `MCFonStated` | an instance for TLC: three clients, one run by another's script | `FonStated` |
| `FonStatedProofs` | proofs, the refinement among them | `FonStated`, instance of `FonDispatchProofs` |
| `FonOnline` | prober, daemon (as `FonDispatch` has it) and the Online/Offline scripts | `Onlined` |
| `OnlineProofs` | proofs about the prober and the scripts | `OnlinedTimed`, `FonOnline` |
| `Luad` | the hotspot daemons, their pid files and all who start and stop them | |
| `MCLuad`, `LuadProofs` | instance; proofs | `Luad` |
| `QosMon` | the congestion controller | |
| `QosMonProofs` | proofs | `QosMon` |
| `BwCtl` | one quota: kernel counters, semaphore, backup and restore programs | |
| `MCBwCtl`, `BwCtlProofs` | instance; proofs | `BwCtl` |
| `VbootImage` | making and checking a signed firmware image | |
| `MCVbootImage`, `VbootProofs` | instance; proofs | `VbootImage` |
| `TreeMap` | the maps: an AVL tree in memory, with hashed strings on top | |
| `MCTreeMap`, `TreeMapProofs` | instance; proofs | `TreeMap` |

### Onlined

`pc = "top"` is line 72 of `online.c`, `pc = "sleep"` line 131. The branches of an
iteration are `NotDue`, `ProbeFailsOnline`, `GoOffline`, `ProbeFailsOffline` and
`ProbeSucceeds`; the back-off, which the code ages before it looks at the delay,
is part of each (`AgedInterval`, `AgedDoubleDelay`; `GoOffline` overwrites it).
`Sleep` decrements the delay and rereads the state file, where an empty file (a
shell has truncated it and not written yet) leaves the belief alone, as `fgets`
leaves the buffer alone. `Restart`, `StateFile` and `NetChange` are the environment.
`error_count` is an `int` that may grow while a command is not heard; it is only
compared with `ERRORS_NEEDED` and therefore saturates there.

`OnlinedTimed` adds `fails` (failed probes in a row) and `overdue` (seconds of a
false belief not reported).

### FonStated and FonDispatch

`phase` is the daemon's place in `main()`; `sock`, `fonqueue` and `timer` are the
socket buffer, the job list and the walk over the timers; `steps` are the programs
that the current call has to run, the first of which runs and blocks the daemon.
A client is connected to one particular socket (`conn`): after a restart its
`send` fails and the command is lost.

The job of an event that is not fast has a command line that was never written
(`enqueue_job` copies it only in the other branch) while `process_queue` runs it in
any case. The model lets it be empty or any command line left in a freed job
(`heap`).

`FonDispatch` is what clients may rely on: accepted commands run one at a time and
in order, except that boot jobs come first and fast commands overtake others; a
crash forgets. The refinement maps `accepted` to the queue followed by the socket
buffer, and `active` to the command whose program runs.

### FonOnline

Prober, daemon and scripts in one loop. Each command of the prober is a process
of its own, so `inflight` is a bag. A script runs in five steps (test the UCI state,
truncate the file, write it, save the UCI state, run the hotspot script); the
second `Runner` is a script that a killed daemon left behind. Left out of the
scripts: LEDs, ntp client, thin client and the `hotspot_wdt_stop` message, which
touch none of this state. Starting chilli is taken to bring up its interface (its
init script is not in the repository).

### Luad

A process is a daemon at some place of `luad.c` (`forked`, `dir`, `created`, `runs`,
`gaveup`, `failed`) or a foreign one that got its pid. Four actors run scripts: boot (the
init script's start), cron (its restart, through `fcheck.sh`), `fonstated`
(`StartFonsmcd` at boot and when the sharing setting changes, `fonsmcd start` from its
timer), and the launcher that `service.lua` leaves in the background. A script is a
sequence of commands (`InitStart`, `InitStop`, `StartFonsmcd`) and each command takes
one or two steps: `LuadStart` looks at the pid file and forks, `LuadReturns` is the
answer through libdaemon's pipe or the end of the 20 seconds; `KillSend` sends SIGTERM,
`KillReturns` is the process gone or the 5 seconds over. libdaemon itself is not in
the repository and is modelled from how `luad.c` calls it.

Facts of the code that shape the model:

* `Watchdog`: the pid file that `fonstated` is told to watch, `/tmp/run/fonsmcd.pid`, is
  written by nobody (`luad` writes `/var/run/fonsmcd/pid`), so the timer runs
  `fonsmcd start` every 12 seconds and `ps_find` is never reached.
* `Fcheck`: `fcheck.sh` greps for `fonsmcd[d]`, the name `fonsmcdd`, which no process has,
  so every run restarts the daemon (`Grepped`).
* `KillAll`: `killall -9 fonsmcd` goes by the name. It ends the daemons, the launchers
  and a `luad -k` called `fonsmcd`, and also the script `/etc/init.d/fonsmcd restart` that
  cron runs, between any two of its commands; the command that this script waits for
  lives on if it has another name (`Orphans`). The history variable `cut` says that a
  restart was ended so and has not written the crontab line again. The start at boot runs
  under the name of its link in `/etc/rc.d` and is spared.
* `Finish`: a daemon that could not create its pid file removes it all the same.
* `GiveUp`: the number of restarts that the supervision loop compares is not
  initialised; whether it gives up is a choice.
* `Hangs`: when `fork` fails in `system_printf`, `fonstated` waits for ever
  (`waitpid(-1)` has no child to return).

Simplifications: the start at boot has ended when `fcheck` runs for the first time, 15
minutes later; the recycled pid that `ServiceStop` kills is one of the modelled
processes; `fonstated` is not itself restarted in this module.

### QosMon

One action is one pass of the main loop, per outcome. The inputs of a pass are the
pongs that arrive (at most those that may still be answered), the trip time, the
load found by the scan and whether a realtime class is active. The filter of the
trip time is computed as in C, with its division that truncates towards zero. The
step of the controller is floating point in the code; here it is any move up (ping
time below the limit and link used to 85%) or down (otherwise) within `Levels`.
`classes` is the kernel's class structure: one that can be recorded, `"gone"` (no
device; the scan finds nothing and reports no error) or `"toomany"`. The recorded
list differs from the kernel's exactly when the code finds a wrong ID or a wrong
number of classes. `TcClassModify` is `tc_class_modify` with its early return and
with `dbw_ul` set before the kernel is asked.

### BwCtl

The kernel's side is `match` (a packet), `GetData` and `SetData` (the two socket options),
and `RemoveRule`/`InsertRule` (restore deletes and creates the quota's rule). A packet and a
query first reset the counters if the interval is over; `get_next_reset_time` is the code's
arithmetic for an interval of constant length. The library's side is the semaphore
(`get_sem`, `SetVal`, `lock_sem`, `SemTake`, `unlock_sem`, `SemPost`, each a system call of
its own), the handler of SIGTERM, and the usage file: `SaveOpen` cuts it off and takes the
time, `SaveWrite` is `fclose`, which writes the text in one piece over whatever another
program has written meanwhile (`Overlay`), and `Load` reads it. The handler of a signal
that comes in between ends in `exit`, which writes the lines printed so far.

The text matters where two backups write at once. An address takes 16 characters with its
tab, a count as many as it has digits (`%lld`), so `Ends` says how far a text reaches and
`Overlay` what of an older one stays behind it: whole lines, and of one line all but the
first `cut` characters. `Load` reads tokens as `load_usage_from_file` does. While a
digit of the first number is left the line counts for the address that remains
(`Readable`, `Address`, `Shorter`); with less than that, the token is no address, the
digits that are left of the count go to `last_backup` (`Stray`), and the last such number
is the time that the kernel checks (`Stamps`); 0 is not checked.

A query buffer holds `Cap` blocks. The library looks for the index of the next request
in the buffer that the answer has overwritten, shifted by one byte (`NextIndex`); so a
query of more addresses than fit either fails or returns the total with blocks that were
never filled in, which name 0.0.0.0. Of a set that needs several buffers the kernel takes
the first (`Taken`).

Abstractions: one quota of the type with a counter per address, without history; a
file fits in one stdio buffer, and the printing of a line is one step as far as signals
go, so that `exit` writes whole lines; numbers are of base `Radix` with up to `MaxDigits`
digits; addresses are read by uClibc's `inet_aton`, which takes four numbers with three
dots and nothing else; the clock is monotone and the timezone fixed;
saturation of a 64-bit counter is left out; `ignore_backup_at_next_restore` is not
set; `/tmp/quota_init.lock` keeps two restores apart; the initial state is after the
first start of the firewall, without a backup file. `"print"` is a job of the module
which the instance leaves out: it is a backup without the file.

### VbootImage

A header is a record of the words that the code reads from it and `reads` is the set of
ranges that the last step touched. `Init` chooses an image that the tool made, for all
algorithms of the three keys, or any header words whatever from `Fields`. `Verify` runs in
seven steps, `KeyBlockSignature` to `VerifyBody`, each with the checks of the code in
their order; sums are computed modulo the word (`Add`). Whether a signature in a
foreign image is good is a choice; in an image the tool made it is good if it is over
the header that the file holds, which makes "the signature is written into a copy
before the header is complete" a mistake that the model can make. `hash_only` is
`KeyBlockRead`, which checks a checksum instead of a signature. A key file given by
the user is taken as well-formed.

### TreeMap

The tree is kept as in memory. A node is known by its key, which never changes, and a
place (`RootPlace`, or a node and a side) is the address of a pointer, what `node_ptr` holds
in the code. An insertion and a removal are one action each: walk down (`Path`), remember
the places (`Stack`), change the tree, and climb back through the remembered places
(`Climb`), rotating what is stored in them. The removal puts the smallest node on the
right in the place of the removed one (`TakeOut`), and the place below it on the stack is
the one in that node. A node that was freed is `Free`, so a leak and a use after free show
in `NothingLost`. What setting and removing return is what `get_long_map_element` finds,
which `ActsAsMap` is about. `Hash` is a constant; strings are told apart by their hash alone, as
in the code. The string map's own copy of `num_elements` is taken anew by each operation
and left out.

## 3. Runs

| run | what it shows | states |
|---|---|---|
| `onlined_timed` | back-off, error count and reporting times are bounded; a correction is sent until heard; inductive invariant | 18 800 |
| `fonstated` | refinement of `FonDispatch`, at most once, client order, own script only; delivery with a socket for one datagram, no circular wait | 90 000 |
| `fononline` | the two published states and the hotspot agree between scripts, and the router settles in the state of the network | 912 000 |
| `luad` | the pid file names the one daemon unless start-ups or a removal met; the daemon always comes back, unless `fonstated` hangs after a killed restart has lost the crontab line | 565 000 |
| `qosmon` | limits in range and enforced, link usable, restored on exit; the controller ends up running if pings are answered; inductive invariant | 331 000 |
| `bwctl` | the semaphore is accounted for, nobody is charged for more than was used unless a line stood under a time not its own or a part of a line was read, nobody waits for ever | 2 414 000 (up to symmetry of the two backups) |
| `vboot` | no read outside the file, accepted means signed, what the tool makes is accepted, parts do not overlap; inductive invariant | 1 500 000 |
| `treemap` | all trees over twelve keys: balances are true, no node is lost, every key is found, each operation does to the tree what it would do to a set of pairs | 89 000 |

Violations, each of a sentence in the code (quoted in `PROJECT.json`, "findings"):

| run | the sentence | what happens |
|---|---|---|
| `fononline_overlap` | fon.lua:37 "do not run if we are already online" | killed daemon, two scripts at once, both pass the test |
| `qosmon_measure` | qosmon.c:993 "Unload the link for the measurement" | after a reset in INIT nothing is sent to the kernel |
| `luad_twice` | luad.c:258 "Check that the daemon is not run twice a the same time" | a start-up that finds the file in its way removes it; a third finds none |
| `bwctl_stale` | the patch, line 8142, "If it's nonzero (0=ignore) and invalid, return" | a backup read before the end of an interval and stamped after it is valid, and charged to the next |

Also seen, and not kept as runs:

* An Offline that is executed after a later probe succeeded leaves the prober
  offline with the delay of the online state (online.c:127), although line 36 says
  "While offline, check every second".
* After a reset `qosmon` counts pongs from before it (line 981), so it does not "wait
  to see if the ping targer will respond" (line 976).
* With `-a`, repeated measurements of `qosmon` accumulate in the ping limit: line 1019
  adds the user's value to what line 1018 calls "the 110%", and the sum is the start of
  the next measurement.
* The measurement of `qosmon` counts pongs, not seconds (line 1011, against "After 15
  seconds" on line 1009): a target that falls silent leaves the link throttled.
* If the kernel refuses the change on line 1013, `dbw_ul` has the new rate already
  (line 569), later calls return at once and the link stays throttled: `LinkUsable`
  fails with `Refusals = TRUE`, so its theorem needs that assumption.
* The comment on line 7161 of the patch says that new data is ignored until a set is
  complete. The rule's id is compared with `set_id`, which nobody writes: packets count
  during a set.
* `config.sh`, line 629, says that "StartFonsmcd also stops it if wifi or sharing is
  disabled". It does, but the timer of `fonstated`, `fcheck.sh` and a start-up under way do
  not ask for the setting and start the daemon again.
* `StartFonsmcd`, line 11, while cron is in `fcheck.sh`, line 27: the killed restart has run
  `crontab -r` (fonsmcd.init, line 66) and never comes to line 61. The crontab line is gone
  until something runs the script's start again, which the timer of `fonstated` does; if
  `fonstated` hangs as well (sys.c, line 38), the daemon stays down. `Recovers` leaves this
  out by name (`hung /\ cut`), and it is the one place where the run stops.
* Two backups at once whose counts have different lengths: where the shorter text ends
  inside a line of the longer one, a restore reads 1.0.0.1 for 111.0.0.1, or takes the last
  digits of a count for the time of the backup. With a 0 the kernel accepts the old
  interval's use though no time was late (ipt_bwctl.c, lines 896 and 1021). The history
  variable `garbled` marks both, and both are in the run `bwctl`: without this exception
  TLC charges 111.0.0.1's use to 1.0.0.1, and one interval's use to the next through a
  stray 0 under a time that was not late.
* Two strings of one hash are one element of a `string_map`; the string is kept and not
  compared (`ActsAsMap` states the map by hash).
* `get_priority_queue_element_with_id` frees the node that it leaves in the queue; no
  program of the repository uses the priority queue.

One more decides what is stated: two overlapping scripts can leave the file
saying Online and the UCI state offline. `onlined` is then content, nobody resends, and
the hotspot stays down until the next outage. `FonOnline.cfg` allows kills in the middle
of a script (`KillsMidScript = TRUE`) and the history variable `overlap` records that two
scripts met: `StatesAgree`, `HotspotFollows`, `ConvergesOnline` and `ConvergesOffline` are
stated for behaviours in which they do not. In the same way `raced` (`Luad`) and `late`
(`BwCtl`) mark the behaviours of `luad_twice` and `bwctl_stale`, `garbled` those in which
part of a line was read, and
`FileNamesDaemon` and `ChargedUnlessLateOrCut` say that nothing else breaks the property.

### Bounds

* `Onlined`: intervals are scaled down (60 s becomes 4 to 6) with the order of the
  code kept: error interval below online interval, several doublings before the
  maximum. The proofs cover all values.
* `FonStated`: three clients cover two commands of one client, a client run by a
  script and an unrelated one; `MaxStarts = 2` is one restart, which is what a stale
  connection, an orphaned script and a lost queue need. `SockCap = 1` makes every
  second send block.
* `FonOnline`: `MaxPending = 2` lets an old command overtake a newer one (the
  prober waits when two are under way, which real time makes it do: at most one
  command per second); `MaxFaults = 2` is a kill and a restart or two of either.
* `Luad`: one daemon, since two share only the actors; two pids, the least for two
  processes at once or a recycled pid, so that a start-up may find none free; two
  faults, among them the late answers, changes of the setting, crashes, foreign
  processes and a hang.
* `QosMon`: three levels (minimum, fair, full), loads on both sides of the 10%, 15%
  and 85% thresholds, three pongs to end a measurement, one change of the class
  structure at any time, one late pong.
* `BwCtl`: two backups and one restore, each run once; two addresses, one with the other
  inside its text (1.0.0.1 and 111.0.0.1), the second with packets of four bytes, so that
  its count has three binary digits where the first has one and texts of different
  length meet; a clock of 0 to 3 that crosses the end of an interval (at 2); one packet
  per address and interval (`MaxUsed`); one kill, signal or reboot; two rounds of waiting
  for the semaphore. The two backups are symmetric. The buffer holds both addresses
  (`Cap = 2`), so that the kernel also takes what is left of an older text; that
  addresses do not fit is in `bwctl_stale` (`Cap = 1`) and in the theorems, which hold for
  every `Cap`.
* `VbootImage`: words of five bits, so that sums wrap; header fields of 0, 1, a few sizes
  around the structures and the largest word; two algorithms of different lengths.
* `TreeMap`: twelve keys, the least number with which one removal rotates at two levels,
  and one string whose hash is that of another.

Deadlock checking is off where the bounds or the program make the model stop (no
more starts, clients done, terminated, image accepted or rejected); in `BwCtl`
`NeverBlocks` says in its place that a program in the middle of a call can always go on,
and in `Luad` the only state without a next step is the one of section 3, with `fonstated`
hung and the crontab line lost.

### Fairness

Weak fairness, with one exception. `onlined`'s loop sleeps in `poll` with a timeout, hands
commands to a process that detaches, and its lookup is bounded by the resolver.
`fonstated` blocks only on its child; that scripts end is an assumption. Clients are
scheduled by the kernel. A killed daemon is started again because `restart` is how it
is killed. `qosmon`'s `select` has a timeout. In `Luad` scripts and daemons go on, signals
to daemons arrive, and the timer and cron come round. The exception is strong fairness
of a daemon's creation of its file and its start of Lua: a start-up takes a moment and
one begins every 12 seconds, while the restart that could disturb it comes every 15
minutes and cannot meet all of them. Nothing is assumed of the network, of users, of
kills, of foreign processes or of rebuilds; `SettlesRunning` carries its assumption
(pings are answered) in its statement.

## 4. Proofs

All proofs are checked by TLAPS without any unproved statement.

**OnlineProofs, the prober**, for all positive intervals such that doubling from the minimum
meets the maximum (`DoublingMeetsMax`; true of 1 and 64):
`TypeCorrect`, `BackoffBoundedHolds`, `OfflineNeedsErrorsHolds`, `OutageReportedHolds`,
`RecoveryReportedHolds`. The bounds on reporting time are not inductive: how late the
daemon may be depends on the delay that is left. `IndInv` states that time overdue
plus the delay left plus the retries left stay within the bound, that a pending
Offline means a full count, and that the count never exceeds the failures in a row.

**FonDispatchProofs**, for all sets of sources and fast commands:
`AtMostOnceHolds` and `SourceOrderHolds`. Order among commands that ran needs order
among those that wait, and that those that ran come before those of their class
that wait (`RanBeforeWaiting`); fast commands leave from the middle of the queue,
boot jobs enter in the middle, and `BootNotFast` is why the two do not collide.

**FonStatedProofs**, for any clients, boot jobs, events, timers, socket size and number of
restarts: `TypeCorrect`, `OwnScriptHolds`, and `Refinement` (`ImplementsDispatch`). The
inductive invariant `StatedInv` says that a daemon that does not listen holds nothing
(`OffInv`, which makes a kill and a start-up map to a crash and a stutter); that a job
carries its own command line, is never of a fast event, and is a boot job as long as the
boot phase lasts (`QueueInv`, which puts boot jobs ahead of datagrams); that all programs of
one call belong to one command (`StepsInv`, so that only the first of them is a start); and
that the datagrams and the programs left behind are of commands somebody sent. Each
action has one lemma for the invariant and one that maps it to a step of the dispatcher
or to a stutter; the lemmas on sequences that begin the module are about the queue followed
by the socket buffer. `DaemonAtMostOnce` and `DaemonClientOrder` then follow from the
theorems of `FonDispatchProofs`, instantiated with the refinement mapping. The assumption
that a client has at least one `-l` option is that of `main.c`: without one nothing
is sent.

**OnlineProofs, the scripts**, for all intervals of the prober and all bounds on commands and faults:
`FTypeCorrect`, `StatesAgreeHolds` and `HotspotFollowsHolds`. The two properties speak of the
moments between scripts and are not inductive; `OnlineInv` adds what a script has found
and done at each of its stages (`StageInv`: the file is empty between truncation and
writing, the UCI state changes after the file, the hotspot last), and that until an
overlap is on record a second script has not gone beyond its first step (`ScriptsInv`).
Of the prober it needs that the delay is positive before a sleep. `NeverOverlaps` and
`RunsOnlyOnChangeHolds` complete the finding of `fononline_overlap`: without a kill in the
middle of a script no two scripts meet, and the comment in `fon.lua` is right.

**QosMonProofs**, for every link, all levels in the dynamic range, loads, trip times
and numbers of class changes: `QTypeCorrect`, `LimitEnforcedHolds`, and, if the kernel
refuses no change, `LinkUsableHolds` and `ExitRestoresHolds`. The last two depend on
calls that do nothing because `dbw_ul` has the rate already; the invariant that makes
this harmless is that the kernel's limit is `dbw_ul` or the link's speed (`QIndInv`).
The assumption is needed (section 3). `MeasuresUnloadedHolds` completes the finding of
`qosmon_measure`: if the classes never change (and nothing is refused) every measurement
finds the link throttled, because CHK is then only the state of the start (`StillInv`).
`MeasurementLength` says that the 16-bit count of answers neither cuts the measurement short
nor prolongs it: within it the count never passes the end by more than one (`CountInv`).

**LuadProofs**, for any number of daemons, pids and faults: `TypeCorrect` and
`OneDaemonOnRecord` (`FileNamesDaemon`). The invariant needs, beside it, `StartsAlone`: as
long as no two start-ups met, no process fails to create its pid file, and the file is
empty or absent when a process on its way there arrives. Scripts are any sequences of commands.

**VbootProofs**, for every word size, layout of the headers that `VbootAssumption` allows and
set of algorithms: `NoReadOutside` and `AcceptedWasSigned` from `VInv`, which keeps at each
step what the checks before it established of the headers read so far, in unbounded
arithmetic; the lemma on `VerifyMemberInside` says that its tests for wraparound are
enough to conclude this from sums modulo the word. `MadePartsApart` and
`MadeImagesAccepted` cover the tool: `MadeFits` states each check of `Verify` of the headers
that the tool computes (with the converse lemma on `VerifyMemberInside`, `FitsInside`), and
`MadeProgress` that each step hands exactly these headers to the next one.

**BwCtlProofs**, for any number of programs, addresses and faults: `SemaphoreAccounted`, by
an invariant that ties the semaphore's value to who is where in a call and to the units
that were lost with a killed holder or given back by a handler that held none; and,
for every period and reset time, every `Cap` and every width of numbers and addresses,
`ChargedForUse` (`ChargedUnlessLateOrCut`). There each line of a program's data and
of the file carries, as history, the interval it was read in. The invariant `CInv` says
that no counter exceeds the use in the current interval, that no line does that was read
in that interval, that a stamp belongs to the interval of its lines and what a restore
has read as a line is whole, as long as nothing was late or garbled (`ChargeInv`); that an
unstamped file is empty (`StampInv`); and that the end of the interval is never past the
one of the present time (`DataInv`). About the text it needs only that `Overlay` is the
new lines followed by old ones, each as it was but for `cut` (`OverlayLines`), and that a
restore that met no part of a line takes the time from the beginning of the file
(`WholeStamps`). Two lemmas on the arithmetic of intervals, that the end lies after the
time (`ResetLater`) and grows with it (`ResetMonotone`), make the comparison of ends
in the kernel mean "the same interval". Two theorems say what it takes to go wrong.
`ChargedWithinInterval`: as long as the clock stays in one interval a late time does no
harm, and only the reading of part of a line does. `ChargedOneBackup`: if no two
programs back up, no restore reads part of a line, since the file is empty between the
opening and the writing (`WholeInv`), and only a late time does harm.
`NeverStuck` is the part of `NeverBlocks` without ENABLED: a running program finds
the guard `CanGo` of its next step true, for which an address it looks for has to exist (the
least and greatest elements of sets of numbers, `LeastNatural` and `GreatestNatural`).
`ProgramsEnd` gives a bound on the steps a program has left, which each of its steps lowers
and only a start or a signal raises.

**TreeMapProofs**, for any finite set of names, any hash and any sequence of operations:
`TreeBalanced`, `TreeWhole` and `TreeActsAsMap` (the properties `Balanced`, `NothingLost`,
`ActsAsMap`) and `DestroyedEmpty`. All follow from `TreeStaysWell`, whose invariant `TreeInv`
says without recursion that a tree is well: there are a set of nodes in use, for each of
them the set of the nodes below it and a height, and they fit (`Good`): each node is stored
in one place, smaller keys are below it on the left and larger ones on the right, and its
balance is the difference of the heights, at most one. The argument follows the code from
the inside out. A rotation keeps the order, and the balances that `LowerSide` writes are
those of the new heights (`TurnShape`, `OnceMends`, `TwiceMends`, `LowerSideMends`).
`RebalanceMends`: a place whose subtree has grown or shrunk by one is level again after
`rebalance`, with its height kept or changed by one, and the balance of the node there says
which of the two. That is the test with which `Climb` stops, so that each pass leaves one
place less to mend and the end of the loop leaves none (`ClimbPass`, `ClimbWell`). A search
leads to the only place where a key can be (`PathLeads`, `DownWell`). The removal of a node with
two children is the hard case: places on the stack change meaning, since the one below the
removed node is now in its successor (`MovedShape`, `RestJoins`). `SetWell`, `RemoveWell` and
`EmptiedWell` put these together, and `HeightIs` and `InOrderSorted` say what the walks in
the properties compute. The walks and loops are recursive functions. That such a function
satisfies its equation (`WFInductiveDef` in the library) cannot be cited here, nor can an
induction theorem; the lemmas at the beginning of the module derive both from the existence
of a least counterexample.

**Only model-checked**: everything temporal under fairness (`RepeatsUntilHeard`,
`DeliveredUnlessKilled`, `ConvergesOnline`, `ConvergesOffline`, `SettlesRunning`, `Recovers`) and
that part of `NeverBlocks` which is stated with ENABLED (the guards `CanGo` are those of the
actions) are out of the prover's reach. Every other invariant of the runs, and the
refinement, is a theorem.

## 5. Not modelled

* The window between the pid file and the socket at the daemon's start, as the
  hotplug script `10-wanport` sees it (the lost command is in the model, the test of
  the pid file is not); empty datagrams; the lengths of names and paths.
* The process table of `ps.c`: the shipped configuration never reaches it (section 2,
  `Luad`).
* The plugins of `fonstated`, which touch none of the modelled state; `supd`, a sequential
  poll of a server, except as a daemon under `luad`.
* `onlined` restarted again and again resets its error count each time, so that
  Offline may be postponed; the time bounds are per incarnation of the daemon.
* Of the bandwidth match: histories and their files, intervals of calendar length, shifts
  of clock and timezone; the set of a history larger than a buffer, whose loop in the
  library would not end.
* Boot-time selection, kernel images and cgpt of `vboot_utils`, which are vendored and not
  installed; its rollback index, which is compiled with `DISABLE_ROLLBACK_TPM` (Makefile,
  line 206) to empty functions. RSA and SHA themselves.
* Of the usage file: an `exit` or a full stdio buffer of 4096 bytes that writes part of a
  line.
* In `Luad`, a `fonstated` restarted while its timer runs the script of the hotspot daemon.
* The vendored LuCI, its TLS and curses libraries, page rendering, build recipes: most of
  the repository's lines, and third-party code without state of this system.
* The priority queue, lists, strings and files of `libericstools`.
* The other components of section 1, for the reasons given in `PROJECT.json`.

The definitions in a module called "Mutant" are plausible mistakes in the definition
that follows them; with one put in its place the property named beside it in
`PROJECT.json` fails, which shows that the property depends on that code.

## 6. Plan

1. (done) prober; dispatcher and daemon; composition; `qosmon`.
2. (done) `Luad`: supervisor, pid files, watchdog timer, cron, service registry.
3. (done) `BwCtl`: semaphore, backups and intervals of the quotas, with a crash of the
   holder. (done) `VbootImage`.
4. (done) proofs: `FonStated => FonDispatch` step by step, hence at-most-once and order
   for the daemon for every set of clients; the safety of `FonOnline`; the images that the
   tool makes.
5. Hotspot with `restart`, `changed`, the triggers of `fonsmcd` and users.
6. `openwisp-firmware`: fetch, test, fall back; convergence to a reachable configuration.
7. (done) the maps of `libericstools`.
