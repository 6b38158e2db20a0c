# TLA+ verification of MiniEAP (SYSU)

MiniEAP is an 802.1X (EAPoL, EAP-MD5) client in C. One process, one thread: a
blocking capture loop delivers frames to the state machine, and a SIGALRM
handler runs everything that waits for time. The rjv3 packet plugin adds the
private fields, the second authentication after DHCP and the heartbeat of Ruijie
servers. The modules here model the client: its control, the interrupts, the
process and its PID file, the interface drivers, and the algorithms on bytes. TLC
checks small instances; TLAPS proves the main invariants for every value of the
constants.

    tlc -workers 2 -config EapCore.cfg EapStateMachine
    tlapm SupplicantProofs.tla

## Inventory

| part | source | state | operations | with whom |
|---|---|---|---|---|
| state machine | `eap_state_machine.c` | `state`, `auth_round`, `fail_count`, `server_mac`, `last_recv_frame` | `recv_handler`, `switch_to_state` and the `trans_to_*`, `restart_auth` | calls plugins, builder, interface, scheduler |
| alarm scheduler | `util/sched_alarm.c`, `util/linkedlist.c` | two event lists, last id, `g_ringing`, `g_last_set_time`, the kernel timer | `schedule_alarm`, `unschedule_alarm`, `alarm_sig_handler` | runs callbacks of the machine and the plugin inside SIGALRM |
| rjv3 session control | `packet_plugin_rjv3.c`, `..._keepalive.c`, part of `..._priv.c` | success and DHCP counters, two frame pointers, echo key, heartbeat id | `on_frame_received`, `rjv3_start_secondary_auth`, `rjv3_send_keepalive_timed` | calls `switch_to_state` and the scheduler |
| rjv3 private fields | `..._priv.c`, `..._prop.c` | property lists | append, modify, serialise, parse | reads `last_recv_packet` when a frame is prepared |
| plugin dispatch | `packet_plugin.c` | list of active plugins | the `packet_plugin_*` loops | between machine and plugins |
| packet builder | `packet_builder.c` | one shared frame under construction | setters, `build_packet` | machine, and heartbeats from SIGALRM |
| PID lock | `util/pid_lock.c` | descriptor, file, `flock` | init, lock, save, destroy | other processes |
| life cycle | `minieap.c`, `util/misc.c` | - | `main`, `exit_handler`, `signal_handler`, `go_background` | initialises and tears down all parts |
| configuration | `config.c`, `util/conf_parser.c` | `PROG_CONFIG`, parsed pairs | defaults, parse, validate, save | all parts read it |
| interface drivers | `if_impl/*` | socket or pcap handle, `stop_flag` | `prepare_interface`, `start_capture`, `stop_capture`, `send_frame` | deliver frames to `recv_handler` |
| network information | `util/net_util.c` | - | addresses, name servers, gateway | the lease and the IPv6 fields |
| hashes | `md5.c`, `rjv3_hashes/` | one context per digest | update, final, `computeV4`, `computePwd`, CRC, scrambling | builder, rjv3 fields |
| conversion | `util/gbconv.c`, part of `util/misc.c` | - | `gbconv8` | the server's messages |
| output | `util/logging.c`, printer plugin | - | text | - |

What is hard here:

- *SIGALRM against the main flow.* The handler may run between any two
  statements of the capture loop, and its callbacks change the state machine,
  the plugin, the shared packet builder and the scheduler's own lists.
- *One timer for many events.* Every `schedule_alarm` stops and restarts the
  kernel timer; the bookkeeping that ages events must agree with real time.
- *Nested transitions.* `process_success` and the plugin call `switch_to_state`
  inside `switch_to_state`; the outer call assigns the state last.
- *Alarms that outlive their reason.* Restart, heartbeat and DHCP alarms are
  rarely cancelled, while frames arrive in any order, repeat or get lost.
- *Pointers across components.* The plugin keeps a pointer to a frame the state
  machine frees.
- *Processes around one file.* Lock, name and content of the PID file change at
  different moments, and instances kill each other or crash.
- *Bytes at the edge.* Padding, signed bytes printed as hexadecimal, lengths
  counted twice, lines longer than the parser's buffer.

What makes each part correct: the scheduler runs each event once, not early, not
never, and not after cancellation; the machine always has a way out of FAILURE
and counts rounds and failures within their limits; the plugin keeps an online
session alive with the right key; together they
send what the state says and never use a freed frame. A driver hands frames over
in order and at most once. An instance that runs holds its lock. The algorithms
compute what their standards, their readers or the next start expect.

## Modules

Every variable that stands for a C variable has its name, and so has every
operator that stands for a C function. An action is one activation of the code,
or the code up to the next point where another actor can be noticed.

**SchedAlarm** (`util/sched_alarm.c`). The lists are sets of `ALARM_EVENT`
records; `schedule_alarm` outside the handler is split at its timer accesses:
`ScheduleStop` (`alarm(0)`), `ScheduleArm` (`alarm(time)`), `ScheduleRecord`
(`g_last_set_time`), `ScheduleInsert`. The handler is `RingStart` (age all
events), `FireSingle` ... `CallbackReturn` for every due event, `RingEnd` (clean
up, append, re-arm). Callbacks schedule and cancel through `CallbackSchedule` and
`CallbackUnschedule`. `Tick` is one second of real time and drives `os_timer`,
the kernel's timer. The history field `owed` counts down the delay an event was
given. `Races` selects which timing hazards may happen. The order in which the
due events of one ring run is left open.

**TimerService** is what `sched_alarm.h` promises its callers, without lists, rings
or a kernel timer: every call hands out a new id, and the `func` of an event is
called once, with no other one running, and not before its `secs` have passed,
unless the event was cancelled in time. Nothing else ends its waiting. `SchedAlarm`
instances it WITH a refinement mapping (`ServiceRefined`): `Waiting` takes the
events out of both lists and out of the call in progress, except those that are
only there to be cleaned up; a cancellation that comes too late, and all the work
on the lists and the timer, are stutters. `Early` is `"stall" \in Races`.

**EapStateMachine** (`eap_state_machine.c`). One action per kind of frame, per
alarm and per call from outside. `Send` is "build, prepare, send": it succeeds
and the state is assigned, or `switch_to_state` exits. `LastRound` and
`NextRound` are the two branches of `process_success`, with the state SUCCESS
assigned after the nested switches. `ForcedOffline` and `AuthFailed` are the
branches of `process_failure`. `restarts` counts pending `restart_auth` alarms.
The watchdog has no action because nothing arms it. `streak` is a history
variable: failures in a row.

**Rjv3Plugin** (`packet_plugin_rjv3.c`, `..._priv.c`, `..._keepalive.c`). A
Success frame is abstracted to the echo key it offers, or none. `keepalives` is
the set of ids of the pending heartbeats and `g_keepalive_alarm_id` the one id the
code keeps; `secondaries` counts the polls for a lease. `NewId` is an id the
scheduler hands out: any that no alarm and no variable has, so the first heartbeat
of a session, whose id nobody keeps, is in `keepalives` only. `LeaseReady`, `LeaseMissing` and `LeaseGivenUp`
are the branches of `rjv3_start_secondary_auth`, with the DHCP lease an input. A
NULL `duplicated_packet` that is dereferenced sets `crashed`.

**Supplicant** instances the two components over shared constants and joins their
actions where the code calls from one into the other: the plugin sees a frame
before the machine reacts, `rjv3_start_secondary_auth` calls
`switch_to_state(START_SENT)`, a crash ends the process.

**Capture** is the abstract promise of an `IF_IMPL`: the handler gets the frames
of the interface one at a time, in order and at most once, none before the
capture starts, none once it was told to stop. Only a driver that reads in
batches may skip frames.

**IfImpl** (`if_impl/*`, `init_if` of `minieap.c`) has the three drivers with
their operations and capture loops: `sockraw` tests `stop_flag` after the read,
libpcap leaves `pcap_loop` on a break, bpf handles the first frame of what a read
returns. It instances `Capture` WITH a refinement mapping (`CaptureRefined`).
Nothing in the code calls `stop_capture` today; it is an operation of the
interface all the same.

**Interrupts** EXTENDS `IfImpl` and puts `recv_handler` into its capture loop, in
steps of one access to what the main flow shares with the alarms: the copy of the
frame and the plugin's pointer to it, the fields of the packet builder, the
static results of `ComputeHash` and `computeV4`, and the linked list of alarms
with its nodes. The plugin's part of an answer is four steps: `set_pwd_hash` and
`set_v3_hash` each read the request and leave a hash in a static buffer, and
`copy_hash` takes it from there after each.
`send_keepalive_timed(n)` and `restart_auth(n)` are what SIGALRM runs between any
two of these steps. The handler itself is not interrupted (the signal is
blocked); several due events are several rings in a row. Freed memory is not
handed out again: a use of it is a `fault` and the model stops there. There is
one authentication round, DHCP after it or none, and a Success frame carries an
echo key.

**LifeCycle** (`minieap.c`, `util/pid_lock.c`) has several instances from `main`
to `exit_handler`. A lock belongs to a file, not to its name; `path` says which
file the name stands for, `pid_text` what a file holds. `Signal` is SIGTERM or
SIGINT, `Crash` an end without `exit_handler`, `AlarmInExit` a SIGALRM while
`exit_handler` has freed a driver and not yet stopped the scheduler. The fork of
`go_background` keeps the lock with the child, so it is not a step of its own.

**RjHashes** (`md5.c`, `rjv3_hashes/`). The buffering and padding of MD5 (both
implementations), SHA-1, Tiger, Whirlpool and RIPEMD-128, fed with the same
chunks; compressing a block is a free constructor, so that two digests are equal
when the same blocks were compressed in the same order.

**RjChallenge** (`checkV4.c`). `computeV4` with the variant its signed sum chooses
and the position of every byte in `wtmp[160]`, and the signed reading of a byte
that `sprintf` prints; `computePwd` as the writes into `tmp[40]`, one behind the
other, with junk in it at first and the bytes that spill over. **RjCrc** (`rjcrc16.c`, `rjencode.c`, `bit_reverse`) has the CRC with its
table and the scrambling on real bytes.

**Rjv3Props** (`packet_plugin_rjv3_prop.c`, `..._priv.c`, `--rj-option` in
`packet_plugin_rjv3.c`). The property lists, the trailer `rjv3_append_priv` builds
and the reading of a server's message, on buffers with the real headers.

**Config** (`config.c`, `util/conf_parser.c`, `init_cfg`, `packet_plugin.c`). A
step is a start of the program: defaults, file, command line, validation, and the
file is written if `--save` was given; `StartRefused` is a start whose last option lacks
its argument (a plugin's option without one ends the program the same way, only
later). Texts are character codes, so that
trimming, `strndup`, `atoi`, `my_itoa` and the splitting of long lines are those
of the code.

**GbConv** (`gbconv.c`, `pr_info_gbk`) converts messages byte by byte, with the
real index computation and eight entries of the table. **NetInfo**
(`net_util.c` and its callers) computes the host's fields from the tables the
system reports, with the calls that fail. `recv` fills the one buffer
(`NL_BUFSIZE`, in halves of a route) with the datagrams a `Kernel` cuts the routes
into, and ends at the marker, at an error or with nothing more to come. **Lists** is what `NetInfo` and `Config`
share: the loop over a table that adds the entries that pass a test to a linked
list (`insert_data` of `linkedlist.c`).

**MCData** puts the seven data modules side by side: a behaviour takes one of them
through all its inputs. **MCLife** adds the symmetry of the instances.
**...Proofs** hold the theorems of the module they extend, **InterruptsProofs** also
those of `IfImpl`; **HashProofs** those of `RjHashes` and `RjChallenge`,
**DataProofs** those of `GbConv`, `Rjv3Props`, `NetInfo` and `Config`.

## Runs

| run | result | shows |
|---|---|---|
| sched_core | pass | delays 1..3, four calls, no hazard: the timer always runs for the nearest event; cancelled events do not fire |
| sched_live | pass | with "expiry", "slow" and "rounding": nothing fires early, every event is run or cancelled; the scheduler implements `TimerService` |
| eap_core | pass | two rounds, limit of three failures, three pending restarts: the four invariants, and FAILURE is left |
| eap_max_failures | violation | failures in a row do not add up to the limit |
| rjv3_second_auth | violation | the second authentication starts without the lease it has waited for |
| client_double | pass | double authentication: an online client is kept alive, the Success counter stays below 2, polling ends |
| client_live | pass | one-pass authentication: heartbeats follow, with the last key, and with none after a failure |
| client_stale_read | violation | an EAPOL-Start is prepared from a freed frame |
| client_null_copy | violation | two DHCP chains, one copied frame: NULL dereference |
| interrupts | pass | SIGALRM anywhere in `recv_handler`: what it takes to damage an answer, a frame or the list; the drivers implement `Capture` |
| life | pass | three instances around one PID file, with `-k`, signals and crashes |
| data | pass | the algorithms against reference definitions |

The properties of client_double, client_live, interrupts, life and data, in short:

- `OnlineHasHeartbeat`, `PollingEnds`: nothing the plugin cancels takes the last
  heartbeat of an online client, and no chain of polls goes on for ever, those a
  reset has left pending included, unless one session after the other is reset.
  `PluginTypeOK`: a repeated Success counts, but never to 2. `HeartbeatFollows`,
  `HeartbeatUsesLastKey`, `OfflineHeartbeatIsEmpty`: whatever chains earlier
  sessions have left, an online session sends its own key, and a heartbeat after a
  failure sends none.
- `AnswerIsWhole`: an answer is right unless an alarm rang while it was built; then
  it may be no EAP packet or go elsewhere, but never carries the identifier,
  digest or password hash of another request. Its V3 hash may be wrong, when
  `restart_auth` rang between the last read of the request and the copy of that
  hash, and only then. `FrameFaultNeedsRestart`: no sequence of
  frames and heartbeats makes the main flow use a freed frame; `restart_auth` in
  the middle does. `HandlerSeesWholeList`: the handler finds a list of allocated
  nodes wherever it interrupts `insert_data` or `remove_data`.
  `ListDamageNeedsRing`: events are lost, and freed nodes touched, only when an
  alarm rings while the main flow holds a pointer into the list. All of these
  faults are reachable in the run (a frame fault, a list fault, a lost event, a
  misdirected answer).
- `OneInstancePerFile`, `NoStalePidFile`, `AlarmsEndBeforeLock`: without `-k 1`
  no two instances run on the same file, the last orderly exit leaves no file,
  and an instance that an alarm can still bring down in `exit_handler` has its
  lock. "The same file" is essential; see the observations.
- `DigestIsOfWholeMessage`: however a message is cut into updates, each of the six
  implementations compresses the blocks of its standard.
- `WholeChallengeHashed`, `V4BufferBounds`: every byte of the challenge reaches
  the digest, and nothing that was not written; the first variant of `computeV4`
  loses bytes with any byte above 0x7f, and writes behind `wtmp` with exactly
  those challenges that have more than ten. `OnlyPasswordMasks`: of what was in
  `tmp` when the password came, nothing is left in the mask, and `tmp` overflows
  for exactly the lengths given. `ScramblingInverts`,
  `HeaderCrcIsSound`: three spellings of one scrambling agree, and the receiver of
  a header finds its CRC right.
- `TrailerHoldsEveryProp`, `ServerMessageIsRead`, `OptionsSurviveSave`: what is
  built is what the code's own parser reads, under the conditions the comments
  state.
- `SavedConfigIsReloaded`, `CmdlineOverridesFile`, `SavingSettles`: the help text
  of `--save` and the precedence, with the exceptions the code has.
- `MessageIsShownWhole`, `TableReadInBounds`: any bytes become well-formed UTF-8
  inside the buffer. `HostFieldsAreOwn`: however the routes are cut, and wherever
  the buffer cuts them, the lease and the IPv6 fields are made of this interface's
  values. There is a lease whenever the host has one and its routes fit the
  buffer; only routes that do not fit can hang the client; and the tables are
  named on which the program follows a pointer that is not there.

Bounds. `MaxId` = 3 or 4 calls of `schedule_alarm` let an event be scheduled
before, during and after a ring and be cancelled in each phase; `INT_MAX` = 5
exceeds every delay and is reached by idle time. `MaxRestarts`, `MaxAlarms` and
`MaxSucc` = 1..3 allow two chains of the same kind, which is what the interesting
interactions need: one chain is the normal case and two show overlap; `AlarmId`
has two ids for such chains and one for the id that is kept. Two keys
tell an old key from a new one. `cfg_auth_round` = 2 has a first and a last
round. In `interrupts`, three frames are a Success (heartbeat), a Failure
(restart) and the request that is interrupted; four nodes let a new event be
linked behind one that is removed at the same time; with no node left the main
flow waits in `find`. Three instances are what the PID file needs: one that runs,
one that removes the name, one that comes anew. Messages of up to 135 bytes in
chunks around 55, 64 and 73 cross every padding limit twice. Two `--rj-options`,
two server properties, two arguments per start and two starts cover replacement
and repetition; the values are chosen at the limits (a path that just fits into a
line, a padded and an overlong text, a negative number). Challenges have 0 to 16
bytes above 0x7f and sums of both signs, so that all five variants and the spill
are met; names and passwords have up to 40 bytes, one more than `tmp` can take.
Two routes fit into the buffer of `data` (`NL_BUFSIZE` = 5) and three do not. When a bound is reached
the action that needs one more is disabled, which only cuts behaviours off; the
theorems hold for all bounds.

Fairness. Time passes and a raised signal is delivered (`WF` of `Tick`,
`RingStart` and the handler's steps); calls return. In the machine and the client
pending alarms ring, which is what `EveryEventSettles` shows of the scheduler for
positive delays. Frames need not arrive, and nobody is obliged to schedule.

Deadlock is not checked where the system may stop: a crashed plugin
(`rjv3_second_auth`), instances that have all ended (`life`), inputs used up (`data`).

### What the violations say

1. `restart_auth` calls `eap_state_machine_reset`, which clears `fail_count`:
   `--max-fail` above 1 never ends a client whose failures are a restart apart.
2. With DHCP late, the second authentication's EAPOL-Start is prepared from
   `last_recv_packet`, freed by the end of the first one.
3. DHCP polling is not cancelled by a FAILURE or by the second Success. Two
   chains share one copied frame; the later one dereferences NULL.
4. `rjv3_should_fill_dhcp_prop` sends the lease when `succ_count` is at least 2,
   which is for the second of two authentications. But that one begins with
   `succ_count` 1, and its Success sets the count back to 0 in the same call: no
   frame of a double authentication ever carries the lease (`LeaseNeverFilled`
   proves it for every value of the constants).

### Further observations

Met while modelling, and not stated by a run of their own.

Scheduler and state machine:

- `schedule_alarm` with a running timer keeps the timer's remaining time but
  overwrites `g_last_set_time` with it; the other events are later aged by too
  little, so they run later than `sched_alarm.h:7` lets one expect.
- The half of `switch_to_state` that arms the watchdog is commented out: a silent
  server leaves the client waiting; `--stage-timeout` and `--max-retries` have no
  effect.
- The restart alarm of a FAILURE stays pending when the server itself starts the
  next attempt, and restarts the session it has led to.
- `secs` = 0 (`--wait-after-fail 0`) makes `set_alarm(0)` switch the timer off:
  `NearestEventArmed` needs 0 out of `Delay`.
- SIGALRM between `alarm(time)` and `g_last_set_time = time` ages events by a
  stale interval: `NeverEarly` needs "stall" out of `Races`.
- After the EAPOL-Start of a next round the state is SUCCESS, not START_SENT as
  `eap_state_machine.h` has it; a FAILURE then counts as a forced logoff.

Plugin:

- The id of a session's first heartbeat is not recorded. A FAILURE within its
  first second leaves a heartbeat that sends key 0, and every re-authentication
  without a FAILURE adds a chain.
- When DHCP is given up and the frame has no key, the heartbeat starts anyway, as
  it does in a one-pass authentication; `priv.c:495` prints that there will be none.
- A repeated Success passes for the second one of a double authentication: the
  client stops waiting for its lease and starts the heartbeat.
- A chain of DHCP polls that a FAILURE has left behind counts in the same
  `dhcp_count` as the new session's: it gives up sooner than `--max-dhcp-count`
  says (`minieap.1:184`).
- `rjv3_priv.h:105` says of the byte `dhcp_enabled` "dhcp_type == 1"; it is set for
  every type but none (`priv.c:364`).
- Echo key, echo number and destination are set one after another
  (`priv.c:503`): a heartbeat of an earlier session that rings in between mixes
  them once.
- A replacing `--rj-option` of another size is counted twice in the length of the
  trailer.
- `computeV4` in its first variant prints a byte above 0x7f with eight digits: the
  last bytes of the challenge are then not hashed, and with eleven or more of them
  97 + 6h bytes are written into `wtmp[160]`. `tmp[40]` of `computePwd` holds names
  up to 24 and passwords up to 39 bytes; longer ones overflow it. `md5Src[80]` of
  the builder is one short for a password of 64.
- Without a name server in a readable `resolv.conf`, the first element of an empty
  list is followed; so is that of the addresses in `rjv3_set_ipv6_addr` when
  `getifaddrs` fails or lists none, and the NULL `ifa_addr` of an entry without an
  address.
- The answer with the routes goes into 8192 bytes. A longer one loses its tail, or
  its end marker, and then the client waits in `recv`. An error datagram's length
  is subtracted from what was read, so that good routes are lost with it.
- A lone GBK lead byte at the end of a message takes the byte behind it.

Process, settings and drivers:

- Two instances can run at once: p1 runs, p2 fails in `init_if` and unlinks the
  name on its way out, p3 creates and locks a new file. And `-k 1` goes on as soon
  as SIGTERM is sent, without the lock.
- `itoa_buf[10]` of the plugin is one short for a number of ten digits.
- `no-auto-reauth=0` in the file reads as set, `my_itoa` drops the sign, and a
  plugin named twice doubles its options at every save.
- Between `socket()` and `bind()` a packet socket queues the frames of every
  interface.

## Proofs

All constants are arbitrary up to the named assumptions: any number of events,
frames, nodes, instances and options, messages of any length. Every invariant
was checked by TLC on the run's instance before it was proved.

- *SchedAlarmProofs.* `TypeCorrect`. `FiredAreGoneHolds`, `CancelledNeverFiresHolds`
  and `FiredOnce` with every hazard of `Races` admitted. They rest on `Settled`,
  which says where such an event can still be: only during a ring; a fired one is
  then due and already visited, a cancelled one marked and not due, so that the
  handler runs neither and its clean-up removes both. An id names one event only (`FreshIds`, proved on its own, since nothing about time is needed).
  `FiredAreGone` is stated in the proof module; a run would only repeat it, as
  `ServiceRefined` says more.
  `NeverEarlyHolds`, assuming "stall" is not in `Races`: the inductive `TimeInv`
  adds a credit argument, that the real time an event is still owed is at most
  what its `remaining` and the running timer account for, in each phase of
  `schedule_alarm` and of a ring. `NearestEventArmedHolds`, assuming positive
  delays and neither "stall" nor "expiry": `ArmInv` follows the timer value through
  a call in progress.
  `ServiceRefinedHolds`: the scheduler implements `TimerService`, with every hazard
  admitted. `MarkInv` says what a mark for removal means: there are marks only
  during a ring, a marked event that is not due was cancelled, and one the walk has
  passed was called. There is a lemma for each kind of step: what it does to
  `Waiting`, or that it leaves it alone (`RingIsNotSeen`, `CleanUpIsNotSeen`).
  `CleanUpIsNotSeen` is where an event scheduled by a callback could be lost, and
  `TimeAlways` carries the punctuality of `NeverEarly` over, when nothing stalls.
- *EapStateMachineProofs.* `TypeCorrect`, `FailureWillRestartHolds`,
  `FailCountBelowMaxHolds`, `StateTellsLastSentHolds`; each invariant is inductive
  together with the types.
- *Rjv3PluginProofs.* `TypeCorrect`; the lemma `LeaseNeverFilled` draws from it
  that `should_fill_dhcp_prop` is false throughout a double authentication.
- *SupplicantProofs.* `EapRefinedHolds` and `Rjv3RefinedHolds`: every step of the
  client is a step of each component or leaves it alone (the plugin's part needs
  `CrashIsExit`). They carry the components' theorems over, for instance
  `FailureWillRestartComposed` and `PluginTypeOKHolds`. `OnlineHasHeartbeatHolds`
  uses the types obtained that way. `OfflineHeartbeatIsEmptyHolds`, for
  authentications that are not double, from the key being 0 after a FAILURE. `HeartbeatUsesLastKeyHolds`, for authentications that are not
  double: `KeyKept` says that `g_echokey` is the last key while the client is
  online, and an action property follows. In a double authentication it does not
  hold: the key waits in the copy of the first Success while DHCP is polled, and a
  heartbeat of an older chain that rings meanwhile has the key from before.
- *InterruptsProofs.* `CaptureRefinedHolds`: the three drivers implement `Capture`
  for any number of frames. A step of `Capture` needs to know where the loop is:
  `LoopInv` ties the frames read and handled to the place in the loop. That
  nothing is delivered after a stop rests on the test of `stop_flag` between the
  read and the call. `CaptureRefinedWhenInterrupted` follows: a step of
  `recv_handler` or a ring is a stutter of the driver, and its return is the
  return of the handler. `FrameFaultNeedsRestartHolds` from `FrameInv`:
  from the copying of a frame to its release, the machine's pointer and the
  plugin's are to that copy, what only `restart_auth` undoes.
  `AnswerIsWholeHolds` from `BuildInv`: which fields of the builder and of the
  buffer are set after which step; a ring changes the packet's type for good and
  leaves identifier and seed, so what is still an EAP packet has its own. The
  password hash is right since `restart_auth` reads the request before it computes
  one, and a request that it has freed is a fault; for the V3 hash that argument
  ends with the last read.
  `HandlerSeesWholeListHolds` and `ListDamageNeedsRingHolds` from `AlarmsInv`: the
  nodes reachable from `g_alarm_list` are allocated and linked without a loop, the
  main flow's pointers are into the list as long as no ring came between
  (`UntornInv`), and may be stale afterwards. "Reachable" is the least set that
  holds the first node and is closed under `next`; the lemmas `Removed`,
  `Appended` and `CutAt` say what one assignment to a `next` does to it.
- *LifeCycleProofs.* `TypeCorrect`, `OneInstancePerFileHolds`, `NoStalePidFileHolds`,
  `AlarmsEndBeforeLockHolds` from `LifeInv`: an instance past `pid_lock_lock` keeps
  the lock of the file it has open until it closes it (`LockKept`), a lock is held
  by a living instance only (`HolderAlive`), and a name without a crash has an
  owner (`NameHasOwner`). Files are counted against instances that were started
  (`FileCount`), which is why the model never runs out of them.
- *HashProofs.* `DigestsAreOfWholeMessage`: each of the six digests compresses the
  blocks of its standard, for messages of every length in chunks of any sizes.
  `HashInv` says of every context that it is `Fed` with the message so far: it has
  compressed the whole 64-byte blocks of it, and its buffer starts with what is
  left over. `RhashFed` and `FillFed` show it of the two ways of writing `update`,
  the one with a test of the alignment and the one without. `FinalIs` follows the
  padding into one block or two; the limits (56 bytes, or 32 for Whirlpool) are
  where the two cases meet. `WholeChallengeHashedHolds` and `V4BufferBoundsHolds`,
  for every challenge: what `computeV4` writes is laid out
  piece by piece as a `Row`, and the six extra digits of every byte that is read
  as negative are counted (`CountIs`); they decide which of the later bytes are
  within the length that is hashed. `OnlyPasswordMasksHolds`, for names and passwords
  of every length, follows the writes into `tmp`.
- *DataProofs.* The loops are recursive functions; that such a function exists, and
  what it yields at every place, is proved by the least number principle (`Least`,
  `Along`): of the places where it fails, take the one the loop reaches first.
  - `MessageIsShownWholeHolds`, `TableReadInBoundsHolds`: every turn of the
    conversion writes one well-formed character in at most three bytes
    (`TurnIsTidy`), well-formed text stays so behind a character
    (`CharThenText`), and every pair that is looked up has an entry
    (`IndexInTable`), which the code does not test.
  - `OptionsSurviveSaveHolds`: `DigitsMakeBytes` bounds the content to 100 bytes, so
    that no length byte wraps, and `PropRoundTrip` goes through the digits of
    every byte.
  - `ServerMessageIsReadHolds`: `ServerLayout` places the properties in the buffer,
    `ReaderExists` shows that the parser moves on with every property it takes,
    whatever is in the buffer, and `LengthFound` that the length it comes to is
    right by either way: the next magic is found, none is found inside a content,
    and the bound of the search, which stops short of the end, only hides places
    where no property can start. `ReadsAll` then goes from the last property to
    the first.
  - `TrailerHoldsEveryPropHolds`, for any number of options. `Wholes` are the
    properties whose two length bytes do not wrap; the built-in ones, the options
    and what a replacement makes of a built-in one are among them
    (`FieldsAreWhole`, `OptionsAreWhole`, `AllModified`). `ListWritten` says what
    `append_rjv3_prop_list_to_buffer` writes as long as there is room,
    `PlacesOfBoth` puts the two lists one behind the other, and `TrailerRead` goes
    through the parser from the end of the buffer to its start.
  - `HostFieldsAreOwnHolds`, for tables of any length. `ListIsCopy`: a collected list
    has the chosen entries of its table in their order. `RecvTyped` and
    `RoutesAreRead`: however the answer is cut and wherever it fails, the buffer
    holds a first part of the routes, and all of them when they fit into it and no
    error comes. `NetAssumption` says that an address has a value, which is how the
    code tells a hit from none.
  - `CmdlineOverridesFileHolds`, for every file and command line over any number of
    starts. `OneOption` and `OneRjv3Option` say which settings one option changes,
    `ApplySteps` that the options are taken one at a time, `LastOptionWins` and
    `ModulesAreGiven` what is left at the end of the command line, and
    `PluginsKeep` that nothing the plugins read afterwards touches it. A start whose
    last option lacks its argument ends at once (`RefusedOverrides`). The invariant
    `ConfigInv` keeps the file a sequence of lines and the command line one of
    pairs, which at the start is `ConfigAssumption`.

Left to TLC:

- Liveness (`EveryEventSettles`, `LeavesFailure`, `PollingEnds`, `HeartbeatFollows`), which the
  prover cannot do.
- `ScramblingInverts` and `HeaderCrcIsSound`: they are about single bits, whose
  module the prover does not know. All bytes are checked, so the first is checked
  completely.
- `SavedConfigIsReloaded` and `SavingSettles`. What a number reads as after it was
  written needs an induction through its digits; besides, they hold for numbers
  that fit into a line and options without blanks at their end, as those of the
  run are, and not for every value of the constants.

## Abstractions and what is not modelled

- Machine and plugin are atomic in `EapStateMachine`, `Rjv3Plugin` and
  `Supplicant`; what SIGALRM can do inside them is the subject of `Interrupts`,
  which has one round and no double authentication in return.
- Compression functions and their tables (`rjtiger_sbox.c`, `rjwhirlpool_sbox.c`)
  are pure arithmetic on 32 and 64 bits without control, and stay opaque; so does
  all but a sample of the 24576 entries of the GBK table.
- Memory exhaustion; the room left in a full frame of 1512 bytes.
- `--conf-file` and `--help`, which choose the file or print and end; comments in
  the file.
- Logging and the printer plugin, which only print.
- The proxy states of `EAP_STATE` have no transition function in the code.
- The layout of netlink, sysctl and getifaddrs answers; that a send fails is an
  input of the state machine.

## Plan

1. An abstract specification for the client (a session, as `TimerService` is for
   the scheduler), and the proof that `Supplicant` implements it.
2. `SavedConfigIsReloaded` with its conditions on numbers and options made part of
   the property, so that it holds of every file and can be proved: `atoi` undoes
   `my_itoa`, and `ReadLine` what `save_config_file` wrote.
