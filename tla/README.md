# Icinga core: a verification project

TLA+ modules of the Icinga 1.x monitoring daemon (`base/`, `common/`, `xdata/`), its
database module (`module/idoutils`) and its command form (`cgi/cmd.c`), the TLC runs
that check them on small instances, and theorems about them checked by TLAPS.

Contents: 1 the system, 2 the modules, 3 the runs, 4 the proofs, 5 findings,
6 what is not proved and not modelled, 7 plan.

## 1. The system

The daemon is one main thread around an event loop, one worker thread that reads
the external command file, and child processes that run plugins, event handlers and
notification commands. The main thread owns all monitoring state; children report
through files in the check result directory, so nearly all of the interesting
interleaving is between *steps* of the main thread that other steps assume atomic,
and between the daemon, its children, its restarts and the outside world.

| Component | State it keeps | Operations | Talks to |
|---|---|---|---|
| External command file (`base/utils.c` 3208-4066, `base/commands.c` 113-190) | FIFO, stdio read-ahead, circular buffer `external_command_buffer` (head, tail, items), number of slots | worker: poll, read, submit, retry; main: drain; submit by broker module; restart, shutdown | processes writing commands, command processor |
| Command processor (`base/commands.c`) | the attributes of hosts, services, contacts and the process, `modified_attributes` | about 160 commands | everything below |
| Check engine (`base/checks.c`) | per host/service: `current_state`, `last_state`, `last_hard_state`, `state_type`, `current_attempt`, acknowledgement, problem and event ids, `is_executing`, `next_check` | handle a check result (active, passive, freshness), run a check, schedule a check, find orphans, find stale results | event queue, notifications, downtime, event handlers |
| Event loop (`base/events.c`) | high and low priority event lists, number of running checks | add, remove, reschedule, execute, compensate for a clock change | check engine, downtime, retention, commands |
| Scheduled downtime (`common/downtime.c`) | the list of downtimes, per object `scheduled_downtime_depth`, `pending_flex_downtime` | schedule, register, start, end, cancel with triggered downtimes, delete by filter, expire, restart | event queue, comments, notifications |
| Comments and acknowledgements (`common/comments.c`, `base/commands.c`) | comment list, next number, acknowledgement type and expiry | add, delete, expire | check engine, downtime, flapping |
| Notifications (`base/notifications.c`) | `current_notification_number`, `next_notification`, `no_more_notifications`, escalations | viability checks per object and contact, send, re-notify | check engine, downtime |
| Flap detection (`base/flapping.c`) | state history, `is_flapping`, comment id | update, set, clear, enable, disable | check engine, comments, notifications |
| Event handlers, OCSP (`base/sehandlers.c`) | - | run handler, then **look for external commands** | command processor |
| Retention and status data (`xdata/xrddefault.c`, `xdata/xsddefault.c`) | state file, status file | save (write, rename), read | every object attribute, the CGIs |
| Object configuration (`xdata/xodtemplate.c`, `common/objects.c`, `base/config.c` 1719-3053) | the definitions while they are resolved, the objects | read, resolve templates, fill groups, multiply, inherit, cache, register, check before the start | the daemon's objects |
| Broker (`base/broker.c`, `base/nebmods.c`) | callback lists per type | register, deregister, call, cancel | modules |
| IDOMOD (`module/idoutils`) | sink, sink buffer, buffer file | a message per callback, configuration dump, buffer, flush, reconnect | IDO2DB |
| IDO2DB (`module/idoutils`) | proxy and child per connection, transaction, tables | a handler per message, statements for three kinds of servers | database |
| Web interface (`cgi/`) | none of its own | read status file, check rights, write commands | command file |
| Macros, embedded Perl, logging, performance data, statistics tool | - | formatting, pure look-up | - |

### Behaviours that are hard

* **Two threads on one ring.** The worker fills the command buffer while the main
  thread empties it; the worker decides with a count it read under an earlier lock.
* **Restart under a running thread.** SIGHUP resets and re-reads the configuration
  while the worker and its buffer stay.
* **Result handling is not atomic.** `handle_async_service_check_result()` runs event
  handlers, and `handle_service_event()` calls `check_for_external_commands()`
  before it returns, so any external command may change the service in the middle.
* **Host checks start each other**, up to parents that are checked on the spot in the
  middle of the result of a child.
* **Results arrive in any order:** a late active result after a passive one, an
  orphaned check that reports after it was rescheduled, a freshness check for a
  result that has come in the meantime.
* **Downtimes refer to each other** (trigger chains, flexible downtimes started by
  a state change), to events in the queue, and survive restarts.
* **Counters mirror sets**: `scheduled_downtime_depth`, `pending_flex_downtime`,
  `currently_running_service_checks`, notification numbers, comment numbers.
* **Lists written by hand.** A setting is in a command, a bit, a mask, a line of the
  state file, a line of the status file and a row of three databases; a directive is in
  six lists. One that is forgotten compiles.
* **idomod calls itself.** What it logs while it writes is an event it has to write.
* **The clock** is the wall clock and may jump.

### What makes each component correct

* Command file: every command is processed once, in order, per source; no slot is
  overwritten; nothing waits for ever.
* Check engine: the soft/hard state machine stays consistent; an OK object carries no
  problem, acknowledgement or notification count; a problem gets one id that lives as
  long as it does; every check that is started ends or is found; the hosts come to
  their true states.
* Event loop: an event is never lost or run twice; a check is not started while one
  is running; the loop does not starve.
* Downtime: the depth of an object is the number of its downtimes in effect; a
  flexible downtime starts at most once; what is triggered ends with its trigger.
* Notifications: who was told of a problem is told of its end, once; a problem that
  lasts is told again.
* Retention, commands and forms: what an operator said last holds, over restarts at any
  point, and as far as the options say; what has an end ends; the pages show it.
* Object configuration: the daemon monitors what the documentation says the files mean,
  and the same when it reads its precached objects; it starts exactly when all that is
  named is there and nothing depends on itself.
* IDO: the database says what the core told, each thing once.

## 2. The modules

The actions and operators bear the names of what the code does. `PROJECT.json` maps
each definition to the lines it stands for; a helper whose lines lie within those of the
definition that uses it is not listed on its own. A module `MCx` gives `x` the constants
that a configuration file cannot express; the other runs use `x` directly. A module
`xProofs` holds the theorems about `x`. Operators marked `Mutant:` are variants of the
definition that follows them, each a plausible mistake; no action uses them. They show
that every property notices a mistake in the code.

### Commands, checks and what follows from a result

| Module | Models | State and what it is in the code | Actions |
|---|---|---|---|
| `CommandQueue` | what the command interface promises | per source: commands given and not processed, commands processed | give, process, shut down |
| `CommandFile` | `command_file_worker_thread()`, `submit_external_command()`, `submit_raw_external_command()`, `check_for_external_commands()`, SIGHUP | `pipe` and `stdio` (FIFO, read-ahead of the `FILE`), `input`, `wpc`, `buffer_items` (the worker's local variables), `buffer`, `head`, `tail`, `items`, `slots` (the ring), `mpc`, `cmd` (main thread) | one per section under the mutex, one per read and poll |
| `ServiceRules`, `ServiceCheck` | `handle_async_service_check_result()` for one service and its host; the rules alone are also used by `Notification` | `svc` (the fields of `service`), `host`, `local` (`state_change`, `hard_state_change`), `pc` (where the handler is interrupted) | `Result`, one `After...` for what follows each interruption, the commands and the host in between |
| `HostRules`, `HostCheck` | host checks: scheduled, forced, propagated, on the spot; passive results, orphans, freshness | `hosts`, `out` (checks that have not reported), `calls` (`process_host_check_result_3x()` calls that wait for their parents), `broken` (what is really down) | `RunScheduled`, `Report`, `AskParent`, `Settle`, `GoesBy` (time passes until the next check is long past), `Orphan`, `Freshen`, commands, lost and late checks, failed forks, restart, what breaks and is repaired |
| `CheckScheduling` | `schedule_service_check()`, the service checks in the event loop, results, orphans, freshness | `svc` (the fields that scheduling reads), `queue` (`event_list_low`), `outstanding` (checks that have not reported), `running` | what the loop does with a due check (`Nudge`, `Defer`, `Refuse`, `Start`, `ForkFails`), results, scans, commands, restart, clock |
| `Notification` | `service_notification()`, `host_notification()`, escalations, contacts, `base/flapping.c` | `o` (the object, with who was told what), `env` (periods, host, dependencies, broker, contacts), relative times | `Result`, `ServiceOfHost` (a look at a host by its service), `Tick`, one per command and mishap |
| `Acknowledgement` | acknowledgement, expiry event, comments, retention file | `ack`, `events`, `comments`, `retained`, `up`, `now` | result, commands, expiry, save, stop, crash, start, clock |
| `Downtime` | `common/downtime.c` and its events | `list`, `entry`, `depth`, `pending`, `events`, `stack` (the calls of the recursive handler) | commands, each step of `handle_scheduled_downtime()`, flexible downtimes of a check result, expiry, restart, clock |

### What operators say, and what stays of it

`Retention` composes five modules. A daemon is a record `d`: the program, hosts,
services, contacts, comments, downtimes and events.

| Module | Models |
|---|---|
| `DowntimeList` | the lists of comments and of downtimes and their numbers (`common/comments.c`): adding, deleting with what is triggered, filters, sorting, validation (`common/downtime.c`) |
| `ExternalCommands` | the commands that switch, change values, periods and custom variables, comment, acknowledge and schedule downtimes, for objects, groups, children and the program (`base/commands.c`), and flap detection without a result (`base/flapping.c`) |
| `RetentionFile` | saving and reading the state file, bit by bit and directive by directive (`xdata/xrddefault.c`), and what a start makes of it |
| `StatusFile` | writing and reading the status file (`xdata/xsddefault.c`, `common/statusdata.c`) |
| `WebCommand` | `cmd.cgi` from the form to the lines in the command file, with the rights of its user (`cgi/cmd.c`, `cgi/cgiauth.c`) |
| `Retention` | `story`, `opt` (the retention options), `d`, `file`, `cfg` (the configuration), `kept` (the problems as last saved), `wish` (what was asked for, and is said without bits, masks or files), `now`; actions `Command`, `Request` (a form), `Result`, `Save`, `Stop`, `Crash`, `Start` (on any configuration of the story), `HandleEvent`, `Tick` |

### Object configuration

| Module | Models |
|---|---|
| `ObjectDirectives` | every directive of every type, and how far it travels: read, inherited, copied, cached, registered |
| `ObjectTemplates` | reading values, templates and their chains, additive values |
| `ObjectMembers` | lists of hosts, services and contacts with `*` and `!`, and groups of groups |
| `ObjectChecks` | what the add functions refuse (`common/objects.c`), and `pre_flight_check()` (`base/config.c`): names that are not there or not legal, the search for circles of parents and of dependencies |
| `ObjectConfig` | `config`, `phase` (the function that `xodtemplate_read_config_data()` is about to call; then `registered`, and `running` or `refused`) and the definitions; one action per function, the check before the start, and the start from the precached file |
| `ObjectMeaning` | what a configuration means, after `html/docs/en/objectinheritance.html` and `objecttricks.html`, without an order of work, and which ones a daemon may start with: the abstract specification |

### IDO

| Module | Models |
|---|---|
| `IdoMessages` | what idomod sends for each event of the broker and each object of a dump |
| `IdoHandlers` | what `dbhandlers.c` does with each message |
| `IdoDirect`, `IdoMysql`, `IdoPgsql`, `IdoOracle` | which row each statement of `dbqueries.c`, `dbhandlers.c` and `db.c` finds, changes or inserts, on each kind of server |
| `IdoDatabase` | a core, idomod, a pipe and a child of ido2db with its transactions; `world` is what the child sees, `committed` what others see; actions tell, connect, read and write, commit, lose the connection |
| `IdoRecord` | the abstract specification: the facts that a reader of the database is promised |
| `IdoSeen` | the refinement mapping: the facts that the rows say, with ids followed |
| `IdoLink` | the connection: `idomod_write_to_sink()` with its nested calls as a `stack`, the sink `buffer`, the buffer `file`, and the proxy and child of each of `conns` |

How they fit. `CommandFile` delivers the commands that are actions of the other
modules, and `WebCommand` writes them. `ServiceCheck` and `HostCheck` say what a result
does to a state and `CheckScheduling` when there is one; each takes the other as a
choice (any outcome; any time up to the interval). `Notification`, `Acknowledgement` and
`Downtime` take a result as a new state and add what happens over time; `Downtime`
supplies the depth that notifications test. `ObjectConfig` gives what `Retention` takes
as `cfg`. `IdoLink` says which messages come in which order, `IdoDatabase` what becomes
of them.

Conventions. A function that may be interrupted - by the other thread, by external
commands that an event handler makes the program read, by the clock moving between
two readings of it, by a call of itself - is several actions, with the local variables it
goes on to use as variables. A function that cannot be interrupted is one action, with
all it calls. Names, texts and plugin output are left out; states other than OK are
members of a set.

Three ways to treat time. `Acknowledgement`, `Downtime` and `Retention` have a clock
that stops, since end times are absolute. `CheckScheduling` and `Notification` count
relative to now, so that their behaviours are unbounded and "again and again" means
something. `HostCheck` only has "due" and "recent", and of `next_check` what the scan for
orphans tells apart: never, the time of the event of the host, another time, and a time so
long past (more than ten minutes and the timeouts) that a check that began then should have
come in. It assumes that the event loop is not minutes behind.

## 3. The runs

Sizes are distinct states. All runs but one pass; `Notification_flapping` belongs to the
finding of section 5.

| Run | Instance | What it shows |
|---|---|---|
| `CommandFile` (22,352) | 2 slots, read-ahead 3, 6 lines, 2 submissions, 1 restart | the ring is consistent (`RingConsistent`), the code implements `CommandQueue` (`ImplementsQueue`: once each and in order per source), only the read-ahead can strand a command (`OnlyReadAheadStrands`) |
| `ServiceCheck` (45,998) | 2 problem states, 1 or 3 attempts, a change to 2, 2 problem ids | between results the fields of a service agree (`RestIsConsistent`), a problem keeps its id, a hard problem recovers as one, sticky acknowledgements stay, a problem that stays becomes hard |
| `HostCheck` (262,580) | seven pairs of hosts: parent and child with 1 or 2 attempts, master and dependent, alone with 3 | where nothing came between the checks of a host, a hard problem took as many failed checks as there are attempts (`EarnedHard`) and one check is out at a time (`OneCheck`), whatever the scan for orphans does to a host with an interval; hard problems stay hard until they end; and the hosts come to their true states once the network stays as it is, if none is overlooked for ever (`Converges`) |
| `CheckScheduling` (254,243) | a plain service and one that is checked on demand and for freshness, limit 2, interval 1, 2 checks out, one fork error, lost check or restart | events and pointers agree, forced checks stay, the count of running checks is off by the faults at most, a service is checked again and again |
| `Notification` (154,968) | nine services and hosts: plain, escalated, volatile, flapping, passive; a history of 4 states | numbers, flags and times agree (`Consistent`, `Armed`), whoever was told of a problem is told of its end, once (`RecoveryReachesNotified`, `OneRecovery`), and a problem that lasts is told again |
| `Notification_flapping` | one flapping service with all states | the recovery from a problem that ends while the service flaps is never told |
| `Acknowledgement` (66,272) | 2 problem states, ends 0 to 2, clock to 3, one event a second | expiry events and comments follow acknowledgements through restarts and crashes; what has an end ends |
| `Downtime` (89,506) | a fixed downtime of a host, one of a service that it triggers, a flexible one that overlaps, 1 restart, clock to 3 | counters mirror the list, triggered downtimes stay within their trigger, fixed ones end |
| `Retention` (109,371) | 17 stories on 3 hosts, 2 services, 2 contacts and two configurations; in one the clock is set back | every setting, comment and downtime is what was asked for, over restarts, and the pages show it (`FollowsOperator`); a start takes up each problem where the last save left it (`Resumes`); what has an end ends (`EndsCome`) |
| `ObjectConfig` (75,337) | 3,000 small configurations | what is registered is what the documentation promises, read from the files and again from the precached objects, and nothing without a fault is refused on the way (`AsDocumented`); the daemon starts with what is there, legally named and free of circles, and with nothing else (`StartsIfSound`); groups and lists have the members that are written (`MembersAsWritten`) |
| `IdoDatabase` (194,117) | nine stories, three kinds of servers, one lost connection | the database keeps `IdoRecord` (`KeepsRecord`, a refinement), no statement meets a unique key (`RowsAreUnique`), active objects are the configured ones (`ActiveAreDefined`) |
| `IdoLink` (529,317) | 2 slots, 3 events, 1 message in a pipe, 2 faults | nothing is told twice, out of order or before a hello (`InOrder`); what is told arrives, is in the buffer file, or was dropped (`Arrives`) |

Why the bounds are enough for what is asked:

* `CommandFile`: with 2 slots and 6 lines the ring wraps three times, is full while the
  worker holds a line, and a read brings in more lines than there are slots.
* `ServiceCheck`: 1 attempt has no soft state, 3 has a first, a middle and a last one;
  2 problems are needed to mix up ids; a change to 2 lands below, at and above the
  current attempt.
* `HostCheck`: two hosts are enough for each relation that makes a check start another
  (parent, child, master); each configuration is given the mishaps that matter to it, and
  the network breaks and is repaired once or twice (`changes`).
* `CheckScheduling`: 2 services compete for the limit and start each other's checks,
  and a check that is given up may report while its successor is out. `MaxFlight` also
  bounds the checks that orphans leave behind. Commands ask for checks one second
  ahead: Tick turns them into checks for now.
* `Notification`: with a history of 4 the thresholds are passed both ways by few results;
  ages and waits are counted no further than anything compares them to (`NumberCap` is
  above every escalation); `MaxCommands` is 3, for a mishap, its end and one more.
* `Acknowledgement`: an event of an earlier acknowledgement, one of the present one and
  a time after both fit below `MaxTime`. `MaxEvents` makes room for two events in
  different seconds.
* `Downtime`: the three downtimes overlap pairwise, and the clock passes the end of
  each. `MaxCount` stops the counters far from what the properties allow.
* `Retention`: a story has the commands, forms, results, options and configurations that
  its question needs, and up to three commands: switches of the program, of objects, of
  many at once, values, values of contacts, ends, ends under a clock that is set back,
  problems, acknowledgements that end, comments, flapping, forms,
  two forms, downtimes one by one, for groups and children, by form, and what the pages
  show. h2 and h3 are children of h1; the other configuration lacks an object and has
  other values. Downtimes start after the end of every story.
* `ObjectConfig`: chains of three templates with every way to give or clear a value, every
  directive of every type, groups three deep with cycles in three orders of the files, and
  each fault on its own. For the start: one of everything that names something, with each
  name unknown or left out in turn; all parents of three hosts, one parent of each of four,
  which has circles of 2, 3 and 4 with hosts that lead into them; three dependencies that
  form chains, circles and the like, of each kind and with each way to inherit. Nothing runs
  concurrently: a behaviour is one sequence of functions for each configuration.
* `IdoDatabase`: a story has the events that concern one group of tables, with a restart
  of the core and repeated messages where the rows are looked for; `MaxLosses` is 1, at
  any place. `LastSecond` stops the clock after the events had room in different seconds.
* `IdoLink`: with 2 slots and 3 events the buffer overflows and wraps; 2 faults are a
  connection that breaks and another, or a restart of the core.

Deadlock is not checked where the system may really stop: `CommandFile` (shut down),
`HostCheck` (nothing breaks any more and every check has reported), `ObjectConfig` (a
load failed before anything was cached), `IdoDatabase` (the story is told).

Fairness, and why the code justifies it:

* Both threads of `CommandFile` go on when they can (weak fairness): they loop for ever
  and block only in `poll()`, on the mutex and in `usleep()`.
* `ServiceCheck`: results keep coming in and a handler that has begun goes on. Nothing
  makes the host change or anybody give a command; `ProblemBecomesHard` states its own
  premises about them.
* `HostCheck`: the loop gets round to each host that is due, calls go on, checks that are
  not lost report, the scans for orphans and stale results repeat, and time passes
  (`GoesBy`; all weak).
* `CheckScheduling`: the loop runs (weak), the clock moves (strong: the loop is not
  for ever busy with commands for now), checks that are not lost report, scans repeat
  (weak). Two assumptions are about chance: a check that comes up again and again is
  not refused by dependencies every time, and, as the nudge is random
  (`base/events.c:1284`), it comes up when no other check is out. Without them the
  code gives no guarantee at all: other services may take the limit for ever.
* `Notification`: time passes, and a state that lasts is reported again after each tick
  (weak).
* `Acknowledgement`, `Downtime`: the clock moves and events that are due are handled
  (the event loop takes the first that is due, so none is passed over: strong fairness
  in `Downtime`, where others may become due in between); the program is started
  again after a stop.
* `Retention`: the clock moves, the program is started again, events are handled (weak).
  The start is stated through the counter `used`, which only says that a start happened:
  the condition under which one is possible is then cheap to evaluate.
* `IdoLink`: a call goes on, the module's start and end go on, status and time do, and a
  child reads what it is sent (weak). Nobody has to start a core again.
* `ObjectConfig` and `IdoDatabase` state safety only.

## 4. The proofs

| Theorem | Says |
|---|---|
| `CommandFileProofs!TypeCorrect`, `RingIsConsistent` | for every number of slots, read-ahead and bound: types, and the slots from tail up to head and no others hold commands |
| `CommandFileProofs!ImplementsCommandQueue` | the two threads, the read-ahead and the ring together implement `CommandQueue`: the commands of each source are processed once each, in the order given |
| `ServiceCheckProofs!RestAlwaysConsistent`, `ProblemAlwaysKeepsId`, `StickyAckAlwaysStays`, `HardRecovery` | for all problem states, numbers of attempts and bounds, wherever in the handler commands come in: a service at rest keeps nothing of its last problem, a problem has one id, a sticky acknowledgement is not ended by a step of the handler, a hard problem recovers as one if its attempts are left alone |
| `HostCheckProofs!AlwaysEarnedHard`, `AlwaysOneCheck` | for every network of hosts, number of attempts and bound: a hard problem took as many failed checks as there are attempts, and a host has one check and knows it, unless something came between the checks of the host. The scan for orphans does not come between those of a host with an interval, for it only finds one whose check is late; a host without an interval that it has taken for an orphan is excepted |
| `HostCheckProofs!HardStays` | a hard problem of a host does not become a soft one, provided soft passive results and changes of the number of attempts do not meet (`NeverBeyond`) |
| `AcknowledgementProofs!TypeCorrect`, `ExpiryIsScheduled`, `CommentsGo` | for every clock and set of commands: no event is taken that is not there; an acknowledgement with an end has its event; comments go with it |
| `CheckSchedulingProofs!OneEventAlways`, `OptionsAlwaysAgree`, `WatchedAlways`, `ForcedAlwaysStays` | for every number of services, limit, interval and bound: a service has one event exactly when it points to one; its options are those of the event; a regular service that should be scheduled is in the list or executing; a forced check stays in the list, no later than it was, until it runs |
| `CheckSchedulingProofs!CountAlwaysBounded` | every field keeps its range, the list is in the order of time, and the count of running checks is above the checks that are out by the number of faults at most |
| `NotificationProofs!AlwaysConsistent`, `AlwaysArmed` | for every configuration of an object, pair of flap thresholds, length of the history and bound: the number of notifications and the states notified of agree, a flapping object has its comment and no other has one; the next notification of a problem that stays is one interval after the last one |
| `NotificationProofs!RecoveryAlwaysReaches` | whoever got the last notification of a hard problem gets that of its end, unless a command or flapping came between, if the escalations are valid for every state (`AllEscalate`) |
| `NotificationProofs!AlwaysOneRecovery` | a problem that was told of is followed by at most one notification of its end, if flap detection looks at the problems of a service where it looks at its OK (`FlapsAreSeen`) |
| `DowntimeProofs!TypeCorrect`, `TriggeredAlwaysWithin`, `WaitingAlwaysCounted` | for every set of downtimes, their triggers, clock and bounds: types and the order of the list; a triggered downtime is in effect only while its trigger is; flexible downtimes that wait are counted |
| `DowntimeProofs!CountersAlwaysMatch` | until a restart the depth of an object is the number of its downtimes in effect, in the middle of the recursive calls too, provided triggered downtimes are fixed and end within their trigger, and a flexible one is the only flexible one of a service (`Plain`) |
| `IdoLinkProofs!AlwaysInOrder` | for every size of the sink buffer and of the connections, every number of events and faults: an event that was told and not dropped is in one place, and the places have the events in the order they were told in |

The assumptions are the ASSUMEs of the component modules, which TLC evaluates on every
run.

* **Ring.** The invariant adds to types and `RingConsistent` that the number of slots is
  the one the buffer was allocated with (`HolderInv`; the theorems speak of restarts
  that leave it alone, the hazards of those that do not), and that a thread in the middle
  of a command has one. The arithmetic modulo `Slots` is one lemma, `Wrap`; one lemma
  each says what storing and taking do to the ring; every other step leaves it alone.
* **Refinement of `CommandQueue`.** What is held, from the command that the main thread
  is at through the ring and the worker to the pipe (`InFlight`), are for each source the
  commands after the processed ones, in order, up to the last one given (`OrderInv`, by
  `Holds`). `OfSource` picks those of a source by their rank rather than by a recursive
  selection, so that its facts need no induction. A step gives, processes or drops
  commands, or moves them along `InFlight` without changing it; `PlaceInv` says where
  there may be any.
* **Service results.** `RestIsConsistent` speaks of a service at rest, and the handler is
  interrupted at several places. The invariant says for each of them what it knows of the
  service (`Known`): at the first ones that the service was at rest in its *last* state
  (`Settled`), later what the code below still has to do. `Labelled` says which state the
  acknowledgement and the id of the problem belong to, the last or the current one
  (`LabelState`).
* **Hosts.** `EarnedHard` needs the counting of attempts at every moment: a host whose
  check has begun was counted already (`Counted`), one without a check was not (`Idle`),
  and which of the two holds depends on `is_executing` telling the truth about the checks
  that are out (`Tracked`). A parent that is checked on the spot in the middle of a result
  must not be the host that waits for it: the hosts of the stack are on rising levels
  (`CallsOK`). The levels exist because the daemon refuses to start with a circle of parents
  (`LevelsAssumption`, `pre_flight_circular_check()`). The scan
  for orphans (`base/checks.c:2589`) asks only whether the host is executing and its
  `next_check` is long past. So the invariant has a part about the schedule (`PlanInv`): a
  host with an interval has its next check on the list, or a check out or a call waiting
  that will put it there (`Due`), and is not executing when its next check is long past.
  Without it a step of the scan could start a second check of a host that nothing else has
  disturbed, as it does for a host without an interval. Each
  action changes one host and starts checks of others, which are the lemmas `OneHost` and
  `StartedAll`; `FinishPlan` is the same for the schedule. For `HardStays` it is enough to know the attempt of a hard problem
  (`CalmAs`): it is 1 or the last one.
* **Downtimes.** `handle_scheduled_downtime()` calls itself, and other steps happen
  between two moments of its loops. What every call knows of its caller is `Frames`: the
  caller's downtime is in the list and in effect, and the ids of the calls rise, because a
  downtime has a higher id than its trigger (`DowntimeAssumption`); so no call ends what
  an outer one still works on. Events of a triggered downtime are only for its end
  (`EventInv`): its start is the call of its trigger. The list is in the order of start, so a
  restart, which validates each downtime against those it has read, meets a trigger before
  what it triggers, or drops the latter (`RestartKeeps`). The counters stay in bounds because
  every downtime that is gone was counted down at most once (`WaitingOf`, `GoneOf`).
  That the depth *is* the number of downtimes in effect needs a second invariant
  (`CountInv`), for the time before a restart: a downtime in effect has events only for its
  end and another one only for its start (`EventsOnce`), so a call for one in effect is due
  to end it (`Good`), and no loop of an outer call comes again to the downtime that an inner
  one works on (`Apart`). It holds under `Plain`, which the downtimes of the run satisfy;
  section 6 says what happens without.
* **The link of the IDO.** The events stand in a `Line`: those of the connections, oldest
  first, of the file, the buffer and the calls; each part is `Ahead` of the next ones, and
  together they are what was told and not dropped. What a step moves is the first of one
  part that goes to the end of the next one that has any (`LineSend`), what it drops is in
  one part only (`LineLose`). This needs that an event is written when none is in the buffer
  (`Flushes`), that only the outermost call has one (`CallsOK`), and that the file is empty
  while the module runs (`PhaseInv`). A child takes every event of its pipe because a
  hello is ahead of it and no goodbye (`Introduced`), which is why the hello of a new
  connection must be the next thing that is written to it (`GreetInv`).
* **Acknowledgement.** `ExpiryScheduled` is not inductive: a restart reads the retention
  file. The invariant says of the file what it says of the memory (`Sound`): an
  acknowledgement has a type and a problem. Taking one event off a list (`DeletedType`)
  is where it matters that the flag implies an event.
* **Scheduling.** The invariant `IInv` is about the *set* of events of the list, not
  their order. The lemmas `InsertedEvents`, `WithoutEvents`, `TailEvents` and
  `ListOfEvents` say what the operations on the sequence do to that set.
  `ScheduledAgrees` is the contract of `schedule_service_check()`: if the fields and
  the list agree before, they do afterwards, whichever event wins. `OneService` carries
  such a change of one service to all. `Watched` needs three more facts: only enabled
  services should be scheduled (`Proper`), a regular service never has a freshness
  check scheduled (`Proper`), and none of its checks out is of a kind whose result
  would not reschedule it (`Quiet`). `ForcedStays` speaks of two lists:
  in the new one the forced check of a service stands no later than in the old one
  (`NotLater`). For the service that `schedule_service_check()` is called for this is the
  choice it makes between two events; for all others it is that their events are not
  touched (`Others`).
* **The count of running checks.** `InFlight` is the number of elements of a set: the
  checks of a service and a kind are numbered, and those up to the count are out. A sum
  over services would need an induction; of a set it is enough to know what one element
  more or less does (`OneMore`, `OneLess`); how the checks that are out and the count
  differ is `CountInv`. That every field keeps its range needs an invariant of its own
  (`Timely`), since the times of events and `next_check` bound each other: the list is in
  the order of time, and `next_check` is at most one interval ahead unless the event of
  the service is as far ahead (`Early`).
* **Notifications.** A handler changes an object in a dozen places, one after the other. The
  fields are in groups (state, acknowledgement, history, what was told, times, phase,
  flapping); for each there is a predicate that says it is sound (`StateOk`, `ToldOk`,
  `TimesOk`, ...) and one that says it was left alone, and each operator of the model has a
  lemma that says which groups it keeps sound and which it leaves alone. So the proof of a
  handler follows the handler. `Armed` (`ArmedOk`) is for an object that nothing has come
  between, and needs to know that a notification of it then goes out (`CalmOk`: the period
  is open and the broker does not cancel). The comments stay in bounds because each that is
  left behind by disabling flap detection took a command (`FlapOk`).
* **Recoveries.** What holds at any time (`Worded`) is that whoever waits for the recovery
  is among those it will go to, and that nothing stands in its way (`Promised`). It needs
  `HardOk`: a hard problem is one of the last attempt, or of the first, so that the result
  that ends it makes its end a hard state; and `Waits`: nobody waits for the recovery of a
  problem that is soft, or over. The contacts of a recovery are those of the present
  number, which is why `AllEscalate` is there: an escalation that is not valid for the
  recovery, or whose range ends where the numbers stop counting (`NumberCap`), would not
  be found again. The configurations of the run satisfy it.
* **One recovery.** The flags of a problem are forgotten after its end was told; it could be
  told again only if flapping stopped in the middle of the handler, between the result and
  the notification, because `clear_service_flap()` tells it too. Flapping does not stop
  there: a service that is flapping is above the low threshold (`Restless`), and the change
  that the end of the problem records weighs no less than the record that is dropped for it
  (`WeighsMore`: every other change moves down by one place, and the new one has the
  highest), so the percentage does not fall. That there *is* a change recorded is `Marked`:
  the last record is of the problem that was told of, which is what `FlapsAreSeen` is for;
  the configurations of the runs satisfy it. Section 5 says what happens without. Hosts
  need none of this, since `handle_host_state()` tells and forgets before the flapping is
  looked at.

## 5. Findings

One run expects a violation; `PROJECT.json` quotes the sentence it contradicts.
`Notification_flapping`: when a problem ends while the service is flapping, the recovery
is kept back and the states notified of are reset; when the flapping stops, the recovery
that `base/flapping.c:351` announces is refused, because nobody was told of anything
(`base/flapping.c:395`, `base/notifications.c:608`).

The hazards of `PROJECT.json` record more where the code falls short of what one would
ask of it, and how the properties are stated around that. The main ones:

* lines in the read-ahead of the command file wait until the pipe is written to again;
  SIGHUP may change the number of slots under the running worker;
* raising the attempts of a service that is hard at attempt 1 makes its recovery a soft
  one; a host with one attempt whose parent has just been found down is called DOWN, not
  UNREACHABLE;
* a hard problem of a host may become a soft one where soft passive results meet a change
  of attempts: such results bring a host that is up to attempt 2, the maximum is lowered to
  1, and of two DOWN reports of overlapping checks the first is hard and the second soft
  (`HardStays` excludes such configurations, and so do those of the run);
* the scan for orphans goes by `next_check` and not by when a check began
  (`base/checks.c:2582`): a host without an interval keeps the time of an old soft problem, so
  a check that has just begun for a service or a neighbour is taken for lost, a second one
  goes out, and both count as attempts. `EarnedHard` and `OneCheck` except such a host from
  then on (`Orphan` makes it no longer `clean`), and hold for hosts with an interval;
* a host that counts as executing without a check (after a failed fork, a check that was
  lost off schedule, or a freshness check whose result was thrown away) while its next check
  is on the list is not checked again: that check is put off whenever it is due
  (`base/checks.c:3185`), `next_check` with it (3118), so the scan for orphans, which by the
  comment at 2646 is to catch it, does not find it. Only a forced check or a restart helps.
  `Converges` has as a premise that no host is `Overlooked` for ever, and does not hold
  without it;
* the expiry event of an earlier acknowledgement removes a later one; the comment of an
  acknowledgement with an end has an end too, and no event that would remove it
  (`base/commands.c:4336` and 4379 pass by `add_new_comment()`);
* a flexible downtime whose object recovers may never end, and one that is triggered may
  keep `handle_scheduled_downtime()` in its loop; a restart resets the depth of downtimes
  in effect; deleting by a filter reads a downtime it has freed; a triggered downtime that
  starts before its parent is lost at a restart;
* a freshness scan that meets a forced check sets `is_being_freshened` for good; a fork
  error raises the count of running checks for ever;
* the retry interval of a host is saved as its check interval, services have the masks of
  hosts, custom variables of one character are not restored, a soft problem is restored
  at its last attempt, and `check_freshness` of an object is never saved;
* disabling flap detection of one object leaves its comment behind;
* a recovery may be told twice if flap detection looks at the OK of a service and not at
  one of its problems: flapping is found during such a problem (flap detection was off and
  is switched on), its end is recorded without a change, the percentage falls, and
  `clear_service_flap()` (`base/flapping.c:395`) tells the recovery before the handler does
  (`base/checks.c:1430`); `AlwaysOneRecovery` excludes such configurations;
* a contact group copies the text of a nested group that is processed later;
* ido2db goes on with the rest of a dump that a broken connection has cut, as if it were
  of the other kind; on Oracle the members of a row that was updated get no id;
* of a log line MySQL and PostgreSQL are given the second of the message for both times, and
  0 for the microseconds (`dbhandlers.c:1786`–`1816`); only Oracle is given the time of the
  line and the microseconds. `KeepsRecord` therefore keys a log line by its second and text,
  so that two equal lines of one second are one fact.

## 6. What is not proved, and what is not modelled

Model-checked only: liveness (it rests on fairness, out of reach of the proof system);
the refinement of `IdoRecord`; all of `Retention`, `ObjectConfig` and `IdoDatabase`; of
`Notification` the liveness `LastingProblemIsTold`.
Of `Downtime` the liveness `FixedEnds`; and the depth is not claimed to be right without
`Plain`, because it is not: a triggered downtime that outlives its trigger is started again
by the loop that should end it, and a flexible downtime of a host, which a check result may
start before its own start event of the same second is handled, is counted twice.
`ObjectConfig` resolves templates and groups with
RECURSIVE operators, which no module with a theorem may reach. `Retention` and
`IdoDatabase` were not attempted. The settings of `FollowsOperator` are compared with
what *all* commands said, over the file and the pages, so its proof would have a case for
each command, option and field. The keys of `RowsAreUnique` hold because of what the core
tells and in which order: hosts and services are inserted without a look at the table, so an
invariant would have to speak of the stories, which are constants of the run; and the
fields of a row come out of messages (`@@`), of which the provers know nothing.

Left out of modelled components:

* checks: check periods (a check is due at any time), stalking, obsessing, performance
  data, check result files (their content is the outstanding checks), automatic
  rescheduling, and the clock being set (only `Retention` has a clock that is set back);
* `Downtime`: the comments that accompany a downtime, which are in `DowntimeList`;
* `CommandFile`: the list of passive results and the file written from it;
* `Notification`: notification commands, escalation ranges by state (given as a set) and
  conditions on other objects (an escalation may rest at any time);
* commands: `PROCESS_FILE`, saving and reading the state file on command;
* `RetentionFile`: times and counts that are only shown, and the file of a peer (sync),
  which overwrites fields that are newer than what it has;
* `WebCommand`: the check of the referrer, the commands that schedule checks, submit
  results or send notifications (they are lines that the daemon of this model passes
  over), and a status file that is older than the daemon's state;
* `ObjectConfig`: the sorting of the lists (they are in the order of the files; the circles are
  tried with their objects in every order), names that are regular
  expressions, the text of numbers, options and time ranges, numbers that are out of range,
  and the test that the daemon can write to `temp_path` and `check_result_path`
  (`base/config.c:1845`). The option that turns the check of names off is not read by this
  version (`base/icinga.c:367`); `-x`, which turns the search for circles off, is
  `circular`;
* IDO: the thread that trims old rows, sinks that are files and their rotation, the
  reconnection of a child to its server (libdbi reports a connection in any case), reads of
  fewer than 50 bytes, which the child skips, and the text of values.

Not modelled: recurring events and the times that are moved when the clock changes, the broker's callback
lists, macros, logging, performance data, daemon start, the statistics tool and the pages
of the CGIs other than `cmd.cgi` (formatting and pure look-up).

## 7. Plan

1. `EventList`: recurring events, compensation for a clock change.
2. `Broker`: callbacks that are deregistered while their list is walked.
