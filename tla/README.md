# K-FSW in TLA+

TLA+ models of the flight software application in `app/` and of the ground tools
in `tools/ground/`, the TLC configurations that check them on small instances,
and TLAPS proofs of what matters most for every size and every timing.

```
tlc -config MCHealthWatch.cfg HealthWatch     # one run; the table below lists all
tlapm NodeProofs.tla                          # one module of proofs
```

`PROJECT.json` maps every definition to the lines it models, and lists the runs,
the mutants (one plausible defect for each property, which the property must
catch), the hazards and the findings.

## 1. The system and its parts

This repository holds the application of a small-satellite node (Zephyr, CSP):
`main()`, the registries of commands and parameters, the shells, and the ground
tools. The services it starts (health, watchdog, parameters, housekeeping, file
transfer, firmware update, the command server) are in other repositories. They
are modelled only where this code's correctness depends on them, from how this
code calls them and from its tests and docs, and are marked external in the map.

| part | state | operations | talks to |
|---|---|---|---|
| startup, `app/src/main.c` | stage reached, `startup_failures`, flags of what started, restart count | some forty stages in order, the `@SERVICES` marker, then the loop | every service; the parameter snapshot in flash |
| fatal errors, `app/src/fatal.c` | the last words note, in RAM that a reset keeps | `k_sys_fatal_error_handler` | reset, or halt and watchdog |
| supervision, `main.c` 574-652 and `csp_liveness.c` | report timer, probe timer, `probes`, `failures` | report `app`; ping this node and report `csp` | health, on the same system workqueue; the watchdog |
| system parameters, `parameters/system_table.c` | `app_report_ms`, `reboot_pin` and others | validate, set | main loop, commands, snapshot |
| commands, `commands/command_definitions.c` | `reboot_work` | `reboot`, `golden_install`, `hk_define`, `hk_period`, `hk_clear`, readers | command server, housekeeping, recovery image |
| command shell, `shell/shell_command.c`, `shell_golden.c`, `shell_hk.c`, `shell_csp.c` | the exchange it waits in | run here, or on another node, once or with `--retry` | the command server of the other node |
| parameter shell, `shell/shell_param.c` | the command it runs, names collected, a static window of rows | `get`, `set`, `table`, `listall`, `whichtables`, here and on another node | parameter service of both nodes |
| sampled tables, `parameters/*.c` | the static cells behind the parameters | sample on read, validate and apply on write | CSP, filesystem, watchdog driver, CAN |
| housekeeping shell, `shell/shell_hk.c`, `hk_entries.c` | the command it runs, an index into samples or records | define, clear, period, store, beacon, show, get, stored, extract | housekeeping service, its collector, the command server |
| firmware shells, `shell/shell_fwu_lite.c`, `shell_fwu.c` | a handle kept over two exchanges | send, status, validate, flash, abort; begin, finish, abort | the receiver of the other node |
| clocks, `shell/shell_csp.c` | a time read before it is sent | `csp clock`, `set`, `sync`, `csp ident` | the other node's clock |
| log, `shell/shell_system.c` | a window of the ring | `log history`, `log level` | the ring that every thread writes |
| other shells, `shell/` | none | one service call each | services |
| housekeeping bridge, `tools/ground/hk-bridge.py` | KISS reader, source port, recent samples | poll, receive, drop duplicates, capture, store, forward, replay | serial line, store, Yamcs |
| store, `tools/ground/hk_store.py` | the `sample` table, the `gap` view | record, query | the bridge |
| Gpredict proxy, `tools/ground/gpredict-proxy.py` | two upstream sockets, position, frequency, counters | the commands of rotctld and rigctld | Gpredict, the daemons |
| build, flash, release, CI | files | | compiler and boards |

What is hard in it, and to test:

* **Timing.** The router probe blocks the workqueue on which health feeds the
  watchdog. Whether a healthy node is left alone depends on six Kconfig values,
  on the live `app_report_ms` and on how late the main loop runs; nothing in the
  build relates them to each other.
* **Partial failure.** `main()` goes on after a failure. Later stages are skipped
  without being counted, and `@SERVICES ok` is trusted on the ground.
* **Restarts at any point.** Between restoring, counting and saving the snapshot;
  between applying a setting, saving it and answering; between the three writes of
  a received sample.
* **A link that loses, repeats, delays and reorders.** Retried commands that must
  run once; restart requests that arrive again after the restart they asked for;
  late housekeeping replies that must not be counted as answers to a new poll.
* **Streams.** A KISS reader must come back into step after damage; a TCP
  connection must not hand an old answer to a new command.
* **Loops of exchanges.** A listing, a housekeeping read or an upload is many calls.
  Between two of them the other node restarts, its operator acts, a ring moves on, a
  write that was given up arrives, and the shell still holds what it read before.
* **One thread for all commands.** A command that waits for ever takes the shell of a
  node with it.

What makes each part correct is stated in section 4, property by property. The
hazards without a property yet are listed with a note in `PROJECT.json`.

## 2. Modules and how they correspond to the code

| module | models | proofs |
|---|---|---|
| `HealthWatch` | main loop, probe, report period, health shell, watchdog | `NodeProofs` |
| `NodeBoot`, `MCNodeBoot` | `main()` as a table of stages, snapshot, fatal errors, resets | `NodeProofs` |
| `RemoteOperation` | abstract: what a ticketed command promises its caller | |
| `CommandLink` | command shell, link, command server, handlers, `reboot_work` | `CommandLinkProofs` |
| `KissLink` | `kiss_encode` and `KissReader`, byte by byte over a bad line | `GroundProofs` |
| `HkBridge` | the loop of the bridge, its duplicates window, capture, store, replay | `GroundProofs` |
| `GpredictProxy` | `Upstream.send`, the command handlers and the profile | `GpredictProxyProofs` |
| `Selections` | what a loop keeps that passes over a list, as one operator | `SelectionsProofs` |
| `SampledTables` | the samplers and setters of five tables, as operators | |
| `ParamShell`, `MCParamShell` | the parameter shell of one node and the tables of two | `ParamShellProofs` |
| `HkShell`, `MCHkShell` | the housekeeping shell, its parsers, collector and remote settings | `HkShellProofs` |
| `FwuShell`, `ClockShell`, `LogShell` | one family of multi-step commands each, and what they meet | |
| `ShellSessions` | their composition: one shell, one other node, its restarts | `ShellSessionsProofs` |

Two pairs of components share a module of proofs (`NodeProofs`, `GroundProofs`), so the
specification of `HealthWatch` is `HealthSpec` and that of `KissLink` is `LinkSpec`, and
their type invariants are `HealthTypeOK` and `LinkTypeOK`.

**HealthWatch.** Time is discrete. `appLeft`, `probeLeft` and `healthLeft` are the
`k_sleep` of the loop and the delays of the two work items; `sinceApp`,
`sinceCsp` and `sinceFeed` are the ages that health and the watchdog look at.
`wq = "ping"` is the time `liveness_work_handler` spends inside `kfsw_csp_ping`,
during which `HealthRun` cannot run. `Tick` is refused while something that is due
has not run, so "late" is exactly what `LATE` and `TIMEOUT` allow. A router that
serves loses at most one probe in a row (`lost`): this is the assumption behind the
probe's deadline. Faults are a router that stops, a main loop that hangs, and an
operator who makes health watch something nobody reports.

**NodeBoot.** A stage is one result that `main()` looks at, with the stages its
branch depends on; `MCNodeBoot` holds the table of this repository's `main()` with
every feature compiled in. Each stage succeeds, fails, is absent where the code has
a result for that, or is skipped when what it needs did not run. `param_load`,
`boot_count` and `param_save` act on `snapshot`, which survives a reset; `note` is
the last words RAM, which a power cut clears. `feeder` says who feeds the watchdog:
nobody, the keep-alive of the watchdog service, then health, which fails when nothing is
armed that it could take over (`tests/unit/services_health`). `StageHangs` is a
stage that never returns while interrupts and the workqueue go on; `CoreHalts` stops
everything.

**CommandLink.** The network is a set that only grows: what was sent may arrive
never, late, out of order or several times. A legacy exchange is one request; a
ticketed one is `prepare`, then `execute` with the ticket, each repeated up to
`ATTEMPTS` times with the same bytes. `ServeLegacy`, `ServePrepare` and
`ServeExecute` are the external command server with its bounded, expiring ticket
table. The handlers are those of `command_definitions.c`, in full: the pin is
compared when the handler runs, `golden_install` schedules the restart only when
the install worked, a housekeeping setting that was applied but not saved is
answered as failed. `k_work_schedule` leaves an item alone that is already
scheduled. A build has the boot budget (`CONFIG_KFSW_BOOT_BUDGET`): `RebootWork` leaves
the note that makes a restart a commanded one, and `Early` is what the next boot makes of
it, which takes an attempt for any other reset and brings the recovery image in when
none is left. A healthy run (`StableRun`), `golden attempts`, an install and the recovery
image itself set the count anew. The budget is external, modelled from
`docs/architecture/fault-recovery.md`, `tests/unit/services_boot_budget` and
`tests/boot-budget-smoke.sh`. After a restart `reboot_pin` is that of whichever snapshot
was written last. `golden install` never retries: `shell_golden.c` passes on its pin and
nothing after it, although `docs/commands/index.md` offers `--retry` for remote
requests that change the node.

**KissLink.** One action of the sender per byte of `kiss_encode`; `feed` is the
body of `KissReader.feed` for one byte, one operator per branch. Bytes may be lost,
changed or invented (`Noise`). The five bytes the code tells apart are themselves,
all others are members of `Plain`.

**HkBridge.** `Ask`, `Receive`, `Answered` and `TimedOut` are `collect()`; `Expired`,
`Fresh`, `Knows` and `Remember` are `RecentSamples.accept()`; `WriteCapture`, `StoreSample`
and `Forward` are the three writes of the loop, with a kill possible between any
two. A frame is a valid sample (framing is `KissLink`'s), named by how many the node
had collected before it; its sequence number is that modulo `MODULUS`.

**GpredictProxy.** A piece of a daemon's answer is named by the command it answers.
`send` is the disjunction of the ways `Upstream.send` can end: no daemon, an answer,
an exception (which a timeout is), and a connection the daemon has closed, on which
`recv` returns nothing and raises nothing.

**SampledTables, ParamShell.** `Sampled(p, s, c)` is what reading parameter `p` does to
the cells `c` when the sources are `s`: the sampler of its group runs, the rest stays.
Counters wrap at `UINT32`, sizes are cut to `KB`. Parameters that share a sampler and a
rule are represented by one or two of them. A remote `table` collects names
(`CollectNames`, or `VisitAll` over all descriptors when the node does not serve its
table list), then reads windows; `window` is the static buffer that a failed window
leaves as it was. A remote `set` is two exchanges, the type and the write; a write in
`air` may arrive after the shell gave up. `SetIsHonest` is a refinement of the same
`RemoteOperation` that `CommandLink` implements. The remote half of the parameter
service is external.

**HkShell.** A typed line is a sequence of words, each a class, parts between colons or
junk, with its size and whether it is inside a quoted argument. `parse_entries` (for the
text that goes to another node) and the loop of `cmd_hk_define` (for arguments here) are
two operators. A first word without a colon with more after it names a node
(`NamesNode`); such a line leaves this node, unless the node is 0, which is this one
(`define_remote`). `parse_filter` cuts each value to the width of its field (`Cut`), and
the sequence numbers of the records are cut too: `Reaches` compares them by their signed
difference, as `docs/services/index.md` says of the service. `get` and `stored` take one step per sample, `show` one per report, and
between them the collector adds samples and the command server applies what another
node's shell sent. Every setting is applied and then saved, and the save may fail. The
service, with its rings in RAM and in the file, is external.

**FwuShell, ClockShell, LogShell, ShellSessions.** The receiver of an upload is external:
one slot, one owner, a generation number that a restart resets. A handle is the sender's
number of the transfer with that generation. `Resolve` is `resolve_transfer()`, and the
request it leads to stays in `air`, where it may arrive at any time and again. Clocks tick
together; a time handed over may be taken late. `ResolveFails` is every way a command ends
before its second exchange: `status` says done only of a transfer that the node does not
know, and is an error when another owner has the slot or nobody answers. The log ring is
external, and its records are known by their number; a ring that a reset kept may count
records that it does not hold (`lost`), and a level silences one module, never all writers. `ShellSessions` lets one command of the three run at a time and
restarts the other node, which loses transfer and time together.

## 3. The runs

| run | configuration | checks | result |
|---|---|---|---|
| `health` | `MCHealthWatch.cfg` | `HealthTypeOK`, `NoSpuriousReset`, `OnTimeUntilFault`, `DeadRouterResets`, `HungAppResets` | holds |
| `boot` | `MCNodeBoot.cfg` | `TypeOK`, `MarkerHonest`, `OkMeansGuarded`, `BootOnlyCounts`, `UnreachableNodeRestarts` | holds |
| `boot_hang` | `MCNodeBootHang.cfg` | `StartupHangResets` | violated |
| `command_restarts` | `MCCommandLink.cfg` | `RestartsAreAskedFor`, `RecoveryIsEarned` | holds |
| `command_once` | `MCCommandOnce.cfg` | `TicketedOnce`, `AckedSettingSurvives` | holds |
| `kiss` | `MCKissLink.cfg` | `LinkTypeOK`, `IntactFrameDelivered`, `NothingInvented` | holds |
| `bridge` | `MCHkBridge.cfg` | `EvidenceFirst`, `DuplicatesAreOld`, `LateRepliesIgnored` | holds |
| `bridge_gap` | `MCHkBridgeGap.cfg` | `GapMeansUnheard` | violated |
| `gpredict` | `MCGpredictProxy.cfg` | `ProfileObeyed`, `ReplyIsItsOwn` | holds |
| `param_shell` | `MCParamShell.cfg` | `TypeOK`, `RowsWereTrue`, `ListingIsWhole`, `CellsFitTogether`, `SetIsHonest`, `CommandEnds` | holds |
| `hk_shell` | `MCHkShell.cfg` | `TypeOK`, `DefinedAsTyped`, `RoutesAgree`, `GetSkipsNothing`, `StoredIsSelection`, `ShowIsItsOwn`, `DoneIsSaved` | holds |
| `sessions` | `MCShellSessions.cfg` | `ActsOnResolved`, `SuccessWasReal`, `HistoryHasNoGap`, `HandOverKeepsTime`, `PromptReturns` | holds |

A type invariant is in the run where it bounds a buffer, a counter or what is printed; in the
other modules it documents the types and is not a question of its own.

Bounds, and why they are enough:

* `health`: units in the proportions of the board values (4000, 2000, 500, 8000,
  500 and 8000 ms) that `TimingAssumption` allows, with both inequalities on the
  probe and the main loop tight (`2 * (PERIOD + TIMEOUT) = CSP_DEADLINE`,
  `LATE = APP_DEADLINE / 2`): one unit more breaks them. The counters saturate at 2,
  so saturation happens. One operator command per boot; the proofs cover any number.
* `boot`: the whole table of stages, and builds that restart on a fatal error as well as
  builds that halt. One fault in each boot, any stage; faults are counted anew after a
  reset, so a second boot finds what the fault of the first left. `COUNT_MAX = 2` lets
  the count grow, saturate and be counted twice by mistake. `MarkerHonest` is proved for
  any number of faults.
* `command_restarts`, `command_once`: two commands, so that one is in flight while the
  other runs; two runs of a handler, so that a duplicate is served; one
  ticket, so that a second command finds the table full; a lifetime of one tick, so that a
  ticket expires between its phases; one or two restarts, so that with `BUDGET = 1` the
  attempts run out. Retries and duplicates are left out of the first of them, where two
  commands of the two kinds already ask twice.
* `kiss`: frames up to one byte over `LIMIT = 2` of every content, two damaged
  bytes, which may hit the delimiter, the type byte, an escape and its second half.
* `bridge`: two samples, three polls over two ports, so that a port comes round;
  `CAP = 1`, so that an entry is pushed out; a clock that reaches the window; two
  lives, so that a kill is followed by a restart or a replay.
* `gpredict`: four commands reach stop, failed command, reconnection and the command
  after it. `Lines = 1`: an answer arrives whole. With `Lines = 2` and an answer
  that arrives in two pieces, `ReplyIsItsOwn` fails (see below).
* `param_shell`: two commands, so that the second finds the buffer and the cells of the
  first; `NAMES_MAX = 7` cuts the CSP table of nine and, with `WINDOW = 4`, leaves a last
  window that is not full; one change of the sources at any moment. Nodes with and without
  the table list.
* `hk_shell`: one command typed here (every subcommand), one setting from another node
  and four samples, over `DEPTH = 3` and `CAPACITY = 2`, so that both rings move while
  they are read; lines one entry too long, one word too long and one text too long;
  report number 256; lines that name a node. `WORD = 4`, so that the fourth sample wraps
  its sequence number; filters at `WORD` and `BYTE` and beyond, which are cut to no bound
  or to a smaller one.
* `sessions`: three commands of one shell, so that a transfer is sent, verified and acted
  on; two transfers and a restart, so that a generation comes again; a log of two records
  that goes round or was kept over a reset. The theorems cover every number of them.

Deadlock is checked in `health`, `boot` and `kiss`. The others have bounds that
really end (commands, lives, polls, events), and say so.

Fairness, and why the code justifies it. `HealthWatch!HealthFairSpec`: weak fairness of
time, of the two work items (the workqueue thread is cooperative and runs what is
due), of the end of a ping (it has a timeout), of a main loop that has not hung, and
of the hardware watchdog. Nothing is assumed of operators, router or faults.
`NodeBoot!FairSpec`: weak fairness of the stages (the scheduler runs `main()`; a
stage that hangs is a state of its own) and of the watchdog. `ParamShell!FairSpec` and
`ShellSessions!FairSpec`: weak fairness of the step of the shell that runs a command,
because every exchange it waits for has a timeout; nothing is assumed of the other node,
of the link, or of other threads. The other modules state
no liveness: a link that may lose everything, and a process that may be killed,
guarantee none.

## 4. What the properties say

* `NoSpuriousReset`: without a fault the watchdog never fires: not with a main loop
  that is late at any accepted report period, not with a lost probe, not with health
  stuck behind a blocked ping. `DeadRouterResets`, `HungAppResets`: with one, it does,
  although the other component goes on reporting.
* `MarkerHonest`: `@SERVICES ok` is never printed over a failed or skipped stage that
  main() counts. `BootOnlyCounts`: a boot changes the snapshot only by counting itself
  once in one it could read; a cleared one stays cleared, a bad one stays as evidence.
  `OkMeansGuarded`: a node that says `@SERVICES ok` has an armed watchdog that health
  feeds, although main() only logs a missing one and goes on. `UnreachableNodeRestarts`: a node whose CSP did not start is
  restarted by its own liveness probe.
* `RestartsAreAskedFor`: a restart is scheduled exactly when a request that quoted the pin
  in force was accepted since the node came up, at the delay after the first of them,
  which no later request moves; every boot that a command ended had accepted one, with
  the time for its reply to leave. `RecoveryIsEarned`: the recovery image comes in only for
  an install accepted in the boot that ends, or with an unexplained reset after as many of
  them as there were attempts; restarts by command use up none. `TicketedOnce`: with `--retry`,
  `CommandLink` implements `RemoteOperation`: at most one effect, a yes is true, a no
  stays true. `AckedSettingSurvives`: a node comes back with the last setting that it
  acknowledged.
* `IntactFrameDelivered`: a frame whose bytes all arrive is delivered as sent,
  whatever damage the reader met before it; one that is too long is dropped whole.
  `NothingInvented`: an undamaged line delivers nothing else.
* `EvidenceFirst`: what Yamcs was shown is stored, what is stored was captured, over
  kills, restarts and replays. `DuplicatesAreOld`: within one run a sample is stored
  again only after the window, or after `CAP` others. `LateRepliesIgnored`: a late
  reply is not counted as an answer to a later poll until the ports have gone round.
* `ProfileObeyed`: the daemons are told only what the profile allows, and the counters
  account for every command. `ReplyIsItsOwn`: Gpredict never gets the answer to an
  earlier command, also after a timeout or a restart of the daemon.
* `RowsWereTrue`: every value printed was true of the node asked, at some moment since
  the command was typed, never that of another window or node. `ListingIsWhole`: a
  listing without an error has every parameter once, and is cut only at the limit of
  names. `CellsFitTogether`: although each value is sampled by itself, what a table holds
  fits together. `SetIsHonest`: a remote set is a `RemoteOperation`. `CommandEnds`,
  `PromptReturns`: the prompt comes back, whatever the other node does not do.
* `DefinedAsTyped`, `RoutesAgree`: a report is what the words say, and the two parsers
  accept the same lines except for the lengths and quotes named there. `GetSkipsNothing`,
  `StoredIsSelection`, `ShowIsItsOwn`: what is printed while the collector and another
  operator go on; a filter admits what its last argument of each name says, cut to the
  width of the field, with a window that may cross the wrap of the sequence number. `DoneIsSaved`: who was told "done" finds the setting after a restart.
  `OnlyNamedReport` (proved, not in a run): a command touches the report of its number, or
  of its low byte.
* `ActsOnResolved`, `SuccessWasReal`: validate, flash and abort act on the transfer that
  was found and print success only for what happened, over restarts that reuse a
  generation. `HandOverKeepsTime`: only a restart takes a node's time away.
  `HistoryHasNoGap`: `log history` prints its window without a gap or says it changed, and
  that only at a record the ring does not hold.

### Where code and text disagree

Shown by a run:

1. `boot_hang`: `docs/services/index.md` says the watchdog is armed first "so a hang
   anywhere in startup still ends in a reset". A stage that never returns is fed by the
   keep-alive for ever; only a core that halts is reset.
2. `bridge_gap`: the `gap` view reports 65535 missing samples when one sample is stored
   twice in a row, which a poll after the duplicates window, a restart or a replay does.

Met while modelling; the models follow the code:

* `log history` says "Log history changed during read; retry" (`shell_system.c:193`) of any
  record it cannot read. A ring kept over a reset may count records it does not hold
  (`tests/unit/services_log_history`, `test_retained_slot_that_disagrees_is_not_served`);
  nothing changed then, and a retry ends the same way.
* A watchdog driver that stops answering leaves `timeout_ms` and `feeds` as they were, with
  `device_bound` 0, although `tests/unit/app_param_tables` wants that "an unbound watchdog
  must not report a timeout it does not hold" (it looks at a device that never answered).
  `RowsWereTrue` exempts the values of such a driver.
* A plain restart request that arrives once more after the restart restarts the node again
  when its pin still fits; only `--retry` prevents that.
* A restart request accepted while another is scheduled is answered "rebooting in
  500 ms", and has only what is left of the first one's delay (`k_work_schedule` leaves a
  scheduled item alone).
* A command sent on a connection the daemon has closed is answered with nothing, and the
  proxy does not reconnect on the next one.
* `docs/commands/index.md:323` offers `param listall` as "Every parameter of a node, with
  values"; for another node it prints a dash for each value.
* The names of a remote table beyond 32 are left out without a word, and `param table`
  returns 0 although windows of it could not be read (their rows show a dash).
* `hk stored` reads by index from a ring that moves and may pass over a record that is
  still held; `hk extract` refuses with `-EAGAIN` in the same case.
* `hk` cuts a report number over 255 to its low byte everywhere but in `define`, `from=`
  and `to=` to 16 bits and `skip=` to 8: `from=65537` selects from 1, `from=65536` and
  `skip=256` ask for nothing. (The node of a beacon is cut too; the model has no node.)
* A quoted list of entries is accepted for another node and refused for this one; a word
  as long as the token buffer is accepted here and refused there.
* `changed_can_speed()` does not look at the driver's result; the next read shows the
  speed in use.
* A `csp clock sync` that arrives late sets the other clock back.
* `docs/architecture/cfs-concept-map.md` says a work item on the system workqueue must
  not block; `liveness_work_handler` does, and `HealthWatch` shows it to be harmless
  under `TimingAssumption`.
* `system_table.c:14` says the report period must be below half the deadline; the
  validator accepts exactly half, which the proofs show to be safe.
* `docs/architecture/fault-recovery.md` says a fatal error halts the CPU; with
  `CONFIG_REBOOT` on hardware the hook resets it.
* `hk_store.py` says a row is one reception; the bridge drops a duplicate within the
  window before it reaches the store.
* `Upstream.send` takes one `recv(256)` for one answer; the second line of a position
  that arrives later would answer the next command.

## 5. What is proved

For every value of the constants that the named assumptions allow:

| theorem | states | from | inductive invariant |
|---|---|---|---|
| `NodeProofs!HealthTypeCorrect` | `[]HealthTypeOK` | `TimingAssumption` | `HealthInv` |
| `NodeProofs!HealthyNodeStaysUp` | `[]NoSpuriousReset` | `TimingAssumption` | `HealthTypeOK`, `OnTimeUntilFault` |
| `NodeProofs!TimersOnTime` | `[]OnTimeUntilFault` | `TimingAssumption` | the same |
| `NodeProofs!ProbeCountersAgree` | `[]FailuresAreProbes`: never more failures shown than probes | `TimingAssumption` | the same |
| `NodeProofs!TypeCorrect` | `[]TypeOK` | `StagesAssumption` | `TypeOK`, `NothingLost` |
| `NodeProofs!MarkerIsHonest` | `[]MarkerHonest` | `StagesAssumption` | `TypeOK`, `NothingLost` |
| `NodeProofs!OkIsGuarded` | `[]OkMeansGuarded` | `StagesAssumption`, `GuardAssumption` | `TypeOK`, `NothingLost`, `Guarded` |
| `NodeProofs!StagesAccounted` | `[]NothingLost` | `StagesAssumption` | the same |
| `NodeProofs!BootsOnlyCount` | `BootOnlyCounts`, an action property | `StagesAssumption`, `CountingAssumption` | `InRam`, with the above |
| `CommandLinkProofs!TypeCorrect` | `[]TypeOK` | `CommandLink!LinkAssumption` | `Typed` |
| `CommandLinkProofs!AcknowledgedSurvives` | `AckedSettingSurvives`, an action property | the same | `AckedIsSaved` |
| `CommandLinkProofs!RestartsAsked` | `[]RestartsAreAskedFor` | the same | `Typed`, `Timed`, `RestartsAreAskedFor` |
| `CommandLinkProofs!RecoveryEarned` | `RecoveryIsEarned`, an action property | the same | `Typed`, `Timed`, `InstallAsked`, `Spent` |
| `CommandLinkProofs!KeepsPromise` | `TicketedOnce`: the refinement of `RemoteOperation` | the same | `Ticketed` |
| `GpredictProxyProofs!TypeCorrect` | `[]TypeOK` | `ProxyAssumption` | `TypeOK` |
| `GpredictProxyProofs!ProfileIsObeyed` | `[]ProfileObeyed` | `ProxyAssumption` | `TypeOK`, `ProfileObeyed` |
| `GpredictProxyProofs!RepliesAreTheirOwn` | `[]ReplyIsItsOwn` | `ProxyAssumption`, `Lines = 1` | `TypeOK`, `Drained` |
| `HkShellProofs!DefinitionsAsTyped` | `[]DefinedAsTyped` | `HkAssumption` | `Settled` |
| `HkShellProofs!SettingsDoneAreSaved` | `[]DoneIsSaved` | `HkAssumption` | `Settled` |
| `HkShellProofs!RoutesAlwaysAgree` | `[]RoutesAgree` | `HkAssumption` | `Settled`, `DefineAnswered` |
| `HkShellProofs!OthersUntouched` | `OnlyNamedReport`, an action property | `HkAssumption` | `Settled` |
| `HkShellProofs!GetNeverSkips` | `[]GetSkipsNothing` | `HkAssumption` | `Settled`, `Ring`, `Getting` |
| `HkShellProofs!ShowsItsOwn` | `[]ShowIsItsOwn` | `HkAssumption` | `Settled`, `Showing` |
| `HkShellProofs!StoredReadsSelection` | `[]StoredIsSelection` | `HkAssumption` | `Settled`, `Stores`, `Reading` |
| `HkShellProofs!TypeCorrect` | `[]TypeOK` | `HkAssumption` | all of these, `Limits`, `IndexFits`, `Bounds` |
| `ParamShellProofs!TypeCorrect` | `[]TypeOK` | `ShellAssumption`, `FsAssumption` | `ShellOK` |
| `ParamShellProofs!CellsAlwaysFit` | `[]CellsFitTogether` | the same | `ShellOK` |
| `ParamShellProofs!PrintedWasTrue` | `[]RowsWereTrue` | the same | `ShellOK`, `TruthOK` |
| `ParamShellProofs!ListingsAreWhole` | `[]ListingIsWhole` | the same | `ShellOK`, `Whole` |
| `ParamShellProofs!SetsAreHonest` | `SetIsHonest`: the refinement of `RemoteOperation` | the same | `ShellOK`, `HonestOK` |
| `GroundProofs!ReaderFollowsSender` | `[]InStep` | `KissLink!LinkAssumption` | `LinkTypeOK`, `InStep` |
| `GroundProofs!IntactFramesAreDelivered` | `[]IntactFrameDelivered` | `LinkAssumption` | `LinkTypeOK`, `InStep` |
| `GroundProofs!CleanLineInventsNothing` | `[]NothingInvented` | `LinkAssumption` | the same |
| `GroundProofs!ReaderBounded` | `[]LinkTypeOK`: the buffer never exceeds the limit | `LinkAssumption` | the same |
| `GroundProofs!EvidenceIsFirst` | `[]EvidenceFirst` | `BridgeAssumption` | `WrittenInOrder` |
| `GroundProofs!LateRepliesAreIgnored` | `[]LateRepliesIgnored` | `BridgeAssumption` | `PortsInOrder` |
| `GroundProofs!DuplicatesAreRefused` | `[]DuplicatesAreOld` | `BridgeAssumption` | `DuplicatesRemembered` |
| `ShellSessionsProofs!CommandsActOnResolved` | `[]ActsOnResolved` | `FwuAssumption` | `FwuInv` |
| `ShellSessionsProofs!SuccessesAreReal` | `[]SuccessWasReal` | `FwuAssumption` | the same |
| `ShellSessionsProofs!HistoryIsWhole` | `[]HistoryHasNoGap` | `LogAssumption` | `LogInv` |
| `ShellSessionsProofs!HandOversKeepTime` | `HandOverKeepsTime`, an action property | `ClockAssumption` | `ClockInv` |

The arguments:

* *HealthWatch.* That no age is past its deadline is not inductive: it says nothing of
  how long the next report may still take. `OnTimeUntilFault` adds what is left on each
  timer: an age plus its remaining delay is within a budget, which a lost probe extends
  once. Feeding needs a case split, because health waits behind a ping that started
  just before it was due, and never behind two. `TimingAssumption` is the set of
  relations between the Kconfig values under which this adds up. It is an assumption of
  the model; the build does not enforce it.
* *NodeBoot.* `MarkerHonest` speaks of the end of a boot. `NothingLost` carries it
  through: while `startup_failures = 0`, everything before `pc` is ok, absent or uncounted,
  everything from `pc` on is untouched. A skipped stage has a cause among the earlier
  ones (`SkipHasCause`), which is why `StagesAssumption` wants dependencies to point
  backwards and never at an uncounted stage.
* *KissLink.* `InStep` relates the reader to the sender inside an intact frame: its
  buffer is exactly the prefix sent, escapes agree, and past the limit it is closed
  until the next delimiter. There is one lemma per byte the sender writes.
* *HkBridge.* `EvidenceFirst` alone does not survive `StoreSample`. `WrittenInOrder`
  adds that the sample about to be stored has been captured, and the one about to be
  forwarded stored, in a replay too.
* *ShellSessions.* `ActsOnResolved` speaks of what was done; it holds because a request
  never carries another handle than that of the transfer it was meant for
  (`HandlesAreMeant`). `SuccessWasReal` needs in addition that a good reply the shell
  holds and has not printed yet belongs to something done (`ReplyIsMeant`). `LogInv` says
  that the rows are exactly the window up to the next record, and `ClockInv` that no
  unset time is ever handed over. Each is preserved by its own component and left alone
  by the others, which is how the composition is proved.
* *NodeBoot, the count.* `BootOnlyCounts` compares a step with the snapshot before it.
  `InRam` says between which stages the count in RAM is the one in the snapshot and
  between which it is one more. `CountingAssumption` says what main()'s order of the three
  stages gives: load before count before save, names that differ, a save that needs the
  load. TLC evaluates it on the whole table of `MCNodeBoot`.
* *CommandLink.* `RestartsAreAskedFor` is inductive once no accepted request is later than
  the clock or of a boot to come (`Timed`): the first one accepted in a boot is the
  earliest, and later ones leave the item alone. `RecoveryIsEarned` speaks of one step.
  `InstallAsked` carries the request from the handler to the restart, and `Spent` says
  that what is left and what unexplained resets took since the count was last set are
  never less than what it was set to: at zero, they took it all. A setting is acknowledged only after its save, so the file holds
  what was acknowledged last (`AckedIsSaved`), and a boot reads the file. The refinement
  needs `Ticketed`: no two shells wait for one command, a command is executed with one
  ticket only, a ticket's recorded result is that of the one run, and every answer on the
  way back is that result. With it each step maps to a step of `RemoteOperation` or to
  none; resends, expiry, restarts and duplicates all map to none.
* *HkBridge, ports and duplicates.* A late reply is ignored because its port is behind by
  exactly the number of requests made since, modulo `PORTS`, which `Behind` says without a
  modulo. For duplicates, every row of this run is old, or still remembered with no more
  entries behind it than samples accepted since, or pushed out by `CAP` of them
  (`Remembers`). The table is in the order of time, which is why dropping from its head
  (`Expired`) drops exactly what is old.
* *GpredictProxy.* `ProfileObeyed` is inductive with the types. `ReplyIsItsOwn` holds for
  `Lines = 1` because no piece is ever left unread (`Drained`); it is false for two.
* *HkShell.* Whatever the command and whoever sent it, a setting is one change of one
  report (`Changes`), and the lines are read once and for all in `ReadHere` and
  `ReadThere`: both parsers give what the words say, which is all that `DefinedAsTyped`
  and `RoutesAgree` need. `DoneIsSaved` is not inductive, since a save of one report writes
  all of them: `LastIsKept` adds that the settings in force are always among those the
  snapshot may hold. `GetSkipsNothing` rests on the ring having no gap (`Ring`) and on how
  far the sample at the next age can be behind the last row printed (`GetAt`): a collection
  only makes it newer, a new definition starts a new generation. `ShowIsItsOwn` needs that
  the last row belongs to the report that is being read.
* *HkShell, the file.* `hk stored` counts, and then reads by an index that the collector
  makes stale. Its rows are in order because everything the selection has from the index
  on is newer than the last row (`Ahead`): a new record is newer than all, and when the
  oldest one falls out the selection moves towards the reader (`KeptTail`), so that a
  record may be passed over but none comes again. A new definition starts a new
  generation, whose records are not compared with the old ones (`GoesOn`). While the file
  is the one that was counted, the rows are the beginning of its selection and at the end
  all of it (`ReadAsCounted`). What the filter asks is what the last argument of each name
  says (`LastArgumentCounts`), by induction over the arguments.
* *ParamShell.* `ShellOK` says for every phase of a command what was collected and printed
  so far: the names are the table's in order, cut at the limit (`Cut`), the rows follow the
  names, the window asked for begins where the rows end. That the rows of all tables are
  whole (`Whole`) then holds when the loop ends, because picking a table's names out of all
  descriptors of an older node gives the same names in the same order as the table itself
  (`KeptConcat` over the five tables, of which no two share a name). A cell fits its table
  after every sample because each sampler writes its cells together or marks that it could
  not; `FsAssumption`, that a filesystem which is not mounted reports no capacity, is what
  `tests/unit/platform_storage` asserts of the driver. `TruthOK` adds to `RowsWereTrue` that
  the source of the node asked is always among those that count, and that what waits in the
  reply is as good as what is printed. `HonestOK` is the refinement's invariant: a write on
  its way was not applied and nobody was told of it, one at most for each command, and an
  acknowledgement agrees with what was done.
* *Selections.* What a recursive function computes for every sequence is proved by
  induction. The library's induction theorems take a predicate as a parameter, which the
  provers cannot instantiate; `LeastNatural`, from the well-foundedness of the naturals,
  gives an induction over a *set* of numbers (`Induction`) that they can, and with it what
  `Kept` does to an appended element, a concatenation and a tail.

Only model-checked, and why:

* the liveness properties (`DeadRouterResets`, `HungAppResets`,
  `UnreachableNodeRestarts`, `CommandEnds`, `PromptReturns`): fairness is out of the
  prover's reach.

Every other property of a passing run is stated by a theorem.

## 6. What is not modelled

Text and layout of replies, columns, logging, checksums and header packing. The services'
own repositories, beyond what the modules above need: file transfer with its retries, the
schedule of file based operations, the remote executor, the paging of a remote log. The
diagnostics of storage and file transfer, the host clock and the ground's file staging and
log decoding, which are sequences of calls in one thread with nothing beside them. Shells
that make one call and print its result. Of the boot budget: the boot loader going back
from an image that was never confirmed, the refill by a firmware update, and a change of
`boot_attempts_max`. Build, flash, release and CI scripts, which have
no run-time behaviour. `PROJECT.json` lists each with the reason.

## 7. Plan

Done in this order, because a node that restarts without cause or comes up silently
broken is worse than any of the rest: supervision, startup, commands, ground link,
bridge, proxy; then the shells that hold state over several exchanges: parameters,
housekeeping, uploads, clocks, log. What is left of the shells makes one call.

Compositions: `CommandLink` with `NodeBoot` (a commanded restart and what the next boot
finds); `HkBridge` over `KissLink`'s delivery property.

Every safety property of a passing run is proved (`ReplyIsItsOwn` for `Lines = 1`). Theorems
worth proving next belong to the two compositions.
