------------------------------ MODULE NodeBoot ------------------------------
(***************************************************************************)
(* One boot after another of a node: main() (app/src/main.c) runs its      *)
(* stages in order, counts the ones that fail, skips the ones that depend  *)
(* on them, prints the @SERVICES marker and stays in its loop.  The        *)
(* parameter snapshot is the state that survives a reset; a boot reads it, *)
(* counts itself and writes it back.  The hardware watchdog is armed by a  *)
(* stage, fed by a keep-alive, then by health.                             *)
(*                                                                         *)
(* A stage is one result that main() looks at.  The stages of this         *)
(* repository's main() are the table of MCNodeBoot.                        *)
(***************************************************************************)
EXTENDS Integers, Sequences

CONSTANTS
    Stages,           \* the stages in order: a name and the names it depends on
    Uncounted,        \* stages whose failure main() does not count
    MayBeAbsent,      \* stages with a result that means "not on this node"
    FatalReboots,     \* builds: TRUE for CONFIG_REBOOT && !CONFIG_ARCH_POSIX (fatal.c)
    COUNT_MAX,        \* the restart count saturates here
    MaxFaults         \* bound: faults in one boot

N == Len(Stages)
Index == 1..N
Names == {Stages[i].name : i \in Index}

\* main() depends on what it has already run, and on nothing it does not count.
ASSUME StagesAssumption ==
    /\ Stages \in Seq([name : STRING, needs : SUBSET STRING])
    /\ Uncounted \subseteq STRING /\ MayBeAbsent \subseteq STRING
    /\ \A i \in Index : Stages[i].needs \cap Uncounted = {}
    /\ \A i \in Index : Stages[i].needs \subseteq {Stages[j].name : j \in 1..(i - 1)}
    /\ FatalReboots \subseteq BOOLEAN
    /\ COUNT_MAX \in Nat \ {0} /\ MaxFaults \in Nat

\* Every stage has its own name.  The snapshot is loaded, counted in and saved in
\* this order; counting needs no more than loading does, and saving needs the load.
ASSUME CountingAssumption ==
    /\ \A i, j \in Index : Stages[i].name = Stages[j].name => i = j
    /\ \E load, restart, save \in Index :
          /\ Stages[load].name = "param_load" /\ Stages[restart].name = "boot_count"
          /\ Stages[save].name = "param_save"
          /\ load < restart /\ restart < save
          /\ Stages[restart].needs \subseteq Stages[load].needs
          /\ "param_load" \in Stages[save].needs
    /\ {"param_load", "boot_count", "param_save"} \cap MayBeAbsent = {}

\* Health depends on no stage, always has a result that counts, and starts after the
\* watchdog was armed.
ASSUME GuardAssumption ==
    /\ \E health \in Index :
          /\ Stages[health].name = "health_start" /\ Stages[health].needs = {}
          /\ \A i \in Index : Stages[i].name = "watchdog_start" => i < health
    /\ "health_start" \notin Uncounted \cup MayBeAbsent

VARIABLES
    status,           \* "boot", "ready", "hung" (this thread) or "halted" (the core)
    pc,               \* the stage main() runs next
    outcome,          \* what became of each stage in this boot
    startup_failures, \* stages that went wrong
    count,            \* boot_count, in RAM
    feeder,           \* who feeds the watchdog: "none" while it is not armed
    snapshot,         \* the saved parameters: none, a bad file, or the count in them
    note,             \* last words: RAM that a reset keeps and a power cut clears
    faults            \* faults so far in this boot

ram == <<status, pc, outcome, startup_failures, count, feeder, faults>>
vars == <<ram, snapshot, note>>

Outcomes == {"todo", "ok", "failed", "skipped", "absent"}
Counts == 0..COUNT_MAX
NoSnapshot == -1
BadSnapshot == -2
\* A plausible defect: the count is written past its width.
Succ_wraps(n) == n + 1

Succ(n) == IF n < COUNT_MAX THEN n + 1 ELSE n

Init ==
    /\ status = "boot" /\ pc = 1
    /\ outcome = [i \in Index |-> "todo"]
    /\ startup_failures = 0 /\ count = 0
    /\ feeder = "none"
    /\ faults = 0
    /\ snapshot = NoSnapshot
    /\ note = "none"

----------------------------------------------------------------------------
(* The stages of main(). *)

At(name) == status = "boot" /\ pc \in Index /\ Stages[pc].name = name

\* The stages that stage i depends on.
Needs == [i \in Index |-> {j \in 1..(i - 1) : Stages[j].name \in Stages[i].needs}]
NeedsMet == \A j \in Needs[pc] : outcome[j] = "ok"

\* The result of the stage is dealt with and main() goes on.
Outcome(o) ==
    /\ outcome' = [outcome EXCEPT ![pc] = o]
    /\ pc' = pc + 1
    /\ UNCHANGED <<status, snapshot, note>>

Succeeds == Outcome("ok") /\ UNCHANGED <<startup_failures, faults>>

\* A plausible defect: a failed init is logged, not counted.
Fails_uncounted_init ==
    /\ faults < MaxFaults
    /\ faults' = faults + 1
    /\ Outcome("failed")
    /\ startup_failures' = IF Stages[pc].name \in Uncounted \cup {"csp_init"} THEN startup_failures
                           ELSE startup_failures + 1

Fails ==
    /\ faults < MaxFaults
    /\ faults' = faults + 1
    /\ Outcome("failed")
    /\ startup_failures' = IF Stages[pc].name \in Uncounted THEN startup_failures ELSE startup_failures + 1

Absent == Outcome("absent") /\ UNCHANGED <<startup_failures, faults>>

Special == {"watchdog_start", "param_load", "boot_count", "param_save", "health_start"}

Stage ==
    /\ status = "boot" /\ pc \in Index /\ NeedsMet
    /\ Stages[pc].name \notin Special
    /\ Succeeds \/ Fails
    /\ UNCHANGED <<count, feeder>>

\* -ENODEV from the watchdog driver, -ENOTSUP from the supply monitor.
StageAbsent ==
    /\ status = "boot" /\ pc \in Index /\ NeedsMet
    /\ Stages[pc].name \in MayBeAbsent
    /\ Absent
    /\ UNCHANGED <<count, feeder>>

\* What depends on a failure is not run; what depends on something absent is absent.
SkippedAs ==
    IF \E j \in Needs[pc] : outcome[j] \in {"failed", "skipped"}
    THEN "skipped" ELSE "absent"

StageSkipped ==
    /\ status = "boot" /\ pc \in Index /\ ~NeedsMet
    /\ Outcome(SkippedAs)
    /\ UNCHANGED <<startup_failures, faults, count, feeder>>

WatchdogStart ==
    /\ At("watchdog_start") /\ NeedsMet
    /\ \/ Succeeds /\ feeder' = "keepalive"
       \/ Fails /\ UNCHANGED feeder
    /\ UNCHANGED count

\* kfsw_param_persist_load(): a whole snapshot or none of it.
ParamLoad ==
    /\ At("param_load") /\ NeedsMet
    /\ \/ snapshot \in Counts /\ Succeeds /\ count' = snapshot
       \/ snapshot = NoSnapshot /\ Absent /\ UNCHANGED count
       \/ Fails /\ UNCHANGED count
       \/ snapshot = BadSnapshot /\ Outcome("failed") /\ startup_failures' = startup_failures + 1
          /\ UNCHANGED <<faults, count>>
    /\ UNCHANGED feeder

\* kfsw_boot_count_restart(), after the snapshot; it has no result.
CountRestart ==
    /\ At("boot_count") /\ NeedsMet
    /\ Succeeds
    /\ count' = Succ(count)
    /\ UNCHANGED feeder

\* A plausible defect: the count is written back whether or not there was a snapshot.
ParamSave_always ==
    /\ At("param_save")
    /\ outcome' = [outcome EXCEPT ![pc] = "ok"] /\ pc' = pc + 1
    /\ snapshot' = count
    /\ UNCHANGED <<status, startup_failures, faults, count, feeder, note>>

\* had_snapshot is the dependency on param_load.  The write is a rename: the
\* snapshot is the new one or, when it fails, the old one.
ParamSave ==
    /\ At("param_save") /\ NeedsMet
    /\ pc' = pc + 1
    /\ \/ /\ outcome' = [outcome EXCEPT ![pc] = "ok"]
          /\ snapshot' = count
          /\ UNCHANGED <<startup_failures, faults>>
       \/ /\ faults < MaxFaults
          /\ faults' = faults + 1
          /\ outcome' = [outcome EXCEPT ![pc] = "failed"]
          /\ startup_failures' = startup_failures + 1
          /\ UNCHANGED snapshot
    /\ UNCHANGED <<status, count, feeder, note>>

\* A plausible defect: with no watchdog to take over, the result is logged and not
\* counted, as that of the watchdog itself is.
HealthStart_excused ==
    /\ At("health_start") /\ NeedsMet
    /\ IF feeder = "none" THEN Absent /\ UNCHANGED feeder
       ELSE \/ Succeeds /\ feeder' = "health"
            \/ Fails /\ UNCHANGED feeder
    /\ UNCHANGED count

\* Health takes the feeding over from the keep-alive; with no armed watchdog there
\* is nothing to take over and it fails (-ENODEV).
HealthStart ==
    /\ At("health_start") /\ NeedsMet
    /\ \/ feeder # "none" /\ Succeeds /\ feeder' = "health"
       \/ Fails /\ UNCHANGED feeder
       \/ /\ feeder = "none"
          /\ Outcome("failed") /\ startup_failures' = startup_failures + 1
          /\ UNCHANGED <<faults, feeder>>
    /\ UNCHANGED count

\* The marker, kfsw_boot_service_start() and the loop.
Ready ==
    /\ status = "boot" /\ pc = N + 1
    /\ status' = "ready"
    /\ UNCHANGED <<pc, outcome, startup_failures, count, feeder, faults, snapshot, note>>

StageStep ==
    \/ Stage \/ StageAbsent \/ StageSkipped
    \/ WatchdogStart \/ ParamLoad \/ CountRestart \/ ParamSave \/ HealthStart
    \/ Ready

----------------------------------------------------------------------------
(* The snapshot at run time, from the shell of a node that is ready. *)

StorageUp == \E i \in Index : Stages[i].name = "storage" /\ outcome[i] = "ok"
ParamsUp == \E i \in Index : Stages[i].name = "param_init" /\ outcome[i] = "ok"
Operable == status = "ready" /\ StorageUp /\ ParamsUp

\* cmd_param_save(), cmd_param_persist() and a set with param_autosave on.
OperatorSave ==
    /\ Operable
    /\ snapshot' = count
    /\ UNCHANGED <<ram, note>>

OperatorClear ==
    /\ Operable
    /\ snapshot' = NoSnapshot
    /\ UNCHANGED <<ram, note>>

OperatorLoad ==
    /\ Operable
    /\ snapshot \in Counts
    /\ count' = snapshot
    /\ UNCHANGED <<status, pc, outcome, startup_failures, feeder, faults, snapshot, note>>

\* cmd_param_defaults(): RAM only.
OperatorDefaults ==
    /\ Operable
    /\ count' = 0
    /\ UNCHANGED <<status, pc, outcome, startup_failures, feeder, faults, snapshot, note>>

----------------------------------------------------------------------------
(* Faults and resets. *)

Reset ==
    /\ status' = "boot" /\ pc' = 1
    /\ outcome' = [i \in Index |-> "todo"]
    /\ startup_failures' = 0 /\ count' = 0
    /\ feeder' = "none"
    /\ faults' = 0
    /\ UNCHANGED snapshot

PowerLoss == Reset /\ note' = "none"

\* reboot_work_handler() of the reboot command
RebootWork ==
    /\ status = "ready"
    /\ note' = "commanded"
    /\ Reset

\* k_sys_fatal_error_handler()
Fatal ==
    /\ status \in {"boot", "ready"}
    /\ note' = "fatal"
    /\ \E reboots \in FatalReboots :
          IF reboots THEN Reset
          ELSE status' = "halted" /\ UNCHANGED <<pc, outcome, startup_failures, count, feeder, faults, snapshot>>

\* The core stops: nothing runs any more, the workqueue included.
CoreHalts ==
    /\ status \in {"boot", "ready"}
    /\ faults < MaxFaults
    /\ faults' = faults + 1
    /\ status' = "halted"
    /\ UNCHANGED <<pc, outcome, startup_failures, count, feeder, snapshot, note>>

\* A stage never returns while interrupts and the workqueue go on.
StageHangs ==
    /\ status = "boot" /\ pc \in Index
    /\ faults < MaxFaults
    /\ faults' = faults + 1
    /\ status' = "hung"
    /\ UNCHANGED <<pc, outcome, startup_failures, count, feeder, snapshot, note>>

\* The stored file no longer passes its CRC.
SnapshotRots ==
    /\ snapshot \in Counts
    /\ faults < MaxFaults
    /\ faults' = faults + 1
    /\ snapshot' = BadSnapshot
    /\ UNCHANGED <<status, pc, outcome, startup_failures, count, feeder, note>>

Ok(name) == \E i \in Index : Stages[i].name = name /\ outcome[i] = "ok"

\* Health watches the router through a probe that was started, and the router
\* does not answer because CSP did not start.
Starves == feeder = "health" /\ Ok("csp_liveness") /\ ~Ok("csp_start")

WatchdogReset ==
    /\ \/ status = "halted" /\ feeder # "none" /\ UNCHANGED note
       \/ status = "ready" /\ Starves /\ note' = "starved"
    /\ Reset

Next ==
    \/ StageStep
    \/ OperatorSave \/ OperatorClear \/ OperatorLoad \/ OperatorDefaults
    \/ PowerLoss \/ RebootWork \/ Fatal \/ CoreHalts \/ StageHangs \/ SnapshotRots
    \/ WatchdogReset

Spec == Init /\ [][Next]_vars

\* The scheduler runs main(), and the watchdog needs nobody.
FairSpec == Spec /\ WF_vars(StageStep) /\ WF_vars(WatchdogReset)

----------------------------------------------------------------------------
(* Properties. *)

\* Type correctness of the boot state.
TypeOK ==
    /\ status \in {"boot", "ready", "hung", "halted"}
    /\ pc \in 1..(N + 1)
    /\ outcome \in [Index -> Outcomes]
    /\ startup_failures \in 0..N
    /\ count \in Counts
    /\ feeder \in {"none", "keepalive", "health"}
    /\ snapshot \in Counts \cup {NoSnapshot, BadSnapshot}
    /\ note \in {"none", "fatal", "commanded", "starved"}
    /\ faults \in 0..MaxFaults

\* docs/architecture/index.md: @SERVICES ok means that every stage ran.  A stage
\* that was not run because of an earlier one never hides behind "failures=0".
MarkerHonest ==
    status = "ready" /\ startup_failures = 0 =>
        \A i \in Index : \/ outcome[i] \in {"ok", "absent"}
                         \/ Stages[i].name \in Uncounted

\* main.c: a boot changes the snapshot only by counting itself once in a snapshot
\* that it could read: a cleared one stays cleared, a bad one stays as evidence,
\* whatever fails and wherever the power goes.
BootOnlyCounts ==
    [][status = "boot" /\ snapshot' # snapshot =>
          \/ snapshot' = BadSnapshot
          \/ Ok("param_load") /\ (snapshot \in Counts => snapshot' = Succ(snapshot))]_vars

\* A node that says @SERVICES ok and goes on has its watchdog armed and fed by health:
\* one without a watchdog device, which startup only logs as "running unguarded", is
\* given away by health far later in startup.
OkMeansGuarded == status = "ready" /\ startup_failures = 0 => feeder = "health"

\* A node on which only CSP failed to start is not left running out of reach:
\* the liveness probe starves the watchdog and the node tries again.
UnreachableNodeRestarts ==
    status = "ready" /\ startup_failures = 1 /\ feeder = "health"
        /\ (\E i \in Index : Stages[i].name = "csp_start" /\ outcome[i] = "failed")
    ~> status = "boot"

\* docs/services/index.md: the watchdog is armed first, so that a hang anywhere
\* in startup still ends in a reset.
StartupHangResets == status = "hung" /\ Ok("watchdog_start") ~> status = "boot"

----------------------------------------------------------------------------
(* The inductive invariant behind MarkerHonest. *)

\* While nothing counted has failed, what has been run is ok or absent, and what
\* is ahead has not been touched.
NothingLost ==
    /\ status = "ready" => pc = N + 1
    /\ \A i \in Index : i >= pc => outcome[i] = "todo"
    /\ \A i \in 1..(pc - 1) : outcome[i] # "todo"
    /\ startup_failures < pc
    /\ startup_failures = 0 => \A i \in 1..(pc - 1) : \/ outcome[i] \in {"ok", "absent"}
                                              \/ Stages[i].name \in Uncounted
=============================================================================
