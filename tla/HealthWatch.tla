---------------------------- MODULE HealthWatch ----------------------------
(***************************************************************************)
(* Supervision of a running node, after main() has called                  *)
(* kfsw_health_start(): the main loop reports "app" (app/src/main.c), the  *)
(* CSP liveness probe reports "csp" (app/src/csp_liveness.c), health feeds *)
(* the hardware watchdog while both are in time.  The probe and health are *)
(* work items of the one system workqueue, so a probe that waits for its   *)
(* reply keeps health from running.                                        *)
(*                                                                         *)
(* Time is discrete.  Tick is one unit; it is refused while something that *)
(* is due has not run, so "late" is bounded by the constants.              *)
(***************************************************************************)
EXTENDS Integers

CONSTANTS
    APP_DEADLINE,     \* CONFIG_KFSW_APP_HEALTH_DEADLINE_MS
    LATE,             \* the longest the main loop runs behind its sleep
    PERIOD,           \* CONFIG_KFSW_CSP_LIVENESS_PERIOD_MS
    TIMEOUT,          \* CONFIG_KFSW_CSP_LIVENESS_TIMEOUT_MS
    CSP_DEADLINE,     \* CONFIG_KFSW_CSP_LIVENESS_DEADLINE_MS
    INTERVAL,         \* CONFIG_KFSW_HEALTH_INTERVAL_MS
    WDT_TIMEOUT,      \* CONFIG_KFSW_WATCHDOG_TIMEOUT_MS
    COUNTER_MAX,      \* UINT32_MAX of the probe counters
    MaxOperator       \* bound: shell commands typed per boot

KFSW_APP_REPORT_MS_MAX == APP_DEADLINE \div 2
KFSW_APP_REPORT_MS_DEFAULT == APP_DEADLINE \div 4

(***************************************************************************)
(* The relations between the Kconfig values under which a healthy node is  *)
(* left alone.  Nothing in the build enforces them; the board              *)
(* configurations satisfy them (4000, 2000, 500, 8000, 500 and 8000 ms).   *)
(***************************************************************************)
ASSUME TimingAssumption ==
    /\ APP_DEADLINE \in Nat /\ APP_DEADLINE >= 4
    /\ LATE \in Nat /\ LATE <= KFSW_APP_REPORT_MS_MAX
    /\ PERIOD \in Nat \ {0}
    /\ TIMEOUT \in Nat \ {0}
    /\ CSP_DEADLINE \in Nat /\ 2 * (PERIOD + TIMEOUT) <= CSP_DEADLINE
    /\ INTERVAL \in Nat \ {0}
    /\ WDT_TIMEOUT \in Nat /\ INTERVAL + TIMEOUT < WDT_TIMEOUT
    /\ COUNTER_MAX \in Nat
    /\ MaxOperator \in Nat

VARIABLES
    node,             \* "up", or "reset" by the hardware watchdog
    appAlive,         \* the main loop still runs
    appLeft,          \* ticks until its k_sleep ends; negative when it is late
    app_report_ms,    \* the live parameter of the system table
    sinceApp,         \* ticks since "app" reported
    router,           \* the CSP router carries packets
    wq,               \* system workqueue: "idle", or blocked in the probe's "ping"
    probeLeft,        \* ticks to the next probe, or to the end of the ping's wait
    sinceCsp,         \* ticks since "csp" reported
    lost,             \* the last probe was lost although the router serves
    probes,           \* csp_liveness.c counters
    failures,
    healthLeft,       \* ticks until health checks the deadlines again
    sinceFeed,        \* ticks since the watchdog was fed
    stuck,            \* a component an operator made health watch: nothing reports it
    operator,         \* shell commands typed so far
    faulted           \* history: something really went wrong in this boot

appVars == <<appAlive, appLeft, app_report_ms, sinceApp>>
cspVars == <<wq, probeLeft, sinceCsp, lost, probes, failures>>
healthVars == <<healthLeft, sinceFeed, stuck>>
envVars == <<router, operator, faulted>>
watchVars == <<node, appVars, cspVars, healthVars, envVars>>

AtMost(n, most) == IF n < most THEN n + 1 ELSE n

----------------------------------------------------------------------------
(* A node that has just started health. *)

\* kfsw_csp_liveness_start(): registered, reported once, first probe scheduled.
LivenessStarted ==
    /\ wq = "idle"
    /\ probeLeft = PERIOD
    /\ sinceCsp = 0
    /\ lost = FALSE
    /\ probes = 0
    /\ failures = 0

\* main(): "app" is registered and the loop is about to be entered.
HealthStarted ==
    /\ appAlive = TRUE
    /\ appLeft = 0
    /\ app_report_ms = KFSW_APP_REPORT_MS_DEFAULT
    /\ sinceApp = 0
    /\ healthLeft = INTERVAL
    /\ sinceFeed = 0
    /\ stuck = "unwatched"

HealthInit ==
    /\ node = "up"
    /\ HealthStarted
    /\ LivenessStarted
    /\ router = TRUE
    /\ operator = 0
    /\ faulted = FALSE

----------------------------------------------------------------------------
(* The main loop and its parameter. *)

\* One turn of the loop of main(): report, then sleep for the parameter as it
\* stands now.
AppReport ==
    /\ node = "up" /\ appAlive
    /\ appLeft <= 0
    /\ sinceApp' = 0
    /\ appLeft' = app_report_ms
    /\ UNCHANGED <<node, appAlive, app_report_ms, cspVars, healthVars, envVars>>

\* A plausible defect: any period up to the deadline itself is accepted.
validate_app_report_ms_loose(value) == value # 0 /\ value <= APP_DEADLINE

validate_app_report_ms(value) == value # 0 /\ value <= KFSW_APP_REPORT_MS_MAX

\* An operator sets app_report_ms; the table refuses what does not validate.
SetReportMs(value) ==
    /\ node = "up"
    /\ operator < MaxOperator
    /\ validate_app_report_ms(value)
    /\ app_report_ms' = value
    /\ operator' = operator + 1
    /\ UNCHANGED <<node, appAlive, appLeft, sinceApp, cspVars, healthVars, router, faulted>>

----------------------------------------------------------------------------
(* liveness_work_handler(): one probe is a ping of this node's own address, *)
(* during which the workqueue is blocked.                                   *)

ProbeStart ==
    /\ node = "up"
    /\ wq = "idle" /\ probeLeft = 0
    /\ wq' = "ping"
    /\ probeLeft' = TIMEOUT
    /\ UNCHANGED <<node, sinceCsp, lost, probes, failures, appVars, healthVars, envVars>>

\* A plausible defect: the delay is doubled on every turn of the handler.
Reschedule_doubled == wq' = "idle" /\ probeLeft' = 2 * PERIOD

Reschedule == wq' = "idle" /\ probeLeft' = PERIOD

ProbeAnswered ==
    /\ node = "up"
    /\ wq = "ping" /\ router
    /\ probes' = AtMost(probes, COUNTER_MAX)
    /\ sinceCsp' = 0
    /\ lost' = FALSE
    /\ Reschedule
    /\ UNCHANGED <<node, failures, appVars, healthVars, envVars>>

\* Plausible defects of the failing probe: the failure counter is not saturated;
\* the probe reports whatever the ping returned.
ProbeFailed_unsaturated ==
    /\ node = "up"
    /\ wq = "ping"
    /\ router => ~lost
    /\ probes' = AtMost(probes, COUNTER_MAX)
    /\ failures' = failures + 1
    /\ lost' = (lost \/ router)
    /\ Reschedule
    /\ UNCHANGED <<node, sinceCsp, appVars, healthVars, envVars>>

ProbeFailed_reports ==
    /\ node = "up"
    /\ wq = "ping"
    /\ router => ~lost
    /\ probes' = AtMost(probes, COUNTER_MAX)
    /\ failures' = AtMost(failures, COUNTER_MAX)
    /\ sinceCsp' = 0
    /\ lost' = (lost \/ router)
    /\ Reschedule
    /\ UNCHANGED <<node, appVars, healthVars, envVars>>

\* No answer, or no buffer or connection to ask with.  A router that serves
\* loses at most one probe in a row.
ProbeFailed ==
    /\ node = "up"
    /\ wq = "ping"
    /\ router => ~lost
    /\ probes' = AtMost(probes, COUNTER_MAX)
    /\ failures' = AtMost(failures, COUNTER_MAX)
    /\ lost' = (lost \/ router)
    /\ Reschedule
    /\ UNCHANGED <<node, sinceCsp, appVars, healthVars, envVars>>

----------------------------------------------------------------------------
(* Health and the hardware watchdog (external: kfsw-services, kfsw-platform). *)

\* A plausible defect: health looks at the probe only.
InTime_csp_only == sinceCsp <= CSP_DEADLINE

\* A component is overdue past its deadline.  Reporting clears it.
InTime == sinceApp <= APP_DEADLINE /\ sinceCsp <= CSP_DEADLINE /\ stuck # "overdue"

HealthRun ==
    /\ node = "up"
    /\ wq = "idle" /\ healthLeft = 0
    /\ healthLeft' = INTERVAL
    /\ sinceFeed' = IF InTime THEN 0 ELSE sinceFeed
    /\ UNCHANGED <<node, stuck, appVars, cspVars, envVars>>

WatchdogFires ==
    /\ node = "up"
    /\ sinceFeed = WDT_TIMEOUT
    /\ node' = "reset"
    /\ UNCHANGED <<appVars, cspVars, healthVars, envVars>>

\* main() runs again and reaches kfsw_health_start().
Reboot ==
    /\ node = "reset"
    /\ node' = "up"
    /\ appAlive' = TRUE /\ appLeft' = 0 /\ sinceApp' = 0
    /\ app_report_ms' = KFSW_APP_REPORT_MS_DEFAULT
    /\ healthLeft' = INTERVAL /\ sinceFeed' = 0 /\ stuck' = "unwatched"
    /\ wq' = "idle" /\ probeLeft' = PERIOD /\ sinceCsp' = 0
    /\ lost' = FALSE /\ probes' = 0 /\ failures' = 0
    /\ router' = TRUE /\ operator' = 0 /\ faulted' = FALSE

----------------------------------------------------------------------------
(* The shell's health commands. *)

\* cmd_health_watch(): watch a component that nothing reports.
HealthWatchCmd ==
    /\ node = "up"
    /\ operator < MaxOperator
    /\ stuck = "unwatched"
    /\ stuck' = "watched"
    /\ faulted' = TRUE
    /\ operator' = operator + 1
    /\ UNCHANGED <<node, healthLeft, sinceFeed, router, appVars, cspVars>>

\* Its deadline, any the operator chose, passes.
WatchedOverdue ==
    /\ node = "up"
    /\ stuck = "watched"
    /\ stuck' = "overdue"
    /\ UNCHANGED <<node, healthLeft, sinceFeed, appVars, cspVars, envVars>>

\* cmd_health_report(): the shell may report any handle, whoever owns it.
HealthReportCmd ==
    /\ node = "up"
    /\ operator < MaxOperator
    /\ operator' = operator + 1
    /\ \/ sinceApp' = 0 /\ UNCHANGED <<sinceCsp, stuck>>
       \/ sinceCsp' = 0 /\ UNCHANGED <<sinceApp, stuck>>
       \/ stuck = "overdue" /\ stuck' = "watched" /\ UNCHANGED <<sinceApp, sinceCsp>>
    /\ UNCHANGED <<node, appAlive, appLeft, app_report_ms, wq, probeLeft, lost,
                   probes, failures, healthLeft, sinceFeed, router, faulted>>

----------------------------------------------------------------------------
(* What goes wrong, and time. *)

RouterStops ==
    /\ node = "up" /\ router
    /\ router' = FALSE
    /\ faulted' = TRUE
    /\ UNCHANGED <<node, operator, appVars, cspVars, healthVars>>

RouterRecovers ==
    /\ node = "up" /\ ~router
    /\ router' = TRUE
    /\ UNCHANGED <<node, operator, faulted, appVars, cspVars, healthVars>>

AppHangs ==
    /\ node = "up" /\ appAlive
    /\ appAlive' = FALSE
    /\ faulted' = TRUE
    /\ UNCHANGED <<node, appLeft, app_report_ms, sinceApp, router, operator, cspVars, healthVars>>

Due == \/ appAlive /\ appLeft <= -LATE
       \/ probeLeft = 0
       \/ wq = "idle" /\ healthLeft = 0
       \/ sinceFeed = WDT_TIMEOUT

\* The ages stop one past their deadline: nothing tells later values apart.
Tick ==
    /\ node = "up" /\ ~Due
    /\ appLeft' = IF appAlive THEN appLeft - 1 ELSE appLeft
    /\ sinceApp' = AtMost(sinceApp, APP_DEADLINE + 1)
    /\ sinceCsp' = AtMost(sinceCsp, CSP_DEADLINE + 1)
    /\ probeLeft' = probeLeft - 1
    /\ healthLeft' = IF healthLeft > 0 THEN healthLeft - 1 ELSE 0
    /\ sinceFeed' = sinceFeed + 1
    /\ UNCHANGED <<node, appAlive, app_report_ms, wq, lost, probes, failures, stuck, envVars>>

HealthNext ==
    \/ AppReport
    \/ \E value \in 0..APP_DEADLINE : SetReportMs(value)
    \/ ProbeStart \/ ProbeAnswered \/ ProbeFailed
    \/ HealthRun \/ WatchdogFires \/ Reboot
    \/ HealthWatchCmd \/ WatchedOverdue \/ HealthReportCmd
    \/ RouterStops \/ RouterRecovers \/ AppHangs
    \/ Tick

HealthSpec == HealthInit /\ [][HealthNext]_watchVars

(***************************************************************************)
(* Fairness.  Time passes, the workqueue runs what is due, a ping ends at  *)
(* the latest with its timeout, and the hardware watchdog needs nobody.    *)
(* The loop of main() is fair while it is alive.  Nothing is assumed of    *)
(* the operator, of the router or of the faults.                           *)
(***************************************************************************)
Fairness ==
    /\ WF_watchVars(Tick)
    /\ WF_watchVars(AppReport)
    /\ WF_watchVars(ProbeStart)
    /\ WF_watchVars(ProbeAnswered \/ ProbeFailed)
    /\ WF_watchVars(HealthRun)
    /\ WF_watchVars(WatchdogFires)

HealthFairSpec == HealthSpec /\ Fairness

----------------------------------------------------------------------------
(* Properties. *)

\* Type correctness of the supervision state, with the bounds of the timers.
HealthTypeOK ==
    /\ node \in {"up", "reset"}
    /\ appAlive \in BOOLEAN /\ router \in BOOLEAN /\ lost \in BOOLEAN
    /\ stuck \in {"unwatched", "watched", "overdue"} /\ faulted \in BOOLEAN
    /\ appLeft \in -LATE..KFSW_APP_REPORT_MS_MAX
    /\ app_report_ms \in 1..KFSW_APP_REPORT_MS_MAX
    /\ sinceApp \in 0..(APP_DEADLINE + 1)
    /\ sinceCsp \in 0..(CSP_DEADLINE + 1)
    /\ wq \in {"idle", "ping"}
    /\ probeLeft \in 0..(IF wq = "idle" THEN PERIOD ELSE TIMEOUT)
    /\ probes \in 0..COUNTER_MAX /\ failures \in 0..COUNTER_MAX
    /\ healthLeft \in 0..INTERVAL
    /\ sinceFeed \in 0..WDT_TIMEOUT
    /\ operator \in 0..MaxOperator

\* The watchdog resets a node only after a fault: neither one late turn of the
\* main loop at any report period the system table accepts, nor one lost probe
\* on a busy node, nor the time health waits behind a blocked probe, is enough.
NoSpuriousReset == node = "reset" => faulted

\* The two saturating counters of the probe never disagree: a failure is a probe.
FailuresAreProbes == failures <= probes

\* A router that stopped serving and stays so ends in a reset, whatever the
\* main loop goes on reporting (csp_liveness.c, the comment at the top).
DeadRouterResets == ~router ~> (router \/ node = "reset")

\* A main loop that stopped ends in a reset although the workqueue still runs.
HungAppResets == ~appAlive ~> node = "reset"

----------------------------------------------------------------------------
(* The inductive invariant behind NoSpuriousReset: until something faults,   *)
(* each age together with what its timer still has to run is bounded.       *)

AppOnTime == sinceApp + appLeft <= KFSW_APP_REPORT_MS_MAX

ProbeOnTime ==
    LET since == sinceCsp + probeLeft
        before == IF lost THEN PERIOD + TIMEOUT ELSE 0
    IN  IF wq = "idle" THEN since <= before + PERIOD
                       ELSE since <= before + PERIOD + TIMEOUT

\* Health waits at most one ping, and a ping never starts behind another one.
FeedOnTime ==
    /\ healthLeft > 0 => sinceFeed + healthLeft <= INTERVAL
    /\ healthLeft = 0 /\ wq = "ping" => sinceFeed + probeLeft <= INTERVAL + TIMEOUT
    /\ healthLeft = 0 /\ wq = "idle" => sinceFeed <= INTERVAL + TIMEOUT
    /\ healthLeft = 0 /\ wq = "idle" /\ probeLeft = 0 => sinceFeed <= INTERVAL

\* As long as nothing faulted, every component and every feed is on time.
OnTimeUntilFault ==
    ~faulted => /\ node = "up" /\ appAlive /\ router /\ stuck = "unwatched"
                /\ AppOnTime /\ ProbeOnTime /\ FeedOnTime
=============================================================================
