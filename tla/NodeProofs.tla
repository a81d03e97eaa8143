----------------------------- MODULE NodeProofs -----------------------------
(***************************************************************************)
(* The node: how it starts, and how a running one is supervised.  The two  *)
(* modules share no state; their proofs are kept together.                 *)
(***************************************************************************)
EXTENDS NodeBoot, HealthWatch, TLAPS

-----------------------------------------------------------------------------
(***************************************************************************)
(* The @SERVICES marker is honest for every table of stages whose          *)
(* dependencies point backwards and never at an uncounted stage, and a     *)
(* boot changes the snapshot only by counting itself.                      *)
(***************************************************************************)

\* A skipped stage has a failed or skipped stage before it, which is counted.
LEMMA SkipHasCause ==
    ASSUME TypeOK, NothingLost, status = "boot", pc \in Index, SkippedAs = "skipped"
    PROVE  startup_failures # 0
  <1>1. PICK j \in Needs[pc] : outcome[j] \in {"failed", "skipped"}
    BY DEF SkippedAs
  <1>2. j \in 1..(pc - 1) /\ Stages[j].name \in Stages[pc].needs
    BY <1>1 DEF Needs
  <1>3. Stages[j].name \notin Uncounted
    BY <1>2, StagesAssumption
  <1>4. outcome[j] \notin {"ok", "absent"}
    BY <1>1
  <1> QED BY <1>2, <1>3, <1>4 DEF NothingLost

\* The number of stages is a natural number.
LEMMA StagesFinite == N \in Nat
  BY StagesAssumption DEF N

\* The node starts in a state that satisfies the inductive invariant.
LEMMA InitInv == Init => TypeOK /\ NothingLost
  BY StagesFinite, StagesAssumption DEF Init, TypeOK, NothingLost, Index, Outcomes, Counts,
     NoSnapshot, BadSnapshot

\* Dealing with one stage's result keeps the table of outcomes in step with pc.
LEMMA OutcomeInv ==
    ASSUME TypeOK, NothingLost, status = "boot", pc \in Index,
           NEW o \in Outcomes \ {"todo"}, status' = status,
           outcome' = [outcome EXCEPT ![pc] = o], pc' = pc + 1,
           \/ startup_failures' = startup_failures /\ (o \in {"ok", "absent"} \/ startup_failures # 0
                                          \/ Stages[pc].name \in Uncounted)
           \/ startup_failures' = startup_failures + 1
    PROVE  /\ NothingLost'
           /\ status' \in {"boot", "ready", "hung", "halted"}
           /\ pc' \in 1..(N + 1)
           /\ outcome' \in [Index -> Outcomes]
           /\ startup_failures' \in 0..N
  <1> USE StagesFinite
  <1>1. pc' \in 1..(N + 1) /\ outcome' \in [Index -> Outcomes] /\ startup_failures' \in 0..N
    BY DEF TypeOK, NothingLost, Index
  <1>2. \A i \in Index : i >= pc' => outcome'[i] = "todo"
    BY DEF TypeOK, NothingLost, Index
  <1>3. \A i \in 1..(pc' - 1) : outcome'[i] # "todo"
    BY DEF TypeOK, NothingLost, Index
  <1>4. startup_failures' < pc'
    BY DEF TypeOK, NothingLost, Index
  <1>5. ASSUME startup_failures' = 0, NEW i \in 1..(pc' - 1)
        PROVE  outcome'[i] \in {"ok", "absent"} \/ Stages[i].name \in Uncounted
    <2>1. startup_failures = 0 /\ startup_failures' = startup_failures
      BY <1>5 DEF TypeOK
    <2>2. CASE i = pc
      BY <2>1, <2>2 DEF TypeOK, Index
    <2>3. CASE i # pc
      BY <2>1, <2>3 DEF TypeOK, NothingLost, Index
    <2> QED BY <2>2, <2>3
  <1> QED BY <1>1, <1>2, <1>3, <1>4, <1>5 DEF NothingLost

\* What a reset leaves satisfies the invariant whatever the state before it was.
LEMMA ResetInv ==
    ASSUME TypeOK, Reset, note' \in {"none", "fatal", "commanded", "starved"}
    PROVE  TypeOK' /\ NothingLost'
  BY StagesFinite, StagesAssumption DEF Reset, TypeOK, NothingLost, Index, Outcomes, Counts

\* Every step of the node preserves the inductive invariant.
LEMMA NextInv ==
    ASSUME TypeOK, NothingLost, [Next]_vars
    PROVE  TypeOK' /\ NothingLost'
  <1> USE StagesFinite
  <1>0. MaxFaults \in Nat /\ COUNT_MAX \in Nat
    BY StagesAssumption
  <1>1. CASE Stage
    BY <1>0, <1>1, OutcomeInv DEF Stage, Succeeds, Fails, Outcome, TypeOK, Outcomes
  <1>2. CASE StageAbsent
    BY <1>2, OutcomeInv DEF StageAbsent, Absent, Outcome, TypeOK, Outcomes
  <1>3. CASE StageSkipped
    <2>1. SkippedAs \in {"skipped", "absent"}
      BY DEF SkippedAs
    <2> QED BY <1>3, <2>1, OutcomeInv, SkipHasCause DEF StageSkipped, Outcome, TypeOK, Outcomes
  <1>4. CASE WatchdogStart
    BY <1>0, <1>4, OutcomeInv DEF WatchdogStart, At, Succeeds, Fails, Outcome, TypeOK, Outcomes
  <1>5. CASE ParamLoad
    BY <1>0, <1>5, OutcomeInv DEF ParamLoad, At, Succeeds, Fails, Absent, Outcome, TypeOK, Outcomes
  <1>6. CASE CountRestart
    <2>1. count' \in Counts
      BY <1>0, <1>6 DEF CountRestart, TypeOK, Succ, Counts
    <2> QED BY <1>6, <2>1, OutcomeInv DEF CountRestart, At, Succeeds, Outcome, TypeOK, Outcomes
  <1>7. CASE ParamSave
    BY <1>0, <1>7, OutcomeInv DEF ParamSave, At, TypeOK, Outcomes, Counts
  <1>8. CASE HealthStart
    BY <1>0, <1>8, OutcomeInv DEF HealthStart, At, Succeeds, Fails, Outcome, TypeOK, Outcomes
  <1>9. CASE Ready
    BY <1>9 DEF Ready, TypeOK, NothingLost
  <1>10. CASE OperatorSave \/ OperatorClear \/ OperatorLoad \/ OperatorDefaults
    BY <1>0, <1>10 DEF OperatorSave, OperatorClear, OperatorLoad, OperatorDefaults, ram,
       TypeOK, NothingLost, Counts
  <1>11. CASE PowerLoss \/ RebootWork \/ WatchdogReset
    BY <1>11, ResetInv DEF PowerLoss, RebootWork, WatchdogReset, TypeOK
  <1>12. CASE Fatal
    <2>1. CASE Reset
      BY <1>12, <2>1, ResetInv DEF Fatal
    <2>2. CASE status' = "halted" /\ UNCHANGED <<pc, outcome, startup_failures, count, feeder, faults, snapshot>>
      BY <1>12, <2>2 DEF Fatal, TypeOK, NothingLost
    <2> QED BY <1>12, <2>1, <2>2 DEF Fatal
  <1>13. CASE CoreHalts \/ StageHangs \/ SnapshotRots
    BY <1>0, <1>13 DEF CoreHalts, StageHangs, SnapshotRots, TypeOK, NothingLost
  <1>14. CASE UNCHANGED vars
    BY <1>14 DEF vars, ram, TypeOK, NothingLost
  <1> QED
    BY <1>1, <1>2, <1>3, <1>4, <1>5, <1>6, <1>7, <1>8, <1>9, <1>10, <1>11, <1>12, <1>13, <1>14
       DEF Next, StageStep

\* The boot state is well typed in every reachable state, for every stage table.
THEOREM TypeCorrect == Spec => []TypeOK
  <1>1. Init => TypeOK /\ NothingLost
    BY InitInv
  <1>2. TypeOK /\ NothingLost /\ [Next]_vars => TypeOK' /\ NothingLost'
    BY NextInv
  <1> QED BY <1>1, <1>2, PTL DEF Spec

\* Until something counted fails, every stage main() has passed is ok or absent.
THEOREM StagesAccounted == Spec => []NothingLost
  <1>1. Init => TypeOK /\ NothingLost
    BY InitInv
  <1>2. TypeOK /\ NothingLost /\ [Next]_vars => TypeOK' /\ NothingLost'
    BY NextInv
  <1> QED BY <1>1, <1>2, PTL DEF Spec

\* @SERVICES ok is printed only when no stage failed and none was left out because
\* of one that failed, for every table of stages (main.c, docs/architecture).
THEOREM MarkerIsHonest == Spec => []MarkerHonest
  <1>1. NothingLost => MarkerHonest
    BY StagesFinite DEF NothingLost, MarkerHonest, Index
  <1> QED BY <1>1, StagesAccounted, PTL

----------------------------------------------------------------------------
\* A stage is known by its name.
LEMMA StageIsKnown ==
    ASSUME NEW i \in Index, NEW name, pc \in Index, Stages[i].name = name, At(name)
    PROVE  pc = i
  BY CountingAssumption DEF At

----------------------------------------------------------------------------
(* What @SERVICES ok says about the watchdog. *)

\* The place of health in the table.
HealthAt(h) ==
    /\ h \in Index /\ Stages[h].name = "health_start" /\ Stages[h].needs = {}
    /\ \A i \in Index : Stages[i].name = "watchdog_start" => i < h

\* The inductive invariant: once health was started it failed, or it feeds.
Guarded(h) == h < pc => outcome[h] = "failed" \/ (outcome[h] = "ok" /\ feeder = "health")

\* A stage after health leaves both its outcome and the feeder alone.
LEMMA AfterHealth ==
    ASSUME NEW h, HealthAt(h), TypeOK, Guarded(h), pc \in Index, pc # h, NEW o,
           outcome' = [outcome EXCEPT ![pc] = o], pc' = pc + 1, h < pc => feeder' = feeder
    PROVE  Guarded(h)'
  <1>1. h \in Index /\ h \in Nat /\ pc \in Nat /\ outcome'[h] = outcome[h]
    BY StagesFinite DEF HealthAt, Index, TypeOK
  <1>2. h < pc' => h < pc
    BY <1>1
  <1> QED BY <1>1, <1>2 DEF Guarded

\* Every step of the node keeps health's outcome and the feeder together.
LEMMA NextGuarded ==
    ASSUME NEW h, HealthAt(h), TypeOK, Guarded(h), [Next]_vars
    PROVE  Guarded(h)'
  <1>1. h \in Index /\ h \in Nat /\ pc \in Nat
    BY StagesFinite DEF HealthAt, Index, TypeOK
  <1>2. ASSUME pc = h, status = "boot"
        PROVE  NeedsMet /\ Stages[pc].name = "health_start"
    <2>1. Needs[h] = {}
      BY <1>1 DEF Needs, HealthAt
    <2> QED BY <1>2, <2>1 DEF NeedsMet, HealthAt
  <1>3. CASE HealthStart
    <2>1. pc = h
      BY <1>1, <1>3, StageIsKnown DEF HealthStart, At, HealthAt
    <2>2. \/ outcome' = [outcome EXCEPT ![pc] = "failed"]
          \/ outcome' = [outcome EXCEPT ![pc] = "ok"] /\ feeder' = "health"
      BY <1>3 DEF HealthStart, Succeeds, Fails, Outcome
    <2> QED BY <1>1, <2>1, <2>2 DEF Guarded, TypeOK
  <1>4. CASE Stage \/ StageAbsent \/ StageSkipped \/ WatchdogStart \/ ParamLoad \/ CountRestart \/ ParamSave
    <2>1. pc \in Index /\ status = "boot" /\ pc' = pc + 1
      BY <1>4 DEF Stage, StageAbsent, StageSkipped, WatchdogStart, ParamLoad, CountRestart, ParamSave,
                  At, Succeeds, Fails, Absent, Outcome
    <2>2. pc # h
      BY <1>2, <1>4, GuardAssumption DEF Stage, StageAbsent, StageSkipped, WatchdogStart, ParamLoad,
                  CountRestart, ParamSave, At, Special
    <2>3. PICK o : outcome' = [outcome EXCEPT ![pc] = o]
      BY <1>4 DEF Stage, StageAbsent, StageSkipped, WatchdogStart, ParamLoad, CountRestart, ParamSave,
                  Succeeds, Fails, Absent, Outcome
    <2>4. h < pc => feeder' = feeder
      <3>1. CASE WatchdogStart
        <4>1. pc < h
          BY <2>1, <3>1 DEF WatchdogStart, At, HealthAt
        <4> QED BY <1>1, <4>1
      <3> QED BY <1>4, <3>1 DEF Stage, StageAbsent, StageSkipped, ParamLoad, CountRestart, ParamSave
    <2> QED BY <2>1, <2>2, <2>3, <2>4, AfterHealth
  <1>5. CASE Ready \/ OperatorSave \/ OperatorClear \/ OperatorLoad \/ OperatorDefaults
             \/ CoreHalts \/ StageHangs \/ SnapshotRots
    BY <1>5 DEF Ready, OperatorSave, OperatorClear, OperatorLoad, OperatorDefaults, CoreHalts, StageHangs,
                SnapshotRots, ram, Guarded
  <1>6. CASE Reset
    BY <1>1, <1>6 DEF Reset, Guarded, HealthAt, Index
  <1>7. CASE Fatal
    BY <1>6, <1>7 DEF Fatal, Guarded
  <1>8. CASE UNCHANGED vars
    BY <1>8 DEF vars, ram, Guarded
  <1> QED BY <1>3, <1>4, <1>5, <1>6, <1>7, <1>8 DEF Next, StageStep, PowerLoss, RebootWork, WatchdogReset

\* For every table of stages in which health comes after the watchdog, a node that
\* prints @SERVICES ok is guarded by a watchdog that health feeds (main.c).
THEOREM OkIsGuarded == Spec => []OkMeansGuarded
  <1>1. PICK h \in Index : HealthAt(h)
    BY GuardAssumption DEF HealthAt
  <1>2. Init => Guarded(h)
    BY <1>1, StagesFinite DEF Init, Guarded, Index
  <1>3. TypeOK /\ Guarded(h) /\ [Next]_vars => Guarded(h)'
    BY <1>1, NextGuarded
  <1>4. TypeOK /\ NothingLost /\ Guarded(h) => OkMeansGuarded
    <2> SUFFICES ASSUME TypeOK, NothingLost, Guarded(h), status = "ready", startup_failures = 0
                 PROVE  feeder = "health"
      BY DEF OkMeansGuarded
    <2>1. h < pc /\ h \in 1..(pc - 1)
      BY <1>1, StagesFinite DEF NothingLost, Index
    <2>2. outcome[h] # "failed"
      BY <1>1, <2>1, GuardAssumption DEF NothingLost, HealthAt
    <2> QED BY <2>1, <2>2 DEF Guarded
  <1> QED BY <1>2, <1>3, <1>4, TypeCorrect, StagesAccounted, PTL DEF Spec

----------------------------------------------------------------------------
(* What a boot does to the snapshot. *)

\* The places of the three stages in the table.
Places(load, restart, save) ==
    /\ load \in Index /\ restart \in Index /\ save \in Index
    /\ Stages[load].name = "param_load" /\ Stages[restart].name = "boot_count"
    /\ Stages[save].name = "param_save"
    /\ load < restart /\ restart < save
    /\ Stages[restart].needs \subseteq Stages[load].needs
    /\ "param_load" \in Stages[save].needs

\* The inductive invariant: from the load on, the count in RAM is the one in the
\* snapshot, and from the count on it is one more; unless the file went bad since.
InRam(load, restart, save) ==
    status = "boot" /\ load < pc /\ outcome[load] = "ok" =>
        /\ \A j \in Needs[load] : outcome[j] = "ok"
        /\ pc <= restart /\ snapshot \in Counts => count = snapshot
        /\ restart < pc /\ pc <= save /\ snapshot \in Counts => count = Succ(snapshot)

\* What loading needs is ahead of it, and counting needs nothing else.
LEMMA RestartCanRun ==
    ASSUME NEW load, NEW restart, NEW save, Places(load, restart, save), TypeOK,
           \A j \in Needs[load] : outcome[j] = "ok"
    PROVE  \A j \in Needs[restart] : outcome[j] = "ok"
  <1> SUFFICES ASSUME NEW j \in Needs[restart] PROVE outcome[j] = "ok"
    OBVIOUS
  <1>1. load \in Index /\ restart \in Index /\ N \in Nat
    BY StagesFinite DEF Places
  <1>2. j \in 1..(restart - 1) /\ Stages[j].name \in Stages[restart].needs
    BY <1>1 DEF Needs
  <1>3. Stages[j].name \in Stages[load].needs
    BY <1>2 DEF Places
  <1>4. PICK k \in 1..(load - 1) : Stages[k].name = Stages[j].name
    BY <1>1, <1>3, StagesAssumption
  <1>5. j \in Index /\ k \in Index
    BY <1>1, <1>2, <1>4 DEF Index
  <1>6. j = k
    BY <1>4, <1>5, CountingAssumption
  <1>7. j \in Needs[load]
    BY <1>1, <1>3, <1>4, <1>6 DEF Needs
  <1> QED BY <1>7

\* A stage other than these three: the count and the snapshot stay as they are, and
\* so does what was ok before.
LEMMA OtherStage ==
    ASSUME NEW load, NEW restart, NEW save, Places(load, restart, save), TypeOK,
           InRam(load, restart, save), status = "boot", pc \in Index, NEW o,
           pc # load, pc # restart,
           outcome' = [outcome EXCEPT ![pc] = o], pc' = pc + 1, UNCHANGED <<snapshot, count, status>>
    PROVE  InRam(load, restart, save)'
  <1>1. load \in Nat /\ restart \in Nat /\ save \in Nat /\ pc \in Nat /\ N \in Nat /\ load \in Index
    BY StagesFinite DEF Places, Index
  <1> SUFFICES ASSUME load < pc + 1, outcome'[load] = "ok"
               PROVE  /\ \A j \in Needs[load] : outcome'[j] = "ok"
                      /\ pc + 1 <= restart /\ snapshot \in Counts => count = snapshot
                      /\ restart < pc + 1 /\ pc + 1 <= save /\ snapshot \in Counts => count = Succ(snapshot)
    BY DEF InRam
  <1>2. load < pc /\ outcome[load] = "ok"
    BY <1>1 DEF TypeOK
  <1>3. \A j \in Needs[load] : j \in Index /\ j < pc
    BY <1>1, <1>2 DEF Needs, Index
  <1>4. \A j \in Needs[load] : outcome'[j] = "ok"
    BY <1>2, <1>3 DEF InRam, TypeOK
  <1>5. /\ pc + 1 <= restart => pc <= restart
        /\ restart < pc + 1 => restart < pc
        /\ pc + 1 <= save => pc <= save
    BY <1>1
  <1> QED BY <1>2, <1>4, <1>5 DEF InRam

\* Every stage of main() keeps the count in step with the snapshot.
LEMMA StageStepCounts ==
    ASSUME NEW load, NEW restart, NEW save, Places(load, restart, save), TypeOK, TypeOK',
           InRam(load, restart, save), StageStep
    PROVE  InRam(load, restart, save)'
  <1>1. /\ load \in Index /\ restart \in Index /\ save \in Index
        /\ load \in Nat /\ restart \in Nat /\ save \in Nat /\ N \in Nat /\ pc \in Nat
        /\ load < restart /\ restart < save
    BY StagesFinite DEF Places, Index, TypeOK
  <1>2. CASE Ready
    BY <1>2 DEF Ready, InRam
  <1>3. CASE ParamLoad
    <2>1. pc = load
      BY <1>1, <1>3, StageIsKnown DEF ParamLoad, At, Places
    <2>2. \A j \in Needs[load] : j \in Index /\ j # load
      BY <1>1 DEF Needs, Index
    <2>3. /\ pc' = pc + 1 /\ snapshot' = snapshot /\ outcome \in [Index -> Outcomes]
          /\ \E o \in {"ok", "failed", "absent"} :
                outcome' = [outcome EXCEPT ![pc] = o] /\ (o = "ok" => count' = snapshot)
      BY <1>3 DEF ParamLoad, Succeeds, Fails, Absent, Outcome, TypeOK
    <2>4. PICK o \in {"ok", "failed", "absent"} :
             outcome' = [outcome EXCEPT ![pc] = o] /\ (o = "ok" => count' = snapshot)
      BY <2>3
    <2>5. outcome'[load] = o /\ \A j \in Needs[load] : outcome'[j] = outcome[j]
      BY <1>1, <2>1, <2>2, <2>3, <2>4
    <2>6. \A j \in Needs[load] : outcome[j] = "ok"
      BY <1>3, <2>1 DEF ParamLoad, NeedsMet
    <2>7. ~(restart < pc')
      BY <1>1, <2>1, <2>3
    <2> QED BY <2>3, <2>4, <2>5, <2>6, <2>7 DEF InRam
  <1>4. CASE CountRestart
    <2>1. pc = restart
      BY <1>1, <1>4, StageIsKnown DEF CountRestart, At, Places
    <2>2. /\ status = "boot" /\ pc' = pc + 1 /\ snapshot' = snapshot /\ count' = Succ(count)
          /\ outcome' = [outcome EXCEPT ![pc] = "ok"] /\ outcome \in [Index -> Outcomes]
      BY <1>4 DEF CountRestart, At, Succeeds, Outcome, TypeOK
    <2>3. outcome'[load] = outcome[load] /\ \A j \in Needs[load] : j \in Index /\ outcome'[j] = outcome[j]
      BY <1>1, <2>1, <2>2 DEF Needs, Index
    <2>4. ~(pc' <= restart) /\ pc <= restart /\ load < pc
      BY <1>1, <2>1, <2>2
    <2> QED BY <2>2, <2>3, <2>4 DEF InRam
  <1>5. CASE ParamSave
    <2>1. pc = save
      BY <1>1, <1>5, StageIsKnown DEF ParamSave, At, Places
    <2>2. /\ status = "boot" /\ pc' = pc + 1 /\ outcome \in [Index -> Outcomes]
          /\ \E o \in {"ok", "failed"} : outcome' = [outcome EXCEPT ![pc] = o]
      BY <1>5 DEF ParamSave, At, TypeOK
    <2>3. outcome'[load] = outcome[load] /\ \A j \in Needs[load] : j \in Index /\ outcome'[j] = outcome[j]
      BY <1>1, <2>1, <2>2 DEF Needs, Index
    <2>4. ~(pc' <= restart) /\ ~(pc' <= save) /\ load < pc
      BY <1>1, <2>1, <2>2
    <2> QED BY <2>2, <2>3, <2>4 DEF InRam
  <1>6. CASE StageAbsent
    <2>1. pc \in Index /\ Stages[pc].name \notin {"param_load", "boot_count", "param_save"}
      BY <1>6, CountingAssumption DEF StageAbsent
    <2>2. pc # load /\ pc # restart
      BY <2>1 DEF Places
    <2> QED BY <1>6, <2>1, <2>2, OtherStage DEF StageAbsent, Absent, Outcome
  <1>7. CASE Stage \/ WatchdogStart \/ HealthStart
    <2>1. pc \in Index /\ Stages[pc].name \notin {"param_load", "boot_count", "param_save"}
      BY <1>7 DEF Stage, WatchdogStart, HealthStart, At, Special
    <2>2. pc # load /\ pc # restart
      BY <2>1 DEF Places
    <2>3. PICK o : outcome' = [outcome EXCEPT ![pc] = o]
      BY <1>7 DEF Stage, WatchdogStart, HealthStart, Succeeds, Fails, Outcome
    <2>4. status = "boot" /\ pc' = pc + 1 /\ UNCHANGED <<snapshot, count, status>>
      BY <1>7 DEF Stage, WatchdogStart, HealthStart, At, Succeeds, Fails, Outcome
    <2> QED BY <2>1, <2>2, <2>3, <2>4, OtherStage
  <1>8. CASE StageSkipped
    <2>1. /\ status = "boot" /\ pc \in Index /\ ~NeedsMet /\ pc' = pc + 1
          /\ UNCHANGED <<snapshot, count, status>>
          /\ outcome' = [outcome EXCEPT ![pc] = SkippedAs] /\ outcome \in [Index -> Outcomes]
      BY <1>8 DEF StageSkipped, Outcome, TypeOK
    <2>2. CASE pc = load
      <3>1. outcome'[load] = SkippedAs /\ SkippedAs # "ok"
        BY <1>1, <2>1, <2>2 DEF SkippedAs
      <3> QED BY <3>1 DEF InRam
    <2>3. CASE pc = restart
      <3>1. outcome[load] # "ok"
        <4> SUFFICES ASSUME outcome[load] = "ok" PROVE FALSE
          OBVIOUS
        <4>1. \A j \in Needs[load] : outcome[j] = "ok"
          BY <1>1, <2>1, <2>3 DEF InRam
        <4>2. \A j \in Needs[restart] : outcome[j] = "ok"
          BY <4>1, RestartCanRun
        <4> QED BY <2>1, <2>3, <4>2 DEF NeedsMet
      <3>2. outcome'[load] = outcome[load]
        BY <1>1, <2>1, <2>3
      <3> QED BY <3>1, <3>2 DEF InRam
    <2>4. CASE pc # load /\ pc # restart
      BY <2>1, <2>4, OtherStage
    <2> QED BY <2>2, <2>3, <2>4
  <1> QED BY <1>2, <1>3, <1>4, <1>5, <1>6, <1>7, <1>8 DEF StageStep

\* Every step of the node does.
LEMMA NextCounts ==
    ASSUME NEW load, NEW restart, NEW save, Places(load, restart, save), TypeOK, TypeOK',
           InRam(load, restart, save), [Next]_vars
    PROVE  InRam(load, restart, save)'
  <1>1. load \in Nat /\ load >= 1
    BY StagesFinite DEF Places, Index
  <1>2. CASE status' # "boot"
    BY <1>2 DEF InRam
  <1>3. CASE pc' = 1
    <2>1. ~(load < pc')
      BY <1>1, <1>3
    <2> QED BY <2>1 DEF InRam
  <1>4. CASE SnapshotRots
    <2>1. snapshot' \notin Counts /\ UNCHANGED <<status, pc, outcome, count>>
      BY <1>4, StagesAssumption DEF SnapshotRots, BadSnapshot, Counts
    <2> QED BY <2>1 DEF InRam
  <1>5. CASE OperatorSave \/ OperatorClear \/ OperatorLoad \/ OperatorDefaults
    <2>1. status' # "boot"
      BY <1>5 DEF OperatorSave, OperatorClear, OperatorLoad, OperatorDefaults, Operable, ram
    <2> QED BY <1>2, <2>1
  <1>6. CASE PowerLoss \/ RebootWork \/ Fatal \/ CoreHalts \/ StageHangs \/ WatchdogReset
    <2>1. status' # "boot" \/ pc' = 1
      BY <1>6 DEF PowerLoss, RebootWork, Fatal, CoreHalts, StageHangs, WatchdogReset, Reset
    <2> QED BY <1>2, <1>3, <2>1
  <1>7. CASE UNCHANGED vars
    BY <1>7 DEF vars, ram, InRam
  <1> QED BY <1>4, <1>5, <1>6, <1>7, StageStepCounts DEF Next

\* With the count in step, a step of a boot changes the snapshot only as it may.
LEMMA StepOnlyCounts ==
    ASSUME NEW load, NEW restart, NEW save, Places(load, restart, save), TypeOK,
           InRam(load, restart, save), [Next]_vars, status = "boot", snapshot' # snapshot
    PROVE  \/ snapshot' = BadSnapshot
           \/ Ok("param_load") /\ (snapshot \in Counts => snapshot' = Succ(snapshot))
  <1>1. SnapshotRots \/ ParamSave
    BY DEF Next, StageStep, Stage, StageAbsent, StageSkipped, WatchdogStart, ParamLoad, CountRestart,
           HealthStart, Ready, At, Succeeds, Fails, Absent, Outcome, OperatorSave, OperatorClear,
           OperatorLoad, OperatorDefaults, Operable, PowerLoss, RebootWork, Fatal, CoreHalts, StageHangs,
           WatchdogReset, Reset, vars, ram
  <1>2. CASE SnapshotRots
    BY <1>2 DEF SnapshotRots
  <1>3. CASE ParamSave
    <2>1. load \in Index /\ restart \in Index /\ save \in Index /\ N \in Nat /\ load < restart /\ restart < save
      BY StagesFinite DEF Places
    <2>2. pc = save
      BY <1>3, <2>1, StageIsKnown DEF ParamSave, At, Places
    <2>3. load \in Needs[save]
      BY <2>1 DEF Needs, Index, Places
    <2>4. outcome[load] = "ok"
      BY <1>3, <2>2, <2>3 DEF ParamSave, NeedsMet
    <2>5. Ok("param_load")
      BY <2>1, <2>4 DEF Ok, Places
    <2>6. snapshot' = count
      BY <1>3 DEF ParamSave
    <2>7. load < pc /\ restart < pc /\ pc <= save
      BY <2>1, <2>2 DEF Index
    <2> QED BY <2>4, <2>5, <2>6, <2>7 DEF InRam
  <1> QED BY <1>1, <1>2, <1>3

\* main.c: whatever fails and wherever the power goes, a boot changes the snapshot
\* only by counting itself once in one that it could read; for every table of
\* stages that loads, counts and saves in this order.
THEOREM BootsOnlyCount == Spec => BootOnlyCounts
  <1>1. PICK load \in Index, restart \in Index, save \in Index : Places(load, restart, save)
    BY CountingAssumption DEF Places
  <1>2. Init => InRam(load, restart, save)
    BY StagesFinite DEF Init, InRam, Index
  <1>3. TypeOK /\ TypeOK' /\ InRam(load, restart, save) /\ [Next]_vars => InRam(load, restart, save)'
    BY <1>1, NextCounts
  <1>4. TypeOK /\ InRam(load, restart, save) /\ [Next]_vars =>
           [status = "boot" /\ snapshot' # snapshot =>
               \/ snapshot' = BadSnapshot
               \/ Ok("param_load") /\ (snapshot \in Counts => snapshot' = Succ(snapshot))]_vars
    BY <1>1, StepOnlyCounts
  <1> QED BY <1>2, <1>3, <1>4, TypeCorrect, PTL DEF Spec, BootOnlyCounts

-----------------------------------------------------------------------------
(***************************************************************************)
(* For every choice of the Kconfig values that satisfies TimingAssumption, *)
(* a node in which nothing failed is never reset by its watchdog.          *)
(***************************************************************************)

HealthInv == HealthTypeOK /\ FailuresAreProbes /\ OnTimeUntilFault

(***************************************************************************)
(* What the proofs need of the two divisions in system_table.c.            *)
(***************************************************************************)
LEMMA ReportBounds ==
    /\ KFSW_APP_REPORT_MS_MAX \in Nat
    /\ 2 * KFSW_APP_REPORT_MS_MAX <= APP_DEADLINE
    /\ KFSW_APP_REPORT_MS_DEFAULT \in 1..KFSW_APP_REPORT_MS_MAX
BY TimingAssumption DEF KFSW_APP_REPORT_MS_MAX, KFSW_APP_REPORT_MS_DEFAULT

(***************************************************************************)
(* A saturating increment stays within its bound.                          *)
(***************************************************************************)
LEMMA AtMostBound ==
    ASSUME NEW most \in Nat, NEW n \in 0..most
    PROVE  AtMost(n, most) \in 0..most /\ AtMost(n, most) >= n /\ AtMost(n, most) <= n + 1
BY DEF AtMost

(***************************************************************************)
(* A node that has just started health satisfies the invariant.            *)
(***************************************************************************)
LEMMA HealthInitInv == HealthInit => HealthInv
<1> SUFFICES ASSUME HealthInit PROVE HealthInv
  OBVIOUS
<1> USE TimingAssumption, ReportBounds DEF HealthInit, HealthStarted, LivenessStarted
<1>0. /\ appAlive \in BOOLEAN /\ router \in BOOLEAN /\ lost \in BOOLEAN
      /\ faulted \in BOOLEAN /\ ~lost /\ ~faulted /\ appAlive /\ router
  BY Zenon
<1>1. HealthTypeOK /\ FailuresAreProbes
  BY <1>0 DEF HealthTypeOK, FailuresAreProbes
<1>2. AppOnTime
  BY DEF AppOnTime
<1>3. ProbeOnTime
  BY <1>0 DEF ProbeOnTime
<1>4. FeedOnTime
  BY DEF FeedOnTime
<1>5. QED
  BY <1>0, <1>1, <1>2, <1>3, <1>4, Zenon DEF HealthInv, OnTimeUntilFault

(***************************************************************************)
(* Every step keeps it: the timers' sums are what a tick leaves unchanged. *)
(***************************************************************************)
LEMMA HealthNextInv == HealthInv /\ [HealthNext]_watchVars => HealthInv'
<1> SUFFICES ASSUME HealthInv, [HealthNext]_watchVars PROVE HealthInv'
  OBVIOUS
<1> USE TimingAssumption, ReportBounds
<1> USE DEF HealthInv, HealthTypeOK, FailuresAreProbes, OnTimeUntilFault, AppOnTime,
            ProbeOnTime, FeedOnTime, appVars, cspVars, healthVars, envVars
<1>1. CASE AppReport
  BY <1>1 DEF AppReport
<1>2. ASSUME NEW value \in 0..APP_DEADLINE, SetReportMs(value) PROVE HealthInv'
  BY <1>2 DEF SetReportMs, validate_app_report_ms
<1>3. CASE ProbeStart
  BY <1>3 DEF ProbeStart
<1>4. CASE ProbeAnswered
  <2>1. lost' \in BOOLEAN /\ ~lost'
    BY <1>4, Zenon DEF ProbeAnswered
  <2>2. QED
    BY <1>4, <2>1 DEF ProbeAnswered, Reschedule, AtMost
<1>5. CASE ProbeFailed
  BY <1>5 DEF ProbeFailed, Reschedule, AtMost
<1>6. CASE HealthRun
  BY <1>6 DEF HealthRun, InTime
<1>7. CASE WatchdogFires
  BY <1>7 DEF WatchdogFires
<1>8. CASE Reboot
  <2>1. /\ appAlive' \in BOOLEAN /\ router' \in BOOLEAN /\ lost' \in BOOLEAN
        /\ faulted' \in BOOLEAN /\ ~lost' /\ ~faulted' /\ appAlive' /\ router'
    BY <1>8, Zenon DEF Reboot
  <2>2. QED
    BY <1>8, <2>1 DEF Reboot
<1>9. CASE HealthWatchCmd
  BY <1>9 DEF HealthWatchCmd
<1>10. CASE WatchedOverdue
  BY <1>10 DEF WatchedOverdue
<1>11. CASE HealthReportCmd
  BY <1>11 DEF HealthReportCmd
<1>12. CASE RouterStops
  BY <1>12 DEF RouterStops
<1>13. CASE RouterRecovers
  BY <1>13 DEF RouterRecovers
<1>14. CASE AppHangs
  BY <1>14 DEF AppHangs
<1>15. CASE Tick
  BY <1>15 DEF Tick, Due, AtMost
<1>16. CASE UNCHANGED watchVars
  BY <1>16 DEF watchVars
<1>17. QED
  BY <1>1, <1>2, <1>3, <1>4, <1>5, <1>6, <1>7, <1>8, <1>9, <1>10, <1>11,
     <1>12, <1>13, <1>14, <1>15, <1>16 DEF HealthNext

(***************************************************************************)
(* Type correctness of the supervision state, for every configuration.     *)
(***************************************************************************)
THEOREM HealthTypeCorrect == HealthSpec => []HealthTypeOK
<1>1. HealthInv => HealthTypeOK
  BY DEF HealthInv
<1>2. QED
  BY HealthInitInv, HealthNextInv, <1>1, PTL DEF HealthSpec

(***************************************************************************)
(* The watchdog resets a node only after a fault: one late turn of the     *)
(* main loop, one lost probe and the wait behind a blocked probe are each, *)
(* and together, not enough.                                               *)
(***************************************************************************)
THEOREM HealthyNodeStaysUp == HealthSpec => []NoSpuriousReset
<1>1. HealthInv => NoSpuriousReset
  BY DEF HealthInv, HealthTypeOK, OnTimeUntilFault, NoSpuriousReset
<1>2. QED
  BY HealthInitInv, HealthNextInv, <1>1, PTL DEF HealthSpec

(***************************************************************************)
(* The timing invariant itself: until a fault every timer is on time.      *)
(***************************************************************************)
THEOREM TimersOnTime == HealthSpec => []OnTimeUntilFault
<1>1. HealthInv => OnTimeUntilFault
  BY DEF HealthInv
<1>2. QED
  BY HealthInitInv, HealthNextInv, <1>1, PTL DEF HealthSpec

(***************************************************************************)
(* The two saturating counters of the probe never disagree                 *)
(* (csp_liveness.c), for every bound at which they saturate.               *)
(***************************************************************************)
THEOREM ProbeCountersAgree == HealthSpec => []FailuresAreProbes
<1>1. HealthInv => FailuresAreProbes
  BY DEF HealthInv
<1>2. QED
  BY HealthInitInv, HealthNextInv, <1>1, PTL DEF HealthSpec
=============================================================================
