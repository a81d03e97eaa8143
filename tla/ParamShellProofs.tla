-------------------------- MODULE ParamShellProofs --------------------------
(***************************************************************************)
(* The parameter shell, for any names, values, filesystems, windows and    *)
(* numbers of commands and changes: what a value that is printed was, what *)
(* a listing holds, how the cells of a table fit together, and what a set  *)
(* that was answered means.                                                *)
(***************************************************************************)
EXTENDS ParamShell, SelectionsProofs, FiniteSetTheorems, TLAPS

WatchNames == {"timeout_ms", "feeds", "since_feed_ms", "device_bound"}
StorageNames == {"total_kb", "free_kb", "used_pct", "mounted"}
FsNames == {"fs_total_kb", "fs_free_kb", "fs_mounted"}
CountNames == TotalNames \cup {"interfaces"}
SwitchNames == {"csp_enabled", "route_table"}

\* What the samplers of a node can see.
Sources ==
    [ifs : Seq([TotalNames -> Nat]), errs : [ErrorNames -> Nat], rdp : Nat, packet : BOOLEAN,
     router : BOOLEAN, wdOk : BOOLEAN, wd : [WatchNames -> Nat], fs : FsStates, uptime : Nat,
     buffers : Nat, can : Nat, id : [IdentityNames -> Nat]]

----------------------------------------------------------------------------
(* The samplers. *)

LEMMA TableNames ==
    /\ Range(WatchdogTable) = WatchNames
    /\ Range(StorageTable) = StorageNames
    /\ Range(CspTable) = {"tx_packets", "dropped", "interfaces", "conn_out", "last_error", "rdp_trace",
                          "packet_trace", "route_table", "router_running"}
    /\ Range(TelemetryTable) = {"uptime_s", "fs_total_kb", "fs_free_kb", "csp_buf_free", "fs_mounted"}
    /\ Range(BoardTable) = {"node_id", "csp_enabled", "can_speed"}
  <1> USE DEF Range
  <1>1. Range(WatchdogTable) = WatchNames
    BY DEF WatchdogTable, WatchNames
  <1>2. Range(StorageTable) = StorageNames
    BY DEF StorageTable, StorageNames
  <1>3. Range(CspTable) = {"tx_packets", "dropped", "interfaces", "conn_out", "last_error", "rdp_trace",
                           "packet_trace", "route_table", "router_running"}
    BY DEF CspTable
  <1>4. Range(TelemetryTable) = {"uptime_s", "fs_total_kb", "fs_free_kb", "csp_buf_free", "fs_mounted"}
    BY DEF TelemetryTable
  <1>5. Range(BoardTable) = {"node_id", "csp_enabled", "can_speed"}
    BY DEF BoardTable
  <1> QED BY <1>1, <1>2, <1>3, <1>4, <1>5

LEMMA TableNumbers ==
    /\ TableIds = 1..5 /\ Len(Definitions) = 5
    /\ Definitions[1] = BoardTable /\ Definitions[2] = TelemetryTable /\ Definitions[3] = CspTable
    /\ Definitions[4] = StorageTable /\ Definitions[5] = WatchdogTable
  BY DEF TableIds, Definitions

LEMMA ParamNames ==
    Params = WatchNames \cup StorageNames \cup FsNames \cup CountNames \cup ErrorNames
                 \cup SingleNames \cup SwitchNames
  <1>1. Params = Range(BoardTable) \cup Range(TelemetryTable) \cup Range(CspTable)
                     \cup Range(StorageTable) \cup Range(WatchdogTable)
    <2>1. \A x : x \in Params <=> \E t \in 1..5 : x \in Range(Definitions[t])
      BY TableNumbers DEF Params
    <2> QED BY <2>1, TableNumbers
  <1> QED BY <1>1, TableNames DEF WatchNames, StorageNames, FsNames, CountNames, TotalNames, ErrorNames,
             SingleNames, IdentityNames, SwitchNames

\* The cells that a read refreshes are those of its group.
LEMMA Refreshed ==
    ASSUME NEW p \in Params, NEW s \in Sources
    PROVE  /\ p \in CountNames => refresh(p, s) = sample_totals(s)
           /\ p \in ErrorNames => refresh(p, s) = s.errs
           /\ p \in WatchNames => refresh(p, s) = sample_watchdog(s)
           /\ p \in FsNames => refresh(p, s) = sample_fs(s)
           /\ p \in StorageNames => refresh(p, s) = sample_storage(s)
           /\ p \in SingleNames => refresh(p, s) = [q \in {p} |-> sample_single(p, s)]
           /\ p \in SwitchNames => refresh(p, s) = <<>>
  <1> USE TableNames DEF refresh, CountNames, TotalNames, ErrorNames, WatchNames, FsNames, StorageNames,
                         SingleNames, IdentityNames, SwitchNames
  <1>1. p \in CountNames => refresh(p, s) = sample_totals(s)
    OBVIOUS
  <1>2. p \in ErrorNames => refresh(p, s) = s.errs
    BY DEF sample_counters
  <1>3. p \in WatchNames => refresh(p, s) = sample_watchdog(s)
    OBVIOUS
  <1>4. p \in FsNames => refresh(p, s) = sample_fs(s)
    OBVIOUS
  <1>5. p \in StorageNames => refresh(p, s) = sample_storage(s)
    OBVIOUS
  <1>6. p \in SingleNames => refresh(p, s) = [q \in {p} |-> sample_single(p, s)]
    OBVIOUS
  <1>7. p \in SwitchNames => refresh(p, s) = <<>>
    OBVIOUS
  <1> QED BY <1>1, <1>2, <1>3, <1>4, <1>5, <1>6, <1>7

LEMMA RefreshedDomain ==
    ASSUME NEW p \in Params, NEW s \in Sources
    PROVE  /\ p \in CountNames => DOMAIN refresh(p, s) = CountNames
           /\ p \in ErrorNames => DOMAIN refresh(p, s) = ErrorNames
           /\ p \in WatchNames /\ s.wdOk => DOMAIN refresh(p, s) = WatchNames
           /\ p \in WatchNames /\ ~s.wdOk => DOMAIN refresh(p, s) = {"device_bound"}
           /\ p \in FsNames => DOMAIN refresh(p, s) = FsNames
           /\ p \in StorageNames => DOMAIN refresh(p, s) = StorageNames
           /\ p \in SingleNames => DOMAIN refresh(p, s) = {p}
           /\ p \in SwitchNames => DOMAIN refresh(p, s) = {}
  <1>1. ASSUME p \in CountNames PROVE DOMAIN refresh(p, s) = CountNames
    <2>1. refresh(p, s) = sample_totals(s)
      BY <1>1, Refreshed
    <2>2. DOMAIN sample_totals(s) = CountNames
      BY DEF sample_totals, CountNames
    <2> QED BY <2>1, <2>2
  <1>2. p \in ErrorNames => DOMAIN refresh(p, s) = ErrorNames
    BY Refreshed DEF Sources
  <1>3. p \in WatchNames /\ s.wdOk => DOMAIN refresh(p, s) = WatchNames
    BY Refreshed DEF sample_watchdog, Sources
  <1>4. ASSUME p \in WatchNames, ~s.wdOk PROVE DOMAIN refresh(p, s) = {"device_bound"}
    <2>1. refresh(p, s) = sample_watchdog(s)
      BY <1>4, Refreshed
    <2>2. sample_watchdog(s) = [device_bound |-> 0]
      BY <1>4 DEF sample_watchdog
    <2> QED BY <2>1, <2>2
  <1>5. ASSUME p \in FsNames PROVE DOMAIN refresh(p, s) = FsNames
    <2>1. refresh(p, s) = sample_fs(s)
      BY <1>5, Refreshed
    <2>2. DOMAIN sample_fs(s) = FsNames
      BY DEF sample_fs, FsNames
    <2> QED BY <2>1, <2>2
  <1>6. ASSUME p \in StorageNames PROVE DOMAIN refresh(p, s) = StorageNames
    <2>1. refresh(p, s) = sample_storage(s)
      BY <1>6, Refreshed
    <2>2. DOMAIN sample_storage(s) = StorageNames
      BY DEF sample_storage, StorageNames
    <2> QED BY <2>1, <2>2
  <1>7. p \in SingleNames => DOMAIN refresh(p, s) = {p}
    BY Refreshed
  <1>8. ASSUME p \in SwitchNames PROVE DOMAIN refresh(p, s) = {}
    <2>1. refresh(p, s) = <<>>
      BY <1>8, Refreshed
    <2>2. DOMAIN <<>> = {}
      OBVIOUS
    <2> QED BY <2>1, <2>2
  <1> QED BY <1>1, <1>2, <1>3, <1>4, <1>5, <1>6, <1>7, <1>8

\* What a read leaves in the cells.
LEMMA SampledIs ==
    ASSUME NEW p \in Params, NEW s \in Sources, NEW c, DOMAIN c = Params
    PROVE  /\ DOMAIN Sampled(p, s, c) = Params
           /\ \A q \in Params : Sampled(p, s, c)[q] = IF q \in DOMAIN refresh(p, s) THEN refresh(p, s)[q] ELSE c[q]
  BY DEF Sampled

\* A read by itself is honest: the cell that is handed out holds what the source has
\* now, unless it is one that the watchdog driver did not fill.
LEMMA SampledIsTrue ==
    ASSUME NEW p \in Params, NEW s \in Sources, NEW c, DOMAIN c = Params,
           \A q \in SwitchNames : c[q] = 0
    PROVE  Sampled(p, s, c)[p] = Truth(p, s) \/ (p \in WatchNames /\ ~s.wdOk)
  <1> DEFINE zero == [q \in Params |-> 0]
  <1>1. Sampled(p, s, c)[p] = IF p \in DOMAIN refresh(p, s) THEN refresh(p, s)[p] ELSE c[p]
    BY SampledIs
  <1>2. Truth(p, s) = IF p \in DOMAIN refresh(p, s) THEN refresh(p, s)[p] ELSE 0
    <2>1. DOMAIN zero = Params /\ zero[p] = 0
      OBVIOUS
    <2>2. Sampled(p, s, zero)[p] = IF p \in DOMAIN refresh(p, s) THEN refresh(p, s)[p] ELSE zero[p]
      BY <2>1, SampledIs
    <2> QED BY <2>1, <2>2 DEF Truth
  <1>3. p \notin DOMAIN refresh(p, s) => p \in SwitchNames \/ (p \in WatchNames /\ ~s.wdOk)
    <2> HIDE DEF zero
    <2>1. /\ p \in CountNames => p \in DOMAIN refresh(p, s)
          /\ p \in ErrorNames => p \in DOMAIN refresh(p, s)
          /\ p \in FsNames => p \in DOMAIN refresh(p, s)
          /\ p \in StorageNames => p \in DOMAIN refresh(p, s)
      BY RefreshedDomain
    <2>2. p \in SingleNames => p \in DOMAIN refresh(p, s)
      BY RefreshedDomain, ZenonT(60)
    <2>3. p \in WatchNames /\ s.wdOk => p \in DOMAIN refresh(p, s)
      BY RefreshedDomain
    <2>4. p \in WatchNames \cup StorageNames \cup FsNames \cup CountNames \cup ErrorNames
                 \cup SingleNames \cup SwitchNames
      BY ParamNames
    <2> QED BY <2>1, <2>2, <2>3, <2>4
  <1> QED BY <1>1, <1>2, <1>3

\* How one read may change the cells of the tables that have to fit together.
LEMMA SampledGroups ==
    ASSUME NEW p \in Params, NEW s \in Sources, NEW c, DOMAIN c = Params
    PROVE  LET d == Sampled(p, s, c) IN
           /\ \A q \in SwitchNames : d[q] = c[q]
           /\ p \in WatchNames /\ s.wdOk => \A q \in WatchNames : d[q] = s.wd[q]
           /\ p \in WatchNames /\ ~s.wdOk => d["device_bound"] = 0
           /\ p \notin WatchNames => \A q \in WatchNames : d[q] = c[q]
           /\ p \in StorageNames => \A q \in StorageNames : d[q] = sample_storage(s)[q]
           /\ p \notin StorageNames => \A q \in StorageNames : d[q] = c[q]
           /\ p \in FsNames => \A q \in FsNames : d[q] = sample_fs(s)[q]
           /\ p \notin FsNames => \A q \in FsNames : d[q] = c[q]
  <1> DEFINE d == Sampled(p, s, c)
  <1>1. \A q \in Params : d[q] = IF q \in DOMAIN refresh(p, s) THEN refresh(p, s)[q] ELSE c[q]
    BY SampledIs
  <1>2. /\ WatchNames \subseteq Params /\ StorageNames \subseteq Params /\ FsNames \subseteq Params
        /\ SwitchNames \subseteq Params
    BY ParamNames
  <1> HIDE DEF d
  <1>3. DOMAIN refresh(p, s) \subseteq CountNames \/ DOMAIN refresh(p, s) \subseteq ErrorNames
        \/ DOMAIN refresh(p, s) \subseteq SingleNames \/ p \in WatchNames \/ p \in StorageNames \/ p \in FsNames
    <2>1. CASE p \in SingleNames
      <3>1. DOMAIN refresh(p, s) = {p}
        BY <2>1, RefreshedDomain
      <3> QED BY <2>1, <3>1
    <2>2. CASE p \in SwitchNames
      <3>1. DOMAIN refresh(p, s) = {}
        BY <2>2, RefreshedDomain
      <3> QED BY <3>1
    <2>3. CASE p \in CountNames \cup ErrorNames
      BY <2>3, RefreshedDomain
    <2> QED BY <2>1, <2>2, <2>3, ParamNames
  <1>4. /\ p \in WatchNames => DOMAIN refresh(p, s) \subseteq WatchNames
        /\ p \in StorageNames => DOMAIN refresh(p, s) = StorageNames
        /\ p \in FsNames => DOMAIN refresh(p, s) = FsNames
    <2>1. p \in WatchNames => DOMAIN refresh(p, s) \in {WatchNames, {"device_bound"}}
      BY RefreshedDomain
    <2> QED BY <2>1, RefreshedDomain DEF WatchNames
  <1>5. /\ \A q \in WatchNames : q \notin CountNames \cup ErrorNames \cup SingleNames \cup StorageNames \cup FsNames
        /\ \A q \in StorageNames : q \notin CountNames \cup ErrorNames \cup SingleNames \cup WatchNames \cup FsNames
        /\ \A q \in FsNames : q \notin CountNames \cup ErrorNames \cup SingleNames \cup StorageNames \cup WatchNames
        /\ \A q \in SwitchNames : q \notin CountNames \cup ErrorNames \cup SingleNames \cup StorageNames
                                           \cup FsNames \cup WatchNames
    BY DEF WatchNames, StorageNames, FsNames, SwitchNames, CountNames, TotalNames, ErrorNames, SingleNames,
           IdentityNames
  <1>6. \A q \in SwitchNames : d[q] = c[q]
    BY <1>1, <1>2, <1>3, <1>4, <1>5
  <1>7. ASSUME p \in WatchNames, s.wdOk PROVE \A q \in WatchNames : d[q] = s.wd[q]
    <2>1. DOMAIN refresh(p, s) = WatchNames
      BY <1>7, RefreshedDomain
    <2>2. refresh(p, s) = s.wd
      BY <1>7, Refreshed DEF sample_watchdog
    <2> QED BY <1>1, <1>2, <2>1, <2>2
  <1>8. ASSUME p \in WatchNames, ~s.wdOk PROVE d["device_bound"] = 0
    <2>1. "device_bound" \in Params
      BY <1>2 DEF WatchNames
    <2>2. DOMAIN refresh(p, s) = {"device_bound"}
      BY <1>8, RefreshedDomain
    <2>3. refresh(p, s) = sample_watchdog(s)
      BY <1>8, Refreshed
    <2>4. sample_watchdog(s)["device_bound"] = 0
      BY <1>8 DEF sample_watchdog
    <2> QED BY <1>1, <2>1, <2>2, <2>3, <2>4
  <1>9. p \notin WatchNames => \A q \in WatchNames : d[q] = c[q]
    BY <1>1, <1>2, <1>3, <1>4, <1>5
  <1>10. /\ p \in StorageNames => \A q \in StorageNames : d[q] = sample_storage(s)[q]
         /\ p \in FsNames => \A q \in FsNames : d[q] = sample_fs(s)[q]
    BY <1>1, <1>2, <1>4, Refreshed
  <1>11. p \notin StorageNames => \A q \in StorageNames : d[q] = c[q]
    BY <1>1, <1>2, <1>3, <1>4, <1>5
  <1>12. p \notin FsNames => \A q \in FsNames : d[q] = c[q]
    BY <1>1, <1>2, <1>3, <1>4, <1>5
  <1> QED BY <1>6, <1>7, <1>8, <1>9, <1>10, <1>11, <1>12 DEF d

----------------------------------------------------------------------------
(* Which names a remote table is made of. *)

LEMMA TableSequences ==
    ASSUME NEW t \in 1..5
    PROVE  /\ Definitions[t] \in Seq(Range(Definitions[t])) /\ Definitions[t] \in Seq(Params)
           /\ Len(Definitions[t]) \in 1..9
           /\ Range(Definitions[t]) \subseteq Params
  <1>1. /\ Len(BoardTable) = 3 /\ Len(TelemetryTable) = 5 /\ Len(CspTable) = 9
        /\ Len(StorageTable) = 4 /\ Len(WatchdogTable) = 4
    BY DEF BoardTable, TelemetryTable, CspTable, StorageTable, WatchdogTable
  <1>2. t = 1 \/ t = 2 \/ t = 3 \/ t = 4 \/ t = 5
    OBVIOUS
  <1>3. Len(Definitions[t]) \in 1..9
    BY <1>1, <1>2, TableNumbers
  <1>4. Definitions[t] \in Seq(Range(Definitions[t]))
    <2>1. /\ BoardTable \in Seq(Range(BoardTable)) /\ TelemetryTable \in Seq(Range(TelemetryTable))
          /\ CspTable \in Seq(Range(CspTable)) /\ StorageTable \in Seq(Range(StorageTable))
          /\ WatchdogTable \in Seq(Range(WatchdogTable))
      BY TableNames DEF BoardTable, TelemetryTable, CspTable, StorageTable, WatchdogTable, WatchNames, StorageNames
    <2> QED BY <1>2, <2>1, TableNumbers
  <1>5. Range(Definitions[t]) \subseteq Params
    BY TableNumbers DEF Params
  <1>6. \A i \in 1..Len(Definitions[t]) : Definitions[t][i] \in Params
    BY <1>4, <1>5
  <1>7. Definitions[t] \in Seq(Params)
    BY <1>4, <1>6
  <1> QED BY <1>3, <1>4, <1>5, <1>7

LEMMA TablesDisjoint ==
    ASSUME NEW t \in 1..5, NEW u \in 1..5, t # u
    PROVE  Range(Definitions[t]) \cap Range(Definitions[u]) = {}
  <1>1. t \in {1, 2, 3, 4, 5} /\ u \in {1, 2, 3, 4, 5}
    OBVIOUS
  <1>2. ASSUME NEW x \in Range(Definitions[t]), x \in Range(Definitions[u]) PROVE FALSE
    BY <1>1, <1>2, TableNumbers, TableNames DEF WatchNames, StorageNames
  <1> QED BY <1>2

LEMMA AllNamesAre ==
    /\ AllNames = (((Definitions[1] \o Definitions[2]) \o Definitions[3]) \o Definitions[4]) \o Definitions[5]
    /\ AllNames \in Seq(Params) /\ Len(AllNames) = 25
  <1>1. AllNames = (((Definitions[1] \o Definitions[2]) \o Definitions[3]) \o Definitions[4]) \o Definitions[5]
    BY TableNumbers DEF AllNames
  <1>2. Len(AllNames) = 25
    BY DEF AllNames, BoardTable, TelemetryTable, CspTable, StorageTable, WatchdogTable
  <1>3. AllNames \in Seq(Params)
    <2>1. /\ Definitions[1] \in Seq(Params) /\ Definitions[2] \in Seq(Params) /\ Definitions[3] \in Seq(Params)
          /\ Definitions[4] \in Seq(Params) /\ Definitions[5] \in Seq(Params)
      BY TableSequences
    <2> QED BY <1>1, <2>1
  <1> QED BY <1>1, <1>2, <1>3

\* Of all the names, those of a table, each one once and in the order of the table.
LEMMA TableKept ==
    ASSUME NEW t \in 1..5
    PROVE  /\ Kept(AllNames, Range(Definitions[t])) = Definitions[t]
           /\ Kept(Definitions[t], Range(Definitions[t])) = Definitions[t]
  <1> DEFINE T == Range(Definitions[t])
             K(u) == Kept(Definitions[u], T)
  <1>1. K(t) = Definitions[t]
    BY TableSequences, KeptAll
  <1>2. ASSUME NEW u \in 1..5, u # t PROVE K(u) = <<>>
    <2>1. Definitions[u] \in Seq(Range(Definitions[u]))
      BY TableSequences
    <2>2. Range(Definitions[u]) \cap T = {}
      BY <1>2, TablesDisjoint
    <2> QED BY <2>1, <2>2, KeptNone
  <1>3. /\ Definitions[1] \in Seq(Params) /\ Definitions[2] \in Seq(Params) /\ Definitions[3] \in Seq(Params)
        /\ Definitions[4] \in Seq(Params) /\ Definitions[5] \in Seq(Params) /\ Definitions[t] \in Seq(Params)
    BY TableSequences
  <1> HIDE DEF K, T
  <1>4. Kept(AllNames, T) = (((K(1) \o K(2)) \o K(3)) \o K(4)) \o K(5)
    <2> DEFINE D(u) == Definitions[u]
    <2>0. D(1) \in Seq(Params) /\ D(2) \in Seq(Params) /\ D(3) \in Seq(Params) /\ D(4) \in Seq(Params)
          /\ D(5) \in Seq(Params)
      BY <1>3, Zenon
    <2>9. AllNames = (((D(1) \o D(2)) \o D(3)) \o D(4)) \o D(5)
      BY AllNamesAre, Zenon
    <2>10. \A u \in 1..5 : K(u) = Kept(D(u), T)
      BY DEF K
    <2> HIDE DEF D
    <2>1. D(1) \o D(2) \in Seq(Params)
      BY <2>0, ConcatProperties, Zenon
    <2>2. (D(1) \o D(2)) \o D(3) \in Seq(Params)
      BY <2>0, <2>1, ConcatProperties, Zenon
    <2>3. ((D(1) \o D(2)) \o D(3)) \o D(4) \in Seq(Params)
      BY <2>0, <2>2, ConcatProperties, Zenon
    <2>4. Kept(D(1) \o D(2), T) = Kept(D(1), T) \o Kept(D(2), T)
      BY <2>0, KeptOfTwo, Zenon
    <2>5. Kept((D(1) \o D(2)) \o D(3), T) = Kept(D(1) \o D(2), T) \o Kept(D(3), T)
      BY <2>0, <2>1, KeptOfTwo, ZenonT(60)
    <2>6. Kept(((D(1) \o D(2)) \o D(3)) \o D(4), T) = Kept((D(1) \o D(2)) \o D(3), T) \o Kept(D(4), T)
      BY <2>0, <2>2, KeptOfTwo, ZenonT(60)
    <2>7. Kept(AllNames, T) = Kept(((D(1) \o D(2)) \o D(3)) \o D(4), T) \o Kept(D(5), T)
      BY <2>0, <2>9, <2>3, KeptOfTwo, ZenonT(60)
    <2>8. K(1) = Kept(D(1), T) /\ K(2) = Kept(D(2), T) /\ K(3) = Kept(D(3), T) /\ K(4) = Kept(D(4), T)
          /\ K(5) = Kept(D(5), T)
      BY <2>10
    <2> QED BY <2>4, <2>5, <2>6, <2>7, <2>8, Zenon
  <1>5. t = 1 \/ t = 2 \/ t = 3 \/ t = 4 \/ t = 5
    OBVIOUS
  <1>6. \A s \in Seq(Params) : s \o <<>> = s /\ <<>> \o s = s
    OBVIOUS
  <1>7. <<>> \o <<>> = <<>>
    OBVIOUS
  <1>8. Kept(AllNames, T) = Definitions[t]
    <2>1. CASE t = 1
      <3>1. K(1) = Definitions[1] /\ K(2) = <<>> /\ K(3) = <<>> /\ K(4) = <<>> /\ K(5) = <<>>
        BY <1>1, <1>2, <2>1
      <3> QED BY <1>3, <1>4, <1>6, <2>1, <3>1, Zenon
    <2>2. CASE t = 2
      <3>1. K(2) = Definitions[2] /\ K(1) = <<>> /\ K(3) = <<>> /\ K(4) = <<>> /\ K(5) = <<>>
        BY <1>1, <1>2, <2>2
      <3> QED BY <1>3, <1>4, <1>6, <2>2, <3>1, Zenon
    <2>3. CASE t = 3
      <3>1. K(3) = Definitions[3] /\ K(1) = <<>> /\ K(2) = <<>> /\ K(4) = <<>> /\ K(5) = <<>>
        BY <1>1, <1>2, <2>3
      <3> QED BY <1>3, <1>4, <1>6, <1>7, <2>3, <3>1, ZenonT(60)
    <2>4. CASE t = 4
      <3>1. K(4) = Definitions[4] /\ K(1) = <<>> /\ K(2) = <<>> /\ K(3) = <<>> /\ K(5) = <<>>
        BY <1>1, <1>2, <2>4
      <3>2. (K(1) \o K(2)) \o K(3) = <<>>
        BY <1>7, <3>1, Zenon
      <3>3. ((K(1) \o K(2)) \o K(3)) \o K(4) = Definitions[4]
        BY <1>3, <1>6, <1>7, <2>4, <3>1, <3>2, Zenon
      <3> QED BY <1>3, <1>4, <1>6, <2>4, <3>1, <3>3, Zenon
    <2>5. CASE t = 5
      <3>1. K(5) = Definitions[5] /\ K(1) = <<>> /\ K(2) = <<>> /\ K(3) = <<>> /\ K(4) = <<>>
        BY <1>1, <1>2, <2>5
      <3>2. (K(1) \o K(2)) \o K(3) = <<>>
        BY <1>7, <3>1, Zenon
      <3>3. ((K(1) \o K(2)) \o K(3)) \o K(4) = <<>>
        BY <1>3, <1>6, <1>7, <2>5, <3>1, <3>2, Zenon
      <3> QED BY <1>3, <1>4, <1>6, <2>5, <3>1, <3>3, Zenon
    <2> QED BY <1>5, <2>1, <2>2, <2>3, <2>4, <2>5
  <1> QED BY <1>1, <1>8 DEF K, T

\* The names of a remote table that the shell has room for.
Cut(t) == SubSeq(Definitions[t], 1, Least(Len(Definitions[t]), NAMES_MAX))

LEMMA CutIs ==
    ASSUME NEW t \in 1..5
    PROVE  /\ Cut(t) \in Seq(Params) /\ Len(Cut(t)) = Least(Len(Definitions[t]), NAMES_MAX)
           /\ Len(Cut(t)) \in 1..9 /\ Len(Cut(t)) <= NAMES_MAX
  <1>1. Definitions[t] \in Seq(Params) /\ Len(Definitions[t]) \in 1..9 /\ NAMES_MAX \in Nat \ {0}
    BY TableSequences, ShellAssumption
  <1>2. PICK n : n = Least(Len(Definitions[t]), NAMES_MAX)
    OBVIOUS
  <1>3. n \in 1..9 /\ n <= NAMES_MAX /\ n <= Len(Definitions[t])
    <2>1. PICK m \in 1..9 : m = Len(Definitions[t])
      BY <1>1
    <2>2. n = IF m < NAMES_MAX THEN m ELSE NAMES_MAX
      BY <1>2, <2>1 DEF Least
    <2>3. n \in 1..9 /\ n <= NAMES_MAX /\ n <= m
      BY <1>1, <2>2
    <2> QED BY <2>1, <2>3
  <1>4. Cut(t) \in Seq(Params) /\ Len(Cut(t)) = n
    BY <1>1, <1>2, <1>3 DEF Cut
  <1> QED BY <1>2, <1>3, <1>4

----------------------------------------------------------------------------
(* The cells of a node. *)

\* What a cell may hold, and what a shell prints.
Values == Nat \cup {Dash} \cup {refresh(p, s)[q] : p \in Params, q \in Params, s \in Sources}

\* The cells c of a node fit together; w is what the watchdog driver answered last.
Fit(c, w) ==
    /\ c["mounted"] = 0 => c["total_kb"] = 0 /\ c["free_kb"] = 0 /\ c["used_pct"] = 0
    /\ c["fs_mounted"] = 0 => c["fs_total_kb"] = 0 /\ c["fs_free_kb"] = 0
    /\ c["used_pct"] \in 0..100
    /\ c["device_bound"] = 1 => w = [q \in WatchNames |-> c[q]]

LEMMA FitIsCellsFitTogether ==
    CellsFitTogether <=> \A n \in Nodes : Fit(cells[n], told[n])
  BY TableNames DEF CellsFitTogether, Fit, Restrict

\* Nothing is counted of a filesystem that is not mounted, and no more than all of
\* one is used.
LEMMA StorageFits ==
    ASSUME NEW s \in Sources
    PROVE  LET d == sample_storage(s) IN
           /\ d["mounted"] = 0 => d["total_kb"] = 0 /\ d["free_kb"] = 0 /\ d["used_pct"] = 0
           /\ d["used_pct"] \in 0..100
  <1> DEFINE d == sample_storage(s)
  <1>1. s.fs \in FsStates /\ s.fs.total \in Nat /\ s.fs.free \in Nat /\ s.fs.ready \in BOOLEAN /\ s.fs.ok \in BOOLEAN
    BY FsAssumption DEF Sources
  <1>2. PICK total \in Nat, free \in Nat : total = s.fs.total /\ free = s.fs.free
    BY <1>1
  <1>3. CASE s.fs.ok
    <2> DEFINE pct == IF total = 0 \/ free > total THEN 0 ELSE ((total - free) * 100) \div total
    <2>1. d = [mounted |-> Bit(s.fs.ready), total_kb |-> total \div KB, free_kb |-> free \div KB, used_pct |-> pct]
      BY <1>2, <1>3 DEF sample_storage
    <2>2. d["mounted"] = Bit(s.fs.ready) /\ d["total_kb"] = total \div KB /\ d["free_kb"] = free \div KB /\ d["used_pct"] = pct
      BY <2>1
    <2>3. pct \in 0..100
      OBVIOUS
    <2>4. ~s.fs.ready => total = 0 /\ free = 0
      BY <1>1, <1>2, FsAssumption
    <2>5. 0 \div KB = 0
      BY ShellAssumption
    <2>6. Bit(s.fs.ready) = 0 => ~s.fs.ready
      BY DEF Bit
    <2>7. total = 0 => pct = 0
      OBVIOUS
    <2> HIDE DEF pct, d
    <2>8. d["mounted"] = 0 => d["total_kb"] = 0 /\ d["free_kb"] = 0 /\ d["used_pct"] = 0
      BY <2>2, <2>4, <2>5, <2>6, <2>7
    <2>9. d["used_pct"] \in 0..100
      BY <2>2, <2>3
    <2> QED BY <2>8, <2>9 DEF d
  <1>4. CASE ~s.fs.ok
    BY <1>4 DEF sample_storage
  <1> QED BY <1>3, <1>4

LEMMA FsFits ==
    ASSUME NEW s \in Sources
    PROVE  LET d == sample_fs(s) IN d["fs_mounted"] = 0 => d["fs_total_kb"] = 0 /\ d["fs_free_kb"] = 0
  <1>1. s.fs \in FsStates /\ s.fs.ready \in BOOLEAN /\ s.fs.ok \in BOOLEAN
    BY FsAssumption DEF Sources
  <1>2. ~s.fs.ready => s.fs.total = 0 /\ s.fs.free = 0
    BY <1>1, FsAssumption
  <1>3. 0 \div KB = 0
    BY ShellAssumption
  <1> QED BY <1>1, <1>2, <1>3 DEF sample_fs, Bit

\* What a read of one value does to the cells of the whole node.
LEMMA ReadFits ==
    ASSUME NEW p \in Params, NEW s \in Sources, NEW c, DOMAIN c = Params, NEW w, Fit(c, w)
    PROVE  Fit(Sampled(p, s, c), IF p \in WatchNames THEN IF s.wdOk THEN s.wd ELSE <<>> ELSE w)
  <1> DEFINE d == Sampled(p, s, c)
             x == IF p \in WatchNames THEN IF s.wdOk THEN s.wd ELSE <<>> ELSE w
  <1>1. /\ p \in WatchNames /\ s.wdOk => \A q \in WatchNames : d[q] = s.wd[q]
        /\ p \in WatchNames /\ ~s.wdOk => d["device_bound"] = 0
        /\ p \notin WatchNames => \A q \in WatchNames : d[q] = c[q]
    BY SampledGroups
  <1>2. /\ p \in StorageNames => \A q \in StorageNames : d[q] = sample_storage(s)[q]
        /\ p \notin StorageNames => \A q \in StorageNames : d[q] = c[q]
    BY SampledGroups
  <1>3. /\ p \in FsNames => \A q \in FsNames : d[q] = sample_fs(s)[q]
        /\ p \notin FsNames => \A q \in FsNames : d[q] = c[q]
    BY SampledGroups
  <1>4. s.wd = [q \in WatchNames |-> s.wd[q]] /\ s.wdOk \in BOOLEAN
    BY DEF Sources
  <1> HIDE DEF d
  <1>5. /\ d["mounted"] = 0 => d["total_kb"] = 0 /\ d["free_kb"] = 0 /\ d["used_pct"] = 0
        /\ d["used_pct"] \in 0..100
    <2>1. {"mounted", "total_kb", "free_kb", "used_pct"} = StorageNames
      BY DEF StorageNames
    <2>2. CASE p \in StorageNames
      <3>1. /\ d["mounted"] = sample_storage(s)["mounted"] /\ d["total_kb"] = sample_storage(s)["total_kb"]
            /\ d["free_kb"] = sample_storage(s)["free_kb"] /\ d["used_pct"] = sample_storage(s)["used_pct"]
        BY <1>2, <2>1, <2>2
      <3> QED BY <3>1, StorageFits
    <2>3. CASE p \notin StorageNames
      BY <1>2, <2>1, <2>3 DEF Fit
    <2> QED BY <2>2, <2>3
  <1>6. d["fs_mounted"] = 0 => d["fs_total_kb"] = 0 /\ d["fs_free_kb"] = 0
    <2>1. {"fs_mounted", "fs_total_kb", "fs_free_kb"} = FsNames
      BY DEF FsNames
    <2>2. CASE p \in FsNames
      <3>1. /\ d["fs_mounted"] = sample_fs(s)["fs_mounted"] /\ d["fs_total_kb"] = sample_fs(s)["fs_total_kb"]
            /\ d["fs_free_kb"] = sample_fs(s)["fs_free_kb"]
        BY <1>3, <2>1, <2>2
      <3> QED BY <3>1, FsFits
    <2>3. CASE p \notin FsNames
      BY <1>3, <2>1, <2>3 DEF Fit
    <2> QED BY <2>2, <2>3
  <1>7. d["device_bound"] = 1 => x = [q \in WatchNames |-> d[q]]
    <2>1. CASE p \in WatchNames /\ s.wdOk
      BY <1>1, <1>4, <2>1
    <2>2. CASE p \in WatchNames /\ ~s.wdOk
      BY <1>1, <2>2
    <2>3. CASE p \notin WatchNames
      <3>1. "device_bound" \in WatchNames
        BY DEF WatchNames
      <3>2. [q \in WatchNames |-> d[q]] = [q \in WatchNames |-> c[q]]
        BY <1>1, <2>3
      <3> QED BY <1>1, <2>3, <3>1, <3>2 DEF Fit
    <2> QED BY <1>4, <2>1, <2>2, <2>3
  <1> HIDE DEF x
  <1>8. Fit(d, x)
    BY <1>5, <1>6, <1>7 DEF Fit
  <1> QED BY <1>8 DEF d, x

----------------------------------------------------------------------------
(* The nodes: what they are while values are read and written. *)

NodeOK ==
    /\ src \in [Nodes -> Sources]
    /\ cells \in [Nodes -> [Params -> Values]]
    /\ told \in [Nodes -> {<<>>} \cup [WatchNames -> Nat]]
    /\ \A n \in Nodes : Fit(cells[n], told[n]) /\ \A q \in SwitchNames : cells[n][q] = 0

LEMMA SampledTyped ==
    ASSUME NEW p \in Params, NEW s \in Sources, NEW c \in [Params -> Values]
    PROVE  Sampled(p, s, c) \in [Params -> Values]
  <1>1. \A q \in Params : refresh(p, s)[q] \in Values
    BY DEF Values
  <1>2. DOMAIN c = Params /\ \A q \in Params : c[q] \in Values
    OBVIOUS
  <1>3. Sampled(p, s, c) = [q \in Params |-> IF q \in DOMAIN refresh(p, s) THEN refresh(p, s)[q] ELSE c[q]]
    BY <1>2 DEF Sampled
  <1> QED BY <1>1, <1>2, <1>3

LEMMA ReadKeepsNode ==
    ASSUME NodeOK, NEW n \in Nodes, NEW p \in Params, Read(n, p)
    PROVE  /\ NodeOK'
           /\ cells'[n] = Sampled(p, src[n], cells[n]) /\ cells'[n][p] \in Values
           /\ UNCHANGED src
  <1>1. src[n] \in Sources /\ cells[n] \in [Params -> Values]
    BY DEF NodeOK
  <1>2. cells' = [cells EXCEPT ![n] = Sampled(p, src[n], cells[n])] /\ UNCHANGED src
    BY DEF Read
  <1>3. Sampled(p, src[n], cells[n]) \in [Params -> Values]
    BY <1>1, SampledTyped
  <1>4. cells' \in [Nodes -> [Params -> Values]]
    BY <1>2, <1>3 DEF NodeOK
  <1>5. cells'[n] = Sampled(p, src[n], cells[n]) /\ \A m \in Nodes : m # n => cells'[m] = cells[m]
    BY <1>2 DEF NodeOK
  <1> DEFINE w == IF p \in WatchNames THEN IF src[n].wdOk THEN src[n].wd ELSE <<>> ELSE told[n]
  <1>6. told' \in [Nodes -> {<<>>} \cup [WatchNames -> Nat]] /\ told'[n] = w
        /\ \A m \in Nodes : m # n => told'[m] = told[m]
    <2>1. src[n].wd \in [WatchNames -> Nat]
      BY <1>1 DEF Sources
    <2>2. CASE p \in WatchNames
      <3>1. told' = [told EXCEPT ![n] = w] /\ w \in {<<>>} \cup [WatchNames -> Nat]
        BY <2>1, <2>2, TableNames DEF Read
      <3> HIDE DEF w
      <3> QED BY <3>1 DEF NodeOK
    <2>3. CASE p \notin WatchNames
      BY <2>3, TableNames DEF Read, NodeOK
    <2> QED BY <2>2, <2>3
  <1>7. Fit(cells'[n], told'[n])
    <2>1. DOMAIN cells[n] = Params /\ Fit(cells[n], told[n])
      BY <1>1 DEF NodeOK
    <2>2. Fit(Sampled(p, src[n], cells[n]), w)
      BY <1>1, <2>1, ReadFits
    <2> QED BY <1>5, <1>6, <2>2
  <1>8. \A q \in SwitchNames : cells'[n][q] = 0
    <2>1. \A q \in SwitchNames : Sampled(p, src[n], cells[n])[q] = cells[n][q]
      BY <1>1, SampledGroups
    <2> QED BY <1>5, <2>1 DEF NodeOK
  <1>9. \A m \in Nodes : Fit(cells'[m], told'[m]) /\ \A q \in SwitchNames : cells'[m][q] = 0
    BY <1>5, <1>6, <1>7, <1>8, SMTT(40) DEF NodeOK
  <1>10. NodeOK'
    BY <1>2, <1>4, <1>6, <1>9 DEF NodeOK
  <1> QED BY <1>2, <1>3, <1>5, <1>10

LEMMA WriteKeepsNode ==
    ASSUME NodeOK, NEW n \in Nodes, NEW p \in Params, NEW v \in Nat, Write(n, p, v)
    PROVE  NodeOK'
  <1>1. src[n] \in Sources /\ cells[n] \in [Params -> Values]
    BY DEF NodeOK
  <1>2. p \in Writable
    BY DEF Write, Accepts, Writable
  <1>3. PICK s \in Effects(p, v, src[n]) : src' = [src EXCEPT ![n] = s]
    BY DEF Write
  <1>4. s \in Sources
    BY <1>1, <1>2, <1>3, ZenonT(60) DEF Effects, Writable, Sources
  <1>5. src' \in [Nodes -> Sources]
    BY <1>3, <1>4 DEF NodeOK
  <1>6. cells' = [cells EXCEPT ![n] = [@ EXCEPT ![p] = v]] /\ told' = told
    BY DEF Write
  <1>7. v \in Values
    BY DEF Values
  <1>8. cells' \in [Nodes -> [Params -> Values]]
    BY <1>6, <1>7 DEF NodeOK
  <1>9. \A m \in Nodes, q \in Params : q \notin Writable => cells'[m][q] = cells[m][q]
    BY <1>2, <1>6 DEF NodeOK
  <1>10. /\ WatchNames \subseteq Params /\ StorageNames \subseteq Params /\ FsNames \subseteq Params
         /\ SwitchNames \subseteq Params
    BY ParamNames
  <1>11. \A q : q \in WatchNames \cup StorageNames \cup FsNames \cup SwitchNames => q \notin Writable
    BY DEF WatchNames, StorageNames, FsNames, SwitchNames, Writable
  <1>12. \A m \in Nodes, q \in WatchNames \cup StorageNames \cup FsNames \cup SwitchNames : cells'[m][q] = cells[m][q]
    BY <1>9, <1>10, <1>11
  <1>13. ASSUME NEW m \in Nodes PROVE Fit(cells'[m], told'[m])
    <2>1. Fit(cells[m], told[m])
      BY DEF NodeOK
    <2>2. \A q \in WatchNames : cells'[m][q] = cells[m][q]
      BY <1>12
    <2>3. [q \in WatchNames |-> cells'[m][q]] = [q \in WatchNames |-> cells[m][q]]
      BY <2>2
    <2>4. /\ cells'[m]["mounted"] = cells[m]["mounted"] /\ cells'[m]["total_kb"] = cells[m]["total_kb"]
          /\ cells'[m]["free_kb"] = cells[m]["free_kb"] /\ cells'[m]["used_pct"] = cells[m]["used_pct"]
      BY <1>12 DEF StorageNames
    <2>5. /\ cells'[m]["fs_mounted"] = cells[m]["fs_mounted"] /\ cells'[m]["fs_total_kb"] = cells[m]["fs_total_kb"]
          /\ cells'[m]["fs_free_kb"] = cells[m]["fs_free_kb"]
      BY <1>12 DEF FsNames
    <2>6. cells'[m]["device_bound"] = cells[m]["device_bound"]
      BY <1>12 DEF WatchNames
    <2> QED BY <1>6, <2>1, <2>3, <2>4, <2>5, <2>6 DEF Fit
  <1>14. \A m \in Nodes : \A q \in SwitchNames : cells'[m][q] = 0
    BY <1>12 DEF NodeOK
  <1> QED BY <1>5, <1>6, <1>8, <1>13, <1>14 DEF NodeOK

----------------------------------------------------------------------------
(* The command that runs: which names it walks over, how far it got, and   *)
(* what it asked for.                                                      *)

Row == [name : Params \cup TableIds, value : Values]
Phases == {"done", "row", "local_set", "tables_here", "names", "tables", "visit", "window", "get", "set"}

\* The names of the first k tables.
First(k) ==
    CASE k = 0 -> <<>>
      [] k = 1 -> Definitions[1]
      [] k = 2 -> Definitions[1] \o Definitions[2]
      [] k = 3 -> (Definitions[1] \o Definitions[2]) \o Definitions[3]
      [] k = 4 -> ((Definitions[1] \o Definitions[2]) \o Definitions[3]) \o Definitions[4]
      [] OTHER -> AllNames

\* The names of the window that starts after base.
Asked(names, base) == SubSeq(names, base + 1, Least(base + WINDOW, Len(names)))

ShTyped ==
    sh \in [op : 0..MaxOps, kind : {"none", "get", "set", "table", "listall", "whichtables"}, node : Nodes,
            arg : Params \cup 0..5, val : Nat, phase : Phases, names : Seq(Params), base : 0..25,
            rows : Seq(Row), result : {"none", "ok", "refused", "failed"}]

\* What was typed.
Args ==
    /\ sh.kind \in {"get", "set"} => sh.arg \in Params /\ sh.names = <<sh.arg>>
    /\ sh.kind = "set" => sh.arg \in SetNames /\ sh.val \in SetValues
    /\ sh.kind = "table" => sh.arg \in 1..5
    /\ sh.node = There => Len(sh.names) <= NAMES_MAX
    /\ sh.kind = "none" => sh.phase = "done"
    /\ sh.phase # "done" => sh.op \in Ops

\* Rows are printed in the order of the names.
Follow(rows, names) == \A i \in 1..Len(rows) : rows[i].name = names[i]

AtStart ==
    /\ sh.phase \in {"names", "tables", "visit", "window", "get", "set"} => sh.node = There
    /\ sh.phase \in {"local_set", "tables_here", "names", "tables", "get", "set"} =>
          sh.rows = <<>> /\ sh.base = 0
    /\ sh.phase \in {"local_set", "set"} => sh.kind = "set"
    /\ sh.phase = "local_set" => sh.node = Here
    /\ sh.phase = "tables_here" => sh.kind = "whichtables"
    /\ sh.phase = "names" => sh.kind = "table"
    /\ sh.phase = "tables" => sh.kind \in {"listall", "whichtables"}
    /\ sh.phase = "get" => sh.kind \in {"get", "set"} /\ req = <<sh.arg>>

AtRow ==
    sh.phase = "row" =>
        /\ sh.node = Here /\ sh.kind \in {"get", "set", "table", "listall"}
        /\ sh.kind = "table" => sh.names = Definitions[sh.arg]
        /\ sh.kind = "listall" => sh.names = AllNames
        /\ Len(sh.rows) < Len(sh.names) /\ Follow(sh.rows, sh.names)

AtVisit ==
    sh.phase = "visit" => sh.kind = "listall" /\ sh.base \in 0..4 /\ sh.rows = Column(First(sh.base))

AtWindow ==
    sh.phase = "window" =>
        /\ sh.kind = "table" /\ sh.names = Cut(sh.arg) /\ sh.base < Len(sh.names)
        /\ Len(sh.rows) = sh.base /\ Follow(sh.rows, sh.names)
        /\ req = Asked(sh.names, sh.base)

Exchange ==
    /\ req \in Seq(Params) /\ reply \in Seq(Values)
    /\ Len(req) <= WINDOW /\ Len(reply) <= Len(req)

CommandOK == ShTyped /\ Args /\ AtStart /\ AtRow /\ AtVisit /\ AtWindow /\ Exchange

Tickets ==
    /\ air \subseteq [op : Ops, name : SetNames, val : SetValues]
    /\ ack \in [Ops -> {"none", "yes", "no"}]
    /\ applied \in [Ops -> Nat] /\ answer \in [Ops -> {"none", "yes", "no", "unknown"}]
    /\ events \in 0..MaxEvents

ShellOK == NodeOK /\ CommandOK /\ Tickets

LEMMA EmptyTyped == \A S : <<>> \in Seq(S) /\ Len(<<>>) = 0
  OBVIOUS

\* Every command starts as CommandOK says.
LEMMA BeginKeeps ==
    ASSUME CommandOK, NEW kind, NEW n \in Nodes, NEW arg, NEW val, NEW phase, NEW names,
           Begin(kind, n, arg, val, phase, names)
    PROVE  /\ sh' = [op |-> sh.op + 1, kind |-> kind, node |-> n, arg |-> arg, val |-> val, phase |-> phase,
                     names |-> names, base |-> 0, rows |-> <<>>, result |-> "none"]
           /\ sh'.op = sh.op + 1 /\ sh'.op \in Ops /\ sh'.op \in 0..MaxOps
           /\ sh'.kind = kind /\ sh'.node = n /\ sh'.arg = arg /\ sh'.val = val
           /\ sh'.phase = phase /\ sh'.names = names /\ sh'.base = 0 /\ sh'.rows = <<>> /\ sh'.result = "none"
           /\ NodeOK => NodeOK'
           /\ Tickets => Tickets'
  <1>1. sh.op \in 0..MaxOps /\ sh.op < MaxOps
    BY DEF CommandOK, ShTyped, Begin
  <1>2. sh.op + 1 \in Ops /\ sh.op + 1 \in 0..MaxOps
    BY <1>1, ShellAssumption DEF Ops
  <1>3. sh' = [op |-> sh.op + 1, kind |-> kind, node |-> n, arg |-> arg, val |-> val, phase |-> phase,
               names |-> names, base |-> 0, rows |-> <<>>, result |-> "none"]
    BY DEF Begin
  <1>4. NodeOK => NodeOK'
    BY DEF Begin, node, NodeOK
  <1>5. Tickets => Tickets'
    BY DEF Begin, Tickets
  <1> QED BY <1>2, <1>3, <1>4, <1>5

LEMMA TypeGetKeeps ==
    ASSUME CommandOK, NEW n \in Nodes, NEW p \in Params, TypeGet(n, p)
    PROVE  CommandOK'
  <1> DEFINE phase == IF n = Here THEN "row" ELSE "get"
  <1>1. Begin("get", n, p, 0, phase, <<p>>) /\ req' = <<p>> /\ reply' = <<>>
    BY DEF TypeGet, Ask
  <1>2. phase \in Phases /\ ((phase = "row" /\ n = Here) \/ (phase = "get" /\ n = There))
    BY DEF Phases, Nodes
  <1> HIDE DEF phase
  <1>3. <<p>> \in Seq(Params) /\ Len(<<p>>) = 1 /\ <<>> \in Seq(Row) /\ <<>> \in Seq(Values) /\ Len(<<>>) = 0
    OBVIOUS
  <1>4. /\ sh' = [op |-> sh.op + 1, kind |-> "get", node |-> n, arg |-> p, val |-> 0, phase |-> phase,
                  names |-> <<p>>, base |-> 0, rows |-> <<>>, result |-> "none"]
        /\ sh'.op \in Ops /\ sh'.op \in 0..MaxOps
        /\ sh'.kind = "get" /\ sh'.node = n /\ sh'.arg = p
        /\ sh'.phase = phase /\ sh'.names = <<p>> /\ sh'.base = 0 /\ sh'.rows = <<>>
    BY <1>1, BeginKeeps
  <1>5. ShTyped'
    BY <1>2, <1>3, <1>4 DEF ShTyped
  <1>6. Args'
    BY <1>2, <1>3, <1>4, ShellAssumption DEF Args
  <1>7. AtStart' /\ AtVisit' /\ AtWindow'
    BY <1>1, <1>2, <1>4 DEF AtStart, AtVisit, AtWindow
  <1>8. AtRow'
    BY <1>2, <1>3, <1>4 DEF AtRow, Follow
  <1>9. Exchange'
    BY <1>1, <1>3, ShellAssumption DEF Exchange
  <1> QED BY <1>5, <1>6, <1>7, <1>8, <1>9 DEF CommandOK

LEMMA TypeSetKeeps ==
    ASSUME CommandOK, NEW n \in Nodes, NEW p \in SetNames, NEW v \in SetValues, TypeSet(n, p, v)
    PROVE  CommandOK'
  <1> DEFINE phase == IF n = Here THEN "local_set" ELSE "get"
  <1>1. Begin("set", n, p, v, phase, <<p>>) /\ req' = <<p>> /\ reply' = <<>>
    BY DEF TypeSet, Ask
  <1>2. phase \in Phases /\ ((phase = "local_set" /\ n = Here) \/ (phase = "get" /\ n = There))
    BY DEF Phases, Nodes
  <1> HIDE DEF phase
  <1>0. p \in Params /\ v \in Nat
    BY ShellAssumption
  <1>3. <<p>> \in Seq(Params) /\ Len(<<p>>) = 1 /\ <<>> \in Seq(Row) /\ <<>> \in Seq(Values) /\ Len(<<>>) = 0
    BY <1>0
  <1>4. /\ sh' = [op |-> sh.op + 1, kind |-> "set", node |-> n, arg |-> p, val |-> v, phase |-> phase,
                  names |-> <<p>>, base |-> 0, rows |-> <<>>, result |-> "none"]
        /\ sh'.op \in Ops /\ sh'.op \in 0..MaxOps
        /\ sh'.kind = "set" /\ sh'.node = n /\ sh'.arg = p /\ sh'.val = v
        /\ sh'.phase = phase /\ sh'.names = <<p>> /\ sh'.base = 0 /\ sh'.rows = <<>>
    BY <1>1, BeginKeeps
  <1>5. ShTyped'
    BY <1>0, <1>2, <1>3, <1>4 DEF ShTyped
  <1>6. Args'
    BY <1>0, <1>2, <1>3, <1>4, ShellAssumption DEF Args
  <1>7. AtStart' /\ AtVisit' /\ AtWindow'
    BY <1>1, <1>2, <1>4 DEF AtStart, AtVisit, AtWindow
  <1>8. AtRow'
    BY <1>2, <1>4 DEF AtRow
  <1>9. Exchange'
    BY <1>1, <1>3, ShellAssumption DEF Exchange
  <1> QED BY <1>5, <1>6, <1>7, <1>8, <1>9 DEF CommandOK

\* A command that lists starts with the names of this node, or with none.
LEMMA TypeListKeeps ==
    ASSUME CommandOK, NEW kind \in {"table", "listall", "whichtables"}, NEW n \in Nodes, NEW arg \in 0..5,
           NEW phase \in {"row", "names", "tables", "tables_here"}, NEW names \in Seq(Params),
           Begin(kind, n, arg, 0, phase, names), NoRequest,
           kind = "table" => arg \in 1..5,
           n = Here => /\ kind = "whichtables" => phase = "tables_here"
                       /\ kind # "whichtables" => phase = "row"
                       /\ kind = "table" => names = Definitions[arg]
                       /\ kind = "listall" => names = AllNames,
           n = There => /\ names = <<>>
                        /\ kind = "table" => phase = "names"
                        /\ kind # "table" => phase = "tables"
    PROVE  CommandOK'
  <1>1. req' = <<>> /\ reply' = <<>>
    BY DEF NoRequest
  <1>2. n = Here \/ n = There
    BY DEF Nodes
  <1>3. <<>> \in Seq(Row) /\ <<>> \in Seq(Values) /\ <<>> \in Seq(Params) /\ Len(<<>>) = 0
    OBVIOUS
  <1>4. /\ sh' = [op |-> sh.op + 1, kind |-> kind, node |-> n, arg |-> arg, val |-> 0, phase |-> phase,
                  names |-> names, base |-> 0, rows |-> <<>>, result |-> "none"]
        /\ sh'.op \in Ops /\ sh'.op \in 0..MaxOps
        /\ sh'.kind = kind /\ sh'.node = n /\ sh'.arg = arg
        /\ sh'.phase = phase /\ sh'.names = names /\ sh'.base = 0 /\ sh'.rows = <<>>
    BY BeginKeeps
  <1>5. ShTyped'
    BY <1>3, <1>4 DEF ShTyped, Phases
  <1>6. Args'
    BY <1>2, <1>3, <1>4, ShellAssumption DEF Args
  <1>7. AtStart' /\ AtVisit' /\ AtWindow'
    BY <1>1, <1>2, <1>4 DEF AtStart, AtVisit, AtWindow, Here, There
  <1>8. AtRow'
    <2>1. phase = "row" => n = Here /\ kind \in {"table", "listall"} /\ Len(names) > 0
      <3>1. Len(AllNames) > 0
        BY AllNamesAre
      <3>2. ASSUME kind = "table" PROVE Len(Definitions[arg]) > 0
        <4>1. Len(Definitions[arg]) \in 1..9
          BY <3>2, TableSequences
        <4>2. \A k \in 1..9 : k > 0
          OBVIOUS
        <4> QED BY <4>1, <4>2, Zenon
      <3> QED BY <1>2, <3>1, <3>2
    <2> QED BY <1>3, <1>4, <2>1 DEF AtRow, Follow
  <1>9. Exchange'
    BY <1>1, <1>3, ShellAssumption DEF Exchange
  <1> QED BY <1>5, <1>6, <1>7, <1>8, <1>9 DEF CommandOK

LEMMA TypedKeeps ==
    ASSUME ShellOK, Typed
    PROVE  ShellOK'
  <1>0. CommandOK /\ NodeOK /\ Tickets
    BY DEF ShellOK
  <1>1. PICK n \in Nodes :
            \/ \E p \in GetNames : TypeGet(n, p)
            \/ \E p \in SetNames, v \in SetValues : TypeSet(n, p, v)
            \/ \E t \in AskedTables : TypeTable(n, t)
            \/ TypeListall(n)
            \/ TypeWhichtables(n)
    BY DEF Typed
  <1>3. n = Here \/ (n = There /\ n # Here)
    BY DEF Nodes, Here, There
  <1>4. <<>> \in Seq(Params)
    OBVIOUS
  <1>5. ASSUME NEW p \in GetNames, TypeGet(n, p) PROVE ShellOK'
    <2>1. p \in Params
      BY ShellAssumption
    <2>2. CommandOK'
      BY <1>0, <1>5, <2>1, TypeGetKeeps
    <2>3. NodeOK' /\ Tickets'
      BY <1>0, <1>5, BeginKeeps DEF TypeGet
    <2> QED BY <2>2, <2>3 DEF ShellOK
  <1>6. ASSUME NEW p \in SetNames, NEW v \in SetValues, TypeSet(n, p, v) PROVE ShellOK'
    <2>2. CommandOK'
      BY <1>0, <1>6, TypeSetKeeps
    <2>3. NodeOK' /\ Tickets'
      BY <1>0, <1>6, BeginKeeps DEF TypeSet
    <2> QED BY <2>2, <2>3 DEF ShellOK
  <1>7. ASSUME NEW t \in AskedTables, TypeTable(n, t) PROVE ShellOK'
    <2> DEFINE phase == IF n = Here THEN "row" ELSE "names"
               names == IF n = Here THEN Definitions[t] ELSE <<>>
    <2>1. Begin("table", n, t, 0, phase, names) /\ NoRequest
      BY <1>7 DEF TypeTable
    <2>2. t \in 1..5 /\ t \in 0..5
      BY ShellAssumption, TableNumbers
    <2>3. names \in Seq(Params)
      BY <1>4, <2>2, TableSequences
    <2>4. phase \in {"row", "names", "tables", "tables_here"}
      OBVIOUS
    <2>5. /\ n = Here => phase = "row" /\ names = Definitions[t]
          /\ n = There => names = <<>> /\ phase = "names"
      BY <1>3 DEF Here, There
    <2> HIDE DEF phase, names
    <2>6. CommandOK'
      BY <1>0, <2>1, <2>2, <2>3, <2>4, <2>5, TypeListKeeps
    <2>7. NodeOK' /\ Tickets'
      BY <1>0, <2>1, BeginKeeps
    <2> QED BY <2>6, <2>7 DEF ShellOK
  <1>8. ASSUME TypeListall(n) PROVE ShellOK'
    <2> DEFINE phase == IF n = Here THEN "row" ELSE "tables"
               names == IF n = Here THEN AllNames ELSE <<>>
    <2>1. Begin("listall", n, 0, 0, phase, names) /\ NoRequest
      BY <1>8 DEF TypeListall
    <2>3. names \in Seq(Params)
      BY <1>4, AllNamesAre
    <2>4. phase \in {"row", "names", "tables", "tables_here"} /\ 0 \in 0..5
      OBVIOUS
    <2>5. /\ n = Here => phase = "row" /\ names = AllNames
          /\ n = There => names = <<>> /\ phase = "tables"
      BY <1>3 DEF Here, There
    <2> HIDE DEF phase, names
    <2>6. CommandOK'
      BY <1>0, <2>1, <2>3, <2>4, <2>5, TypeListKeeps
    <2>7. NodeOK' /\ Tickets'
      BY <1>0, <2>1, BeginKeeps
    <2> QED BY <2>6, <2>7 DEF ShellOK
  <1>9. ASSUME TypeWhichtables(n) PROVE ShellOK'
    <2> DEFINE phase == IF n = Here THEN "tables_here" ELSE "tables"
    <2>1. Begin("whichtables", n, 0, 0, phase, <<>>) /\ NoRequest
      BY <1>9 DEF TypeWhichtables
    <2>4. phase \in {"row", "names", "tables", "tables_here"} /\ 0 \in 0..5
      OBVIOUS
    <2>5. /\ n = Here => phase = "tables_here"
          /\ n = There => phase = "tables"
      BY <1>3 DEF Here, There
    <2> HIDE DEF phase
    <2>6. CommandOK'
      BY <1>0, <1>4, <2>1, <2>4, <2>5, TypeListKeeps
    <2>7. NodeOK' /\ Tickets'
      BY <1>0, <2>1, BeginKeeps
    <2> QED BY <2>6, <2>7 DEF ShellOK
  <1> QED BY <1>1, <1>5, <1>6, <1>7, <1>8, <1>9

----------------------------------------------------------------------------
(* Rows and columns. *)

LEMMA ColumnIs ==
    ASSUME NEW table \in Seq(Params)
    PROVE  /\ Column(table) \in Seq(Row) /\ Len(Column(table)) = Len(table)
           /\ \A i \in 1..Len(table) : Column(table)[i] = [name |-> table[i], value |-> Dash]
  <1>1. Dash \in Values
    BY DEF Values
  <1>2. Len(table) \in Nat /\ DOMAIN table = 1..Len(table) /\ \A i \in 1..Len(table) : table[i] \in Params
    BY SMTT(40)
  <1>3. PICK k \in Nat : k = Len(table)
    BY <1>2
  <1>4. Column(table) = [i \in 1..k |-> [name |-> table[i], value |-> Dash]]
    BY <1>2, <1>3 DEF Column
  <1>5. \A i \in 1..k : [name |-> table[i], value |-> Dash] \in Row
    BY <1>1, <1>2, <1>3 DEF Row
  <1>6. Column(table) \in Seq(Row) /\ Len(Column(table)) = k
    BY <1>4, <1>5
  <1> QED BY <1>3, <1>4, <1>6

LEMMA JoinIs ==
    ASSUME NEW S, NEW a \in Seq(S), NEW b \in Seq(S)
    PROVE  /\ a \o b \in Seq(S) /\ Len(a \o b) = Len(a) + Len(b)
           /\ \A i \in 1..Len(a) : (a \o b)[i] = a[i]
           /\ \A i \in 1..Len(b) : (a \o b)[Len(a) + i] = b[i]
  OBVIOUS

LEMMA JoinOfTwo ==
    \A S : \A a, b \in Seq(S) :
        /\ a \o b \in Seq(S) /\ Len(a \o b) = Len(a) + Len(b)
        /\ \A i \in 1..Len(a) : (a \o b)[i] = a[i]
        /\ \A i \in 1..Len(b) : (a \o b)[Len(a) + i] = b[i]
  BY JoinIs

LEMMA ColumnConcat ==
    ASSUME NEW a \in Seq(Params), NEW b \in Seq(Params)
    PROVE  Column(a \o b) = Column(a) \o Column(b)
  <1> DEFINE A == Column(a)
             B == Column(b)
             C == Column(a \o b)
  <1>1. /\ A \in Seq(Row) /\ Len(A) = Len(a)
        /\ \A i \in 1..Len(a) : A[i] = [name |-> a[i], value |-> Dash]
    BY ColumnIs
  <1>2. /\ B \in Seq(Row) /\ Len(B) = Len(b)
        /\ \A i \in 1..Len(b) : B[i] = [name |-> b[i], value |-> Dash]
    BY ColumnIs
  <1>3. /\ a \o b \in Seq(Params) /\ Len(a \o b) = Len(a) + Len(b)
        /\ \A i \in 1..Len(a) : (a \o b)[i] = a[i]
        /\ \A i \in 1..Len(b) : (a \o b)[Len(a) + i] = b[i]
    BY JoinIs
  <1>4. /\ C \in Seq(Row) /\ Len(C) = Len(a \o b)
        /\ \A i \in 1..Len(a \o b) : C[i] = [name |-> (a \o b)[i], value |-> Dash]
    BY <1>3, ColumnIs
  <1>5. Len(a) \in Nat /\ Len(b) \in Nat
    OBVIOUS
  <1> HIDE DEF A, B, C
  <1>6. /\ A \o B \in Seq(Row) /\ Len(A \o B) = Len(a) + Len(b)
        /\ \A i \in 1..Len(a) : (A \o B)[i] = A[i]
        /\ \A i \in 1..Len(b) : (A \o B)[Len(a) + i] = B[i]
    <2>1. /\ A \o B \in Seq(Row) /\ Len(A \o B) = Len(A) + Len(B)
          /\ \A i \in 1..Len(A) : (A \o B)[i] = A[i]
          /\ \A i \in 1..Len(B) : (A \o B)[Len(A) + i] = B[i]
      <3>1. A \in Seq(Row) /\ B \in Seq(Row)
        BY <1>1, <1>2
      <3>2. \A x, y \in Seq(Row) :
               /\ x \o y \in Seq(Row) /\ Len(x \o y) = Len(x) + Len(y)
               /\ \A i \in 1..Len(x) : (x \o y)[i] = x[i]
               /\ \A i \in 1..Len(y) : (x \o y)[Len(x) + i] = y[i]
        BY JoinOfTwo
      <3> QED BY <3>1, <3>2, Zenon
    <2> QED BY <1>1, <1>2, <2>1
  <1>7. ASSUME NEW i \in 1..(Len(a) + Len(b)) PROVE C[i] = (A \o B)[i]
    <2>1. CASE i <= Len(a)
      BY <1>1, <1>3, <1>4, <1>5, <1>6, <2>1
    <2>2. CASE i > Len(a)
      <3>1. PICK j \in 1..Len(b) : i = Len(a) + j
        <4>1. i - Len(a) \in 1..Len(b) /\ i = Len(a) + (i - Len(a))
          BY <1>5, <2>2
        <4> QED BY <4>1
      <3>2. C[i] = [name |-> b[j], value |-> Dash]
        BY <1>3, <1>4, <3>1
      <3>3. (A \o B)[i] = [name |-> b[j], value |-> Dash]
        BY <1>2, <1>6, <3>1
      <3> QED BY <3>2, <3>3
    <2>3. i <= Len(a) \/ i > Len(a)
      BY <1>5
    <2> QED BY <2>1, <2>2, <2>3
  <1>8. C = A \o B
    BY <1>3, <1>4, <1>6, <1>7, SeqEqual
  <1> QED BY <1>8 DEF A, B, C

\* One table more.
LEMMA FirstIs ==
    ASSUME NEW k \in 0..4
    PROVE  /\ First(k) \in Seq(Params) /\ First(k + 1) \in Seq(Params)
           /\ First(k + 1) = First(k) \o Definitions[k + 1]
           /\ Definitions[k + 1] \in Seq(Params)
  <1> DEFINE D(u) == Definitions[u]
  <1>1. D(1) \in Seq(Params) /\ D(2) \in Seq(Params) /\ D(3) \in Seq(Params) /\ D(4) \in Seq(Params)
        /\ D(5) \in Seq(Params)
    BY TableSequences
  <1>2. AllNames = (((D(1) \o D(2)) \o D(3)) \o D(4)) \o D(5) /\ AllNames \in Seq(Params)
    BY AllNamesAre, Zenon
  <1>3. k = 0 \/ k = 1 \/ k = 2 \/ k = 3 \/ k = 4
    OBVIOUS
  <1>4. /\ First(0) = <<>> /\ First(1) = D(1) /\ First(2) = D(1) \o D(2)
        /\ First(3) = (D(1) \o D(2)) \o D(3) /\ First(4) = ((D(1) \o D(2)) \o D(3)) \o D(4) /\ First(5) = AllNames
    <2> DEFINE d2 == D(1) \o D(2)
               d3 == (D(1) \o D(2)) \o D(3)
               d4 == ((D(1) \o D(2)) \o D(3)) \o D(4)
    <2>1. \A j : First(j) = CASE j = 0 -> <<>> [] j = 1 -> D(1) [] j = 2 -> d2 [] j = 3 -> d3 [] j = 4 -> d4
                              [] OTHER -> AllNames
      BY Zenon DEF First
    <2> HIDE DEF d2, d3, d4, D
    <2>2. /\ First(0) = <<>> /\ First(1) = D(1) /\ First(2) = d2 /\ First(3) = d3 /\ First(4) = d4
          /\ First(5) = AllNames
      BY <2>1
    <2> QED BY <2>2, Zenon DEF d2, d3, d4
  <1> HIDE DEF D
  <1>5. D(1) \o D(2) \in Seq(Params)
    BY <1>1, ConcatProperties, Zenon
  <1>6. (D(1) \o D(2)) \o D(3) \in Seq(Params)
    BY <1>1, <1>5, ConcatProperties, Zenon
  <1>7. ((D(1) \o D(2)) \o D(3)) \o D(4) \in Seq(Params)
    BY <1>1, <1>6, ConcatProperties, Zenon
  <1>8. <<>> \in Seq(Params) /\ \A s \in Seq(Params) : <<>> \o s = s
    OBVIOUS
  <1>9. CASE k = 0
    <2>1. k + 1 = 1
      BY <1>9
    <2> QED BY <1>1, <1>4, <1>8, <1>9, <2>1, Zenon DEF D
  <1>10. CASE k = 1
    <2>1. k + 1 = 2
      BY <1>10
    <2> QED BY <1>1, <1>4, <1>5, <1>10, <2>1, Zenon DEF D
  <1>11. CASE k = 2
    <2>1. k + 1 = 3
      BY <1>11
    <2> QED BY <1>1, <1>4, <1>5, <1>6, <1>11, <2>1, Zenon DEF D
  <1>12. CASE k = 3
    <2>1. k + 1 = 4
      BY <1>12
    <2> QED BY <1>1, <1>4, <1>6, <1>7, <1>12, <2>1, Zenon DEF D
  <1>13. CASE k = 4
    <2>1. k + 1 = 5
      BY <1>13
    <2> QED BY <1>1, <1>2, <1>4, <1>7, <1>13, <2>1, Zenon DEF D
  <1> QED BY <1>3, <1>9, <1>10, <1>11, <1>12, <1>13

LEMMA CountsTyped ==
    ASSUME NEW count, \A t \in 1..5 : count[t] \in Nat
    PROVE  LET rows == [t \in TableIds |-> [name |-> t, value |-> count[t]]] IN rows \in Seq(Row) /\ Len(rows) = 5
  <1> DEFINE rows == [t \in 1..5 |-> [name |-> t, value |-> count[t]]]
  <1>1. \A t \in 1..5 : [name |-> t, value |-> count[t]] \in Row
    BY TableNumbers DEF Row, Values
  <1>2. rows \in Seq(Row) /\ Len(rows) = 5
    BY <1>1
  <1> QED BY <1>2, TableNumbers

LEMMA TallyTyped ==
    ASSUME NEW t \in 1..5
    PROVE  tally_table(t) \in Nat
  <1>0. \A S : \A s \in Seq(S) : DOMAIN s = 1..Len(s)
    OBVIOUS
  <1>1. DOMAIN AllNames = 1..25
    BY <1>0, AllNamesAre, Zenon
  <1>2. IsFiniteSet(1..25)
    <2>1. 1 \in Int /\ 25 \in Int
      OBVIOUS
    <2> QED BY <2>1, FS_Interval, Zenon
  <1>3. {i \in DOMAIN AllNames : AllNames[i] \in Range(Definitions[t])} \subseteq 1..25
    BY <1>1
  <1>4. IsFiniteSet({i \in DOMAIN AllNames : AllNames[i] \in Range(Definitions[t])})
    BY <1>2, <1>3, FS_Subset
  <1> QED BY <1>4, FS_CardinalityType DEF tally_table

----------------------------------------------------------------------------
(* Every step of the shell keeps the invariant. *)

\* A command that ends leaves nothing to be said of its phase.
LEMMA EndKeeps ==
    ASSUME CommandOK, NEW rows \in Seq(Row), NEW r \in {"ok", "refused", "failed"}, End(rows, r), Exchange'
    PROVE  /\ CommandOK'
           /\ sh'.phase = "done" /\ sh'.rows = rows /\ sh'.result = r
           /\ sh'.op = sh.op /\ sh'.kind = sh.kind /\ sh'.node = sh.node /\ sh'.arg = sh.arg /\ sh'.val = sh.val
           /\ sh'.names = sh.names
  <1>1. ShTyped /\ Args
    BY DEF CommandOK
  <1>2. /\ sh' = [sh EXCEPT !.phase = "done", !.rows = rows, !.result = r]
        /\ sh'.phase = "done" /\ sh'.rows = rows /\ sh'.result = r
        /\ sh'.op = sh.op /\ sh'.kind = sh.kind /\ sh'.node = sh.node /\ sh'.arg = sh.arg /\ sh'.val = sh.val
        /\ sh'.names = sh.names
    BY <1>1 DEF End, ShTyped
  <1>3. ShTyped'
    BY <1>1, <1>2 DEF ShTyped, Phases
  <1>4. Args'
    BY <1>1, <1>2 DEF Args
  <1>5. AtStart' /\ AtRow' /\ AtVisit' /\ AtWindow'
    BY <1>2 DEF AtStart, AtRow, AtVisit, AtWindow
  <1> QED BY <1>2, <1>3, <1>4, <1>5 DEF CommandOK

LEMMA LocalRowKeeps ==
    ASSUME ShellOK, LocalRow
    PROVE  ShellOK'
  <1>0. NodeOK /\ CommandOK /\ Tickets /\ ShTyped /\ Args /\ Exchange /\ Exchange'
    BY DEF ShellOK, CommandOK, LocalRow, link, Exchange
  <1> DEFINE p == sh.names[Len(sh.rows) + 1]
             row == [name |-> p, value |-> cells'[Here][p]]
             rows == Append(sh.rows, row)
  <1>1. /\ sh.phase = "row" /\ sh.node = Here /\ sh.kind \in {"get", "set", "table", "listall"}
        /\ Len(sh.rows) < Len(sh.names) /\ Follow(sh.rows, sh.names)
    BY <1>0 DEF LocalRow, CommandOK, AtRow
  <1>2. sh.rows \in Seq(Row) /\ sh.names \in Seq(Params)
    BY <1>0 DEF ShTyped
  <1>3. p \in Params
    BY <1>1, <1>2
  <1>4. Read(Here, p) /\ IF Len(rows) = Len(sh.names) THEN End(rows, "ok") ELSE sh' = [sh EXCEPT !.rows = rows]
    BY DEF LocalRow
  <1> HIDE DEF p
  <1>5. NodeOK' /\ cells'[Here][p] \in Values
    BY <1>0, <1>3, <1>4, ReadKeepsNode DEF Nodes
  <1>6. row \in Row
    BY <1>3, <1>5 DEF Row
  <1> HIDE DEF row
  <1>7. rows \in Seq(Row) /\ Len(rows) = Len(sh.rows) + 1
    BY <1>2, <1>6
  <1>8. Follow(rows, sh.names)
    <2>1. \A i \in 1..Len(sh.rows) : rows[i] = sh.rows[i]
      BY <1>2, <1>6
    <2>2. rows[Len(sh.rows) + 1] = row
      BY <1>2, <1>6
    <2>3. row.name = sh.names[Len(sh.rows) + 1]
      BY DEF row, p
    <2>4. Len(sh.rows) \in Nat
      BY <1>2
    <2> HIDE DEF rows
    <2>5. \A i \in 1..Len(rows) : i \in 1..Len(sh.rows) \/ i = Len(sh.rows) + 1
      BY <1>7, <2>4
    <2> QED BY <1>1, <2>1, <2>2, <2>3, <2>5 DEF Follow
  <1> HIDE DEF rows
  <1>9. Tickets'
    <2>1. CASE sh.kind = "set"
      BY <1>0, <2>1 DEF LocalRow, Tickets, Answered, link
    <2>2. CASE sh.kind # "set"
      BY <1>0, <2>2 DEF LocalRow, Tickets, link
    <2> QED BY <2>1, <2>2
  <1>10. CommandOK'
    <2>1. CASE Len(rows) = Len(sh.names)
      BY <1>0, <1>4, <1>7, <2>1, EndKeeps
    <2>2. CASE Len(rows) # Len(sh.names)
      <3>1. sh' = [sh EXCEPT !.rows = rows]
        BY <1>4, <2>2
      <3>2. ShTyped'
        BY <1>0, <1>7, <3>1 DEF ShTyped
      <3>3. /\ sh'.phase = "row" /\ sh'.rows = rows /\ sh'.op = sh.op /\ sh'.kind = sh.kind /\ sh'.node = sh.node
            /\ sh'.arg = sh.arg /\ sh'.val = sh.val /\ sh'.names = sh.names /\ sh'.base = sh.base
        BY <1>0, <1>1, <3>1 DEF ShTyped
      <3>4. Args'
        BY <1>0, <1>1, <3>3 DEF Args
      <3>5. AtStart' /\ AtVisit' /\ AtWindow'
        BY <3>3 DEF AtStart, AtVisit, AtWindow
      <3>6. AtRow'
        <4>1. Len(rows) < Len(sh.names)
          <5>1. Len(sh.rows) \in Nat /\ Len(sh.names) \in Nat
            BY <1>2
          <5> QED BY <1>1, <1>7, <2>2, <5>1
        <4>2. AtRow
          BY <1>0 DEF CommandOK
        <4> QED BY <1>1, <1>8, <3>3, <4>1, <4>2 DEF AtRow
      <3> QED BY <1>0, <3>2, <3>4, <3>5, <3>6 DEF CommandOK
    <2> QED BY <2>1, <2>2
  <1> QED BY <1>5, <1>9, <1>10 DEF ShellOK

LEMMA LocalSetKeeps ==
    ASSUME ShellOK, LocalSet
    PROVE  ShellOK'
  <1>0. NodeOK /\ CommandOK /\ Tickets /\ ShTyped /\ Args /\ Exchange /\ Exchange'
    BY DEF ShellOK, CommandOK, LocalSet, link, Exchange
  <1>1. sh.phase = "local_set" /\ sh.kind = "set" /\ sh.node = Here /\ sh.rows = <<>>
    BY <1>0 DEF LocalSet, CommandOK, AtStart
  <1>2. sh.arg \in SetNames /\ sh.val \in SetValues /\ sh.names = <<sh.arg>> /\ sh.op \in Ops
    BY <1>0, <1>1 DEF Args
  <1>3. NodeOK'
    <2>1. sh.arg \in Params /\ sh.val \in Nat /\ Here \in Nodes
      BY <1>2, ShellAssumption DEF Nodes
    <2>2. Write(Here, sh.arg, sh.val)
      BY DEF LocalSet
    <2> QED BY <1>0, <2>1, <2>2, WriteKeepsNode
  <1>4. Tickets'
    BY <1>0, <1>2 DEF LocalSet, Tickets, link
  <1>5. sh' = [sh EXCEPT !.phase = "row"]
    BY DEF LocalSet
  <1>6. ShTyped'
    BY <1>0, <1>5 DEF ShTyped, Phases
  <1>7. /\ sh'.phase = "row" /\ sh'.rows = sh.rows /\ sh'.op = sh.op /\ sh'.kind = sh.kind /\ sh'.node = sh.node
        /\ sh'.arg = sh.arg /\ sh'.val = sh.val /\ sh'.names = sh.names /\ sh'.base = sh.base
    BY <1>0, <1>5 DEF ShTyped
  <1>8. Args'
    BY <1>0, <1>1, <1>7 DEF Args
  <1>9. AtStart' /\ AtVisit' /\ AtWindow'
    BY <1>7 DEF AtStart, AtVisit, AtWindow
  <1>10. Len(<<>>) = 0 /\ \A x : Len(<<x>>) = 1
    OBVIOUS
  <1>11. AtRow'
    BY <1>1, <1>2, <1>7, <1>10 DEF AtRow, Follow
  <1> QED BY <1>0, <1>3, <1>4, <1>6, <1>8, <1>9, <1>11 DEF ShellOK, CommandOK

LEMMA LocalSetRefusedKeeps ==
    ASSUME ShellOK, LocalSetRefused
    PROVE  ShellOK'
  <1>0. NodeOK /\ CommandOK /\ Tickets /\ ShTyped /\ Args /\ Exchange /\ Exchange'
    BY DEF ShellOK, CommandOK, LocalSetRefused, link, Exchange
  <1>1. sh.phase = "local_set" /\ sh.kind = "set"
    BY <1>0 DEF LocalSetRefused, CommandOK, AtStart
  <1>2. sh.arg \in Params /\ sh.op \in Ops
    BY <1>0, <1>1 DEF Args
  <1>3. NodeOK'
    BY <1>0, <1>2, ReadKeepsNode DEF LocalSetRefused, Nodes
  <1>4. Tickets'
    BY <1>0, <1>2 DEF LocalSetRefused, Tickets, link, Answered
  <1>5. CommandOK'
    BY <1>0, EndKeeps, EmptyTyped DEF LocalSetRefused
  <1> QED BY <1>3, <1>4, <1>5 DEF ShellOK

LEMMA LocalTablesKeeps ==
    ASSUME ShellOK, LocalTables
    PROVE  ShellOK'
  <1>0. NodeOK /\ CommandOK /\ Tickets /\ Exchange'
    BY DEF ShellOK, CommandOK, LocalTables, NoWire, link, Exchange
  <1>1. NodeOK' /\ Tickets'
    BY <1>0 DEF LocalTables, NoWire, link, NodeOK, Tickets, node
  <1>2. Counts \in Seq(Row)
    <2> DEFINE count == [t \in 1..5 |-> Len(Definitions[t])]
    <2>1. \A t \in 1..5 : Len(Definitions[t]) \in Nat
      BY TableSequences
    <2>2. \A t \in 1..5 : count[t] \in Nat
      BY <2>1
    <2>3. Counts = [t \in TableIds |-> [name |-> t, value |-> count[t]]]
      BY TableNumbers DEF Counts
    <2> QED BY <2>2, <2>3, CountsTyped
  <1> QED BY <1>0, <1>1, <1>2, EndKeeps DEF LocalTables, ShellOK

\* The next window: the names that are asked for, none left out and no more than fit.
LEMMA AskedIs ==
    ASSUME NEW names \in Seq(Params), NEW base \in Nat, base < Len(names)
    PROVE  /\ Asked(names, base) \in Seq(Params)
           /\ Len(Asked(names, base)) = Least(base + WINDOW, Len(names)) - base
           /\ Len(Asked(names, base)) \in 1..WINDOW
           /\ base + Len(Asked(names, base)) <= Len(names)
           /\ \A i \in 1..Len(Asked(names, base)) : Asked(names, base)[i] = names[base + i]
           /\ base + WINDOW < Len(names) => Len(Asked(names, base)) = WINDOW
           /\ ~(base + WINDOW < Len(names)) => base + Len(Asked(names, base)) = Len(names)
  <1>1. WINDOW \in Nat \ {0}
    BY ShellAssumption
  <1>2. PICK n \in Nat : n = Len(names)
    OBVIOUS
  <1>3. PICK m : m = Least(base + WINDOW, Len(names))
    OBVIOUS
  <1>4. /\ m \in base + 1..n /\ m - base \in 1..WINDOW
        /\ base + WINDOW < n => m - base = WINDOW
        /\ ~(base + WINDOW < n) => m = n
    BY <1>1, <1>2, <1>3 DEF Least
  <1>5. Asked(names, base) = SubSeq(names, base + 1, m)
    BY <1>3 DEF Asked
  <1>6. /\ SubSeq(names, base + 1, m) \in Seq(Params) /\ Len(SubSeq(names, base + 1, m)) = m - base
        /\ \A i \in 1..(m - base) : SubSeq(names, base + 1, m)[i] = names[base + i]
    BY <1>2, <1>4
  <1>7. PICK a : a = Asked(names, base)
    OBVIOUS
  <1>8. a \in Seq(Params) /\ Len(a) = m - base /\ \A i \in 1..(m - base) : a[i] = names[base + i]
    BY <1>5, <1>6, <1>7
  <1>9. /\ Len(a) \in 1..WINDOW /\ base + Len(a) <= n
        /\ base + WINDOW < n => Len(a) = WINDOW
        /\ ~(base + WINDOW < n) => base + Len(a) = n
    <2>1. PICK d : d = Len(a) /\ d = m - base
      BY <1>8
    <2>2. d \in 1..WINDOW /\ base + d <= n /\ (base + WINDOW < n => d = WINDOW) /\ (~(base + WINDOW < n) => base + d = n)
      BY <1>1, <1>4, <2>1
    <2> QED BY <2>1, <2>2
  <1> QED BY <1>2, <1>3, <1>7, <1>8, <1>9

LEMMA ReadWindowIs ==
    ASSUME NEW names, NEW base, ReadWindow(base, names)
    PROVE  req' = Asked(names, base) /\ reply' = <<>>
  BY DEF ReadWindow, Asked, Least

\* The names of a table are the same whether the node serves its table list or not.
LEMMA CollectedIs ==
    ASSUME sh.arg \in 1..5
    PROVE  Collected(IF old THEN AllNames ELSE Definitions[sh.arg]) = Cut(sh.arg)
  <1> DEFINE all == IF old THEN AllNames ELSE Definitions[sh.arg]
  <1>1. Kept(all, Range(Definitions[sh.arg])) = Definitions[sh.arg]
    BY TableKept
  <1> QED BY <1>1 DEF Collected, Cut, Least

LEMMA CollectNamesKeeps ==
    ASSUME ShellOK, CollectNames
    PROVE  ShellOK'
  <1>0. NodeOK /\ CommandOK /\ Tickets /\ ShTyped /\ Args
    BY DEF ShellOK, CommandOK
  <1>1. NodeOK' /\ Tickets'
    BY <1>0 DEF CollectNames, NodeOK, Tickets, node
  <1>2. sh.phase = "names" /\ sh.kind = "table" /\ sh.node = There /\ sh.rows = <<>> /\ sh.base = 0 /\ sh.arg \in 1..5
    BY <1>0 DEF CollectNames, CommandOK, AtStart, Args
  <1> DEFINE names == Cut(sh.arg)
  <1>3. sh' = [sh EXCEPT !.phase = "window", !.names = names] /\ ReadWindow(0, names)
    BY <1>2, CollectedIs DEF CollectNames
  <1>4. names \in Seq(Params) /\ Len(names) \in 1..9 /\ Len(names) <= NAMES_MAX
    BY <1>2, CutIs
  <1> HIDE DEF names
  <1>5. ShTyped'
    BY <1>0, <1>3, <1>4 DEF ShTyped, Phases
  <1>6. /\ sh'.phase = "window" /\ sh'.rows = sh.rows /\ sh'.op = sh.op /\ sh'.kind = sh.kind /\ sh'.node = sh.node
        /\ sh'.arg = sh.arg /\ sh'.val = sh.val /\ sh'.names = names /\ sh'.base = sh.base
    BY <1>0, <1>3 DEF ShTyped
  <1>7. Args'
    BY <1>0, <1>2, <1>4, <1>6 DEF Args
  <1>8. AtStart' /\ AtVisit' /\ AtRow'
    BY <1>2, <1>6 DEF AtStart, AtVisit, AtRow
  <1>9. req' = Asked(names, 0) /\ reply' = <<>>
    BY <1>3, ReadWindowIs
  <1>10. 0 < Len(names) /\ 0 \in Nat /\ Len(<<>>) = 0 /\ <<>> \in Seq(Values)
    <2>1. \A k \in 1..9 : 0 < k
      OBVIOUS
    <2>2. 0 < Len(names)
      BY <1>4, <2>1, Zenon
    <2> QED BY <2>2, EmptyTyped
  <1>11. AtWindow'
    BY <1>2, <1>6, <1>9, <1>10 DEF AtWindow, Follow, names
  <1>12. Exchange'
    <2>1. Asked(names, 0) \in Seq(Params) /\ Len(Asked(names, 0)) \in 1..WINDOW
      BY <1>4, <1>10, AskedIs
    <2> QED BY <1>9, <1>10, <2>1, ShellAssumption DEF Exchange
  <1> QED BY <1>1, <1>5, <1>7, <1>8, <1>11, <1>12 DEF ShellOK, CommandOK

LEMMA WalkIs ==
    ASSUME ShellOK, NEW phase, Walk(phase)
    PROVE  sh.phase = phase /\ NodeOK' /\ Tickets' /\ Exchange' /\ CommandOK /\ ShTyped /\ Args
  BY DEF Walk, ShellOK, CommandOK, NodeOK, Tickets, NoWire, node, link, Exchange

LEMMA ListTablesKeeps ==
    ASSUME ShellOK, ListTables
    PROVE  ShellOK'
  <1>1. sh.phase = "tables" /\ NodeOK' /\ Tickets' /\ Exchange' /\ CommandOK /\ ShTyped /\ Args
    BY WalkIs DEF ListTables
  <1>2. sh.kind = "listall" /\ sh.node = There /\ sh.rows = <<>> /\ sh.base = 0
    BY <1>1 DEF ListTables, CommandOK, AtStart
  <1>3. sh' = [sh EXCEPT !.phase = "visit"]
    BY DEF ListTables
  <1>4. ShTyped'
    BY <1>1, <1>3 DEF ShTyped, Phases
  <1>5. /\ sh'.phase = "visit" /\ sh'.rows = sh.rows /\ sh'.op = sh.op /\ sh'.kind = sh.kind /\ sh'.node = sh.node
        /\ sh'.arg = sh.arg /\ sh'.val = sh.val /\ sh'.names = sh.names /\ sh'.base = sh.base
    BY <1>1, <1>3 DEF ShTyped
  <1>6. Args'
    BY <1>1, <1>5 DEF Args
  <1>7. AtStart' /\ AtWindow' /\ AtRow'
    BY <1>2, <1>5 DEF AtStart, AtWindow, AtRow
  <1>8. Column(First(0)) = <<>>
    <2>1. First(0) = <<>>
      BY DEF First
    <2>2. Column(<<>>) \in Seq(Row) /\ Len(Column(<<>>)) = 0
      BY ColumnIs, EmptyTyped
    <2>3. \A S : \A s \in Seq(S) : Len(s) = 0 => s = <<>>
      OBVIOUS
    <2>4. Column(<<>>) = <<>>
      BY <2>2, <2>3, Zenon
    <2> QED BY <2>1, <2>4
  <1>9. AtVisit'
    BY <1>2, <1>5, <1>8 DEF AtVisit
  <1> QED BY <1>1, <1>4, <1>6, <1>7, <1>9 DEF ShellOK, CommandOK

LEMMA VisitTableKeeps ==
    ASSUME ShellOK, VisitTable
    PROVE  ShellOK'
  <1>1. sh.phase = "visit" /\ NodeOK' /\ Tickets' /\ Exchange' /\ CommandOK /\ ShTyped /\ Args
    BY WalkIs DEF VisitTable
  <1>2. sh.kind = "listall" /\ sh.node = There /\ sh.base \in 0..4 /\ sh.rows = Column(First(sh.base))
    BY <1>1 DEF CommandOK, AtStart, AtVisit
  <1> DEFINE rows == sh.rows \o Column(Definitions[sh.base + 1])
  <1>3. rows = Column(First(sh.base + 1)) /\ rows \in Seq(Row)
    <2>1. /\ First(sh.base) \in Seq(Params) /\ First(sh.base + 1) \in Seq(Params)
          /\ First(sh.base + 1) = First(sh.base) \o Definitions[sh.base + 1]
          /\ Definitions[sh.base + 1] \in Seq(Params)
      BY <1>2, FirstIs
    <2>2. Column(First(sh.base) \o Definitions[sh.base + 1]) = rows
      BY <1>2, <2>1, ColumnConcat
    <2>3. Column(First(sh.base + 1)) \in Seq(Row)
      BY <2>1, ColumnIs
    <2> HIDE DEF rows
    <2> QED BY <2>1, <2>2, <2>3
  <1>4. IF sh.base + 1 = 5 THEN End(rows, "ok") ELSE sh' = [sh EXCEPT !.rows = rows, !.base = sh.base + 1]
    BY TableNumbers DEF VisitTable
  <1> HIDE DEF rows
  <1>5. CASE sh.base + 1 = 5
    BY <1>1, <1>3, <1>4, <1>5, EndKeeps DEF ShellOK
  <1>6. CASE sh.base + 1 # 5
    <2>1. sh' = [sh EXCEPT !.rows = rows, !.base = sh.base + 1] /\ sh.base + 1 \in 0..4 /\ sh.base + 1 \in 0..25
      BY <1>2, <1>4, <1>6
    <2>2. ShTyped'
      BY <1>1, <1>3, <2>1 DEF ShTyped
    <2>3. /\ sh'.phase = "visit" /\ sh'.rows = rows /\ sh'.op = sh.op /\ sh'.kind = sh.kind /\ sh'.node = sh.node
          /\ sh'.arg = sh.arg /\ sh'.val = sh.val /\ sh'.names = sh.names /\ sh'.base = sh.base + 1
      BY <1>1, <2>1 DEF ShTyped
    <2>4. Args'
      BY <1>1, <2>3 DEF Args
    <2>5. AtStart' /\ AtWindow' /\ AtRow'
      BY <1>2, <2>3 DEF AtStart, AtWindow, AtRow
    <2>6. AtVisit'
      BY <1>2, <1>3, <2>1, <2>3 DEF AtVisit
    <2> QED BY <1>1, <2>2, <2>4, <2>5, <2>6 DEF ShellOK, CommandOK
  <1> QED BY <1>5, <1>6

LEMMA VisitAllKeeps ==
    ASSUME ShellOK, VisitAll
    PROVE  ShellOK'
  <1>1. NodeOK' /\ Tickets' /\ Exchange' /\ CommandOK
    BY WalkIs DEF VisitAll
  <1>2. Column(AllNames) \in Seq(Row)
    BY AllNamesAre, ColumnIs, Zenon
  <1> QED BY <1>1, <1>2, EndKeeps DEF VisitAll, ShellOK

LEMMA PrintTablesKeeps ==
    ASSUME ShellOK, PrintTables
    PROVE  ShellOK'
  <1>1. NodeOK' /\ Tickets' /\ Exchange' /\ CommandOK
    BY WalkIs DEF PrintTables
  <1> DEFINE count == [t \in 1..5 |-> IF old THEN tally_table(t) ELSE Len(Definitions[t])]
             rows == IF old THEN [t \in TableIds |-> [name |-> t, value |-> tally_table(t)]] ELSE Counts
  <1>2. \A t \in 1..5 : Len(Definitions[t]) \in Nat /\ tally_table(t) \in Nat
    <2>1. \A k \in 1..9 : k \in Nat
      OBVIOUS
    <2>2. \A t \in 1..5 : Len(Definitions[t]) \in 1..9
      BY TableSequences
    <2> QED BY <2>1, <2>2, TallyTyped, Zenon
  <1>3. \A t \in 1..5 : count[t] \in Nat
    BY <1>2
  <1>4. rows = [t \in TableIds |-> [name |-> t, value |-> count[t]]]
    BY TableNumbers DEF Counts
  <1>5. rows \in Seq(Row)
    BY <1>3, <1>4, CountsTyped
  <1>6. End(rows, "ok")
    BY DEF PrintTables
  <1> HIDE DEF rows
  <1> QED BY <1>1, <1>5, <1>6, EndKeeps DEF ShellOK

LEMMA WalkFailsKeeps ==
    ASSUME ShellOK, WalkFails
    PROVE  ShellOK'
  <1>1. NodeOK' /\ Tickets' /\ Exchange' /\ CommandOK /\ ShTyped
    BY WalkIs DEF WalkFails
  <1>2. sh.rows \in Seq(Row)
    BY <1>1 DEF ShTyped
  <1> QED BY <1>1, <1>2, EndKeeps DEF WalkFails, ShellOK

\* A window under way: its names follow those that were printed.
LEMMA WindowIs ==
    ASSUME CommandOK, sh.phase = "window"
    PROVE  /\ sh.names \in Seq(Params) /\ sh.base \in Nat /\ sh.rows \in Seq(Row) /\ Len(sh.rows) = sh.base
           /\ Follow(sh.rows, sh.names) /\ Len(req) \in Nat
           /\ \A i \in 1..Len(req) : req[i] \in Params /\ req[i] = sh.names[sh.base + i]
  <1>1. /\ sh.names \in Seq(Params) /\ sh.base \in Nat /\ sh.base < Len(sh.names) /\ sh.rows \in Seq(Row)
        /\ Len(sh.rows) = sh.base /\ Follow(sh.rows, sh.names) /\ req = Asked(sh.names, sh.base)
        /\ req \in Seq(Params)
    BY DEF CommandOK, ShTyped, AtWindow, Exchange
  <1>2. \A i \in 1..Len(req) : req[i] = sh.names[sh.base + i]
    BY <1>1, AskedIs
  <1> QED BY <1>1, <1>2

\* What the rows of a window make of the rows so far.
LEMMA WindowRowsAre ==
    ASSUME CommandOK, sh.phase = "window", NEW more \in Seq(Row), Len(more) = Len(req),
           \A i \in 1..Len(req) : more[i].name = req[i],
           NEW rows, rows = sh.rows \o more
    PROVE  /\ rows \in Seq(Row) /\ Len(rows) = sh.base + Len(req)
           /\ Follow(rows, sh.names)
           /\ \A i \in 1..sh.base : rows[i] = sh.rows[i]
           /\ \A i \in 1..Len(req) : rows[sh.base + i] = more[i]
  <1>1. PICK k \in Nat : k = Len(req)
    BY WindowIs
  <1>2. PICK b \in Nat : b = sh.base
    BY WindowIs
  <1>3. /\ rows \in Seq(Row) /\ Len(rows) = b + k
        /\ \A i \in 1..b : rows[i] = sh.rows[i]
        /\ \A i \in 1..k : rows[b + i] = more[i]
    <2>1. \A x, y \in Seq(Row) :
             /\ x \o y \in Seq(Row) /\ Len(x \o y) = Len(x) + Len(y)
             /\ \A i \in 1..Len(x) : (x \o y)[i] = x[i]
             /\ \A i \in 1..Len(y) : (x \o y)[Len(x) + i] = y[i]
      BY JoinOfTwo
    <2>2. sh.rows \in Seq(Row) /\ Len(sh.rows) = b
      BY <1>2, WindowIs
    <2>3. /\ sh.rows \o more \in Seq(Row) /\ Len(sh.rows \o more) = Len(sh.rows) + Len(more)
          /\ \A i \in 1..Len(sh.rows) : (sh.rows \o more)[i] = sh.rows[i]
          /\ \A i \in 1..Len(more) : (sh.rows \o more)[Len(sh.rows) + i] = more[i]
      BY <2>1, <2>2, Zenon
    <2> QED BY <1>1, <2>2, <2>3, Zenon
  <1>4. \A i \in 1..k : req[i] = sh.names[b + i]
    BY <1>1, <1>2, WindowIs
  <1>5. \A i \in 1..b : sh.rows[i].name = sh.names[i]
    BY <1>2, WindowIs DEF Follow
  <1>6. Follow(rows, sh.names)
    <2> SUFFICES ASSUME NEW i \in 1..(b + k) PROVE rows[i].name = sh.names[i]
      BY <1>3 DEF Follow
    <2>1. CASE i <= b
      <3>1. i \in 1..b
        BY <2>1
      <3> QED BY <1>3, <1>5, <3>1, Zenon
    <2>2. CASE i > b
      <3>1. PICK j \in 1..k : i = b + j
        <4>1. i - b \in 1..k /\ i = b + (i - b)
          BY <2>2
        <4> QED BY <4>1
      <3> QED BY <1>1, <1>3, <1>4, <3>1, Zenon
    <2>3. i <= b \/ i > b
      OBVIOUS
    <2> QED BY <2>1, <2>2, <2>3
  <1> QED BY <1>1, <1>2, <1>3, <1>6, Zenon

\* The rows of one window, with the values v.
LEMMA MoreRowsAre ==
    ASSUME CommandOK, sh.phase = "window", NEW v, \A i \in 1..Len(req) : v[i] \in Values,
           NEW more, more = [i \in 1..Len(req) |-> [name |-> sh.names[sh.base + i], value |-> v[i]]]
    PROVE  /\ more \in Seq(Row) /\ Len(more) = Len(req)
           /\ \A i \in 1..Len(req) : more[i].name = req[i] /\ more[i].value = v[i]
  <1>1. PICK k \in Nat : k = Len(req)
    BY WindowIs
  <1>2. \A i \in 1..k : sh.names[sh.base + i] = req[i] /\ req[i] \in Params
    BY <1>1, WindowIs
  <1>3. more = [i \in 1..k |-> [name |-> req[i], value |-> v[i]]]
    BY <1>1, <1>2
  <1>4. \A i \in 1..k : [name |-> req[i], value |-> v[i]] \in Row
    BY <1>1, <1>2 DEF Row
  <1>5. more \in Seq(Row) /\ Len(more) = k
    BY <1>3, <1>4
  <1>6. ASSUME NEW i \in 1..k PROVE more[i].name = req[i] /\ more[i].value = v[i]
    <2>1. more[i] = [name |-> req[i], value |-> v[i]]
      BY <1>3
    <2> QED BY <2>1
  <1> QED BY <1>1, <1>5, <1>6, Zenon

LEMMA PrintedRowsAre ==
    ASSUME CommandOK, sh.phase = "window", Len(reply) = Len(req), NEW rows, rows = sh.rows \o WindowRows(TRUE, reply)
    PROVE  /\ rows \in Seq(Row) /\ Len(rows) = sh.base + Len(req)
           /\ Follow(rows, sh.names)
           /\ \A i \in 1..sh.base : rows[i] = sh.rows[i]
           /\ \A i \in 1..Len(req) : rows[sh.base + i].name = req[i] /\ rows[sh.base + i].value = reply[i]
  <1>1. PICK more : more = WindowRows(TRUE, reply)
    OBVIOUS
  <1>2. more = [i \in 1..Len(req) |-> [name |-> sh.names[sh.base + i], value |-> reply[i]]]
    BY <1>1 DEF WindowRows
  <1>3. \A i \in 1..Len(req) : reply[i] \in Values
    BY DEF CommandOK, Exchange
  <1>4. /\ more \in Seq(Row) /\ Len(more) = Len(req)
        /\ \A i \in 1..Len(req) : more[i].name = req[i] /\ more[i].value = reply[i]
    BY <1>2, <1>3, MoreRowsAre
  <1>5. rows = sh.rows \o more /\ \A i \in 1..Len(req) : more[i].name = req[i]
    BY <1>1, <1>4, Zenon
  <1>6. /\ rows \in Seq(Row) /\ Len(rows) = sh.base + Len(req)
        /\ Follow(rows, sh.names)
        /\ \A i \in 1..sh.base : rows[i] = sh.rows[i]
        /\ \A i \in 1..Len(req) : rows[sh.base + i] = more[i]
    BY <1>4, <1>5, WindowRowsAre, Zenon
  <1> QED BY <1>4, <1>6, Zenon

LEMMA DashedRowsAre ==
    ASSUME CommandOK, sh.phase = "window", NEW rows, rows = sh.rows \o WindowRows(FALSE, window)
    PROVE  /\ rows \in Seq(Row) /\ Len(rows) = sh.base + Len(req)
           /\ Follow(rows, sh.names)
           /\ \A i \in 1..sh.base : rows[i] = sh.rows[i]
           /\ \A i \in 1..Len(req) : rows[sh.base + i].name = req[i] /\ rows[sh.base + i].value = Dash
  <1>1. PICK more : more = WindowRows(FALSE, window)
    OBVIOUS
  <1>2. PICK v : v = [i \in 1..Len(req) |-> Dash]
    OBVIOUS
  <1>3. more = [i \in 1..Len(req) |-> [name |-> sh.names[sh.base + i], value |-> v[i]]]
    BY <1>1, <1>2 DEF WindowRows
  <1>4. \A i \in 1..Len(req) : v[i] = Dash /\ v[i] \in Values
    BY <1>2 DEF Values
  <1>5. /\ more \in Seq(Row) /\ Len(more) = Len(req)
        /\ \A i \in 1..Len(req) : more[i].name = req[i] /\ more[i].value = v[i]
    BY <1>3, <1>4, MoreRowsAre, ZenonT(60)
  <1>6. rows = sh.rows \o more /\ \A i \in 1..Len(req) : more[i].name = req[i]
    BY <1>1, <1>5, Zenon
  <1>7. /\ rows \in Seq(Row) /\ Len(rows) = sh.base + Len(req)
        /\ Follow(rows, sh.names)
        /\ \A i \in 1..sh.base : rows[i] = sh.rows[i]
        /\ \A i \in 1..Len(req) : rows[sh.base + i] = more[i]
    BY <1>5, <1>6, WindowRowsAre, Zenon
  <1> QED BY <1>4, <1>5, <1>7, Zenon

\* A window was read, or could not be: on to the next one, or to the end.
LEMMA NextWindowKeeps ==
    ASSUME CommandOK, sh.phase = "window", NEW rows \in Seq(Row), Len(rows) = sh.base + Len(req),
           Follow(rows, sh.names), NextWindow(rows)
    PROVE  /\ CommandOK'
           /\ sh'.rows = rows /\ sh'.kind = sh.kind /\ sh'.node = sh.node /\ sh'.arg = sh.arg /\ sh'.op = sh.op
           /\ sh'.val = sh.val
           /\ \/ sh'.phase = "window" /\ reply' = <<>>
              \/ /\ sh'.phase = "done" /\ sh'.result = "ok" /\ Len(rows) = Len(sh.names)
                 /\ UNCHANGED <<req, reply>>
  <1>0. ShTyped /\ Args /\ AtWindow /\ Exchange
    BY DEF CommandOK
  <1>1. /\ sh.names \in Seq(Params) /\ sh.base \in Nat /\ sh.base < Len(sh.names)
        /\ req = Asked(sh.names, sh.base) /\ sh.node = There /\ sh.kind = "table" /\ sh.names = Cut(sh.arg)
    BY <1>0 DEF ShTyped, AtWindow, CommandOK, AtStart
  <1>2. /\ sh.base + WINDOW < Len(sh.names) => Len(req) = WINDOW
        /\ ~(sh.base + WINDOW < Len(sh.names)) => sh.base + Len(req) = Len(sh.names)
    BY <1>1, AskedIs
  <1> DEFINE base == sh.base + WINDOW
  <1>3. IF base < Len(sh.names)
        THEN sh' = [sh EXCEPT !.rows = rows, !.base = base] /\ ReadWindow(base, sh.names)
        ELSE End(rows, "ok") /\ UNCHANGED <<req, reply>>
    BY DEF NextWindow
  <1>4. CASE base < Len(sh.names)
    <2>1. sh' = [sh EXCEPT !.rows = rows, !.base = base] /\ req' = Asked(sh.names, base) /\ reply' = <<>>
      BY <1>3, <1>4, ReadWindowIs
    <2>2. base \in Nat /\ base \in 0..25
      <3>1. Len(sh.names) \in 1..9
        BY <1>0, <1>1, CutIs DEF Args
      <3>2. PICK m \in 1..9 : m = Len(sh.names)
        BY <3>1
      <3>3. base < m
        BY <1>4, <3>2
      <3>4. base \in Nat
        BY <1>1, ShellAssumption
      <3> HIDE DEF base
      <3> QED BY <3>3, <3>4
    <2>3. Len(rows) = base
      BY <1>2, <1>4
    <2> HIDE DEF base
    <2>4. ShTyped'
      BY <1>0, <2>1, <2>2 DEF ShTyped
    <2>5. /\ sh'.phase = "window" /\ sh'.rows = rows /\ sh'.op = sh.op /\ sh'.kind = sh.kind /\ sh'.node = sh.node
          /\ sh'.arg = sh.arg /\ sh'.val = sh.val /\ sh'.names = sh.names /\ sh'.base = base
      BY <1>0, <2>1 DEF ShTyped
    <2>6. Args'
      BY <1>0, <2>5 DEF Args
    <2>7. AtStart' /\ AtVisit' /\ AtRow'
      BY <1>1, <2>5 DEF AtStart, AtVisit, AtRow
    <2>8. AtWindow'
      BY <1>1, <1>4, <2>1, <2>3, <2>5 DEF AtWindow
    <2>9. Exchange'
      <3>1. Asked(sh.names, base) \in Seq(Params) /\ Len(Asked(sh.names, base)) \in 1..WINDOW
        BY <1>1, <1>4, <2>2, AskedIs
      <3> QED BY <2>1, <3>1, EmptyTyped, ShellAssumption DEF Exchange
    <2> QED BY <2>1, <2>4, <2>5, <2>6, <2>7, <2>8, <2>9 DEF CommandOK
  <1>5. CASE ~(base < Len(sh.names))
    <2>1. End(rows, "ok") /\ UNCHANGED <<req, reply>>
      BY <1>3, <1>5
    <2>2. Exchange'
      BY <1>0, <2>1 DEF Exchange
    <2> HIDE DEF base
    <2>3. /\ CommandOK'
          /\ sh'.phase = "done" /\ sh'.rows = rows /\ sh'.result = "ok"
          /\ sh'.op = sh.op /\ sh'.kind = sh.kind /\ sh'.node = sh.node /\ sh'.arg = sh.arg /\ sh'.val = sh.val
      BY <2>1, <2>2, EndKeeps
    <2>4. Len(rows) = Len(sh.names)
      BY <1>2, <1>5 DEF base
    <2> QED BY <2>1, <2>3, <2>4
  <1> QED BY <1>4, <1>5

LEMMA PrintWindowKeeps ==
    ASSUME ShellOK, PrintWindow
    PROVE  ShellOK'
  <1>0. NodeOK /\ CommandOK /\ Tickets /\ Exchange
    BY DEF ShellOK, CommandOK
  <1>1. NodeOK' /\ Tickets'
    BY <1>0 DEF PrintWindow, NodeOK, Tickets, node
  <1>2. /\ sh.phase = "window" /\ reply \in Seq(Values) /\ Len(reply) = Len(req)
        /\ NextWindow(sh.rows \o WindowRows(TRUE, reply))
    BY <1>0 DEF PrintWindow, Complete, Exchange
  <1>5. PICK rows : rows = sh.rows \o WindowRows(TRUE, reply)
    OBVIOUS
  <1>3. rows \in Seq(Row) /\ Len(rows) = sh.base + Len(req) /\ Follow(rows, sh.names)
    BY <1>0, <1>2, <1>5, PrintedRowsAre
  <1>4. CommandOK'
    BY <1>0, <1>2, <1>3, <1>5, NextWindowKeeps
  <1> QED BY <1>1, <1>4 DEF ShellOK

LEMMA WindowFailsKeeps ==
    ASSUME ShellOK, WindowFails
    PROVE  ShellOK'
  <1>0. NodeOK /\ CommandOK /\ Tickets
    BY DEF ShellOK
  <1>1. NodeOK' /\ Tickets'
    BY <1>0 DEF WindowFails, NodeOK, Tickets, node
  <1>2. sh.phase = "window" /\ NextWindow(sh.rows \o WindowRows(FALSE, window))
    BY DEF WindowFails
  <1>5. PICK rows : rows = sh.rows \o WindowRows(FALSE, window)
    OBVIOUS
  <1>3. rows \in Seq(Row) /\ Len(rows) = sh.base + Len(req) /\ Follow(rows, sh.names)
    BY <1>0, <1>2, <1>5, DashedRowsAre
  <1>4. CommandOK'
    BY <1>0, <1>2, <1>3, <1>5, NextWindowKeeps
  <1> QED BY <1>1, <1>4 DEF ShellOK

LEMMA OneRowTyped ==
    ASSUME NEW p \in Params, NEW v \in Values
    PROVE  <<[name |-> p, value |-> v]>> \in Seq(Row)
  <1>1. [name |-> p, value |-> v] \in Row
    BY DEF Row
  <1> QED BY <1>1

\* The steps of get and set on the other node.
LEMMA GetStepsKeep ==
    ASSUME ShellOK, GetAnswered \/ GetFails \/ TextRefused \/ SetAnswered \/ SetFails
    PROVE  ShellOK'
  <1>0. NodeOK /\ CommandOK /\ Tickets /\ ShTyped /\ Args /\ Exchange
    BY DEF ShellOK, CommandOK
  <1>1. NodeOK' /\ Exchange'
    BY <1>0 DEF GetAnswered, GetFails, TextRefused, SetAnswered, SetFails, NodeOK, Exchange, node, link, NoWire
  <1>2. sh.phase \in {"get", "set"} /\ sh.kind \in {"get", "set"} /\ sh.op \in Ops
    BY <1>0 DEF GetAnswered, GetFails, TextRefused, SetAnswered, SetFails, CommandOK, AtStart, Args
  <1>3. Tickets'
    <2>1. /\ air' = air /\ ack' = ack /\ applied' = applied /\ events' = events
          /\ \/ answer' = answer
             \/ \E a \in {"yes", "no", "unknown"} : answer' = [answer EXCEPT ![sh.op] = a]
      <3>1. ack[sh.op] \in {"none", "yes", "no"}
        BY <1>0, <1>2 DEF Tickets
      <3> QED BY <3>1 DEF GetAnswered, GetFails, TextRefused, SetAnswered, SetFails, link, NoWire, Answered
    <2> QED BY <1>0, <2>1 DEF Tickets
  <1>4. PICK rows, r : rows \in Seq(Row) /\ r \in {"ok", "refused", "failed"} /\ End(rows, r)
    <2>1. sh.arg \in Params /\ sh.val \in Values
      BY <1>0, <1>2 DEF Args, ShTyped, Values
    <2>2. CASE GetAnswered
      <3>1. reply[1] \in Values
        <4>1. reply \in Seq(Values) /\ reply # <<>>
          BY <1>0, <2>2 DEF Exchange, GetAnswered, Complete
        <4> QED BY <4>1
      <3> QED BY <2>1, <2>2, <3>1, OneRowTyped DEF GetAnswered
    <2>3. CASE GetFails \/ TextRefused \/ SetFails
      BY <2>3, EmptyTyped DEF GetFails, TextRefused, SetFails
    <2>4. CASE SetAnswered
      BY <2>1, <2>4, EmptyTyped, OneRowTyped DEF SetAnswered
    <2> QED BY <2>2, <2>3, <2>4
  <1>5. CommandOK'
    BY <1>0, <1>1, <1>4, EndKeeps
  <1> QED BY <1>1, <1>3, <1>5 DEF ShellOK

LEMMA SendSetKeeps ==
    ASSUME ShellOK, SendSet
    PROVE  ShellOK'
  <1>0. NodeOK /\ CommandOK /\ Tickets /\ ShTyped /\ Args /\ Exchange
    BY DEF ShellOK, CommandOK
  <1>1. NodeOK' /\ Exchange'
    BY <1>0 DEF SendSet, NodeOK, Exchange, node
  <1>2. /\ sh.phase = "get" /\ sh.kind = "set" /\ sh.node = There /\ sh.rows = <<>> /\ sh.base = 0
        /\ sh.op \in Ops /\ sh.arg \in SetNames /\ sh.val \in SetValues
    BY <1>0 DEF SendSet, CommandOK, AtStart, Args
  <1>3. Tickets'
    BY <1>0, <1>2 DEF SendSet, Tickets
  <1>4. sh' = [sh EXCEPT !.phase = "set"]
    BY DEF SendSet
  <1>5. ShTyped'
    BY <1>0, <1>4 DEF ShTyped, Phases
  <1>6. /\ sh'.phase = "set" /\ sh'.rows = sh.rows /\ sh'.op = sh.op /\ sh'.kind = sh.kind /\ sh'.node = sh.node
        /\ sh'.arg = sh.arg /\ sh'.val = sh.val /\ sh'.names = sh.names /\ sh'.base = sh.base
    BY <1>0, <1>4 DEF ShTyped
  <1>7. Args'
    BY <1>0, <1>2, <1>6 DEF Args
  <1>8. AtStart' /\ AtRow' /\ AtVisit' /\ AtWindow'
    BY <1>2, <1>6 DEF AtStart, AtRow, AtVisit, AtWindow
  <1> QED BY <1>1, <1>3, <1>5, <1>7, <1>8 DEF ShellOK, CommandOK

----------------------------------------------------------------------------
(* Every step of the nodes keeps the invariant. *)

LEMMA NodeSamplesKeeps ==
    ASSUME ShellOK, NodeSamples
    PROVE  ShellOK'
  <1>0. NodeOK /\ CommandOK /\ Tickets /\ Exchange
    BY DEF ShellOK, CommandOK
  <1> DEFINE p == req[Len(reply) + 1]
             v == cells'[There][p]
  <1>1. Tickets'
    BY <1>0 DEF NodeSamples, Tickets
  <1>2. /\ req \in Seq(Params) /\ reply \in Seq(Values) /\ Len(reply) < Len(req) /\ Len(req) <= WINDOW
        /\ Read(There, p) /\ reply' = Append(reply, v) /\ req' = req /\ sh' = sh
    BY <1>0 DEF NodeSamples, Exchange
  <1>3. p \in Params
    BY <1>2
  <1> HIDE DEF p
  <1>4. NodeOK' /\ v \in Values
    BY <1>0, <1>2, <1>3, ReadKeepsNode DEF Nodes
  <1> HIDE DEF v
  <1>5. reply' \in Seq(Values) /\ Len(reply') = Len(reply) + 1
    BY <1>2, <1>4
  <1>6. Len(reply') <= Len(req)
    <2>1. Len(reply) \in Nat /\ Len(req) \in Nat
      BY <1>2
    <2> QED BY <1>2, <1>5, <2>1
  <1>7. Exchange'
    BY <1>2, <1>5, <1>6 DEF Exchange
  <1>8. CommandOK'
    BY <1>0, <1>2, <1>7 DEF CommandOK, ShTyped, Args, AtStart, AtRow, AtVisit, AtWindow
  <1> QED BY <1>1, <1>4, <1>8 DEF ShellOK

\* The shell does not notice what happens elsewhere.
LEMMA CommandUnmoved ==
    ASSUME CommandOK, UNCHANGED <<sh, req, reply>>
    PROVE  CommandOK'
  BY DEF CommandOK, ShTyped, Args, AtStart, AtRow, AtVisit, AtWindow, Exchange

LEMMA NodeAppliesKeeps ==
    ASSUME ShellOK, NEW w \in air, NodeApplies(w)
    PROVE  ShellOK'
  <1>0. NodeOK /\ CommandOK /\ Tickets
    BY DEF ShellOK
  <1>1. w.op \in Ops /\ w.name \in SetNames /\ w.val \in SetValues
    BY <1>0 DEF Tickets
  <1>2. NodeOK'
    <2>1. w.name \in Params /\ w.val \in Nat /\ There \in Nodes
      BY <1>1, ShellAssumption DEF Nodes
    <2>2. Write(There, w.name, w.val)
      BY DEF NodeApplies
    <2> QED BY <1>0, <2>1, <2>2, WriteKeepsNode
  <1>3. Tickets'
    BY <1>0, <1>1 DEF NodeApplies, Tickets
  <1>4. CommandOK'
    BY <1>0, CommandUnmoved DEF NodeApplies
  <1> QED BY <1>2, <1>3, <1>4 DEF ShellOK

LEMMA NodeRefusesKeeps ==
    ASSUME ShellOK, NEW w \in air, NodeRefuses(w)
    PROVE  ShellOK'
  <1>0. NodeOK /\ CommandOK /\ Tickets
    BY DEF ShellOK
  <1>1. NodeOK'
    BY <1>0 DEF NodeRefuses, NodeOK, node
  <1>2. Tickets'
    BY <1>0 DEF NodeRefuses, Tickets
  <1>3. CommandOK'
    BY <1>0, CommandUnmoved DEF NodeRefuses
  <1> QED BY <1>1, <1>2, <1>3 DEF ShellOK

LEMMA OtherWritesKeeps ==
    ASSUME ShellOK, OtherWrites
    PROVE  ShellOK'
  <1>0. NodeOK /\ CommandOK /\ Tickets
    BY DEF ShellOK
  <1>1. PICK p \in SetNames, v \in SetValues : Write(Here, p, v)
    BY DEF OtherWrites
  <1>2. NodeOK'
    <2>1. p \in Params /\ v \in Nat /\ Here \in Nodes
      BY ShellAssumption DEF Nodes
    <2> QED BY <1>0, <1>1, <2>1, WriteKeepsNode
  <1>3. Tickets'
    BY <1>0, ShellAssumption DEF OtherWrites, Tickets, link
  <1>4. CommandOK'
    BY <1>0, CommandUnmoved DEF OtherWrites, link
  <1> QED BY <1>2, <1>3, <1>4 DEF ShellOK

\* The sources of a node: each of the things that happen to it.
SourceEvents(n) ==
    \/ Traffic(n) \/ NoConnection(n) \/ Fed(n) \/ DriverSilent(n)
    \/ Filesystem(n) \/ cmd_csp_debug(n) \/ cmd_csp_rdp(n) \/ cmd_csp_counters(n)

LEMMA SourceEventsAre ==
    ASSUME NodeOK, NEW n \in Nodes, SourceEvents(n)
    PROVE  \E s \in Sources : SourceChanges(n, s)
  <1>1. src[n] \in Sources
    BY DEF NodeOK
  <1>2. PICK s : s = src[n]
    OBVIOUS
  <1>3. s \in Sources
    BY <1>1, <1>2
  <1>4. CASE Traffic(n)
    <2>1. s.ifs \in Seq([TotalNames -> Nat])
      BY <1>3 DEF Sources
    <2> DEFINE one == [s.ifs[1] EXCEPT !.tx_packets = (s.ifs[1].tx_packets + 1) % UINT32]
               new == [s.ifs EXCEPT ![1] = one]
    <2>2. \A f \in [TotalNames -> Nat] : [f EXCEPT !.tx_packets = (f.tx_packets + 1) % UINT32] \in [TotalNames -> Nat]
      BY ShellAssumption DEF TotalNames
    <2>3. ASSUME 1 \in DOMAIN s.ifs PROVE one \in [TotalNames -> Nat]
      <3>1. \A S : \A x \in Seq(S) : 1 \in DOMAIN x => x[1] \in S
        OBVIOUS
      <3>2. s.ifs[1] \in [TotalNames -> Nat]
        BY <2>1, <2>3, <3>1, Zenon
      <3> QED BY <2>2, <3>2
    <2>4. SourceChanges(n, [s EXCEPT !.ifs = new])
      BY <1>2, <1>4 DEF Traffic
    <2> HIDE DEF one
    <2>5. new \in Seq([TotalNames -> Nat])
      <3>1. \A S : \A x \in Seq(S) : \A y : (1 \in DOMAIN x => y \in S) => [x EXCEPT ![1] = y] \in Seq(S)
        <4> SUFFICES ASSUME NEW S, NEW x \in Seq(S), NEW y, 1 \in DOMAIN x => y \in S
                     PROVE  [x EXCEPT ![1] = y] \in Seq(S)
          OBVIOUS
        <4>1. PICK k \in Nat : x \in [1..k -> S]
          OBVIOUS
        <4>2. [x EXCEPT ![1] = y] \in [1..k -> S]
          BY <4>1
        <4>3. \A z \in [1..k -> S] : z \in Seq(S)
          OBVIOUS
        <4> QED BY <4>2, <4>3
      <3> QED BY <2>1, <2>3, <3>1
    <2> HIDE DEF new
    <2>6. [s EXCEPT !.ifs = new] \in Sources
      BY <1>3, <2>5 DEF Sources
    <2> QED BY <2>4, <2>6
  <1>5. CASE NoConnection(n)
    <2> DEFINE new == [s.errs EXCEPT !.conn_out = (s.errs.conn_out + 1) % 256]
    <2>1. s.errs \in [ErrorNames -> Nat]
      BY <1>3 DEF Sources
    <2>2. new \in [ErrorNames -> Nat]
      BY <2>1 DEF ErrorNames
    <2>3. SourceChanges(n, [s EXCEPT !.errs = new])
      BY <1>2, <1>5 DEF NoConnection
    <2> HIDE DEF new
    <2>4. [s EXCEPT !.errs = new] \in Sources
      BY <1>3, <2>2 DEF Sources
    <2> QED BY <2>3, <2>4
  <1>6. CASE Fed(n)
    <2> DEFINE once == [s EXCEPT !.wd = [s.wd EXCEPT !.feeds = s.wd.feeds + 1]]
    <2>1. s.wd \in [WatchNames -> Nat]
      BY <1>3 DEF Sources
    <2>2. s.wd.feeds + 1 \in Nat
      BY <2>1 DEF WatchNames
    <2>3. [s.wd EXCEPT !.feeds = s.wd.feeds + 1] \in [WatchNames -> Nat]
      BY <2>1, <2>2
    <2>4. once \in Sources
      <3>1. \A w \in [WatchNames -> Nat] : [s EXCEPT !.wd = w] \in Sources
        BY <1>3 DEF Sources
      <3> QED BY <2>3, <3>1
    <2>5. SourceChanges(n, [once EXCEPT !.wd = [once.wd EXCEPT !.since_feed_ms = 1]])
      BY <1>2, <1>6 DEF Fed
    <2> HIDE DEF once
    <2>6. once.wd \in [WatchNames -> Nat]
      BY <2>4 DEF Sources
    <2>7. [once.wd EXCEPT !.since_feed_ms = 1] \in [WatchNames -> Nat]
      BY <2>6
    <2>8. \A w \in [WatchNames -> Nat] : [once EXCEPT !.wd = w] \in Sources
      BY <2>4 DEF Sources
    <2> QED BY <2>5, <2>7, <2>8
  <1>7. CASE DriverSilent(n)
    <2>1. [s EXCEPT !.wdOk = ~@] \in Sources
      BY <1>3 DEF Sources
    <2> QED BY <1>2, <1>7, <2>1 DEF DriverSilent
  <1>8. CASE Filesystem(n)
    <2>1. \A fs \in FsStates : [s EXCEPT !.fs = fs] \in Sources
      BY <1>3 DEF Sources
    <2> QED BY <1>2, <1>8, <2>1 DEF Filesystem
  <1>9. CASE cmd_csp_debug(n)
    <2>1. \A b \in BOOLEAN : [s EXCEPT !.packet = b] \in Sources
      BY <1>3 DEF Sources
    <2> QED BY <1>2, <1>9, <2>1 DEF cmd_csp_debug
  <1>10. CASE cmd_csp_rdp(n)
    <2>1. \A l \in Nat : [s EXCEPT !.rdp = l] \in Sources
      BY <1>3 DEF Sources
    <2>2. \A l \in 0..2 : l \in Nat
      OBVIOUS
    <2> QED BY <1>2, <1>10, <2>1, <2>2 DEF cmd_csp_rdp
  <1>11. CASE cmd_csp_counters(n)
    <2>1. [s EXCEPT !.errs = [e \in ErrorNames |-> 0]] \in Sources
      BY <1>3 DEF Sources
    <2> QED BY <1>2, <1>11, <2>1 DEF cmd_csp_counters
  <1> QED BY <1>4, <1>5, <1>6, <1>7, <1>8, <1>9, <1>10, <1>11 DEF SourceEvents

LEMMA SourceChangesKeeps ==
    ASSUME ShellOK, NEW n \in Nodes, NEW s \in Sources, SourceChanges(n, s)
    PROVE  ShellOK'
  <1>0. NodeOK /\ CommandOK /\ Tickets
    BY DEF ShellOK
  <1>1. NodeOK'
    BY <1>0 DEF SourceChanges, NodeOK
  <1>2. Tickets'
    BY <1>0, ShellAssumption DEF SourceChanges, Tickets, link
  <1>3. CommandOK'
    BY <1>0, CommandUnmoved DEF SourceChanges, link
  <1> QED BY <1>1, <1>2, <1>3 DEF ShellOK

----------------------------------------------------------------------------

LEMMA ShellInit ==
    ASSUME Init
    PROVE  ShellOK
  <1>1. src \in [Nodes -> Sources]
    <2> SUFFICES ASSUME NEW n \in Nodes PROVE src[n] \in Sources
      BY DEF Init
    <2>1. n \in Nat
      BY DEF Nodes, Here, There
    <2>2. UINT32 - 1 \in Nat
      BY ShellAssumption
    <2> DEFINE ifs == <<[t \in TotalNames |-> 0], [t \in TotalNames |-> UINT32 - 1]>>
               wd == [w \in Range(WatchdogTable) |-> IF w \in {"feeds", "since_feed_ms"} THEN 0 ELSE 1]
    <2>3. ifs \in Seq([TotalNames -> Nat])
      BY <2>2
    <2>4. wd \in [WatchNames -> Nat]
      BY TableNames
    <2>5. src[n] = [ifs |-> ifs, errs |-> [e \in ErrorNames |-> 1], rdp |-> 0, packet |-> FALSE,
                    router |-> TRUE, wdOk |-> TRUE, wd |-> wd,
                    fs |-> FsStart, uptime |-> 0, buffers |-> 1, can |-> 1,
                    id |-> [i \in IdentityNames |-> n]]
      BY DEF Init
    <2> HIDE DEF ifs, wd
    <2> QED BY <2>1, <2>3, <2>4, <2>5, FsAssumption DEF Sources
  <1>2. /\ cells = [n \in Nodes |-> [p \in Params |-> 0]] /\ told = [n \in Nodes |-> <<>>]
    BY DEF Init
  <1>3. cells \in [Nodes -> [Params -> Values]] /\ told \in [Nodes -> {<<>>} \cup [WatchNames -> Nat]]
    BY <1>2 DEF Values
  <1>4. \A n \in Nodes : Fit(cells[n], told[n]) /\ \A q \in SwitchNames : cells[n][q] = 0
    <2>1. /\ WatchNames \subseteq Params /\ StorageNames \subseteq Params /\ FsNames \subseteq Params
          /\ SwitchNames \subseteq Params
      BY ParamNames
    <2>2. \A n \in Nodes : \A q \in WatchNames \cup StorageNames \cup FsNames \cup SwitchNames : cells[n][q] = 0
      BY <1>2, <2>1
    <2>3. \A n \in Nodes : Fit(cells[n], told[n])
      <3>1. /\ "mounted" \in StorageNames /\ "total_kb" \in StorageNames /\ "free_kb" \in StorageNames
            /\ "used_pct" \in StorageNames
        BY DEF StorageNames
      <3>2. "fs_mounted" \in FsNames /\ "fs_total_kb" \in FsNames /\ "fs_free_kb" \in FsNames
        BY DEF FsNames
      <3>3. "device_bound" \in WatchNames
        BY DEF WatchNames
      <3>4. 0 \in 0..100 /\ 0 # 1
        OBVIOUS
      <3> QED BY <2>2, <3>1, <3>2, <3>3, <3>4 DEF Fit
    <2> QED BY <2>2, <2>3
  <1>5. NodeOK
    BY <1>1, <1>3, <1>4 DEF NodeOK
  <1>6. /\ sh = [op |-> 0, kind |-> "none", node |-> Here, arg |-> 0, val |-> 0, phase |-> "done",
                 names |-> <<>>, base |-> 0, rows |-> <<>>, result |-> "none"]
        /\ req = <<>> /\ reply = <<>>
    BY DEF Init
  <1>7. ShTyped
    BY <1>6, EmptyTyped, ShellAssumption DEF ShTyped, Phases, Nodes
  <1>8. Args /\ AtStart /\ AtRow /\ AtVisit /\ AtWindow
    BY <1>6 DEF Args, AtStart, AtRow, AtVisit, AtWindow, Here, There
  <1>9. Exchange
    BY <1>6, EmptyTyped, ShellAssumption DEF Exchange
  <1>10. Tickets
    BY ShellAssumption DEF Init, Tickets
  <1> QED BY <1>5, <1>7, <1>8, <1>9, <1>10 DEF ShellOK, CommandOK

LEMMA ShellNext ==
    ASSUME ShellOK, [Next]_vars
    PROVE  ShellOK'
  <1>1. CASE Typed
    BY <1>1, TypedKeeps
  <1>2. CASE ShellStep
    BY <1>2, LocalRowKeeps, LocalSetKeeps, LocalSetRefusedKeeps, LocalTablesKeeps, CollectNamesKeeps,
       ListTablesKeeps, VisitTableKeeps, VisitAllKeeps, PrintTablesKeeps, WalkFailsKeeps, PrintWindowKeeps,
       WindowFailsKeeps, GetStepsKeep, SendSetKeeps DEF ShellStep
  <1>3. CASE Environment
    <2>1. CASE NodeSamples \/ OtherWrites
      BY <2>1, NodeSamplesKeeps, OtherWritesKeeps
    <2>2. CASE \E w \in air : NodeApplies(w) \/ NodeRefuses(w)
      BY <2>2, NodeAppliesKeeps, NodeRefusesKeeps
    <2>3. CASE \E n \in Nodes : SourceEvents(n)
      <3>1. PICK n \in Nodes : SourceEvents(n)
        BY <2>3
      <3>2. PICK s \in Sources : SourceChanges(n, s)
        BY <3>1, SourceEventsAre DEF ShellOK
      <3> QED BY <3>2, SourceChangesKeeps
    <2> QED BY <1>3, <2>1, <2>2, <2>3 DEF Environment, SourceEvents
  <1>4. CASE UNCHANGED vars
    BY <1>4, CommandUnmoved DEF vars, node, link, ShellOK, NodeOK, Tickets
  <1> QED BY <1>1, <1>2, <1>3, <1>4 DEF Next

\* What every state of the parameter shell and of the nodes is like.
THEOREM ShellIsOK == Spec => []ShellOK
  <1>1. Init => ShellOK
    BY ShellInit
  <1>2. ShellOK /\ [Next]_vars => ShellOK'
    BY ShellNext
  <1> QED BY <1>1, <1>2, PTL DEF Spec

\* Type correctness: the names that were collected always fit the arrays of
\* struct param_list_context, and an exchange never asks for more than a window.
THEOREM TypeCorrect == Spec => []TypeOK
  <1>1. ShellOK => TypeOK
    <2> SUFFICES ASSUME ShellOK PROVE TypeOK
      OBVIOUS
    <2>1. ShTyped /\ Args /\ Exchange /\ Tickets
      BY DEF ShellOK, CommandOK
    <2>2. /\ sh.op \in 0..MaxOps /\ sh.node \in Nodes /\ sh.phase \in Phases /\ sh.base \in 0..25
      BY <2>1 DEF ShTyped
    <2>3. Len(AllNames) = 25
      BY AllNamesAre
    <2> QED BY <2>1, <2>2, <2>3 DEF TypeOK, Args, Exchange, Tickets, Phases
  <1> QED BY <1>1, ShellIsOK, PTL

\* Although every value is sampled by itself, the cells of a table always fit
\* together: of a filesystem that is not mounted, in percentages, and in the
\* watchdog values, which are from one answer of the driver.
THEOREM CellsAlwaysFit == Spec => []CellsFitTogether
  <1>1. ShellOK => CellsFitTogether
    BY FitIsCellsFitTogether DEF ShellOK, NodeOK
  <1> QED BY <1>1, ShellIsOK, PTL

----------------------------------------------------------------------------
(* What is printed was true. *)

\* v is no value of p, or it was true of p in one of the sources S, or the watchdog
\* driver did not answer in one of them.
Good(p, v, S) ==
    \/ v = Dash
    \/ \E s \in S : v = Truth(p, s)
    \/ p \in Range(WatchdogTable) /\ \E s \in S : ~s.wdOk

\* The commands whose rows are values that were read.
Reads == sh.kind \in {"get", "table", "listall"} \/ (sh.kind = "set" /\ sh.node = Here)
GoodRows(rows, S) == \A i \in 1..Len(rows) : Good(rows[i].name, rows[i].value, S)

\* The source of the node that is asked is always among those that count, and what
\* it answered so far is as good as what is printed.
TruthOK ==
    /\ sh.kind # "none" => src[sh.node] \in seen
    /\ Reads => GoodRows(sh.rows, seen)
    /\ sh.phase \in {"get", "window"} => \A i \in 1..Len(reply) : Good(req[i], reply[i], seen)

LEMMA TruthIsRowsWereTrue ==
    ASSUME ShTyped, TruthOK
    PROVE  RowsWereTrue
  <1>1. sh.rows \in Seq(Row)
    BY DEF ShTyped
  <1>2. DOMAIN sh.rows = 1..Len(sh.rows)
    BY <1>1
  <1> QED BY <1>2 DEF RowsWereTrue, TruthOK, Reads, GoodRows, Good

LEMMA GoodGrows ==
    ASSUME NEW p, NEW v, NEW S, NEW T, S \subseteq T, Good(p, v, S)
    PROVE  Good(p, v, T)
  BY DEF Good

\* A read hands out what is true now.
LEMMA ReadIsGood ==
    ASSUME NodeOK, NEW n \in Nodes, NEW p \in Params, Read(n, p), NEW S, src[n] \in S
    PROVE  Good(p, cells'[n][p], S)
  <1>1. src[n] \in Sources /\ DOMAIN cells[n] = Params /\ \A q \in SwitchNames : cells[n][q] = 0
    BY DEF NodeOK
  <1>2. cells'[n] = Sampled(p, src[n], cells[n])
    BY ReadKeepsNode
  <1>3. Sampled(p, src[n], cells[n])[p] = Truth(p, src[n]) \/ (p \in WatchNames /\ ~src[n].wdOk)
    BY <1>1, SampledIsTrue
  <1> QED BY <1>2, <1>3, TableNames DEF Good

\* While the command stays where it is, more may only become known.
LEMMA TruthGrows ==
    ASSUME TruthOK, seen \subseteq seen', UNCHANGED <<sh, req, reply>>,
           sh.kind # "none" => src'[sh.node] \in seen'
    PROVE  TruthOK'
  <1>1. Reads' => GoodRows(sh'.rows, seen')
    BY GoodGrows DEF TruthOK, Reads, GoodRows
  <1>2. sh'.phase \in {"get", "window"} => \A i \in 1..Len(reply') : Good(req'[i], reply'[i], seen')
    BY GoodGrows DEF TruthOK
  <1> QED BY <1>1, <1>2 DEF TruthOK

\* A command moves on or ends, with these rows and without an answer that is open.
LEMMA TruthMoves ==
    ASSUME TruthOK, src' = src, seen' = seen, sh'.kind = sh.kind, sh'.node = sh.node,
           sh'.phase \in {"get", "window"} => Len(reply') = 0,
           Reads => GoodRows(sh'.rows, seen)
    PROVE  TruthOK'
  BY DEF TruthOK, Reads

LEMMA EmptyGood == \A S : GoodRows(<<>>, S)
  BY DEF GoodRows

LEMMA DashesGood ==
    ASSUME NEW table \in Seq(Params), NEW S
    PROVE  GoodRows(Column(table), S)
  <1>1. /\ Len(Column(table)) = Len(table)
        /\ \A i \in 1..Len(table) : Column(table)[i] = [name |-> table[i], value |-> Dash]
    BY ColumnIs
  <1>2. ASSUME NEW i \in 1..Len(table) PROVE Column(table)[i].value = Dash
    <2>1. Column(table)[i] = [name |-> table[i], value |-> Dash]
      BY <1>1
    <2> QED BY <2>1
  <1> QED BY <1>1, <1>2 DEF GoodRows, Good

LEMMA TruthTyped ==
    ASSUME ShellOK, Typed
    PROVE  TruthOK'
  <1>0. CommandOK
    BY DEF ShellOK
  <1>1. PICK n \in Nodes : \E kind, arg, val, phase, names :
            Begin(kind, n, arg, val, phase, names) /\ reply' = <<>>
    BY DEF Typed, TypeGet, TypeSet, TypeTable, TypeListall, TypeWhichtables, Ask, NoRequest
  <1>2. sh'.node = n /\ sh'.rows = <<>>
    BY <1>0, <1>1, BeginKeeps
  <1>3. seen' = {src[n]} /\ src' = src
    BY <1>1 DEF Begin, node
  <1>4. Len(<<>>) = 0
    OBVIOUS
  <1> QED BY <1>1, <1>2, <1>3, <1>4, EmptyGood DEF TruthOK

LEMMA TruthLocalRow ==
    ASSUME ShellOK, TruthOK, LocalRow
    PROVE  TruthOK'
  <1>0. NodeOK /\ CommandOK /\ ShTyped /\ Exchange'
    BY DEF ShellOK, CommandOK, LocalRow, link, Exchange
  <1> DEFINE p == sh.names[Len(sh.rows) + 1]
             row == [name |-> p, value |-> cells'[Here][p]]
             rows == Append(sh.rows, row)
  <1>1. /\ sh.phase = "row" /\ sh.node = Here /\ sh.kind \in {"get", "set", "table", "listall"}
        /\ Len(sh.rows) < Len(sh.names)
    BY <1>0 DEF LocalRow, CommandOK, AtRow
  <1>2. sh.rows \in Seq(Row) /\ sh.names \in Seq(Params)
    BY <1>0 DEF ShTyped
  <1>3. p \in Params
    BY <1>1, <1>2
  <1>4. Read(Here, p) /\ IF Len(rows) = Len(sh.names) THEN End(rows, "ok") ELSE sh' = [sh EXCEPT !.rows = rows]
    BY DEF LocalRow
  <1> HIDE DEF p
  <1>5. src' = src /\ seen' = seen /\ cells'[Here][p] \in Values
    BY <1>0, <1>3, <1>4, ReadKeepsNode DEF LocalRow, Nodes
  <1>6. Good(p, cells'[Here][p], seen)
    <2>1. src[Here] \in seen
      BY <1>1 DEF TruthOK
    <2> QED BY <1>0, <1>3, <1>4, <2>1, ReadIsGood DEF Nodes
  <1>7. row \in Row /\ row.name = p /\ row.value = cells'[Here][p]
    BY <1>3, <1>5 DEF Row
  <1> HIDE DEF row
  <1>8. Len(rows) = Len(sh.rows) + 1 /\ rows[Len(sh.rows) + 1] = row /\ \A i \in 1..Len(sh.rows) : rows[i] = sh.rows[i]
    BY <1>2, <1>7
  <1> HIDE DEF rows
  <1>9. GoodRows(sh.rows, seen)
    BY <1>1 DEF TruthOK, Reads
  <1>10. GoodRows(rows, seen)
    <2>1. Len(sh.rows) \in Nat
      BY <1>2
    <2>2. \A i \in 1..Len(rows) : i \in 1..Len(sh.rows) \/ i = Len(sh.rows) + 1
      BY <1>8, <2>1
    <2> QED BY <1>6, <1>7, <1>8, <1>9, <2>2 DEF GoodRows
  <1>11. sh'.rows = rows /\ sh'.kind = sh.kind /\ sh'.node = sh.node /\ sh'.phase \in {"row", "done"}
    BY <1>0, <1>1, <1>4 DEF End, ShTyped
  <1> QED BY <1>5, <1>10, <1>11, TruthMoves

\* Rows that were printed before, or that show no value, or no rows at all.
LEMMA TruthPlainSteps ==
    ASSUME ShellOK, TruthOK,
           \/ LocalSetRefused \/ LocalTables \/ CollectNames \/ ListTables \/ VisitTable \/ VisitAll \/ PrintTables
           \/ WalkFails \/ GetFails \/ SendSet \/ TextRefused \/ SetAnswered \/ SetFails
    PROVE  TruthOK'
  <1>0. NodeOK /\ CommandOK /\ ShTyped
    BY DEF ShellOK, CommandOK
  <1>1. src' = src /\ seen' = seen
    BY DEF LocalSetRefused, LocalTables, CollectNames, ListTables, VisitTable, VisitAll, PrintTables, WalkFails,
           GetFails, SendSet, TextRefused, SetAnswered, SetFails, Read, node, Walk
  <1>2. Len(<<>>) = 0
    OBVIOUS
  <1>3. CASE LocalSetRefused \/ GetFails \/ TextRefused \/ SetFails
    <2>1. sh'.rows = <<>> /\ sh'.kind = sh.kind /\ sh'.node = sh.node /\ sh'.phase = "done"
      BY <1>0, <1>3 DEF LocalSetRefused, GetFails, TextRefused, SetFails, End, ShTyped
    <2> QED BY <1>1, <2>1, EmptyGood, TruthMoves
  <1>4. CASE LocalTables \/ PrintTables \/ SetAnswered
    <2>1. sh'.kind = sh.kind /\ sh'.node = sh.node /\ sh'.phase = "done"
      BY <1>0, <1>4 DEF LocalTables, PrintTables, SetAnswered, End, ShTyped
    <2>2. ~Reads
      BY <1>0, <1>4 DEF LocalTables, PrintTables, SetAnswered, CommandOK, AtStart, Reads, Here, There
    <2> QED BY <1>1, <2>1, <2>2, TruthMoves
  <1>5. CASE CollectNames \/ ListTables \/ WalkFails \/ SendSet
    <2>1. /\ sh'.rows = sh.rows /\ sh'.kind = sh.kind /\ sh'.node = sh.node
          /\ sh'.phase \in {"get", "window"} => reply' = <<>>
      BY <1>0, <1>5 DEF CollectNames, ListTables, WalkFails, SendSet, End, ShTyped, ReadWindow
    <2> QED BY <1>1, <1>2, <2>1, TruthMoves DEF TruthOK
  <1>6. CASE VisitAll
    <2>1. sh'.rows = Column(AllNames) /\ sh'.kind = sh.kind /\ sh'.node = sh.node /\ sh'.phase = "done"
      BY <1>0, <1>6 DEF VisitAll, End, ShTyped
    <2>2. GoodRows(Column(AllNames), seen)
      BY AllNamesAre, DashesGood, Zenon
    <2> QED BY <1>1, <2>1, <2>2, TruthMoves
  <1>7. CASE VisitTable
    <2>1. sh.base \in 0..4 /\ sh.rows = Column(First(sh.base)) /\ sh.phase = "visit"
      BY <1>0, <1>7 DEF CommandOK, AtVisit, VisitTable, Walk
    <2> DEFINE rows == sh.rows \o Column(Definitions[sh.base + 1])
    <2>2. sh'.rows = rows /\ sh'.kind = sh.kind /\ sh'.node = sh.node /\ sh'.phase \in {"done", "visit"}
      BY <1>0, <1>7, <2>1 DEF VisitTable, End, ShTyped
    <2>3. /\ First(sh.base) \in Seq(Params) /\ First(sh.base + 1) \in Seq(Params)
          /\ First(sh.base + 1) = First(sh.base) \o Definitions[sh.base + 1]
          /\ Definitions[sh.base + 1] \in Seq(Params)
      BY <2>1, FirstIs
    <2>4. Column(First(sh.base) \o Definitions[sh.base + 1]) = rows
      BY <2>1, <2>3, ColumnConcat
    <2>5. GoodRows(Column(First(sh.base + 1)), seen)
      BY <2>3, DashesGood
    <2> HIDE DEF rows
    <2> QED BY <1>1, <2>2, <2>3, <2>4, <2>5, TruthMoves
  <1> QED BY <1>3, <1>4, <1>5, <1>6, <1>7

LEMMA TruthNextWindow ==
    ASSUME ShellOK, TruthOK, sh.phase = "window", src' = src, seen' = seen,
           NEW rows, rows \in Seq(Row), Len(rows) = sh.base + Len(req), Follow(rows, sh.names),
           \A i \in 1..sh.base : rows[i] = sh.rows[i],
           \A i \in 1..Len(req) : Good(rows[sh.base + i].name, rows[sh.base + i].value, seen),
           NextWindow(rows)
    PROVE  TruthOK'
  <1>0. CommandOK /\ ShTyped /\ Exchange
    BY DEF ShellOK, CommandOK
  <1>1. /\ sh'.rows = rows /\ sh'.kind = sh.kind /\ sh'.node = sh.node
        /\ \/ sh'.phase = "window" /\ reply' = <<>>
           \/ sh'.phase = "done"
    BY <1>0, NextWindowKeeps
  <1>2. sh.kind = "table"
    BY <1>0 DEF CommandOK, AtWindow
  <1>3. GoodRows(sh.rows, seen) /\ Len(sh.rows) = sh.base /\ sh.base \in Nat /\ Len(req) \in Nat
    BY <1>0, <1>2 DEF TruthOK, Reads, CommandOK, AtWindow, ShTyped, Exchange
  <1>4. GoodRows(rows, seen)
    <2> SUFFICES ASSUME NEW i \in 1..Len(rows) PROVE Good(rows[i].name, rows[i].value, seen)
      BY DEF GoodRows
    <2>1. CASE i <= sh.base
      <3>1. i \in 1..sh.base
        BY <1>3, <2>1
      <3> QED BY <1>3, <3>1, Zenon DEF GoodRows
    <2>2. CASE i > sh.base
      <3>1. PICK j \in 1..Len(req) : i = sh.base + j
        <4>1. i - sh.base \in 1..Len(req) /\ i = sh.base + (i - sh.base)
          BY <1>3, <2>2
        <4> QED BY <4>1
      <3> QED BY <3>1
    <2>3. i <= sh.base \/ i > sh.base
      BY <1>3
    <2> QED BY <2>1, <2>2, <2>3
  <1>5. Len(<<>>) = 0
    OBVIOUS
  <1> QED BY <1>1, <1>4, <1>5, TruthMoves

LEMMA TruthPrintWindow ==
    ASSUME ShellOK, TruthOK, PrintWindow
    PROVE  TruthOK'
  <1>0. CommandOK /\ Exchange
    BY DEF ShellOK, CommandOK
  <1>1. /\ src' = src /\ seen' = seen /\ sh.phase = "window"
        /\ NextWindow(sh.rows \o WindowRows(TRUE, reply)) /\ reply \in Seq(Values) /\ Len(reply) = Len(req)
    BY <1>0 DEF PrintWindow, node, Complete, Exchange
  <1>2. PICK rows : rows = sh.rows \o WindowRows(TRUE, reply)
    OBVIOUS
  <1>4. /\ rows \in Seq(Row) /\ Len(rows) = sh.base + Len(req)
        /\ Follow(rows, sh.names)
        /\ \A i \in 1..sh.base : rows[i] = sh.rows[i]
        /\ \A i \in 1..Len(req) : rows[sh.base + i].name = req[i] /\ rows[sh.base + i].value = reply[i]
    BY <1>0, <1>1, <1>2, PrintedRowsAre
  <1>5. \A i \in 1..Len(req) : Good(rows[sh.base + i].name, rows[sh.base + i].value, seen)
    BY <1>1, <1>4 DEF TruthOK
  <1>6. NextWindow(rows)
    BY <1>1, <1>2
  <1> QED BY <1>1, <1>4, <1>5, <1>6, TruthNextWindow

LEMMA TruthWindowFails ==
    ASSUME ShellOK, TruthOK, WindowFails
    PROVE  TruthOK'
  <1>0. CommandOK
    BY DEF ShellOK
  <1>1. /\ src' = src /\ seen' = seen /\ sh.phase = "window"
        /\ NextWindow(sh.rows \o WindowRows(FALSE, window))
    BY DEF WindowFails, node
  <1>2. PICK rows : rows = sh.rows \o WindowRows(FALSE, window)
    OBVIOUS
  <1>4. /\ rows \in Seq(Row) /\ Len(rows) = sh.base + Len(req)
        /\ Follow(rows, sh.names)
        /\ \A i \in 1..sh.base : rows[i] = sh.rows[i]
        /\ \A i \in 1..Len(req) : rows[sh.base + i].name = req[i] /\ rows[sh.base + i].value = Dash
    BY <1>0, <1>1, <1>2, DashedRowsAre
  <1>5. \A i \in 1..Len(req) : Good(rows[sh.base + i].name, rows[sh.base + i].value, seen)
    BY <1>4 DEF Good
  <1>6. NextWindow(rows)
    BY <1>1, <1>2
  <1> QED BY <1>1, <1>4, <1>5, <1>6, TruthNextWindow

LEMMA TruthGetAnswered ==
    ASSUME ShellOK, TruthOK, GetAnswered
    PROVE  TruthOK'
  <1>0. CommandOK /\ ShTyped /\ Exchange
    BY DEF ShellOK, CommandOK
  <1>1. /\ src' = src /\ seen' = seen /\ sh.phase = "get" /\ req = <<sh.arg>> /\ Len(reply) = Len(req)
        /\ End(<<[name |-> sh.arg, value |-> reply[1]]>>, "ok")
    BY <1>0 DEF GetAnswered, Complete, node, CommandOK, AtStart
  <1> DEFINE row == [name |-> sh.arg, value |-> reply[1]]
  <1>2. Good(row.name, row.value, seen)
    <2>1. 1 \in 1..Len(reply) /\ req[1] = sh.arg
      BY <1>1
    <2> QED BY <1>1, <2>1 DEF TruthOK
  <1>3. sh'.rows = <<row>> /\ sh'.kind = sh.kind /\ sh'.node = sh.node /\ sh'.phase = "done"
    BY <1>0, <1>1 DEF End, ShTyped
  <1> HIDE DEF row
  <1>4. GoodRows(<<row>>, seen)
    <2>1. Len(<<row>>) = 1 /\ <<row>>[1] = row /\ \A i \in 1..1 : i = 1
      OBVIOUS
    <2> QED BY <1>2, <2>1, Zenon DEF GoodRows
  <1> QED BY <1>1, <1>3, <1>4, TruthMoves

LEMMA TruthNodeSamples ==
    ASSUME ShellOK, TruthOK, NodeSamples
    PROVE  TruthOK'
  <1>0. NodeOK /\ CommandOK /\ Args /\ Exchange
    BY DEF ShellOK, CommandOK
  <1> DEFINE p == req[Len(reply) + 1]
             v == cells'[There][p]
  <1>1. /\ req \in Seq(Params) /\ reply \in Seq(Values) /\ Len(reply) < Len(req)
        /\ Read(There, p) /\ reply' = Append(reply, v) /\ req' = req /\ sh' = sh /\ seen' = seen
        /\ sh.node = There /\ sh.phase \in {"get", "window"}
    BY <1>0 DEF NodeSamples, Exchange
  <1>2. p \in Params
    BY <1>1
  <1> HIDE DEF p
  <1>3. src' = src /\ v \in Values
    BY <1>0, <1>1, <1>2, ReadKeepsNode DEF Nodes
  <1>4. Good(p, v, seen)
    <2>1. src[There] \in seen
      BY <1>0, <1>1 DEF TruthOK, Args
    <2> QED BY <1>0, <1>1, <1>2, <2>1, ReadIsGood DEF Nodes
  <1> HIDE DEF v
  <1>5. /\ Len(reply') = Len(reply) + 1 /\ reply'[Len(reply) + 1] = v
        /\ \A i \in 1..Len(reply) : reply'[i] = reply[i]
    BY <1>1, <1>3
  <1>6. \A i \in 1..Len(reply') : Good(req[i], reply'[i], seen)
    <2>1. Len(reply) \in Nat
      BY <1>1
    <2>2. \A i \in 1..Len(reply') : i \in 1..Len(reply) \/ i = Len(reply) + 1
      BY <1>5, <2>1
    <2>3. \A i \in 1..Len(reply) : Good(req[i], reply[i], seen)
      BY <1>1 DEF TruthOK
    <2> QED BY <1>4, <1>5, <2>2, <2>3 DEF p
  <1> QED BY <1>1, <1>3, <1>6 DEF TruthOK, Reads

\* Writes, whose node may be the one that is asked.
LEMMA TruthWrites ==
    ASSUME ShellOK, TruthOK, NEW n \in Nodes, NEW p, NEW v, Write(n, p, v)
    PROVE  seen \subseteq seen' /\ (sh.kind # "none" => src'[sh.node] \in seen')
  <1>1. PICK s : src' = [src EXCEPT ![n] = s]
    BY DEF Write
  <1>2. DOMAIN src = Nodes /\ sh.node \in Nodes
    BY DEF ShellOK, NodeOK, CommandOK, ShTyped
  <1>3. seen' = IF n = sh.node THEN seen \cup {src'[n]} ELSE seen
    BY DEF Write
  <1>4. CASE n = sh.node
    BY <1>3, <1>4
  <1>5. CASE n # sh.node
    <2>1. src'[sh.node] = src[sh.node]
      BY <1>1, <1>2, <1>5
    <2> QED BY <1>3, <1>5, <2>1 DEF TruthOK
  <1> QED BY <1>4, <1>5

LEMMA TruthLocalSet ==
    ASSUME ShellOK, TruthOK, LocalSet
    PROVE  TruthOK'
  <1>0. CommandOK /\ ShTyped
    BY DEF ShellOK, CommandOK
  <1>1. Write(Here, sh.arg, sh.val) /\ sh.phase = "local_set" /\ sh.rows = <<>> /\ sh' = [sh EXCEPT !.phase = "row"]
    BY <1>0 DEF LocalSet, CommandOK, AtStart
  <1>2. sh.kind # "none" => src'[sh.node] \in seen'
    BY <1>1, TruthWrites DEF Nodes
  <1>3. sh'.phase = "row" /\ sh'.rows = <<>> /\ sh'.kind = sh.kind /\ sh'.node = sh.node
    BY <1>0, <1>1 DEF ShTyped
  <1> QED BY <1>2, <1>3, EmptyGood DEF TruthOK

LEMMA TruthNext ==
    ASSUME ShellOK, TruthOK, [Next]_vars
    PROVE  TruthOK'
  <1>1. CASE Typed
    BY <1>1, TruthTyped
  <1>2. CASE ShellStep
    BY <1>2, TruthLocalRow, TruthLocalSet, TruthPlainSteps, TruthPrintWindow, TruthWindowFails, TruthGetAnswered
       DEF ShellStep
  <1>3. CASE Environment
    <2>1. CASE NodeSamples
      BY <2>1, TruthNodeSamples
    <2>2. CASE OtherWrites
      <3>1. PICK p \in SetNames, v \in SetValues : Write(Here, p, v)
        BY <2>2 DEF OtherWrites
      <3>2. seen \subseteq seen' /\ (sh.kind # "none" => src'[sh.node] \in seen')
        BY <3>1, TruthWrites DEF Nodes
      <3> QED BY <2>2, <3>2, TruthGrows DEF OtherWrites, link
    <2>3. CASE \E w \in air : NodeApplies(w)
      <3>1. PICK w \in air : NodeApplies(w)
        BY <2>3
      <3>2. Write(There, w.name, w.val) /\ There \in Nodes
        BY <3>1 DEF NodeApplies, Nodes
      <3>3. seen \subseteq seen' /\ (sh.kind # "none" => src'[sh.node] \in seen')
        BY <3>2, TruthWrites
      <3> QED BY <3>1, <3>3, TruthGrows DEF NodeApplies
    <2>4. CASE \E w \in air : NodeRefuses(w)
      BY <2>4, TruthGrows DEF NodeRefuses, node, TruthOK
    <2>5. CASE \E n \in Nodes : SourceEvents(n)
      <3>1. PICK n \in Nodes : SourceEvents(n)
        BY <2>5
      <3>2. PICK s \in Sources : SourceChanges(n, s)
        BY <3>1, SourceEventsAre DEF ShellOK
      <3>3. seen' = seen \cup {s} /\ src' = [src EXCEPT ![n] = s] /\ n = sh.node
        BY <3>2 DEF SourceChanges
      <3>4. src'[sh.node] = s
        BY <3>3 DEF ShellOK, NodeOK
      <3> QED BY <3>2, <3>3, <3>4, TruthGrows DEF SourceChanges, link
    <2> QED BY <1>3, <2>1, <2>2, <2>3, <2>4, <2>5 DEF Environment, SourceEvents
  <1>4. CASE UNCHANGED vars
    BY <1>4, TruthGrows DEF vars, node, link, TruthOK
  <1> QED BY <1>1, <1>2, <1>3, <1>4 DEF Next

\* Every value that get, table, listall and the read-back of a local set print was
\* true of the node that was asked, at some moment since the command was typed,
\* whatever fails, changes or is written meanwhile; only a watchdog driver that
\* does not answer leaves an older value of its own to be printed.
THEOREM PrintedWasTrue == Spec => []RowsWereTrue
  <1>1. Init => TruthOK
    BY DEF Init, TruthOK, Reads
  <1>2. ShellOK /\ TruthOK /\ [Next]_vars => TruthOK'
    BY TruthNext
  <1>3. ShellOK /\ TruthOK => RowsWereTrue
    BY TruthIsRowsWereTrue DEF ShellOK, CommandOK
  <1> QED BY <1>1, <1>2, <1>3, ShellIsOK, PTL DEF Spec

----------------------------------------------------------------------------
(* A listing is whole. *)

NamesOf(rows) == [i \in DOMAIN rows |-> rows[i].name]

\* Rows that follow the names to the end print exactly these names.
LEMMA NamesFollow ==
    ASSUME NEW rows \in Seq(Row), NEW S, NEW names \in Seq(S), Follow(rows, names), Len(rows) = Len(names)
    PROVE  NamesOf(rows) = names
  <1>1. PICK k \in Nat : k = Len(names)
    OBVIOUS
  <1>2. DOMAIN rows = 1..k /\ DOMAIN names = 1..k /\ names = [i \in 1..k |-> names[i]]
    BY <1>1
  <1>3. \A i \in 1..k : rows[i].name = names[i]
    BY <1>1 DEF Follow
  <1>4. NamesOf(rows) = [i \in 1..k |-> rows[i].name]
    BY <1>2 DEF NamesOf
  <1>5. [i \in 1..k |-> rows[i].name] = [i \in 1..k |-> names[i]]
    BY <1>3
  <1> QED BY <1>2, <1>4, <1>5, Zenon

LEMMA NamesOfColumn ==
    ASSUME NEW table \in Seq(Params)
    PROVE  NamesOf(Column(table)) = table
  <1>1. /\ Column(table) \in Seq(Row) /\ Len(Column(table)) = Len(table)
        /\ \A i \in 1..Len(table) : Column(table)[i] = [name |-> table[i], value |-> Dash]
    BY ColumnIs
  <1>2. ASSUME NEW i \in 1..Len(table) PROVE Column(table)[i].name = table[i]
    <2>1. Column(table)[i] = [name |-> table[i], value |-> Dash]
      BY <1>1
    <2> QED BY <2>1
  <1>3. Follow(Column(table), table)
    BY <1>1, <1>2 DEF Follow
  <1> QED BY <1>1, <1>3, NamesFollow

LEMMA JoinRange ==
    ASSUME NEW S, NEW a \in Seq(S), NEW b \in Seq(S)
    PROVE  Range(a \o b) = Range(a) \cup Range(b)
  <1>1. /\ a \o b \in Seq(S) /\ Len(a \o b) = Len(a) + Len(b)
        /\ \A i \in 1..Len(a) : (a \o b)[i] = a[i]
        /\ \A i \in 1..Len(b) : (a \o b)[Len(a) + i] = b[i]
    BY JoinIs
  <1>2. PICK m \in Nat, n \in Nat : m = Len(a) /\ n = Len(b)
    OBVIOUS
  <1>3. PICK c : c = a \o b
    OBVIOUS
  <1>4. DOMAIN a = 1..m /\ DOMAIN b = 1..n
    BY <1>2
  <1>5. DOMAIN c = 1..(m + n)
    BY <1>1, <1>2, <1>3
  <1>6. /\ \A i \in 1..m : c[i] = a[i]
        /\ \A i \in 1..n : c[m + i] = b[i]
    BY <1>1, <1>2, <1>3
  <1>7. ASSUME NEW i \in 1..(m + n) PROVE c[i] \in Range(a) \cup Range(b)
    <2>1. CASE i \in 1..m
      BY <1>4, <1>6, <2>1 DEF Range
    <2>2. CASE i \notin 1..m
      <3>1. i - m \in 1..n /\ i = m + (i - m)
        BY <2>2
      <3> QED BY <1>4, <1>6, <3>1 DEF Range
    <2> QED BY <2>1, <2>2
  <1>8. \A i \in 1..m : a[i] \in Range(c)
    <2>1. \A i \in 1..m : i \in 1..(m + n)
      OBVIOUS
    <2> QED BY <1>5, <1>6, <2>1, Zenon DEF Range
  <1>9. \A i \in 1..n : b[i] \in Range(c)
    <2>1. \A i \in 1..n : m + i \in 1..(m + n)
      OBVIOUS
    <2> QED BY <1>5, <1>6, <2>1, Zenon DEF Range
  <1>10. Range(c) \subseteq Range(a) \cup Range(b)
    BY <1>5, <1>7 DEF Range
  <1>11. Range(a) \cup Range(b) \subseteq Range(c)
    BY <1>4, <1>8, <1>9 DEF Range
  <1>12. Range(c) = Range(a) \cup Range(b)
    BY <1>10, <1>11
  <1> QED BY <1>3, <1>12

LEMMA JoinInjective ==
    ASSUME NEW S, NEW a \in Seq(S), NEW b \in Seq(S), IsInjective(a), IsInjective(b), Range(a) \cap Range(b) = {}
    PROVE  IsInjective(a \o b)
  <1>1. /\ a \o b \in Seq(S) /\ Len(a \o b) = Len(a) + Len(b)
        /\ \A i \in 1..Len(a) : (a \o b)[i] = a[i]
        /\ \A i \in 1..Len(b) : (a \o b)[Len(a) + i] = b[i]
    BY JoinIs
  <1>2. PICK m \in Nat, n \in Nat : m = Len(a) /\ n = Len(b)
    OBVIOUS
  <1>3. PICK c : c = a \o b
    OBVIOUS
  <1>4. DOMAIN a = 1..m /\ DOMAIN b = 1..n
    BY <1>2
  <1>5. DOMAIN c = 1..(m + n)
    BY <1>1, <1>2, <1>3
  <1>6. /\ \A i \in 1..m : c[i] = a[i] /\ c[i] \in Range(a)
        /\ \A i \in 1..n : c[m + i] = b[i] /\ c[m + i] \in Range(b)
    BY <1>1, <1>2, <1>3, <1>4 DEF Range
  <1>7. \A i \in 1..(m + n) : i \in 1..m \/ \E j \in 1..n : i = m + j
    <2> SUFFICES ASSUME NEW i \in 1..(m + n), i \notin 1..m PROVE \E j \in 1..n : i = m + j
      OBVIOUS
    <2>1. i - m \in 1..n /\ i = m + (i - m)
      OBVIOUS
    <2> QED BY <2>1
  <1>8. ASSUME NEW x \in 1..(m + n), NEW y \in 1..(m + n), c[x] = c[y] PROVE x = y
    <2>1. CASE x \in 1..m /\ y \in 1..m
      BY <1>4, <1>6, <1>8, <2>1 DEF IsInjective
    <2>2. ASSUME NEW i \in 1..n, NEW j \in 1..n, x = m + i, y = m + j PROVE x = y
      BY <1>4, <1>6, <1>8, <2>2 DEF IsInjective
    <2>3. ASSUME x \in 1..m, NEW j \in 1..n, y = m + j PROVE FALSE
      BY <1>6, <1>8, <2>3
    <2>4. ASSUME y \in 1..m, NEW j \in 1..n, x = m + j PROVE FALSE
      BY <1>6, <1>8, <2>4
    <2> QED BY <1>7, <2>1, <2>2, <2>3, <2>4
  <1>9. IsInjective(c)
    BY <1>5, <1>8 DEF IsInjective
  <1> QED BY <1>3, <1>9

\* No table names a parameter twice.
LEMMA TableInjective ==
    ASSUME NEW t \in 1..5
    PROVE  IsInjective(Definitions[t])
  <1>1. t = 1 \/ t = 2 \/ t = 3 \/ t = 4 \/ t = 5
    OBVIOUS
  <1>2. IsInjective(BoardTable)
    BY DEF IsInjective, BoardTable
  <1>3. IsInjective(TelemetryTable)
    BY DEF IsInjective, TelemetryTable
  <1>4. IsInjective(CspTable)
    BY DEF IsInjective, CspTable
  <1>5. IsInjective(StorageTable)
    BY DEF IsInjective, StorageTable
  <1>6. IsInjective(WatchdogTable)
    BY DEF IsInjective, WatchdogTable
  <1> QED BY <1>1, <1>2, <1>3, <1>4, <1>5, <1>6, TableNumbers

\* The names of the first tables: all of theirs, each once, and none of another.
LEMMA FirstRange ==
    ASSUME NEW k \in 0..5
    PROVE  /\ First(k) \in Seq(Params) /\ IsInjective(First(k))
           /\ \A x : x \in Range(First(k)) <=> \E t \in 1..k : x \in Range(Definitions[t])
  <1> DEFINE P(j) == /\ First(j) \in Seq(Params) /\ IsInjective(First(j))
                     /\ \A x : x \in Range(First(j)) <=> \E t \in 1..j : x \in Range(Definitions[t])
  <1>1. P(0)
    <2>1. First(0) = <<>>
      BY DEF First
    <2>2. <<>> \in Seq(Params) /\ IsInjective(<<>>) /\ Range(<<>>) = {}
      BY DEF IsInjective, Range
    <2>3. 1..0 = {}
      OBVIOUS
    <2> QED BY <2>1, <2>2, <2>3
  <1>2. ASSUME NEW j \in 0..4, P(j) PROVE P(j + 1)
    <2>1. /\ First(j) \in Seq(Params) /\ First(j + 1) \in Seq(Params)
          /\ First(j + 1) = First(j) \o Definitions[j + 1]
          /\ Definitions[j + 1] \in Seq(Params)
      BY FirstIs
    <2>2. j + 1 \in 1..5 /\ \A t : t \in 1..(j + 1) <=> t \in 1..j \/ t = j + 1
      OBVIOUS
    <2>3. \A t \in 1..j : t \in 1..5 /\ t # j + 1
      OBVIOUS
    <2>4. Range(First(j + 1)) = Range(First(j)) \cup Range(Definitions[j + 1])
      BY <2>1, JoinRange, ZenonT(60)
    <2>5. \A x : x \in Range(First(j + 1)) <=> \E t \in 1..(j + 1) : x \in Range(Definitions[t])
      BY <1>2, <2>2, <2>4, Zenon
    <2>6. Range(First(j)) \cap Range(Definitions[j + 1]) = {}
      <3> SUFFICES ASSUME NEW x, x \in Range(First(j)), x \in Range(Definitions[j + 1]) PROVE FALSE
        OBVIOUS
      <3>1. PICK t \in 1..j : x \in Range(Definitions[t])
        BY <1>2
      <3>2. Range(Definitions[t]) \cap Range(Definitions[j + 1]) = {}
        BY <2>2, <2>3, TablesDisjoint
      <3> QED BY <3>1, <3>2
    <2>7. IsInjective(First(j + 1))
      <3>1. IsInjective(First(j)) /\ IsInjective(Definitions[j + 1])
        BY <1>2, <2>2, TableInjective
      <3>2. IsInjective(First(j) \o Definitions[j + 1])
        BY <2>1, <2>6, <3>1, JoinInjective
      <3> QED BY <2>1, <3>2
    <2> QED BY <2>1, <2>5, <2>7
  <1> HIDE DEF P
  <1>3. P(1)
    <2>1. 0 \in 0..4 /\ 0 + 1 = 1
      OBVIOUS
    <2> QED BY <1>1, <1>2, <2>1
  <1>4. P(2)
    <2>1. 1 \in 0..4 /\ 1 + 1 = 2
      OBVIOUS
    <2> QED BY <1>2, <1>3, <2>1
  <1>5. P(3)
    <2>1. 2 \in 0..4 /\ 2 + 1 = 3
      OBVIOUS
    <2> QED BY <1>2, <1>4, <2>1
  <1>6. P(4)
    <2>1. 3 \in 0..4 /\ 3 + 1 = 4
      OBVIOUS
    <2> QED BY <1>2, <1>5, <2>1
  <1>7. P(5)
    <2>1. 4 \in 0..4 /\ 4 + 1 = 5
      OBVIOUS
    <2> QED BY <1>2, <1>6, <2>1
  <1>8. k = 0 \/ k = 1 \/ k = 2 \/ k = 3 \/ k = 4 \/ k = 5
    OBVIOUS
  <1>9. P(k)
    BY <1>1, <1>3, <1>4, <1>5, <1>6, <1>7, <1>8
  <1> QED BY <1>9 DEF P

LEMMA AllNamesWhole ==
    /\ AllNames \in Seq(Params) /\ IsInjective(AllNames) /\ Range(AllNames) = Params
    /\ First(5) = AllNames
  <1>1. First(5) = AllNames
    BY DEF First
  <1>2. 5 \in 0..5
    OBVIOUS
  <1>3. /\ First(5) \in Seq(Params) /\ IsInjective(First(5))
        /\ \A x : x \in Range(First(5)) <=> \E t \in 1..5 : x \in Range(Definitions[t])
    BY <1>2, FirstRange
  <1>4. \A x : x \in Params <=> \E t \in 1..5 : x \in Range(Definitions[t])
    BY TableNumbers DEF Params
  <1> HIDE DEF First
  <1>5. Range(First(5)) = Params
    BY <1>3, <1>4, Zenon
  <1> QED BY <1>1, <1>3, <1>5

\* Whole tables and no parts of one.
LEMMA FirstWhole ==
    ASSUME NEW k \in 0..5, NEW t \in 1..5
    PROVE  Range(Definitions[t]) \cap Range(First(k)) \in {{}, Range(Definitions[t])}
  <1>1. \A x : x \in Range(First(k)) <=> \E u \in 1..k : x \in Range(Definitions[u])
    BY FirstRange
  <1>2. CASE t \in 1..k
    <2>1. Range(Definitions[t]) \subseteq Range(First(k))
      BY <1>1, <1>2
    <2> QED BY <2>1
  <1>3. CASE t \notin 1..k
    <2>1. \A u \in 1..k : u \in 1..5 /\ u # t
      BY <1>3
    <2>2. ASSUME NEW x \in Range(Definitions[t]), x \in Range(First(k)) PROVE FALSE
      <3>1. PICK u \in 1..k : x \in Range(Definitions[u])
        BY <1>1, <2>2
      <3>2. Range(Definitions[t]) \cap Range(Definitions[u]) = {}
        BY <2>1, TablesDisjoint
      <3> QED BY <2>2, <3>1, <3>2
    <2>3. Range(Definitions[t]) \cap Range(First(k)) = {}
      BY <2>2
    <2> QED BY <2>3
  <1> QED BY <1>2, <1>3

\* The number of names of a table, counted in its definition and among all names.
LEMMA TableCount ==
    ASSUME NEW t \in 1..5
    PROVE  Cardinality(Range(Definitions[t])) = Len(Definitions[t])
  <1>1. PICK d : d = Definitions[t]
    OBVIOUS
  <1>2. d \in Seq(Range(d)) /\ IsInjective(d)
    BY <1>1, TableSequences, TableInjective
  <1>3. PICK n \in Nat : n = Len(d)
    BY <1>2
  <1>4. d \in [1..n -> Range(d)] /\ DOMAIN d = 1..n
    BY <1>2, <1>3
  <1>5. \A x \in Range(d) : \E i \in 1..n : d[i] = x
    BY <1>4 DEF Range
  <1>6. d \in Bijection(1..n, Range(d))
    BY <1>2, <1>4, <1>5, Zenon DEF Bijection, Injection, Surjection
  <1>7. ExistsBijection(1..n, Range(d))
    BY <1>6 DEF ExistsBijection
  <1>8. Cardinality(Range(d)) = n
    BY <1>7, FS_CountingElements
  <1> QED BY <1>1, <1>3, <1>8

LEMMA TallyIs ==
    ASSUME NEW t \in 1..5
    PROVE  tally_table(t) = Cardinality(Range(Definitions[t]))
  <1>1. PICK all : all = AllNames
    OBVIOUS
  <1>2. all \in Seq(Params) /\ IsInjective(all) /\ Range(all) = Params /\ Len(all) = 25
    BY <1>1, AllNamesWhole, AllNamesAre
  <1>3. PICK T : T = Range(Definitions[t])
    OBVIOUS
  <1>4. T \subseteq Range(all)
    BY <1>2, <1>3, TableSequences
  <1>5. PICK D : D = {i \in DOMAIN all : all[i] \in T}
    OBVIOUS
  <1>6. PICK f : f = [i \in D |-> all[i]]
    OBVIOUS
  <1>7. f \in [D -> T] /\ DOMAIN f = D /\ \A i \in D : f[i] = all[i]
    BY <1>5, <1>6
  <1>8. IsInjective(f)
    BY <1>2, <1>5, <1>7 DEF IsInjective
  <1>9. \A x \in T : \E i \in D : f[i] = x
    <2> SUFFICES ASSUME NEW x \in T PROVE \E i \in D : f[i] = x
      OBVIOUS
    <2>1. PICK i \in DOMAIN all : all[i] = x
      BY <1>4 DEF Range
    <2> QED BY <1>5, <1>7, <2>1
  <1>10. ExistsBijection(D, T)
    <2>1. f \in Bijection(D, T)
      BY <1>7, <1>8, <1>9, Zenon DEF Bijection, Injection, Surjection
    <2> QED BY <2>1 DEF ExistsBijection
  <1>11. IsFiniteSet(D)
    <2>1. IsFiniteSet(1..25)
      <3>1. 1 \in Int /\ 25 \in Int
        OBVIOUS
      <3> QED BY <3>1, FS_Interval, Zenon
    <2>2. D \subseteq 1..25
      BY <1>2, <1>5
    <2> QED BY <2>1, <2>2, FS_Subset
  <1>12. Cardinality(T) = Cardinality(D)
    BY <1>10, <1>11, FS_Bijection
  <1>13. tally_table(t) = Cardinality(D)
    BY <1>1, <1>3, <1>5 DEF tally_table
  <1> QED BY <1>3, <1>12, <1>13

\* What the four parts of ListingIsWhole ask of a command that ended.
TableWhole(s) ==
    s.kind = "table" /\ s.result = "ok" =>
        NamesOf(s.rows) = SubSeq(Definitions[s.arg], 1,
                                 IF s.node = Here THEN Len(Definitions[s.arg])
                                 ELSE Least(Len(Definitions[s.arg]), NAMES_MAX))
ListallWhole(s) ==
    s.kind = "listall" =>
        /\ s.result = "ok" => Range(NamesOf(s.rows)) = Params /\ IsInjective(NamesOf(s.rows))
        /\ \A t \in TableIds :
              Range(Definitions[t]) \cap Range(NamesOf(s.rows)) \in {{}, Range(Definitions[t])}
CountWhole(s) ==
    s.kind = "whichtables" /\ s.result = "ok" =>
        \A t \in TableIds : s.rows[t] = [name |-> t, value |-> Cardinality(Range(Definitions[t]))]
Whole(s) == s.phase = "done" => TableWhole(s) /\ ListallWhole(s) /\ CountWhole(s)

LEMMA WholeIsListing == ListingIsWhole <=> Whole(sh)
  <1>1. Printed = NamesOf(sh.rows)
    BY DEF Printed, NamesOf
  <1> QED BY <1>1, Zenon DEF ListingIsWhole, Whole, TableWhole, ListallWhole, CountWhole

\* All names, or those of the first tables and a failure.
LEMMA ListallEnds ==
    ASSUME NEW s, NEW k \in 0..5, NamesOf(s.rows) = First(k), s.result = "ok" => k = 5
    PROVE  ListallWhole(s)
  <1>1. \A t \in TableIds : Range(Definitions[t]) \cap Range(NamesOf(s.rows)) \in {{}, Range(Definitions[t])}
    <2>1. \A t \in 1..5 : Range(Definitions[t]) \cap Range(First(k)) \in {{}, Range(Definitions[t])}
      BY FirstWhole
    <2> QED BY <2>1, TableNumbers, Zenon
  <1>2. s.result = "ok" => Range(NamesOf(s.rows)) = Params /\ IsInjective(NamesOf(s.rows))
    BY AllNamesWhole, Zenon
  <1> QED BY <1>1, <1>2, Zenon DEF ListallWhole

LEMMA WholeLocalRow ==
    ASSUME ShellOK, LocalRow
    PROVE  Whole(sh')
  <1>0. CommandOK /\ ShTyped /\ Args /\ AtRow /\ ShTyped'
    BY LocalRowKeeps DEF ShellOK, CommandOK
  <1> DEFINE p == sh.names[Len(sh.rows) + 1]
             row == [name |-> p, value |-> cells'[Here][p]]
             rows == Append(sh.rows, row)
  <1>1. /\ sh.phase = "row" /\ sh.node = Here /\ sh.kind \in {"get", "set", "table", "listall"}
        /\ sh.kind = "table" => sh.names = Definitions[sh.arg]
        /\ sh.kind = "listall" => sh.names = AllNames
        /\ Len(sh.rows) < Len(sh.names) /\ Follow(sh.rows, sh.names)
    BY <1>0 DEF LocalRow, AtRow
  <1>2. sh.rows \in Seq(Row) /\ sh.names \in Seq(Params)
    BY <1>0 DEF ShTyped
  <1>3. IF Len(rows) = Len(sh.names) THEN End(rows, "ok") ELSE sh' = [sh EXCEPT !.rows = rows]
    BY DEF LocalRow
  <1>4. row.name = sh.names[Len(sh.rows) + 1]
    OBVIOUS
  <1> HIDE DEF row
  <1>5. /\ Len(rows) = Len(sh.rows) + 1 /\ rows[Len(sh.rows) + 1] = row
        /\ \A i \in 1..Len(sh.rows) : rows[i] = sh.rows[i]
    BY <1>2
  <1> HIDE DEF rows
  <1>6. Follow(rows, sh.names)
    <2>1. Len(sh.rows) \in Nat
      BY <1>2
    <2>2. \A i \in 1..Len(rows) : i \in 1..Len(sh.rows) \/ i = Len(sh.rows) + 1
      BY <1>5, <2>1
    <2> QED BY <1>1, <1>4, <1>5, <2>2 DEF Follow
  <1>7. CASE Len(rows) = Len(sh.names)
    <2>1. /\ sh'.rows = rows /\ sh'.kind = sh.kind /\ sh'.node = sh.node /\ sh'.arg = sh.arg /\ sh'.result = "ok"
      BY <1>0, <1>3, <1>7 DEF End, ShTyped
    <2>2. rows \in Seq(Row)
      BY <1>0, <2>1 DEF ShTyped
    <2>3. NamesOf(rows) = sh.names
      BY <1>2, <1>6, <1>7, <2>2, NamesFollow
    <2>4. TableWhole(sh')
      <3> SUFFICES ASSUME sh.kind = "table"
                   PROVE  NamesOf(rows) = SubSeq(Definitions[sh.arg], 1, Len(Definitions[sh.arg]))
        BY <1>1, <2>1, Zenon DEF TableWhole
      <3>1. Definitions[sh.arg] \in Seq(Params)
        BY <1>0, TableSequences DEF Args
      <3>2. \A x \in Seq(Params) : SubSeq(x, 1, Len(x)) = x
        OBVIOUS
      <3> QED BY <1>1, <2>3, <3>1, <3>2, Zenon
    <2>5. ListallWhole(sh')
      <3>1. CASE sh.kind = "listall"
        <4>1. NamesOf(sh'.rows) = First(5) /\ 5 \in 0..5
          BY <1>1, <2>1, <2>3, <3>1, AllNamesWhole
        <4> QED BY <4>1, ListallEnds
      <3>2. CASE sh.kind # "listall"
        BY <2>1, <3>2 DEF ListallWhole
      <3> QED BY <3>1, <3>2
    <2>6. CountWhole(sh')
      BY <1>1, <2>1 DEF CountWhole
    <2> QED BY <2>4, <2>5, <2>6 DEF Whole
  <1>8. CASE Len(rows) # Len(sh.names)
    <2>1. sh'.phase = "row"
      BY <1>0, <1>1, <1>3, <1>8 DEF ShTyped
    <2> QED BY <2>1 DEF Whole
  <1> QED BY <1>7, <1>8

\* Commands that end without a listing, or that go on.
LEMMA WholePlainSteps ==
    ASSUME ShellOK,
           \/ LocalSet \/ LocalSetRefused \/ CollectNames \/ ListTables \/ GetAnswered \/ GetFails \/ SendSet
           \/ TextRefused \/ SetAnswered \/ SetFails
    PROVE  Whole(sh')
  <1>0. CommandOK /\ ShTyped
    BY DEF ShellOK, CommandOK
  <1>1. CASE LocalSet \/ CollectNames \/ ListTables \/ SendSet
    <2>1. sh'.phase # "done"
      BY <1>0, <1>1 DEF LocalSet, CollectNames, ListTables, SendSet, ShTyped
    <2> QED BY <2>1 DEF Whole
  <1>2. CASE LocalSetRefused \/ GetAnswered \/ GetFails \/ TextRefused \/ SetAnswered \/ SetFails
    <2>1. sh'.kind = sh.kind
      BY <1>0, <1>2 DEF LocalSetRefused, GetAnswered, GetFails, TextRefused, SetAnswered, SetFails, ShTyped, End
    <2>2. sh.kind \in {"get", "set"}
      BY <1>0, <1>2 DEF LocalSetRefused, GetAnswered, GetFails, TextRefused, SetAnswered, SetFails, CommandOK, AtStart
    <2> QED BY <2>1, <2>2 DEF Whole, TableWhole, ListallWhole, CountWhole
  <1> QED BY <1>1, <1>2

LEMMA WholeCounts ==
    ASSUME ShellOK, LocalTables \/ PrintTables
    PROVE  Whole(sh')
  <1>0. CommandOK /\ ShTyped
    BY DEF ShellOK, CommandOK
  <1>1. sh.kind = "whichtables"
    BY <1>0 DEF LocalTables, PrintTables, CommandOK, AtStart
  <1>2. PICK rows : /\ End(rows, "ok")
                    /\ \/ rows = Counts
                       \/ rows = [t \in TableIds |-> [name |-> t, value |-> tally_table(t)]]
    BY DEF LocalTables, PrintTables
  <1>3. sh'.kind = sh.kind /\ sh'.rows = rows
    BY <1>0, <1>2 DEF End, ShTyped
  <1>4. ASSUME NEW t \in TableIds PROVE rows[t] = [name |-> t, value |-> Cardinality(Range(Definitions[t]))]
    <2>1. t \in 1..5
      BY TableNumbers
    <2>2. Len(Definitions[t]) = Cardinality(Range(Definitions[t])) /\ tally_table(t) = Cardinality(Range(Definitions[t]))
      BY <2>1, TableCount, TallyIs
    <2> QED BY <1>2, <2>2 DEF Counts
  <1> QED BY <1>1, <1>3, <1>4 DEF Whole, TableWhole, ListallWhole, CountWhole

LEMMA WholeWalks ==
    ASSUME ShellOK, VisitTable \/ VisitAll \/ WalkFails
    PROVE  Whole(sh')
  <1>0. CommandOK /\ ShTyped
    BY DEF ShellOK, CommandOK
  <1>1. \A k \in 0..5 : NamesOf(Column(First(k))) = First(k)
    BY FirstRange, NamesOfColumn
  <1>2. CASE VisitTable
    <2>1. sh.base \in 0..4 /\ sh.rows = Column(First(sh.base)) /\ sh.phase = "visit" /\ sh.kind = "listall"
      BY <1>0, <1>2 DEF CommandOK, AtVisit, VisitTable, Walk
    <2> DEFINE rows == sh.rows \o Column(Definitions[sh.base + 1])
    <2>2. /\ First(sh.base) \in Seq(Params) /\ First(sh.base + 1) = First(sh.base) \o Definitions[sh.base + 1]
          /\ Definitions[sh.base + 1] \in Seq(Params)
      BY <2>1, FirstIs
    <2>3. Column(First(sh.base) \o Definitions[sh.base + 1]) = rows
      BY <2>1, <2>2, ColumnConcat
    <2>4. IF sh.base + 1 = 5 THEN End(rows, "ok") ELSE sh' = [sh EXCEPT !.rows = rows, !.base = sh.base + 1]
      BY <1>2, TableNumbers DEF VisitTable
    <2> HIDE DEF rows
    <2>5. CASE sh.base + 1 = 5
      <3>1. sh'.rows = rows /\ sh'.kind = "listall"
        BY <1>0, <2>1, <2>4, <2>5 DEF End, ShTyped
      <3>2. NamesOf(sh'.rows) = First(5) /\ 5 \in 0..5
        <4>1. rows = Column(First(5))
          BY <2>2, <2>3, <2>5
        <4>2. 5 \in 0..5
          OBVIOUS
        <4> QED BY <1>1, <3>1, <4>1, <4>2, Zenon
      <3>3. ListallWhole(sh')
        BY <3>2, ListallEnds
      <3> QED BY <3>1, <3>3 DEF Whole, TableWhole, CountWhole
    <2>6. CASE sh.base + 1 # 5
      <3>1. sh'.phase = "visit"
        BY <1>0, <2>1, <2>4, <2>6 DEF ShTyped
      <3> QED BY <3>1 DEF Whole
    <2> QED BY <2>5, <2>6
  <1>3. CASE VisitAll
    <2>1. sh.kind = "listall" /\ sh'.rows = Column(AllNames) /\ sh'.kind = sh.kind
      BY <1>0, <1>3 DEF VisitAll, End, ShTyped
    <2>2. NamesOf(sh'.rows) = First(5) /\ 5 \in 0..5
      BY <1>1, <2>1, AllNamesWhole
    <2>3. ListallWhole(sh')
      BY <2>2, ListallEnds
    <2> QED BY <2>1, <2>3 DEF Whole, TableWhole, CountWhole
  <1>4. CASE WalkFails
    <2>1. sh'.rows = sh.rows /\ sh'.kind = sh.kind /\ sh'.result = "failed"
      BY <1>0, <1>4 DEF WalkFails, End, ShTyped
    <2>2. ListallWhole(sh')
      <3>1. CASE sh.phase = "visit"
        <4>1. sh.base \in 0..4 /\ sh.rows = Column(First(sh.base))
          BY <1>0, <3>1 DEF CommandOK, AtVisit
        <4>2. sh.base \in 0..5
          BY <4>1
        <4>3. NamesOf(sh'.rows) = First(sh.base)
          BY <1>1, <2>1, <4>1, <4>2
        <4> QED BY <2>1, <4>2, <4>3, ListallEnds
      <3>2. CASE sh.phase # "visit"
        <4>1. sh.rows = <<>>
          BY <1>0, <1>4, <3>2 DEF WalkFails, CommandOK, AtStart
        <4>2. NamesOf(<<>>) = <<>>
          BY DEF NamesOf
        <4>3. First(0) = <<>> /\ 0 \in 0..5
          BY DEF First
        <4>4. NamesOf(sh'.rows) = First(0)
          BY <2>1, <4>1, <4>2, <4>3
        <4> QED BY <2>1, <4>3, <4>4, ListallEnds
      <3> QED BY <3>1, <3>2
    <2> QED BY <2>1, <2>2 DEF Whole, TableWhole, CountWhole
  <1> QED BY <1>2, <1>3, <1>4

LEMMA WholeWindows ==
    ASSUME ShellOK, PrintWindow \/ WindowFails
    PROVE  Whole(sh')
  <1>0. CommandOK /\ ShTyped /\ Args
    BY DEF ShellOK, CommandOK
  <1>1. sh.phase = "window" /\ sh.kind = "table" /\ sh.node = There /\ sh.names = Cut(sh.arg) /\ sh.arg \in 1..5
    BY <1>0 DEF PrintWindow, WindowFails, CommandOK, AtWindow, AtStart, Args
  <1>2. PICK rows : rows \in Seq(Row) /\ Len(rows) = sh.base + Len(req) /\ Follow(rows, sh.names) /\ NextWindow(rows)
    <2>1. CASE PrintWindow
      <3>1. PICK rows : rows = sh.rows \o WindowRows(TRUE, reply)
        OBVIOUS
      <3>2. Len(reply) = Len(req) /\ NextWindow(rows)
        BY <2>1, <3>1 DEF PrintWindow, Complete
      <3>3. rows \in Seq(Row) /\ Len(rows) = sh.base + Len(req) /\ Follow(rows, sh.names)
        BY <1>0, <1>1, <3>1, <3>2, PrintedRowsAre
      <3> QED BY <3>2, <3>3
    <2>2. CASE WindowFails
      <3>1. PICK rows : rows = sh.rows \o WindowRows(FALSE, window)
        OBVIOUS
      <3>2. NextWindow(rows)
        BY <2>2, <3>1 DEF WindowFails
      <3>3. rows \in Seq(Row) /\ Len(rows) = sh.base + Len(req) /\ Follow(rows, sh.names)
        BY <1>0, <1>1, <3>1, DashedRowsAre
      <3> QED BY <3>2, <3>3
    <2> QED BY <2>1, <2>2
  <1>3. /\ sh'.rows = rows /\ sh'.kind = sh.kind /\ sh'.node = sh.node /\ sh'.arg = sh.arg
        /\ \/ sh'.phase = "window"
           \/ Len(rows) = Len(sh.names)
    BY <1>0, <1>1, <1>2, NextWindowKeeps
  <1>4. CASE sh'.phase = "window"
    BY <1>4 DEF Whole
  <1>5. CASE Len(rows) = Len(sh.names)
    <2>1. sh.names \in Seq(Params)
      BY <1>0 DEF ShTyped
    <2>2. NamesOf(rows) = Cut(sh.arg)
      BY <1>1, <1>2, <1>5, <2>1, NamesFollow
    <2>3. There # Here
      BY DEF Here, There
    <2>4. TableWhole(sh')
      BY <1>1, <1>3, <2>2, <2>3, Zenon DEF TableWhole, Cut
    <2> QED BY <1>1, <1>3, <2>4 DEF Whole, ListallWhole, CountWhole
  <1> QED BY <1>3, <1>4, <1>5

LEMMA WholeNext ==
    ASSUME ShellOK, Whole(sh), [Next]_vars
    PROVE  Whole(sh')
  <1>1. CASE Typed
    <2>1. PICK n \in Nodes, phase \in Phases \ {"done"} : \E kind, arg, val, names :
              Begin(kind, n, arg, val, phase, names)
      BY <1>1 DEF Typed, TypeGet, TypeSet, TypeTable, TypeListall, TypeWhichtables, Phases
    <2>2. sh'.phase = phase
      BY <2>1 DEF Begin
    <2> QED BY <2>2 DEF Whole
  <1>2. CASE ShellStep
    BY <1>2, WholeLocalRow, WholePlainSteps, WholeCounts, WholeWalks, WholeWindows DEF ShellStep
  <1>3. CASE Environment \/ UNCHANGED vars
    <2>1. sh' = sh
      BY <1>3, ZenonT(60) DEF Environment, NodeSamples, NodeApplies, NodeRefuses, OtherWrites, Traffic, NoConnection, Fed,
             DriverSilent, Filesystem, cmd_csp_debug, cmd_csp_rdp, cmd_csp_counters, SourceChanges, vars
    <2> QED BY <2>1, Zenon
  <1> QED BY <1>1, <1>2, <1>3 DEF Next

\* A listing that ended without an error shows each parameter once, whether the
\* other node serves its table list or not and whichever windows failed; only a
\* remote table beyond the limit of the shell is cut, at the limit.  One that
\* stopped at an error shows whole tables.
THEOREM ListingsAreWhole == Spec => []ListingIsWhole
  <1>1. Init => Whole(sh)
    BY DEF Init, Whole, TableWhole, ListallWhole, CountWhole
  <1>2. ShellOK /\ Whole(sh) /\ [Next]_vars => Whole(sh)'
    BY WholeNext
  <1>3. Whole(sh) => ListingIsWhole
    BY WholeIsListing
  <1> QED BY <1>1, <1>2, <1>3, ShellIsOK, PTL DEF Spec

----------------------------------------------------------------------------
(* A set means what it prints. *)

\* A write on its way was not applied and its caller was not told anything of it;
\* what the node answered agrees with what it did; nothing is known of a command
\* that was not typed yet.
HonestOK ==
    /\ \A w, x \in air : w.op = x.op => w = x
    /\ \A w \in air : /\ w.op <= sh.op /\ applied[w.op] = 0 /\ ack[w.op] = "none"
                      /\ answer[w.op] \in {"none", "unknown"}
    /\ \A o \in Ops : o > sh.op => applied[o] = 0 /\ ack[o] = "none" /\ answer[o] = "none"
    /\ \A o \in Ops : (ack[o] = "yes" => applied[o] = 1) /\ (ack[o] = "no" => applied[o] = 0)
    /\ sh.phase # "done" => answer[sh.op] = "none"
    /\ sh.phase \in {"local_set", "get"} =>
          applied[sh.op] = 0 /\ ack[sh.op] = "none" /\ \A w \in air : w.op # sh.op
    /\ sh.phase = "row" /\ sh.kind = "set" => applied[sh.op] = 1

\* No step of a write: the command goes on, in a phase that says no more than the last.
LEMMA HonestUnmoved ==
    ASSUME HonestOK, UNCHANGED <<air, ack, applied, answer>>, sh'.op = sh.op,
           sh'.phase # "done" => sh.phase # "done",
           sh'.phase \in {"local_set", "get"} => sh'.phase = sh.phase,
           sh'.phase = "row" /\ sh'.kind = "set" => sh.phase = "row" /\ sh.kind = "set"
    PROVE  HonestOK' /\ UNCHANGED <<applied, answer>>
  BY DEF HonestOK

LEMMA HonestTyped ==
    ASSUME ShellOK, HonestOK, Typed
    PROVE  HonestOK' /\ UNCHANGED <<applied, answer>>
  <1>0. CommandOK /\ Tickets
    BY DEF ShellOK
  <1>1. PICK n \in Nodes : \E kind, arg, val, phase, names :
            Begin(kind, n, arg, val, phase, names) /\ ~(phase = "row" /\ kind = "set")
    <2>1. PICK n \in Nodes : \/ \E p \in GetNames : TypeGet(n, p)
                             \/ \E p \in SetNames, v \in SetValues : TypeSet(n, p, v)
                             \/ \E t \in AskedTables : TypeTable(n, t)
                             \/ TypeListall(n) \/ TypeWhichtables(n)
      BY DEF Typed
    <2>2. ASSUME NEW p, TypeGet(n, p)
          PROVE  \E kind, arg, val, phase, names :
                    Begin(kind, n, arg, val, phase, names) /\ ~(phase = "row" /\ kind = "set")
      BY <2>2 DEF TypeGet
    <2>3. ASSUME NEW p, NEW v, TypeSet(n, p, v)
          PROVE  \E kind, arg, val, phase, names :
                    Begin(kind, n, arg, val, phase, names) /\ ~(phase = "row" /\ kind = "set")
      <3>1. (IF n = Here THEN "local_set" ELSE "get") # "row"
        OBVIOUS
      <3> QED BY <2>3, <3>1 DEF TypeSet
    <2>4. ASSUME NEW t, TypeTable(n, t)
          PROVE  \E kind, arg, val, phase, names :
                    Begin(kind, n, arg, val, phase, names) /\ ~(phase = "row" /\ kind = "set")
      BY <2>4 DEF TypeTable
    <2>5. ASSUME TypeListall(n) \/ TypeWhichtables(n)
          PROVE  \E kind, arg, val, phase, names :
                    Begin(kind, n, arg, val, phase, names) /\ ~(phase = "row" /\ kind = "set")
      BY <2>5 DEF TypeListall, TypeWhichtables
    <2> QED BY <2>1, <2>2, <2>3, <2>4, <2>5
  <1>2. sh'.op = sh.op + 1 /\ sh'.op \in Ops /\ ~(sh'.phase = "row" /\ sh'.kind = "set")
        /\ UNCHANGED <<air, ack, applied, answer>>
    <2>1. PICK kind, arg, val, phase, names :
              Begin(kind, n, arg, val, phase, names) /\ ~(phase = "row" /\ kind = "set")
      BY <1>1
    <2>2. sh'.op = sh.op + 1 /\ sh'.op \in Ops /\ sh'.phase = phase /\ sh'.kind = kind
      BY <1>0, <2>1, BeginKeeps
    <2> QED BY <2>1, <2>2 DEF Begin
  <1>3. PICK k \in Nat : k = sh.op
    BY <1>0, ShellAssumption DEF CommandOK, ShTyped
  <1>4. \A o \in Ops : o \in Nat
    BY ShellAssumption DEF Ops
  <1>5. \A w \in air : w.op \in Nat
    BY <1>0, <1>4 DEF Tickets
  <1>6. \A w \in air : w.op <= k + 1 /\ w.op # k + 1
    BY <1>3, <1>5 DEF HonestOK
  <1>7. \A o \in Ops : o > k + 1 => o > k
    BY <1>4
  <1>8. k + 1 > k
    OBVIOUS
  <1> QED BY <1>2, <1>3, <1>6, <1>7, <1>8 DEF HonestOK

\* A command is answered, with something that is known.
LEMMA HonestAnswers ==
    ASSUME ShellOK, HonestOK, sh.phase # "done", NEW a \in {"yes", "no", "unknown"}, Answered(a),
           a = "yes" => applied[sh.op] = 1,
           a = "no" => applied[sh.op] = 0 /\ \A w \in air : w.op # sh.op,
           a = "yes" => \A w \in air : w.op # sh.op,
           UNCHANGED <<air, ack, applied>>, sh'.op = sh.op, sh'.phase = "done"
    PROVE  HonestOK' /\ Operation!Next
  <1>0. CommandOK /\ Tickets /\ ShTyped /\ Args
    BY DEF ShellOK, CommandOK
  <1>1. sh.op \in Ops /\ answer[sh.op] = "none"
    BY <1>0 DEF Args, HonestOK
  <1>2. answer' = [answer EXCEPT ![sh.op] = a] /\ answer \in [Ops -> {"none", "yes", "no", "unknown"}]
    BY <1>0 DEF Answered, Tickets
  <1>3. answer'[sh.op] = a /\ \A o \in Ops : o # sh.op => answer'[o] = answer[o]
    BY <1>1, <1>2
  <1>4. Operation!Answer(sh.op, a)
    BY <1>1, <1>2 DEF Operation!Answer
  <1>5. Operation!Next
    BY <1>1, <1>4 DEF Operation!Next
  <1>6. \A w \in air : answer'[w.op] \in {"none", "unknown"}
    <2> SUFFICES ASSUME NEW w \in air PROVE answer'[w.op] \in {"none", "unknown"}
      OBVIOUS
    <2>1. w.op \in Ops
      BY <1>0 DEF Tickets
    <2>2. CASE w.op = sh.op
      BY <1>3, <2>2
    <2>3. CASE w.op # sh.op
      BY <1>3, <2>1, <2>3 DEF HonestOK
    <2> QED BY <2>2, <2>3
  <1>7. \A o \in Ops : o > sh.op => o # sh.op
    <2>1. sh.op \in Nat /\ \A o \in Ops : o \in Nat
      BY <1>1, ShellAssumption DEF Ops
    <2> QED BY <2>1
  <1>8. \A o \in Ops : o > sh.op => answer'[o] = "none"
    BY <1>3, <1>7 DEF HonestOK
  <1>9. HonestOK'
    BY <1>6, <1>8 DEF HonestOK
  <1> QED BY <1>5, <1>9

\* A write takes effect, on the other node or on this one.
LEMMA HonestApplies ==
    ASSUME Tickets, HonestOK, NEW o \in Ops, applied[o] = 0, answer[o] \in {"none", "unknown"},
           applied' = [applied EXCEPT ![o] = @ + 1], UNCHANGED answer
    PROVE  Operation!Next /\ applied'[o] = 1 /\ \A p \in Ops : p # o => applied'[p] = applied[p]
  <1>1. applied \in [Ops -> Nat]
    BY DEF Tickets
  <1>2. applied' = [applied EXCEPT ![o] = 1]
    BY <1>1
  <1>3. Operation!Apply(o)
    BY <1>2 DEF Operation!Apply
  <1> QED BY <1>1, <1>2, <1>3 DEF Operation!Next

LEMMA HonestLocalSet ==
    ASSUME ShellOK, HonestOK, LocalSet
    PROVE  HonestOK' /\ Operation!Next
  <1>0. CommandOK /\ Tickets /\ ShTyped /\ Args
    BY DEF ShellOK, CommandOK
  <1>1. sh.phase = "local_set" /\ sh.op \in Ops /\ applied[sh.op] = 0 /\ answer[sh.op] = "none" /\ ack[sh.op] = "none"
        /\ \A w \in air : w.op # sh.op
    BY <1>0 DEF LocalSet, Args, HonestOK
  <1>2. /\ applied' = [applied EXCEPT ![sh.op] = @ + 1] /\ UNCHANGED <<answer, air, ack>>
        /\ sh'.op = sh.op /\ sh'.phase = "row" /\ sh'.kind = sh.kind
    BY <1>0 DEF LocalSet, link, ShTyped
  <1>3. Operation!Next /\ applied'[sh.op] = 1 /\ \A p \in Ops : p # sh.op => applied'[p] = applied[p]
    BY <1>0, <1>1, <1>2, HonestApplies
  <1>4. \A w \in air : w.op \in Ops
    BY <1>0 DEF Tickets
  <1>5. \A o \in Ops : o > sh.op => o # sh.op
    <2>1. sh.op \in Nat /\ \A o \in Ops : o \in Nat
      BY <1>1, ShellAssumption DEF Ops
    <2> QED BY <2>1
  <1>6. HonestOK'
    BY <1>1, <1>2, <1>3, <1>4, <1>5 DEF HonestOK
  <1> QED BY <1>3, <1>6

LEMMA HonestNodeApplies ==
    ASSUME ShellOK, HonestOK, NEW w \in air, NodeApplies(w)
    PROVE  HonestOK' /\ Operation!Next
  <1>0. Tickets /\ CommandOK
    BY DEF ShellOK
  <1>1. w.op \in Ops /\ applied[w.op] = 0 /\ answer[w.op] \in {"none", "unknown"} /\ w.op <= sh.op
    BY <1>0 DEF Tickets, HonestOK
  <1>2. /\ applied' = [applied EXCEPT ![w.op] = @ + 1] /\ UNCHANGED <<answer, sh>> /\ air' = air \ {w}
        /\ ack' = [ack EXCEPT ![w.op] = "yes"]
    BY DEF NodeApplies
  <1>3. Operation!Next /\ applied'[w.op] = 1 /\ \A p \in Ops : p # w.op => applied'[p] = applied[p]
    BY <1>0, <1>1, <1>2, HonestApplies
  <1>4. ack'[w.op] = "yes" /\ \A p \in Ops : p # w.op => ack'[p] = ack[p]
    BY <1>0, <1>1, <1>2 DEF Tickets
  <1>5. \A x \in air' : x \in air /\ x.op \in Ops /\ x.op # w.op
    BY <1>0, <1>2 DEF Tickets, HonestOK
  <1>6. \A o \in Ops : o > sh.op => o # w.op
    <2>1. sh.op \in Nat /\ \A o \in Ops : o \in Nat
      BY <1>0, ShellAssumption DEF Ops, CommandOK, ShTyped
    <2> QED BY <1>1, <2>1
  <1>7. sh.phase \in {"local_set", "get"} => sh.op # w.op /\ sh.op \in Ops
    BY <1>0 DEF HonestOK, CommandOK, Args
  <1>8. sh.phase = "row" /\ sh.kind = "set" => sh.op # w.op /\ sh.op \in Ops
    BY <1>0, <1>1 DEF HonestOK, CommandOK, Args
  <1>9. HonestOK'
    BY <1>2, <1>3, <1>4, <1>5, <1>6, <1>7, <1>8 DEF HonestOK
  <1> QED BY <1>3, <1>9

LEMMA HonestNodeRefuses ==
    ASSUME ShellOK, HonestOK, NEW w \in air, NodeRefuses(w)
    PROVE  HonestOK' /\ UNCHANGED <<applied, answer>>
  <1>0. Tickets /\ CommandOK
    BY DEF ShellOK
  <1>1. w.op \in Ops /\ applied[w.op] = 0 /\ w.op <= sh.op
    BY <1>0 DEF Tickets, HonestOK
  <1>2. UNCHANGED <<applied, answer, sh>> /\ air' = air \ {w} /\ ack' = [ack EXCEPT ![w.op] = "no"]
    BY DEF NodeRefuses
  <1>3. ack'[w.op] = "no" /\ \A p \in Ops : p # w.op => ack'[p] = ack[p]
    BY <1>0, <1>1, <1>2 DEF Tickets
  <1>4. \A x \in air' : x \in air /\ x.op \in Ops /\ x.op # w.op
    BY <1>0, <1>2 DEF Tickets, HonestOK
  <1>5. \A o \in Ops : o > sh.op => o # w.op
    <2>1. sh.op \in Nat /\ \A o \in Ops : o \in Nat
      BY <1>0, ShellAssumption DEF Ops, CommandOK, ShTyped
    <2> QED BY <1>1, <2>1
  <1>6. sh.phase \in {"local_set", "get"} => sh.op # w.op /\ sh.op \in Ops
    BY <1>0 DEF HonestOK, CommandOK, Args
  <1>7. HonestOK'
    BY <1>1, <1>2, <1>3, <1>4, <1>5, <1>6 DEF HonestOK
  <1> QED BY <1>2, <1>7

LEMMA HonestSendSet ==
    ASSUME ShellOK, HonestOK, SendSet
    PROVE  HonestOK' /\ UNCHANGED <<applied, answer>>
  <1>0. CommandOK /\ Tickets /\ ShTyped /\ Args
    BY DEF ShellOK, CommandOK
  <1> DEFINE new == [op |-> sh.op, name |-> sh.arg, val |-> sh.val]
  <1>1. /\ sh.phase = "get" /\ applied[sh.op] = 0 /\ answer[sh.op] = "none" /\ ack[sh.op] = "none"
        /\ \A w \in air : w.op # sh.op
    BY DEF SendSet, HonestOK
  <1>2. /\ UNCHANGED <<applied, answer, ack>> /\ air' = air \cup {new}
        /\ sh'.op = sh.op /\ sh'.phase = "set"
    BY <1>0 DEF SendSet, ShTyped
  <1>3. new.op = sh.op
    OBVIOUS
  <1>4. sh.op <= sh.op
    <2>1. sh.op \in Nat
      BY <1>0, ShellAssumption DEF ShTyped
    <2> QED BY <2>1
  <1> HIDE DEF new
  <1>5. HonestOK'
    BY <1>1, <1>2, <1>3, <1>4 DEF HonestOK
  <1> QED BY <1>2, <1>5

LEMMA HonestShellStep ==
    ASSUME ShellOK, HonestOK, ShellStep
    PROVE  HonestOK' /\ (Operation!Next \/ UNCHANGED <<applied, answer>>)
  <1>0. CommandOK /\ Tickets /\ ShTyped /\ Args
    BY DEF ShellOK, CommandOK
  <1>1. CASE LocalSet \/ SendSet
    BY <1>1, HonestLocalSet, HonestSendSet
  <1>2. CASE \/ LocalTables \/ CollectNames \/ ListTables \/ VisitTable \/ VisitAll \/ PrintTables \/ WalkFails
             \/ PrintWindow \/ WindowFails \/ GetAnswered
    <2>1. UNCHANGED <<air, ack, applied, answer>>
      BY <1>2 DEF LocalTables, CollectNames, ListTables, VisitTable, VisitAll, PrintTables, WalkFails,
             PrintWindow, WindowFails, GetAnswered, Walk, NoWire, link
    <2>2. sh'.op = sh.op /\ sh.phase # "done" /\ sh'.phase \in {"done", "window", "visit"}
      BY <1>0, <1>2, ZenonT(60) DEF LocalTables, CollectNames, ListTables, VisitTable, VisitAll, PrintTables, WalkFails,
             PrintWindow, WindowFails, GetAnswered, Walk, NextWindow, End, ShTyped
    <2> QED BY <2>1, <2>2, HonestUnmoved
  <1>3. CASE LocalRow
    <2>1. sh.phase = "row" /\ UNCHANGED <<air, ack, applied>> /\ sh'.op = sh.op /\ sh'.kind = sh.kind
      BY <1>0, <1>3 DEF LocalRow, link, End, ShTyped
    <2>2. CASE sh.kind = "set"
      <3>1. Len(sh.rows) = 0 /\ Len(sh.names) = 1
        <4>1. sh.names = <<sh.arg>> /\ Len(sh.rows) < Len(sh.names) /\ sh.rows \in Seq(Row)
          BY <1>0, <2>1, <2>2 DEF Args, CommandOK, AtRow, ShTyped
        <4>2. Len(sh.names) = 1
          BY <4>1
        <4>3. Len(sh.rows) \in Nat
          BY <4>1
        <4> QED BY <4>1, <4>2, <4>3
      <3>2. sh'.phase = "done"
        <4> DEFINE p == sh.names[Len(sh.rows) + 1]
                   row == [name |-> p, value |-> cells'[Here][p]]
                   rows == Append(sh.rows, row)
        <4>1. IF Len(rows) = Len(sh.names) THEN End(rows, "ok") ELSE sh' = [sh EXCEPT !.rows = rows]
          BY <1>3 DEF LocalRow
        <4>2. sh.rows \in Seq(Row)
          BY <1>0 DEF ShTyped
        <4> HIDE DEF row
        <4>3. Len(rows) = Len(sh.rows) + 1
          BY <4>2
        <4> HIDE DEF rows
        <4>4. Len(rows) = Len(sh.names)
          BY <3>1, <4>3
        <4>5. End(rows, "ok")
          BY <4>1, <4>4
        <4> QED BY <1>0, <4>5 DEF End, ShTyped
      <3>3. applied[sh.op] = 1 /\ Answered("yes")
        BY <1>3, <2>1, <2>2 DEF LocalRow, HonestOK
      <3>4. \A w \in air : w.op # sh.op
        BY <3>3 DEF HonestOK
      <3> QED BY <2>1, <3>2, <3>3, <3>4, HonestAnswers
    <2>3. CASE sh.kind # "set"
      <3>1. answer' = answer /\ sh'.phase \in {"row", "done"}
        BY <1>0, <1>3, <2>1, <2>3 DEF LocalRow, End, ShTyped
      <3> QED BY <2>1, <2>3, <3>1, HonestUnmoved
    <2> QED BY <2>2, <2>3
  <1>4. CASE LocalSetRefused \/ TextRefused
    <2>1. /\ sh.phase \in {"local_set", "get"} /\ Answered("no") /\ UNCHANGED <<air, ack, applied>>
          /\ sh'.op = sh.op /\ sh'.phase = "done"
      BY <1>0, <1>4 DEF LocalSetRefused, TextRefused, End, ShTyped, link
    <2>2. applied[sh.op] = 0 /\ \A w \in air : w.op # sh.op
      BY <2>1 DEF HonestOK
    <2> QED BY <2>1, <2>2, HonestAnswers
  <1>5. CASE GetFails \/ SetFails
    <2>1. /\ sh.phase \in {"get", "set"} /\ UNCHANGED <<air, ack, applied>> /\ sh'.op = sh.op /\ sh'.phase = "done"
          /\ Answered("unknown") \/ answer' = answer
      BY <1>0, <1>5 DEF GetFails, SetFails, End, ShTyped, link
    <2>2. CASE Answered("unknown")
      BY <2>1, <2>2, HonestAnswers
    <2>3. CASE answer' = answer
      BY <2>1, <2>3, HonestUnmoved
    <2> QED BY <2>1, <2>2, <2>3
  <1>6. CASE SetAnswered
    <2>1. /\ sh.phase = "set" /\ Answered(ack[sh.op]) /\ UNCHANGED <<air, ack, applied>>
          /\ sh'.op = sh.op /\ sh'.phase = "done" /\ ack[sh.op] # "none" /\ sh.op \in Ops
      BY <1>0, <1>6 DEF SetAnswered, End, ShTyped, link, Args
    <2>2. ack[sh.op] \in {"yes", "no"}
      BY <1>0, <2>1 DEF Tickets
    <2>3. /\ ack[sh.op] = "yes" => applied[sh.op] = 1
          /\ ack[sh.op] = "no" => applied[sh.op] = 0
          /\ \A w \in air : w.op # sh.op
      BY <2>1 DEF HonestOK
    <2>4. ack[sh.op] \in {"yes", "no", "unknown"} /\ sh.phase # "done"
      BY <2>1, <2>2
    <2> QED BY <2>1, <2>3, <2>4, HonestAnswers
  <1> QED BY <1>1, <1>2, <1>3, <1>4, <1>5, <1>6 DEF ShellStep

LEMMA HonestNext ==
    ASSUME ShellOK, HonestOK, [Next]_vars
    PROVE  HonestOK' /\ [Operation!Next]_Operation!vars
  <1>1. CASE Typed
    BY <1>1, HonestTyped DEF Operation!vars
  <1>2. CASE ShellStep
    BY <1>2, HonestShellStep DEF Operation!vars
  <1>3. CASE Environment
    <2>1. CASE \E w \in air : NodeApplies(w) \/ NodeRefuses(w)
      BY <2>1, HonestNodeApplies, HonestNodeRefuses DEF Operation!vars
    <2>2. CASE ~ \E w \in air : NodeApplies(w) \/ NodeRefuses(w)
      <3>1. UNCHANGED <<sh, air, ack, applied, answer>>
        BY <1>3, <2>2, ZenonT(60) DEF Environment, NodeSamples, OtherWrites, Traffic, NoConnection, Fed, DriverSilent,
               Filesystem, cmd_csp_debug, cmd_csp_rdp, cmd_csp_counters, SourceChanges, link
      <3> QED BY <3>1, HonestUnmoved, SMTT(40) DEF Operation!vars
    <2> QED BY <2>1, <2>2
  <1>4. CASE UNCHANGED vars
    BY <1>4, HonestUnmoved DEF Operation!vars, vars, link
  <1> QED BY <1>1, <1>2, <1>3, <1>4 DEF Next

\* A set takes effect at most once and means what it prints: a value, that the
\* node took it; a refusal, that it did not and never will, however late the write
\* arrives; no answer, neither.  The shell implements RemoteOperation.
THEOREM SetsAreHonest == Spec => SetIsHonest
  <1>1. Init => HonestOK /\ Operation!Init
    BY DEF Init, HonestOK, Operation!Init
  <1>2. ShellOK /\ HonestOK /\ [Next]_vars => HonestOK' /\ [Operation!Next]_Operation!vars
    BY HonestNext
  <1> QED BY <1>1, <1>2, ShellIsOK, PTL DEF Spec, SetIsHonest, Operation!Spec
=============================================================================
