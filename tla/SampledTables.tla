--------------------------- MODULE SampledTables ---------------------------
(***************************************************************************)
(* The tables of app/src/parameters whose values are sampled when they are *)
(* read.  A node has sources (the CSP stack, the filesystem, the watchdog  *)
(* driver) and cells, the static variables behind the parameters.  Reading *)
(* a parameter runs its sampler, which refreshes the cells of a whole      *)
(* group; the value handed out is then the one in the cell.                *)
(***************************************************************************)
EXTENDS Integers, Sequences, FiniteSets, Functions

CONSTANTS
    UINT32,       \* counters wrap here
    KB,           \* bytes in the unit that sizes are shown in
    Bitrates      \* what kfsw_can_bitrate_supported() accepts

\* Parameters that share a sampler and a rule are alike: each table names one or
\* two of every such group, and all of those that stand alone.
BoardTable == <<"node_id", "csp_enabled", "can_speed">>
TelemetryTable == <<"uptime_s", "fs_total_kb", "fs_free_kb", "csp_buf_free", "fs_mounted">>
CspTable ==
    <<"tx_packets", "dropped", "interfaces", "conn_out", "last_error", "rdp_trace",
      "packet_trace", "route_table", "router_running">>
StorageTable == <<"total_kb", "free_kb", "used_pct", "mounted">>
WatchdogTable == <<"timeout_ms", "feeds", "since_feed_ms", "device_bound">>

\* The tables in the order of their ids.
Definitions == <<BoardTable, TelemetryTable, CspTable, StorageTable, WatchdogTable>>
TableIds == DOMAIN Definitions
Params == UNION {Range(Definitions[t]) : t \in TableIds}
Writable == {"can_speed", "rdp_trace", "packet_trace"}

TotalNames == {"tx_packets", "dropped"}
ErrorNames == {"conn_out", "last_error"}
IdentityNames == {"node_id"}

Bit(b) == IF b THEN 1 ELSE 0

----------------------------------------------------------------------------
(* The samplers: each yields the cells that it writes. *)

\* accumulate_interface() over every interface
sample_totals(s) ==
    [n \in TotalNames \cup {"interfaces"} |->
        IF n = "interfaces" THEN IF Len(s.ifs) < 255 THEN Len(s.ifs) ELSE 255
        ELSE SumFunction([i \in DOMAIN s.ifs |-> s.ifs[i][n]]) % UINT32]

sample_counters(s) == s.errs

\* A plausible defect: the error path leaves the state as it was, too.
sample_watchdog_keeps_bound(s) == IF s.wdOk THEN s.wd ELSE <<>>

\* When the driver does not answer, all but device_bound stays as it was.
sample_watchdog(s) == IF s.wdOk THEN s.wd ELSE [device_bound |-> 0]

\* telemetry_table.c has a sampler of its own for the same source.
sample_fs(s) ==
    IF s.fs.ok
    THEN [fs_mounted |-> Bit(s.fs.ready), fs_free_kb |-> s.fs.free \div KB,
          fs_total_kb |-> s.fs.total \div KB]
    ELSE [fs_mounted |-> 0, fs_free_kb |-> 0, fs_total_kb |-> 0]

\* Zero while unmounted, not 100% used.
sample_storage(s) ==
    IF s.fs.ok
    THEN [mounted |-> Bit(s.fs.ready), total_kb |-> s.fs.total \div KB,
          free_kb |-> s.fs.free \div KB,
          used_pct |-> IF s.fs.total = 0 \/ s.fs.free > s.fs.total THEN 0
                       ELSE ((s.fs.total - s.fs.free) * 100) \div s.fs.total]
    ELSE [mounted |-> 0, total_kb |-> 0, free_kb |-> 0, used_pct |-> 0]

\* Values with a sampler of their own.  The identities in use fit their cells.
SingleNames == {"rdp_trace", "packet_trace", "router_running", "uptime_s", "csp_buf_free", "can_speed"}
                   \cup IdentityNames
sample_single(p, s) ==
    CASE p = "rdp_trace" -> s.rdp
      [] p = "packet_trace" -> Bit(s.packet)
      [] p = "router_running" -> Bit(s.router)
      [] p = "uptime_s" -> s.uptime
      [] p = "csp_buf_free" -> s.buffers
      [] p = "can_speed" -> s.can
      [] p \in IdentityNames -> s.id[p]

\* The cells that reading p refreshes; a switch of the build has no sampler.
refresh(p, s) ==
    CASE p \in TotalNames \cup {"interfaces"} -> sample_totals(s)
      [] p \in ErrorNames -> sample_counters(s)
      [] p \in Range(WatchdogTable) -> sample_watchdog(s)
      [] p \in {"fs_total_kb", "fs_free_kb", "fs_mounted"} -> sample_fs(s)
      [] p \in Range(StorageTable) -> sample_storage(s)
      [] p \in SingleNames -> [q \in {p} |-> sample_single(p, s)]
      [] OTHER -> <<>>

\* The cells of a node after p was read from source s.
Sampled(p, s, cells) ==
    LET new == refresh(p, s) IN [q \in DOMAIN cells |-> IF q \in DOMAIN new THEN new[q] ELSE cells[q]]

----------------------------------------------------------------------------
(* Writes. *)

\* validate_rdp_trace(), validate_packet_trace(), validate_can_speed(); the
\* parameter service refuses a read-only parameter before it validates.
Accepts(p, v) ==
    \/ p = "rdp_trace" /\ v <= 2
    \/ p = "packet_trace" /\ v <= 1
    \/ p = "can_speed" /\ v \in Bitrates

\* apply_rdp_trace(), apply_packet_trace(), changed_can_speed(): the sources that
\* a stored value may lead to.  The result of the CAN driver is not looked at.
Effects(p, v, s) ==
    CASE p = "rdp_trace" -> {[s EXCEPT !.rdp = v]}
      [] p = "packet_trace" -> {[s EXCEPT !.packet = v # 0]}
      [] p = "can_speed" -> {s, [s EXCEPT !.can = v]}
=============================================================================
