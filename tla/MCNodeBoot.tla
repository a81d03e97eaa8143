----------------------------- MODULE MCNodeBoot -----------------------------
(* The stages of main() in app/src/main.c, every feature compiled in. *)
EXTENDS NodeBoot

S(name, needs) == [name |-> name, needs |-> needs]

ArmStages == <<S("watchdog_init", {}), S("watchdog_start", {"watchdog_init"}), S("radio_info", {})>>

StorageStages ==
    <<S("storage", {}), S("boot_diagnostics", {}), S("confirm_image", {}), S("storage_tmp", {})>>

ParamStages ==
    <<S("param_init", {}), S("param_load", {"param_init"}), S("boot_count", {"param_init"}),
      S("param_save", {"param_load"})>>

ModuleStages == <<S("button_test", {}), S("fbo", {}), S("temp_example", {}), S("command", {})>>

CspStages ==
    <<S("crypto", {}), S("csp_init", {}), S("param_server", {"csp_init"}),
      S("csp_start", {"csp_init"}), S("crypto_connect", {"csp_start"})>>

ServerStages ==
    <<S("log_remote", {"csp_start"}), S("fwu_files", {}), S("ftp", {"csp_start"}),
      S("fwu_lite", {"csp_start"}), S("remexec", {}),
      S("remexec_server", {"remexec", "csp_start"}), S("command_server", {"csp_start"})>>

HkStages ==
    <<S("hk_init", {}), S("hk_restore", {"hk_init"}), S("hk_start", {"hk_init"}),
      S("hk_server", {"hk_init", "csp_start"})>>

MonitorStages == <<S("resmon", {}), S("scrub", {}), S("limits", {}), S("gndwdt", {})>>

\* A plausible change: the probe is started only when CSP was.
HealthStages_probe_needs_csp ==
    <<S("health_register", {}), S("csp_liveness", {"csp_start"}), S("health_start", {})>>

HealthStages == <<S("health_register", {}), S("csp_liveness", {}), S("health_start", {})>>

LastStages == <<S("supply_watch", {}), S("clock_from_host", {}), S("journal", {})>>

MainStages ==
    ArmStages \o StorageStages \o ParamStages \o ModuleStages \o CspStages
        \o ServerStages \o HkStages \o MonitorStages \o HealthStages \o LastStages

MainUncounted == {"crypto_connect", "supply_watch", "clock_from_host"}
MainMayBeAbsent == {"watchdog_init", "supply_watch"}
=============================================================================
