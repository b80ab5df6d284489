---------------------------- MODULE Configuration ----------------------------
(***************************************************************************)
(* The configuration (config.py), and what its users need of it. A         *)
(* configuration is the part that differs from the defaults: a function    *)
(* from some keys, named as in the dataclasses, to values. Names, paths    *)
(* and networks are reduced to whether they can be used, "ok" or "bad".    *)
(* Numbers are integers; a value of another type makes the comparisons of  *)
(* validate_config raise, with the same outcome as a file that does not    *)
(* parse.                                                                  *)
(***************************************************************************)
EXTENDS Integers

(* The dataclasses. *)
DetectorsConfig ==
  [brute_force_threshold |-> 10, brute_force_window |-> 60,
   min_usernames |-> 3, max_attempts_per_user |-> 3, password_spray_window |-> 120,
   enumeration_threshold |-> 4, enumeration_window |-> 60,
   burst_threshold |-> 5, burst_window |-> 5]
RiskThresholds == [medium_threshold |-> 40, high_threshold |-> 70, critical_threshold |-> 85]
RiskWeights ==
  [failed_auth_weight |-> 5, invalid_user_weight |-> 10, burst_velocity_weight |-> 25,
   brute_force_weight |-> 20, password_spray_weight |-> 20, enumeration_weight |-> 20,
   max_attempts_weight |-> 20, repeat_offender_weight |-> 15]
ResponseConfig ==
  [mode |-> "dry_run", backend |-> "nftables", isolation_threshold |-> 85,
   rate_limit_threshold |-> 60, default_ban_duration |-> 900,
   repeat_offender_ban_duration |-> 3600, max_ban_duration |-> 86400,
   allowlist_cidrs |-> "ok", table_name |-> "ok"]
TelemetryConfig ==
  [source |-> "journald", journal_units |-> "ok", journal_identifier |-> "none",
   log_file_path |-> "none"]
DaemonIntervals ==
  [health_check_interval |-> 30, reconciliation_interval |-> 60, journal_retry_backoff |-> 5,
   max_collector_retries |-> 10]
DaemonLogging == [log_level |-> "INFO", log_format |-> "text"]
Default(k) ==
  CASE k = "config_version" -> 1
    [] k = "db_path" -> "ok"
    [] k \in DOMAIN DetectorsConfig -> DetectorsConfig[k]
    [] k \in DOMAIN RiskThresholds -> RiskThresholds[k]
    [] k \in DOMAIN RiskWeights -> RiskWeights[k]
    [] k \in DOMAIN ResponseConfig -> ResponseConfig[k]
    [] k \in DOMAIN TelemetryConfig -> TelemetryConfig[k]
    [] k \in DOMAIN DaemonIntervals -> DaemonIntervals[k]
    [] k \in DOMAIN DaemonLogging -> DaemonLogging[k]

Modes == {"dry_run", "manual", "automatic", "disabled"}
Sources == {"journald", "file", "stdin"}
LogLevels == {"DEBUG", "INFO", "WARNING", "ERROR", "CRITICAL"}

(* The keys whose values validate_config compares with numbers. *)
Numbers ==
  {"config_version", "isolation_threshold", "rate_limit_threshold", "default_ban_duration",
   "repeat_offender_ban_duration", "max_ban_duration"}
  \union DOMAIN DetectorsConfig \union DOMAIN RiskThresholds \union DOMAIN RiskWeights
  \union DOMAIN DaemonIntervals
NumbersAreNumbers(keys) == \A k \in Numbers \intersect DOMAIN keys : keys[k] \in Int

(* load_config: a key the file does not have takes its default. *)
Value(c, k) == IF k \in DOMAIN c THEN c[k] ELSE Default(k)

(* The first of $BASTION_CONFIG and the usual places that exists; a path   *)
(* given with --config has to.                                             *)
Finds(explicit, file) == file.there \/ ~explicit
Loads(explicit, file) == Finds(explicit, file) /\ (file.there => file.parses)
Loaded(file) == IF file.there THEN file.keys ELSE <<>>

(* The flags of `bastion daemon`; "none" stands for a flag not given. *)
LaunchMode(flags) ==
  IF flags.dry_run THEN "dry_run" ELSE IF flags.enforce THEN "automatic" ELSE flags.mode
Override(k, v, c) ==
  IF v = "none" THEN c ELSE [x \in DOMAIN c \union {k} |-> IF x = k THEN v ELSE c[x]]
(* _get_config_from_args. *)
WithCommonFlags(flags, c) == Override("backend", flags.backend, c)
(* command_daemon. *)
WithFlags(flags, c) ==
  Override("source", flags.source,
    Override("mode", LaunchMode(flags), WithCommonFlags(flags, c)))

DetectorsValid(c) == \A k \in DOMAIN DetectorsConfig : Value(c, k) > 0
RiskValid(c) ==
  /\ \A k \in DOMAIN RiskThresholds : Value(c, k) \in 0..100
  /\ Value(c, "medium_threshold") < Value(c, "high_threshold")
  /\ Value(c, "high_threshold") < Value(c, "critical_threshold")
  /\ \A k \in DOMAIN RiskWeights : Value(c, k) >= 0
ResponseValid(c) ==
  /\ Value(c, "mode") \in Modes /\ Value(c, "backend") \in {"nftables", "mock"}
  /\ Value(c, "rate_limit_threshold") \in 0..100 /\ Value(c, "isolation_threshold") \in 0..100
  /\ Value(c, "rate_limit_threshold") <= Value(c, "isolation_threshold")
  /\ 0 < Value(c, "default_ban_duration")
  /\ Value(c, "default_ban_duration") <= Value(c, "repeat_offender_ban_duration")
  /\ Value(c, "repeat_offender_ban_duration") <= Value(c, "max_ban_duration")
  /\ Value(c, "table_name") = "ok" /\ Value(c, "allowlist_cidrs") = "ok"
TelemetryValid(c) ==
  /\ Value(c, "source") \in Sources
  /\ Value(c, "source") = "file" => Value(c, "log_file_path") # "none"
  /\ Value(c, "source") = "journald" =>
       Value(c, "journal_units") # "none" \/ Value(c, "journal_identifier") # "none"
DaemonValid(c) ==
  /\ \A k \in DOMAIN DaemonIntervals : Value(c, k) > 0
  /\ Value(c, "log_level") \in LogLevels /\ Value(c, "log_format") \in {"text", "json"}
(* validate_config finds no error. *)
Valid(c) ==
  /\ Value(c, "config_version") >= 1 /\ Value(c, "db_path") = "ok"
  /\ DetectorsValid(c) /\ RiskValid(c) /\ ResponseValid(c) /\ TelemetryValid(c) /\ DaemonValid(c)

-----------------------------------------------------------------------------
(* What the daemon computes from a configuration. *)

(* The wait after the n-th failed attempt to open the journal in a row. *)
Least(a, b) == IF a <= b THEN a ELSE b
Backoff(c, n) == Least(60, Value(c, "journal_retry_backoff") * 2 ^ Least(n - 1, 4))

(* PolicyEngine: the duration of a temporary isolation. *)
BanDuration(c, failures) ==
  Least(IF failures >= 15 THEN Value(c, "repeat_offender_ban_duration")
        ELSE Value(c, "default_ban_duration"),
        Value(c, "max_ban_duration"))

(* initialize() chooses the collector, run() the loop that reads from it;  *)
(* only the journal's loop reconnects.                                     *)
Collector(c) ==
  CASE Value(c, "source") = "stdin" -> "stdin"
    [] Value(c, "source") = "file" /\ Value(c, "log_file_path") # "none" -> "file"
    [] OTHER -> "journald"
ReadOnce(c) == Value(c, "source") \in {"stdin", "file"}

(* The worker can compute `counter % interval` (runner.py:454) and its     *)
(* other conditions; a failed attempt is followed by a pause; a ban lasts, *)
(* and no longer than the maximum; ResponseMode(mode) exists; a journal    *)
(* stream is read by the loop that reconnects.                             *)
Usable(c) ==
  /\ Value(c, "health_check_interval") > 0 /\ Value(c, "reconciliation_interval") > 0
  /\ \A n \in 1..6 : Backoff(c, n) > 0
  /\ \A failures \in {0, 14, 15} : BanDuration(c, failures) \in 1..Value(c, "max_ban_duration")
  /\ Value(c, "mode") \in Modes
  /\ ReadOnce(c) <=> Collector(c) # "journald"
=============================================================================
