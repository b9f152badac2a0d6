----------------------------- MODULE SmartHandler -----------------------------
(***************************************************************************)
(* The judgements smart_handler.py makes from the SMART tables of a volume:*)
(* which of the scratch, main and backup tables is believed, the health    *)
(* score and its recommendation (--type=smart), and the weighted           *)
(* degradation (--type=trends).  Pure functions of their input: there is   *)
(* no state.  Floating-point numbers are integers in a named unit: the     *)
(* score in tenths, z-scores in hundredths (rounded down); comparisons of  *)
(* ratios are multiplied out.                                              *)
(***************************************************************************)
EXTENDS Integers

TableName == {"scratch", "main", "backup"}
ErrorMetric == {"read_errors", "write_errors", "checksum_mismatch"}
Metric == ErrorMetric \cup {"relocations"}
Table == [seq : Nat, ops : Nat, mounts : Nat, clean : BOOLEAN,
          counters : [Metric -> Nat]]

(* The tables given: the caller leaves out one whose checksum has failed.  *)
Tables == UNION {[V -> Table] : V \in SUBSET TableName}

Newer(t, n, m) == IF t[n].seq > t[m].seq THEN n ELSE m

(* reconcile_smart_tables: the table to believe, and what it says of them. *)
PrimaryTable(t) ==
  LET valid == DOMAIN t
      both == Newer(t, "backup", "main")
  IN IF {"main", "backup"} \subseteq valid
     THEN IF "scratch" \in valid THEN Newer(t, "scratch", both) ELSE both
     ELSE IF "main" \in valid THEN "main"
     ELSE IF "backup" \in valid THEN "backup"
     ELSE IF "scratch" \in valid THEN "scratch" ELSE "none"

Consistency(t) ==
  LET valid == DOMAIN t IN
  IF {"main", "backup"} \cap valid = {} THEN "critical"
  ELSE IF ~({"main", "backup"} \subseteq valid) THEN "main_backup_mismatch"
  ELSE IF PrimaryTable(t) = "scratch" THEN "scratch_mismatch" ELSE "ok"

-----------------------------------------------------------------------------
(* compute_health_score, in tenths of a point.                             *)
Capped(x, lo, hi) == IF x < lo THEN lo ELSE IF x > hi THEN hi ELSE x
Errors(p) == p.counters["read_errors"] + p.counters["write_errors"]
               + p.counters["checksum_mismatch"]

(* The error ratio is above 1/n.                                           *)
RatioAbove(p, n) == p.ops > 0 /\ Errors(p) * n > p.ops

ErrorLoss(p) == IF RatioAbove(p, 1000) THEN 400
                ELSE IF RatioAbove(p, 10000) THEN 200 ELSE 0
MountLoss(p) == IF p.mounts > 1000 THEN 50 ELSE IF p.mounts > 500 THEN 20 ELSE 0

HealthScore(p) ==
  Capped(1000 - ErrorLoss(p) - Capped(p.counters["relocations"], 0, 200)
           + (IF p.clean THEN 50 ELSE -100) - MountLoss(p), 0, 1000)

Recommendation(score) ==
  IF score >= 900 THEN "none" ELSE IF score >= 600 THEN "monitor"
  ELSE IF score >= 400 THEN "backup" ELSE IF score >= 200 THEN "emergency"
  ELSE "replace_drive"

(* run_smart, the part of the answer that is acted upon.                   *)
RunSmart(t) ==
  LET name == PrimaryTable(t)
      score == IF name = "none" THEN 0 ELSE HealthScore(t[name])
  IN [score |-> score, emergency |-> score < 400,
      recommendation |-> Recommendation(score),
      consistency |-> Consistency(t), primary |-> name,
      bonus |-> Capped((score - 500) \div 50, 0, 10)]

-----------------------------------------------------------------------------
(* compute_trend_signal.  a holds the average and the standard deviation   *)
(* of the metrics that have a history.                                     *)
Averages == UNION {[M -> [average : Int, std_dev : Nat]] : M \in SUBSET Metric}

Weight(m) == IF m = "relocations" THEN 5 ELSE IF m = "checksum_mismatch" THEN 3 ELSE 1

Known(a, m) == m \in DOMAIN a /\ a[m].std_dev # 0
ZScore(p, a, m) == ((p.counters[m] - a[m].average) * 100) \div a[m].std_dev

(* max(0.0, z): only what is worse than the average counts.                *)
Degraded(p, a, m) == IF ZScore(p, a, m) > 0 THEN ZScore(p, a, m) ELSE 0

Total(F(_)) == F("relocations") + F("checksum_mismatch")
                 + F("read_errors") + F("write_errors")
KnownWeight(a) == Total(LAMBDA m : IF Known(a, m) THEN Weight(m) ELSE 0)
WeightedSum(p, a) ==
  Total(LAMBDA m : IF Known(a, m) THEN Weight(m) * Degraded(p, a, m) ELSE 0)

(* The weighted degradation is above x hundredths.                         *)
Above(p, a, x) == KnownWeight(a) > 0 /\ WeightedSum(p, a) > x * KnownWeight(a)
Below(p, a, x) == KnownWeight(a) > 0 /\ WeightedSum(p, a) < x * KnownWeight(a)

Trend(p, a) ==
  IF KnownWeight(a) = 0 THEN "unknown"
  ELSE IF Above(p, a, 100) THEN "degrading"
  ELSE IF Below(p, a, -25) THEN "improving" ELSE "stable"

(* run_trends, without the signals layer, whose inputs do not exist yet.   *)
RunTrends(t, a) ==
  LET name == PrimaryTable(t) IN
  IF name = "none" THEN [trend |-> "unknown", emergency |-> TRUE, caution |-> TRUE]
  ELSE [trend |-> Trend(t[name], a), emergency |-> Above(t[name], a, 200),
        caution |-> Above(t[name], a, 100)]

=============================================================================
