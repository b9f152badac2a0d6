-------------------------- MODULE SmartHandlerProofs --------------------------
(***************************************************************************)
(* What smart_handler.py can and cannot answer, for every input.           *)
(***************************************************************************)
EXTENDS SmartHandler, TLAPS

LEMMA TableFields ==
  ASSUME NEW p \in Table
  PROVE  /\ p.seq \in Nat /\ p.ops \in Nat /\ p.mounts \in Nat /\ p.clean \in BOOLEAN
         /\ \A m \in Metric : p.counters[m] \in Nat
BY DEF Table

(* The table believed is one that was given, if any was.                   *)
LEMMA PrimaryIsValid ==
  ASSUME NEW t \in Tables
  PROVE  /\ PrimaryTable(t) = "none" <=> DOMAIN t = {}
         /\ PrimaryTable(t) # "none" => /\ PrimaryTable(t) \in DOMAIN t
                                        /\ t[PrimaryTable(t)] \in Table
<1>1. PICK V \in SUBSET TableName : t \in [V -> Table]
  BY DEF Tables
<1>2. DOMAIN t = V /\ \A n \in V : t[n] \in Table
  BY <1>1
<1>3. PrimaryTable(t) = "none" <=> V = {}
  BY <1>2 DEF PrimaryTable, Newer, TableName
<1>4. PrimaryTable(t) # "none" => PrimaryTable(t) \in V
  BY <1>2 DEF PrimaryTable, Newer, TableName
<1> QED BY <1>2, <1>3, <1>4

(* smart_handler.py:140-153: when the main and the backup table are both   *)
(* valid no valid table has a higher sequence than the one believed.  With *)
(* one of them lost the scratch table is not looked at, even if newer.     *)
THEOREM NewestIsBelieved ==
  ASSUME NEW t \in Tables, {"main", "backup"} \subseteq DOMAIN t,
         NEW n \in DOMAIN t
  PROVE  t[n].seq <= t[PrimaryTable(t)].seq
<1>1. PICK V \in SUBSET TableName : t \in [V -> Table]
  BY DEF Tables
<1>2. n \in TableName /\ DOMAIN t = V /\ \A m \in V : t[m].seq \in Nat
  BY <1>1, TableFields
<1> QED BY <1>2 DEF PrimaryTable, Newer, TableName

-----------------------------------------------------------------------------
LEMMA ScoreParts ==
  ASSUME NEW p \in Table
  PROVE  /\ Errors(p) \in Nat /\ p.counters["relocations"] \in Nat
         /\ ErrorLoss(p) \in {0, 200, 400} /\ MountLoss(p) \in {0, 20, 50}
         /\ Capped(p.counters["relocations"], 0, 200) \in 0..200
         /\ HealthScore(p) \in 250..1000
<1>1. Errors(p) \in Nat /\ p.counters["relocations"] \in Nat
  BY TableFields DEF Errors, Metric, ErrorMetric
<1>2. ErrorLoss(p) \in {0, 200, 400} /\ MountLoss(p) \in {0, 20, 50}
  BY DEF ErrorLoss, MountLoss
<1>3. Capped(p.counters["relocations"], 0, 200) \in 0..200
  BY <1>1 DEF Capped
<1>4. HealthScore(p) \in 250..1000
  <2> DEFINE e == ErrorLoss(p)
             r == Capped(p.counters["relocations"], 0, 200)
             u == IF p.clean THEN 50 ELSE -100
             m == MountLoss(p)
  <2>1. e \in 0..400 /\ r \in 0..200 /\ u \in -100..50 /\ m \in 0..50
    BY <1>2, <1>3
  <2>2. HealthScore(p) = Capped(1000 - e - r + u - m, 0, 1000)
    BY DEF HealthScore
  <2> HIDE DEF e, r, u, m
  <2>3. 1000 - e - r + u - m \in 250..1050
    BY <2>1
  <2> QED BY <2>2, <2>3 DEF Capped
<1> QED BY <1>1, <1>2, <1>3, <1>4

LEMMA Answers ==
  ASSUME NEW t
  PROVE  LET name == PrimaryTable(t)
             score == IF name = "none" THEN 0 ELSE HealthScore(t[name])
         IN /\ RunSmart(t).recommendation = Recommendation(score)
            /\ RunSmart(t).emergency <=> score < 400
BY Zenon DEF RunSmart

(* smart_handler.py:183-196: the losses of a table add up to 75 points at  *)
(* most, so the lowest recommendation, "replace_drive", is only given when *)
(* no table is valid, whatever the tables count.                           *)
THEOREM ReplaceOnlyWithoutTable ==
  ASSUME NEW t \in Tables
  PROVE  RunSmart(t).recommendation = "replace_drive" <=> DOMAIN t = {}
<1>1. CASE PrimaryTable(t) = "none"
  BY <1>1, PrimaryIsValid, Answers DEF Recommendation
<1>2. CASE PrimaryTable(t) # "none"
  <2> DEFINE score == HealthScore(t[PrimaryTable(t)])
  <2>1. t[PrimaryTable(t)] \in Table /\ DOMAIN t # {}
    BY <1>2, PrimaryIsValid
  <2>2. score \in 250..1000
    BY <2>1, ScoreParts
  <2>3. RunSmart(t).recommendation = Recommendation(score)
    BY <1>2, Answers
  <2> HIDE DEF score
  <2>4. Recommendation(score) # "replace_drive"
    BY <2>2 DEF Recommendation
  <2> QED BY <2>1, <2>3, <2>4
<1> QED BY <1>1, <1>2

(* The emergency flag of a table takes all three: errors in more than one  *)
(* of a thousand operations, more than fifty relocations, and no clean     *)
(* unmount.  A drive that fails in two of these ways raises none.          *)
THEOREM EmergencyTakesAll ==
  ASSUME NEW t \in Tables, DOMAIN t # {}, RunSmart(t).emergency
  PROVE  LET p == t[PrimaryTable(t)] IN
         RatioAbove(p, 1000) /\ p.counters["relocations"] > 50 /\ ~p.clean
<1> DEFINE p == t[PrimaryTable(t)]
<1>1. p \in Table /\ HealthScore(p) < 400
  BY PrimaryIsValid, Answers
<1>2. p.clean \in BOOLEAN
  BY <1>1, TableFields
<1> HIDE DEF p
<1>3. ErrorLoss(p) + Capped(p.counters["relocations"], 0, 200) + MountLoss(p)
        > 600 + (IF p.clean THEN 50 ELSE -100)
  BY <1>1, <1>2, ScoreParts DEF HealthScore, Capped
<1>4. ErrorLoss(p) = 400 /\ ~p.clean
  BY <1>1, <1>2, <1>3, ScoreParts
<1>5. Capped(p.counters["relocations"], 0, 200) > 50
  BY <1>1, <1>3, <1>4, ScoreParts
<1>6. p.counters["relocations"] > 50
  BY <1>1, <1>5, ScoreParts DEF Capped
<1> QED BY <1>4, <1>6 DEF ErrorLoss, p

-----------------------------------------------------------------------------
LEMMA WeightsAreNatural ==
  ASSUME NEW a \in Averages, NEW p \in Table
  PROVE  KnownWeight(a) \in Nat /\ WeightedSum(p, a) \in Nat
<1>1. PICK M \in SUBSET Metric : a \in [M -> [average : Int, std_dev : Nat]]
  BY DEF Averages
<1>2. ASSUME NEW m \in Metric, Known(a, m) PROVE Degraded(p, a, m) \in Nat
  <2>1. /\ a[m].average \in Int /\ a[m].std_dev \in Nat /\ a[m].std_dev # 0
        /\ p.counters[m] \in Int
    BY <1>1, <1>2, TableFields DEF Known
  <2>2. (p.counters[m] - a[m].average) * 100 \in Int
    BY <2>1
  <2>3. ZScore(p, a, m) \in Int
    BY <2>1, <2>2 DEF ZScore
  <2> QED BY <2>3 DEF Degraded
<1> DEFINE W(m) == IF Known(a, m) THEN Weight(m) ELSE 0
           D(m) == IF Known(a, m) THEN Weight(m) * Degraded(p, a, m) ELSE 0
<1>3. \A m \in Metric : Weight(m) \in Nat
  BY DEF Weight
<1>4. \A m \in Metric : W(m) \in Nat /\ D(m) \in Nat
  BY <1>2, <1>3
<1>5. KnownWeight(a) = W("relocations") + W("checksum_mismatch")
                         + W("read_errors") + W("write_errors")
  BY DEF KnownWeight, Total
<1>6. WeightedSum(p, a) = D("relocations") + D("checksum_mismatch")
                            + D("read_errors") + D("write_errors")
  BY DEF WeightedSum, Total
<1> HIDE DEF W, D
<1> QED BY <1>4, <1>5, <1>6 DEF Metric, ErrorMetric

(* smart_handler.py:321,329: z-scores below zero are cut off before they   *)
(* are weighted, so the degradation is never below IMPROVING_THRESHOLD and *)
(* a drive that does better than its history is called stable.             *)
THEOREM TrendNeverImproves ==
  ASSUME NEW t \in Tables, NEW a \in Averages
  PROVE  RunTrends(t, a).trend \in {"unknown", "degrading", "stable"}
<1>1. CASE PrimaryTable(t) = "none"
  BY <1>1 DEF RunTrends
<1>2. CASE PrimaryTable(t) # "none"
  <2> DEFINE p == t[PrimaryTable(t)]
  <2>1. KnownWeight(a) \in Nat /\ WeightedSum(p, a) \in Nat
    BY <1>2, PrimaryIsValid, WeightsAreNatural
  <2> HIDE DEF p
  <2>2. ~Below(p, a, -25)
    BY <2>1 DEF Below
  <2>3. Trend(p, a) \in {"unknown", "degrading", "stable"}
    BY <2>2 DEF Trend
  <2> QED BY <1>2, <2>3 DEF RunTrends, p
<1> QED BY <1>1, <1>2

(* The allocator's signals agree: emergency mode never without caution,    *)
(* and caution exactly when the trend is degrading, if a table is valid.   *)
THEOREM EmergencyIsDegrading ==
  ASSUME NEW t \in Tables, NEW a \in Averages
  PROVE  LET r == RunTrends(t, a) IN
         /\ r.emergency => r.caution
         /\ DOMAIN t # {} => (r.caution <=> r.trend = "degrading")
<1>1. CASE PrimaryTable(t) = "none"
  BY <1>1, PrimaryIsValid DEF RunTrends
<1>2. CASE PrimaryTable(t) # "none"
  <2> DEFINE p == t[PrimaryTable(t)]
  <2>1. KnownWeight(a) \in Nat /\ WeightedSum(p, a) \in Nat
    BY <1>2, PrimaryIsValid, WeightsAreNatural
  <2> HIDE DEF p
  <2>2. Above(p, a, 200) => Above(p, a, 100)
    BY <2>1 DEF Above
  <2>3. Above(p, a, 100) <=> Trend(p, a) = "degrading"
    BY <2>1 DEF Above, Trend
  <2> QED BY <1>2, <2>2, <2>3 DEF RunTrends, p
<1> QED BY <1>1, <1>2

=============================================================================
