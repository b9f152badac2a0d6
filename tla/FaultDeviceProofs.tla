-------------------------- MODULE FaultDeviceProofs --------------------------
(***************************************************************************)
(* Proofs about FaultDevice, for every size of the device, every content   *)
(* and every length of the log: its crash images are the outcomes Medium   *)
(* allows, and it implements Medium.                                       *)
(***************************************************************************)
EXTENDS FaultDevice, FiniteSetTheorems, SequenceTheorems, WellFoundedInduction, TLAPS

-----------------------------------------------------------------------------
(* Least and greatest elements.  These stand in for induction: a statement *)
(* about every position of the log is proved at its first counterexample.  *)
LEMMA LeastNat ==
  ASSUME NEW T \in SUBSET Nat, T # {}
  PROVE  \E m \in T : \A n \in T : m <= n
<1> DEFINE R == OpToRel(<, Nat)
<1>1. IsWellFoundedOn(R, Nat)  BY NatLessThanWellFounded
<1>2. \A x \in Nat, y \in Nat : <<y, x>> \in R <=> y < x  BY DEF OpToRel
<1> HIDE DEF R
<1>3. T \subseteq Nat  OBVIOUS
<1>4. PICK x \in T : \A y \in T : ~ (<<y, x>> \in R)
  BY <1>1, <1>3, WFMin, T # {}, Zenon
<1>5. \A y \in T : y \in Nat /\ x \in Nat /\ ~ (y < x)
  BY <1>2, <1>4
<1> QED  BY <1>5

LEMMA Greatest ==
  ASSUME NEW n \in Nat, NEW T \in SUBSET (0 .. n), T # {}
  PROVE  Max(T) \in T /\ \A k \in T : k <= Max(T)
<1> DEFINE U == {b \in 0 .. n : \A k \in T : k <= b}
<1>1. n \in U  OBVIOUS
<1>2. PICK b \in U : \A c \in U : b <= c
  <2>1. U \in SUBSET Nat /\ U # {}  BY <1>1
  <2> HIDE DEF U
  <2> QED  BY <2>1, LeastNat
<1>3. b \in T
  <2> SUFFICES ASSUME b \notin T PROVE FALSE
    OBVIOUS
  <2>1. PICK k \in T : TRUE  OBVIOUS
  <2>2. b > 0  BY <2>1
  <2>3. b - 1 \in U  BY <2>2
  <2> QED  BY <1>2, <2>3
<1>4. \E x \in T : \A y \in T : x >= y
  BY <1>3
<1>5. Max(T) \in T /\ \A y \in T : Max(T) >= y
  BY <1>4 DEF Max
<1> QED  BY <1>5

-----------------------------------------------------------------------------
(* The log.                                                                *)
LogOp == {SyncOp} \cup {Write(W) : W \in Writes}
LogOK == log \in Seq(LogOp) /\ epochBase \in Image
Recorded == LogOK /\ Len(log) \in Nat

LEMMA WriteCovers == \A W \in Writes : DOMAIN W \subseteq Granule /\ \A g \in DOMAIN W : W[g] \in Data
BY SizeAssumption DEF Writes, Runs, Granule

LEMMA LogFacts ==
  ASSUME LogOK, NEW i \in 1 .. Len(log)
  PROVE  /\ DOMAIN log[i].data \subseteq Granule
         /\ \A g \in DOMAIN log[i].data : log[i].data[g] \in Data
         /\ log[i].op = "sync" => DOMAIN log[i].data = {}
<1>1. log[i] \in LogOp
  BY DEF LogOK
<1>2. CASE log[i] = SyncOp
  <2>1. log[i].data = <<>>  BY <1>2 DEF SyncOp
  <2>2. DOMAIN <<>> = {}  OBVIOUS
  <2> QED  BY <2>1, <2>2
<1>3. ASSUME NEW W \in Writes, log[i] = Write(W)
      PROVE  log[i].data = W /\ log[i].op = "write"
  BY <1>3 DEF Write
<1> QED  BY <1>1, <1>2, <1>3, WriteCovers DEF LogOp

(* LastSync is the last barrier of a prefix, or 0.                         *)
LEMMA LastSyncIs ==
  ASSUME NEW p \in Nat
  PROVE  /\ LastSync(p) \in 0 .. p
         /\ LastSync(p) # 0 => log[LastSync(p)].op = "sync"
         /\ \A i \in 1 .. p : log[i].op = "sync" => i <= LastSync(p)
<1> DEFINE T == {0} \cup {i \in 1 .. p : log[i].op = "sync"}
<1>1. T \in SUBSET (0 .. p) /\ T # {}  OBVIOUS
<1>2. LastSync(p) = Max(T)  BY DEF LastSync
<1>3. Max(T) \in T /\ \A k \in T : k <= Max(T)
  <2> HIDE DEF T
  <2> QED  BY <1>1, Greatest
<1> QED  BY <1>2, <1>3

LEMMA LastSyncUnique ==
  ASSUME NEW p \in Nat, NEW s \in 0 .. p, s # 0 => log[s].op = "sync",
         \A i \in 1 .. p : log[i].op = "sync" => i <= s
  PROVE  LastSync(p) = s
BY LastSyncIs

-----------------------------------------------------------------------------
(* The replay.  Every granule of a crash image holds the last of the       *)
(* writes of it that landed, or what was there when the recording began.   *)
Hits(i, p, K, g) == {j \in 1 .. i : g \in Landed(j, p, K)}
Replay(i, p, K) ==
  [g \in Granule |-> IF Hits(i, p, K, g) = {} THEN epochBase[g]
                     ELSE log[Max(Hits(i, p, K, g))].data[g]]

LEMMA HitsMax ==
  ASSUME NEW i \in Nat, NEW p, NEW K, NEW g, Hits(i, p, K, g) # {}
  PROVE  /\ Max(Hits(i, p, K, g)) \in Hits(i, p, K, g)
         /\ \A k \in Hits(i, p, K, g) : k <= Max(Hits(i, p, K, g))
<1>1. Hits(i, p, K, g) \in SUBSET (0 .. i)  BY DEF Hits
<1> QED  BY <1>1, Greatest

LEMMA ReplayStep ==
  ASSUME NEW p \in Nat, NEW K, NEW i \in 1 .. p
  PROVE  Replay(i, p, K) =
           Paint(Replay(i - 1, p, K), [g \in Landed(i, p, K) |-> log[i].data[g]])
<1> DEFINE H(g) == Hits(i, p, K, g)
           G(g) == Hits(i - 1, p, K, g)
<1>1. ASSUME NEW g \in Granule
      PROVE  Replay(i, p, K)[g] = IF g \in Landed(i, p, K) THEN log[i].data[g]
                                  ELSE Replay(i - 1, p, K)[g]
  <2>1. CASE g \in Landed(i, p, K)
    <3>1. i \in H(g) /\ \A k \in H(g) : k <= i /\ k \in Nat  BY <2>1 DEF Hits
    <3>2. Max(H(g)) = i
      <4>1. H(g) # {} /\ i \in Nat  BY <3>1
      <4>2. Max(H(g)) \in H(g) /\ \A k \in H(g) : k <= Max(H(g))  BY <4>1, HitsMax
      <4> QED  BY <3>1, <4>2
    <3> QED  BY <2>1, <3>1, <3>2 DEF Replay
  <2>2. CASE g \notin Landed(i, p, K)
    <3>1. H(g) = G(g)
      <4>1. \A j \in 1 .. i : g \in Landed(j, p, K) => j \in 1 .. (i - 1)
        BY <2>2
      <4>2. \A j \in 1 .. (i - 1) : j \in 1 .. i  OBVIOUS
      <4> QED  BY <4>1, <4>2 DEF Hits
    <3> QED  BY <2>2, <3>1 DEF Replay
  <2> QED  BY <2>1, <2>2
<1> HIDE DEF H, G
<1>2. Replay(i, p, K) = [g \in Granule |-> Replay(i, p, K)[g]]
  BY DEF Replay
<1> DEFINE L == Landed(i, p, K)
           D == log[i].data
           A == Replay(i, p, K)
           B == Replay(i - 1, p, K)
<1>3. A = [g \in Granule |-> A[g]] /\ \A g \in Granule : A[g] = IF g \in L THEN D[g] ELSE B[g]
  BY <1>1, <1>2
<1> HIDE DEF L, D, A, B
<1>4. A = Paint(B, [g \in L |-> D[g]])
  BY <1>3 DEF Paint
<1> QED  BY <1>4 DEF L, D, A, B

(* The recursion of crash_image has one solution, and it is Replay.        *)
LEMMA CrashImageIs ==
  ASSUME NEW p \in Nat, NEW K, epochBase \in Image
  PROVE  CrashImage(p, K) = Replay(p, p, K)
<1> DEFINE V(i) == [g \in Landed(i, p, K) |-> log[i].data[g]]
           E(f) == [i \in 0 .. p |-> IF i = 0 THEN epochBase ELSE Paint(f[i - 1], V(i))]
           f    == CHOOSE f : f = E(f)
           r    == [i \in 0 .. p |-> Replay(i, p, K)]
<1>1. CrashImage(p, K) = f[p]
  BY DEF CrashImage
<1>2. Replay(0, p, K) = epochBase
  <2>1. \A g : Hits(0, p, K, g) = {}  BY DEF Hits
  <2>2. epochBase = [g \in Granule |-> epochBase[g]]  BY DEF Image
  <2> QED  BY <2>1, <2>2 DEF Replay
<1>3. \A i \in 1 .. p : Replay(i, p, K) = Paint(Replay(i - 1, p, K), V(i))
  BY ReplayStep
<1> HIDE DEF V
<1>4. \A i \in 1 .. p : i - 1 \in 0 .. p  OBVIOUS
<1>5. r = E(r)
  <2>1. \A i \in 0 .. p : r[i] = IF i = 0 THEN epochBase ELSE Paint(r[i - 1], V(i))
    <3> SUFFICES ASSUME NEW i \in 0 .. p
                 PROVE  r[i] = IF i = 0 THEN epochBase ELSE Paint(r[i - 1], V(i))
      OBVIOUS
    <3>1. CASE i = 0  BY <1>2, <3>1
    <3>2. CASE i # 0
      <4>1. i \in 1 .. p  BY <3>2
      <4> QED  BY <1>3, <1>4, <3>2, <4>1
    <3> QED  BY <3>1, <3>2
  <2>2. r = [i \in 0 .. p |-> r[i]]  OBVIOUS
  <2> HIDE DEF r
  <2> QED  BY <2>1, <2>2
<1>6. f = E(f)
  <2> HIDE DEF r, E
  <2> QED  BY <1>5
<1>7. \A i \in 0 .. p : f[i] = Replay(i, p, K)
  <2> DEFINE T == {i \in 0 .. p : f[i] # Replay(i, p, K)}
  <2> HIDE DEF f
  <2> SUFFICES ASSUME T # {} PROVE FALSE
    OBVIOUS
  <2>1. PICK m \in T : \A n \in T : m <= n
    <3>1. T \in SUBSET Nat  OBVIOUS
    <3> HIDE DEF T
    <3> QED  BY <3>1, LeastNat
  <2>2. f[0] = epochBase  BY <1>6
  <2>3. m \in 1 .. p  BY <1>2, <2>2
  <2>4. f[m - 1] = Replay(m - 1, p, K)
    <3>1. m - 1 \in 0 .. p /\ ~ (m <= m - 1)  BY <2>3
    <3> QED  BY <2>1, <3>1
  <2>5. f[m] = Paint(f[m - 1], V(m))
    <3>1. m \in 0 .. p /\ m # 0  BY <2>3
    <3> QED  BY <1>6, <3>1
  <2> QED  BY <1>3, <2>3, <2>4, <2>5
<1> HIDE DEF f
<1> QED  BY <1>1, <1>7

-----------------------------------------------------------------------------
(***************************************************************************)
(* The inductive invariant: the two images kept beside the log are what    *)
(* the log says.  cache holds the last write of every granule, durable the *)
(* last one before the last barrier.                                       *)
(***************************************************************************)
Wrote(n, g)  == {j \in 1 .. n : g \in DOMAIN log[j].data}
Newest(n, g) == IF Wrote(n, g) = {} THEN epochBase[g]
                ELSE log[Max(Wrote(n, g))].data[g]

ImagesInv ==
  \A g \in Granule : /\ cache[g] = Newest(Len(log), g)
                     /\ durable[g] = Newest(LastSync(Len(log)), g)
BudgetInv == budget = {} \/ \E n \in Nat : budget = {n}

IInv ==
  /\ LogOK /\ cache \in Image /\ durable \in Image
  /\ ImagesInv /\ BudgetInv
  /\ Len(log) <= MaxOps /\ pokes \in 0 .. MaxPokes

LEMMA WroteMax ==
  ASSUME NEW n \in Nat, NEW g, Wrote(n, g) # {}
  PROVE  Max(Wrote(n, g)) \in Wrote(n, g) /\ \A k \in Wrote(n, g) : k <= Max(Wrote(n, g))
<1>1. Wrote(n, g) \in SUBSET (0 .. n)  BY DEF Wrote
<1> QED  BY <1>1, Greatest

LEMMA NoLog ==
  ASSUME Len(log) = 0
  PROVE  LastSync(Len(log)) = 0 /\ \A g : Newest(0, g) = epochBase[g]
<1>1. LastSync(0) \in 0 .. 0  BY LastSyncIs
<1>2. \A g : Wrote(0, g) = {}  BY DEF Wrote
<1> QED  BY <1>1, <1>2 DEF Newest

(* One more operation leaves every earlier prefix as it was.               *)
Logged(e) == log' = Append(log, e) /\ epochBase' = epochBase

LEMMA LogGrows ==
  ASSUME LogOK, NEW e \in LogOp, Logged(e)
  PROVE  /\ LogOK' /\ Len(log)' = Len(log) + 1 /\ Len(log) \in Nat
         /\ \A i \in 1 .. Len(log) : log'[i] = log[i]
         /\ log'[Len(log) + 1] = e
<1>1. /\ log' \in Seq(LogOp) /\ Len(log') = Len(log) + 1 /\ Len(log) \in Nat
      /\ \A i \in 1 .. Len(log) : log'[i] = log[i]
      /\ log'[Len(log) + 1] = e
  <2> HIDE DEF LogOp
  <2> QED  BY AppendProperties DEF Logged, LogOK
<1>2. LogOp' = LogOp  OBVIOUS
<1> QED  BY <1>1, <1>2 DEF Logged, LogOK

SyncsTrue ==
  \A p \in Nat : /\ LastSync(p) \in 0 .. p
                 /\ LastSync(p) # 0 => log[LastSync(p)].op = "sync"
                 /\ \A i \in 1 .. p : log[i].op = "sync" => i <= LastSync(p)
LEMMA LastSyncAll == SyncsTrue
BY LastSyncIs DEF SyncsTrue

LEMMA LastSyncPast ==
  ASSUME LogOK, NEW e \in LogOp, Logged(e), NEW p \in 0 .. Len(log)
  PROVE  LastSync(p)' = LastSync(p)
<1>1. SyncsTrue'
  BY LastSyncAll, PTL
<1> DEFINE s == LastSync(p)'
<1>2. Len(log) \in Nat /\ \A i \in 1 .. Len(log) : log'[i] = log[i]
  BY LogGrows
<1>3. p \in Nat  BY <1>2
<1>4. /\ s \in 0 .. p
      /\ s # 0 => log'[s].op = "sync"
      /\ \A i \in 1 .. p : log'[i].op = "sync" => i <= s
  BY <1>1, <1>3 DEF SyncsTrue
<1> HIDE DEF s
<1>5. /\ s # 0 => log[s].op = "sync"
      /\ \A i \in 1 .. p : log[i].op = "sync" => i <= s
  BY <1>2, <1>4
<1>6. LastSync(p) = s
  BY <1>3, <1>4, <1>5, LastSyncUnique
<1> QED  BY <1>6 DEF s

LEMMA NewestPast ==
  ASSUME LogOK, NEW e \in LogOp, Logged(e), NEW n \in 0 .. Len(log), NEW g \in Granule
  PROVE  Newest(n, g)' = Newest(n, g)
<1>1. Len(log) \in Nat /\ \A i \in 1 .. Len(log) : log'[i] = log[i]
  BY LogGrows
<1>2. Wrote(n, g)' = Wrote(n, g)
  BY <1>1 DEF Wrote
<1>3. Wrote(n, g) # {} => Max(Wrote(n, g)) \in 1 .. Len(log)
  <2>1. n \in Nat /\ 1 .. n \subseteq 1 .. Len(log)  BY <1>1
  <2> QED  BY <2>1, WroteMax DEF Wrote
<1> DEFINE S == Wrote(n, g)
<1>4. Newest(n, g)' = IF S' = {} THEN epochBase'[g] ELSE log'[Max(S')].data[g]
  BY DEF Newest
<1> HIDE DEF S
<1> QED  BY <1>1, <1>2, <1>3, <1>4 DEF Newest, S, Logged

LEMMA NewestNow ==
  ASSUME LogOK, NEW e \in LogOp, Logged(e), NEW g \in Granule,
         NEW n \in Nat, n = Len(log)
  PROVE  Newest(n + 1, g)' = IF g \in DOMAIN e.data THEN e.data[g] ELSE Newest(n, g)
<1> DEFINE S == Wrote(n + 1, g)'
<1>1. n \in Nat /\ \A i \in 1 .. n : log'[i] = log[i]
  BY LogGrows
<1>2. log'[n + 1] = e  BY LogGrows
<1>3. S = {j \in 1 .. (n + 1) : g \in DOMAIN log'[j].data}
  BY DEF Wrote
<1>4. Newest(n + 1, g)' = IF S = {} THEN epochBase'[g] ELSE log'[Max(S)].data[g]
  BY DEF Newest
<1> HIDE DEF S
<1>5. CASE g \in DOMAIN e.data
  <2>1. n + 1 \in S /\ S \in SUBSET (0 .. (n + 1)) /\ n + 1 \in Nat
        /\ \A k \in S : k <= n + 1 /\ k \in Nat
    BY <1>1, <1>2, <1>3, <1>5
  <2>2. Max(S) \in S /\ \A k \in S : k <= Max(S)
    BY <2>1, Greatest
  <2>3. Max(S) <= n + 1 /\ n + 1 <= Max(S) /\ Max(S) \in Nat
    BY <2>1, <2>2
  <2>4. Max(S) = n + 1  BY <2>3
  <2> QED  BY <1>2, <1>4, <1>5, <2>1, <2>4
<1>6. CASE g \notin DOMAIN e.data
  <2>1. S = Wrote(n, g)
    <3>1. \A j \in 1 .. (n + 1) : j \in 1 .. n \/ j = n + 1
      BY <1>1
    <3>2. \A j \in 1 .. n : j \in 1 .. (n + 1)  BY <1>1
    <3> QED  BY <1>1, <1>2, <1>3, <1>6, <3>1, <3>2 DEF Wrote
  <2>2. S # {} => Max(S) \in 1 .. n
    BY <1>1, <2>1, WroteMax DEF Wrote
  <2>3. epochBase' = epochBase  BY DEF Logged
  <2>4. Newest(n + 1, g)' = Newest(n, g)
    BY <1>1, <1>4, <2>1, <2>2, <2>3 DEF Newest
  <2> QED  BY <1>6, <2>4
<1> QED  BY <1>5, <1>6

-----------------------------------------------------------------------------
(* One lemma for every action.                                             *)
BaseOnly ==
  log = <<>> => /\ Len(log) = 0 /\ LastSync(Len(log)) = 0
                /\ \A g : Newest(Len(log), g) = epochBase[g]
LEMMA EmptyLog == BaseOnly
<1> SUFFICES ASSUME log = <<>>
             PROVE  /\ Len(log) = 0 /\ LastSync(Len(log)) = 0
                    /\ \A g : Newest(Len(log), g) = epochBase[g]
  BY DEF BaseOnly
<1>1. Len(log) = 0  OBVIOUS
<1> QED  BY <1>1, NoLog

(* A new baseline: all images agree and nothing is logged.                 *)
AllAgree == cache = epochBase /\ durable = epochBase /\ log = <<>> /\ epochBase \in Image
Agreed   == AllAgree => LogOK /\ ImagesInv /\ Len(log) <= MaxOps
LEMMA AgreedHolds == Agreed
<1> SUFFICES ASSUME AllAgree PROVE LogOK /\ ImagesInv /\ Len(log) <= MaxOps
  BY DEF Agreed
<1>1. /\ Len(log) = 0 /\ LastSync(Len(log)) = 0
      /\ \A g : Newest(Len(log), g) = epochBase[g]
  BY EmptyLog DEF BaseOnly, AllAgree
<1>2. <<>> \in Seq(LogOp)  OBVIOUS
<1>3. LogOK  BY <1>2 DEF LogOK, AllAgree
<1>4. ImagesInv  BY <1>1 DEF ImagesInv, AllAgree
<1> QED  BY <1>1, <1>3, <1>4, LimitsAssumption

LEMMA FreshStep ==
  ASSUME AllAgree', BudgetInv', pokes' \in 0 .. MaxPokes PROVE IInv'
<1>1. Agreed'  BY AgreedHolds, PTL
<1> QED  BY <1>1 DEF Agreed, AllAgree, IInv

LEMMA InitIInv == Init => IInv
<1> SUFFICES ASSUME Init PROVE IInv
  OBVIOUS
<1>1. AllAgree  BY DEF Init, AllAgree
<1>2. LogOK /\ ImagesInv /\ Len(log) <= MaxOps
  BY <1>1, AgreedHolds DEF Agreed
<1> QED  BY <1>2, LimitsAssumption DEF Init, IInv, BudgetInv

LEMMA PaintImage ==
  ASSUME NEW img \in Image, NEW W \in Writes PROVE Paint(img, W) \in Image
BY WriteCovers DEF Paint, Image

(* An operation is logged: what the log says of the newest writes, and of  *)
(* the last barrier, moves on by one.                                      *)
LEMMA LoggedStep ==
  ASSUME IInv, NEW e \in LogOp, Logged(e), NEW g \in Granule
  PROVE  /\ Newest(Len(log), g)' = IF g \in DOMAIN e.data THEN e.data[g] ELSE cache[g]
         /\ e.op # "sync" => LastSync(Len(log))' = LastSync(Len(log))
         /\ e.op = "sync" => LastSync(Len(log))' = Len(log)'
         /\ e.op # "sync" => Newest(LastSync(Len(log)), g)' = durable[g]
<1> DEFINE n == Len(log)
           m == Len(log)'
<1>1. LogOK  BY DEF IInv
<1>2. n \in Nat /\ m = n + 1 /\ \A i \in 1 .. n : log'[i] = log[i]
  BY <1>1, LogGrows
<1>3. log'[m] = e  BY <1>1, <1>2, LogGrows
<1>4. cache[g] = Newest(n, g) /\ durable[g] = Newest(LastSync(n), g)
  BY DEF IInv, ImagesInv
<1>5. Newest(Len(log), g)' = IF g \in DOMAIN e.data THEN e.data[g] ELSE cache[g]
  <2>1. ASSUME NEW k \in Nat, k = n
        PROVE  Newest(k + 1, g)' = IF g \in DOMAIN e.data THEN e.data[g] ELSE Newest(k, g)
    BY <1>1, <2>1, NewestNow
  <2>2. ASSUME NEW k \in Nat, k = m PROVE Newest(Len(log), g)' = Newest(k, g)'
    BY <2>2 DEF Newest, Wrote
  <2>3. PICK k \in Nat : k = n  BY <1>2
  <2>4. k + 1 \in Nat /\ k + 1 = m  BY <1>2, <2>3
  <2>5. Newest(Len(log), g)' = Newest(k + 1, g)'  BY <2>2, <2>4
  <2> QED  BY <1>4, <2>1, <2>3, <2>5
<1>6. SyncsTrue'  BY LastSyncAll, PTL
<1>7. PICK k \in Nat : k = m  BY <1>2
<1> DEFINE s == LastSync(k)'
<1>8. LastSync(Len(log))' = s
  BY <1>7 DEF LastSync
<1>9. /\ s \in 0 .. m /\ (s # 0 => log'[s].op = "sync")
      /\ \A i \in 1 .. m : log'[i].op = "sync" => i <= s
  BY <1>6, <1>7 DEF SyncsTrue
<1>10. CASE e.op = "sync"
  <2>1. m \in 1 .. m /\ m \in Nat  BY <1>2
  <2>2. m <= s /\ s <= m /\ s \in Nat
    <3> HIDE DEF s, m, n
    <3> QED  BY <1>3, <1>9, <1>10, <2>1
  <2>3. s = m
    <3> HIDE DEF s, m
    <3> QED  BY <2>1, <2>2
  <2> QED  BY <1>5, <1>8, <1>10, <2>3
<1>11. CASE e.op # "sync"
  <2>1. s # m /\ s \in 0 .. n
    <3> HIDE DEF s, m, n
    <3> QED  BY <1>2, <1>3, <1>9, <1>11
  <2>2. /\ s # 0 => log[s].op = "sync"
        /\ \A i \in 1 .. n : log[i].op = "sync" => i <= s
    <3> HIDE DEF s, m, n
    <3> QED  BY <1>2, <1>9, <2>1
  <2>3. LastSync(n) = s
    <3> HIDE DEF s, n, m
    <3> QED  BY <1>2, <2>1, <2>2, LastSyncUnique
  <2>4. PICK t \in Nat : t = LastSync(n) /\ t \in 0 .. n
    BY <1>2, <2>1, <2>3
  <2>5. Newest(LastSync(Len(log)), g)' = Newest(t, g)'
    BY <1>8, <2>3, <2>4 DEF Newest, Wrote
  <2>6. Newest(t, g)' = Newest(t, g)
    BY <1>1, <2>4, NewestPast
  <2> QED  BY <1>4, <1>5, <1>8, <1>11, <2>3, <2>4, <2>5, <2>6
<1> QED  BY <1>10, <1>11

LEMMA WriteStep == ASSUME IInv, NEW W \in Writes, WriteAt(W) PROVE IInv'
<1> DEFINE e == Write(W)
<1>1. e \in LogOp /\ Logged(e) /\ e.data = W /\ e.op = "write" /\ LogOK
  BY DEF LogOp, Logged, WriteAt, Write, IInv
<1>2. LogOK' /\ Len(log)' = Len(log) + 1 /\ Len(log) \in Nat
  BY <1>1, LogGrows
<1>3. cache' = Paint(cache, W) /\ durable' = durable /\ cache' \in Image
  BY PaintImage DEF WriteAt, IInv
<1> HIDE DEF e
<1>4. ASSUME NEW g \in Granule
      PROVE  cache'[g] = Newest(Len(log), g)' /\ durable'[g] = Newest(LastSync(Len(log)), g)'
  <2>1. Newest(Len(log), g)' = IF g \in DOMAIN W THEN W[g] ELSE cache[g]
    BY <1>1, LoggedStep
  <2>2. Newest(LastSync(Len(log)), g)' = durable[g]
    BY <1>1, LoggedStep
  <2> QED  BY <1>3, <2>1, <2>2 DEF Paint
<1>5. ImagesInv'  BY <1>4 DEF ImagesInv
<1>6. BudgetInv'
  <2>1. CASE budget = {}  BY <2>1 DEF WriteAt, BudgetInv
  <2>2. ASSUME NEW n \in Nat, budget = {n} PROVE BudgetInv'
    <3>1. n # 0 /\ budget' = {n - 1}  BY <2>2 DEF WriteAt
    <3>2. n - 1 \in Nat  BY <3>1
    <3> QED  BY <3>1, <3>2 DEF BudgetInv
  <2> QED  BY <2>1, <2>2 DEF IInv, BudgetInv
<1>7. Len(log)' <= MaxOps
  BY <1>2, LimitsAssumption DEF WriteAt
<1> QED  BY <1>2, <1>3, <1>5, <1>6, <1>7 DEF IInv, WriteAt

LEMMA SyncStep == ASSUME IInv, Sync PROVE IInv'
<1> DEFINE e == SyncOp
<1>1. e \in LogOp /\ Logged(e) /\ DOMAIN e.data = {} /\ e.op = "sync" /\ LogOK
  <2>1. e.data = <<>> /\ e.op = "sync"  BY DEF SyncOp
  <2>2. DOMAIN <<>> = {}  OBVIOUS
  <2> QED  BY <2>1, <2>2 DEF LogOp, Logged, Sync, IInv
<1>2. LogOK' /\ Len(log)' = Len(log) + 1 /\ Len(log) \in Nat
  BY <1>1, LogGrows
<1>3. cache' = cache /\ durable' = cache
  BY DEF Sync
<1> HIDE DEF e
<1>4. ASSUME NEW g \in Granule
      PROVE  cache'[g] = Newest(Len(log), g)' /\ durable'[g] = Newest(LastSync(Len(log)), g)'
  <2>1. Newest(Len(log), g)' = cache[g]
    BY <1>1, LoggedStep
  <2>2. LastSync(Len(log))' = Len(log)'
    BY <1>1, LoggedStep
  <2>3. Newest(LastSync(Len(log)), g)' = Newest(Len(log), g)'
    BY <2>2 DEF Newest, Wrote
  <2> QED  BY <1>3, <2>1, <2>3
<1>5. ImagesInv'  BY <1>4 DEF ImagesInv
<1>6. Len(log)' <= MaxOps
  BY <1>2, LimitsAssumption DEF Sync
<1> QED  BY <1>2, <1>3, <1>5, <1>6 DEF IInv, Sync, BudgetInv

(* Every crash image is an image.                                          *)
LEMMA LandedFacts ==
  ASSUME LogOK, NEW j \in 1 .. Len(log), NEW p, NEW K
  PROVE  Landed(j, p, K) \subseteq DOMAIN log[j].data
BY DEF Landed

LEMMA CrashInImage ==
  ASSUME LogOK, NEW p \in 0 .. Len(log), NEW K PROVE CrashImage(p, K) \in Image
<1>1. p \in Nat /\ Len(log) \in Nat  BY DEF LogOK
<1>2. CrashImage(p, K) = Replay(p, p, K)  BY <1>1, CrashImageIs DEF LogOK
<1>3. ASSUME NEW g \in Granule PROVE Replay(p, p, K)[g] \in Data
  <2>1. CASE Hits(p, p, K, g) = {}  BY <2>1 DEF Replay, LogOK, Image
  <2>2. CASE Hits(p, p, K, g) # {}
    <3>1. PICK j \in 1 .. p : j = Max(Hits(p, p, K, g)) /\ g \in Landed(j, p, K)
      BY <1>1, <2>2, HitsMax DEF Hits
    <3>2. j \in 1 .. Len(log)  BY <1>1
    <3>3. log[j].data[g] \in Data  BY <3>1, <3>2, LandedFacts, LogFacts
    <3> QED  BY <2>2, <3>1, <3>3 DEF Replay
  <2> QED  BY <2>1, <2>2
<1>4. Replay(p, p, K) = [g \in Granule |-> Replay(p, p, K)[g]]  BY DEF Replay
<1> DEFINE r == Replay(p, p, K)
<1> HIDE DEF r
<1>5. r \in [Granule -> Data]  BY <1>3, <1>4 DEF r
<1> QED  BY <1>2, <1>5 DEF r, Image

LEMMA SameLog ==
  ASSUME ImagesInv, LogOK, UNCHANGED <<cache, durable, epochBase, log>>
  PROVE  ImagesInv' /\ LogOK'
<1>1. \A g : Newest(Len(log), g)' = Newest(Len(log), g)
  BY DEF Newest, Wrote
<1>2. LastSync(Len(log))' = LastSync(Len(log))
  BY DEF LastSync
<1>3. \A g : Newest(LastSync(Len(log)), g)' = Newest(LastSync(Len(log)), g)
  BY <1>2 DEF Newest, Wrote
<1>4. ImagesInv'  BY <1>1, <1>3 DEF ImagesInv
<1>5. LogOK'  BY DEF LogOK
<1> QED  BY <1>4, <1>5

LEMMA NextIInv == IInv /\ [Next]_vars => IInv'
<1> SUFFICES ASSUME IInv, [Next]_vars PROVE IInv'
  OBVIOUS
<1>1. CASE BeginRecording
  BY <1>1, FreshStep DEF BeginRecording, AllAgree, IInv, BudgetInv
<1>2. ASSUME NEW W \in Writes, WriteAt(W) PROVE IInv'
  BY <1>2, WriteStep
<1>3. CASE Sync  BY <1>3, SyncStep
<1>4. ASSUME NEW n \in Budgets, FailWritesAfter(n) PROVE IInv'
  <2>1. ImagesInv' /\ LogOK'
    BY <1>4, SameLog DEF FailWritesAfter, IInv
  <2>2. BudgetInv'
    BY <1>4, BudgetsAssumption DEF FailWritesAfter, BudgetInv
  <2> QED  BY <1>4, <2>1, <2>2 DEF FailWritesAfter, IInv
<1>5. ASSUME NEW g \in Granule, NEW x \in Data, Poke(g, x) PROVE IInv'
  <2>1. Len(log) = 0 /\ LastSync(Len(log)) = 0 /\ \A h : Newest(Len(log), h) = epochBase[h]
    BY <1>5, EmptyLog DEF BaseOnly, Poke
  <2>2. \A h \in Granule : cache[h] = epochBase[h] /\ durable[h] = epochBase[h]
    BY <2>1 DEF IInv, ImagesInv
  <2>3. cache = epochBase /\ durable = epochBase
    <3>1. /\ cache \in [Granule -> Data] /\ durable \in [Granule -> Data]
          /\ epochBase \in [Granule -> Data]
      BY DEF IInv, LogOK, Image
    <3> QED  BY <2>2, <3>1
  <2>4. AllAgree'
    BY <1>5, <2>3 DEF Poke, AllAgree, IInv, Image
  <2>5. BudgetInv' /\ pokes' \in 0 .. MaxPokes
    BY <1>5, LimitsAssumption DEF Poke, IInv, BudgetInv
  <2> QED  BY <2>4, <2>5, FreshStep
<1>6. CASE PowerLoss
  <2>1. PICK img \in CrashImages(Len(log)) : FromImage(img)
    BY <1>6 DEF PowerLoss
  <2>2. img \in Image
    <3>1. Len(log) \in 0 .. Len(log)  BY DEF IInv, LogOK
    <3> QED  BY <3>1, CrashInImage DEF CrashImages, IInv
  <2> QED  BY <1>6, <2>1, <2>2, FreshStep DEF FromImage, AllAgree, PowerLoss, IInv, BudgetInv
<1>7. CASE UNCHANGED vars
  <2>1. ImagesInv' /\ LogOK'
    BY <1>7, SameLog DEF vars, IInv
  <2> QED  BY <1>7, <2>1 DEF vars, IInv, BudgetInv
<1> QED  BY <1>1, <1>2, <1>3, <1>4, <1>5, <1>6, <1>7 DEF Next

LEMMA Always == Spec => []IInv
BY InitIInv, NextIInv, PTL DEF Spec

-----------------------------------------------------------------------------
(* The images are images, the log is made of writes and barriers, and the  *)
(* budget of fail_writes_after is never overdrawn.                         *)
THEOREM FaultTyped == Spec => []FaultTypeOK
<1>1. IInv => FaultTypeOK
  <2> SUFFICES ASSUME IInv PROVE FaultTypeOK
    OBVIOUS
  <2>1. \A i \in DOMAIN log : log[i] = SyncOp \/ \E W \in Writes : log[i] = Write(W)
    <3>1. \A i \in DOMAIN log : log[i] \in LogOp  BY DEF IInv, LogOK
    <3> QED  BY <3>1 DEF LogOp
  <2>2. budget \subseteq Nat /\ Cardinality(budget) <= 1
    <3>1. Cardinality({}) = 0 /\ \A n : Cardinality({n}) = 1
      BY FS_EmptySet, FS_Singleton
    <3>2. CASE budget = {}  BY <3>1, <3>2
    <3>3. ASSUME NEW n \in Nat, budget = {n} PROVE budget \subseteq Nat /\ Cardinality(budget) <= 1
      <4>1. Cardinality(budget) = 1  BY <3>1, <3>3, Zenon
      <4> QED  BY <3>3, <4>1
    <3> QED  BY <3>2, <3>3 DEF IInv, BudgetInv
  <2> QED  BY <2>1, <2>2 DEF FaultTypeOK, IInv, LogOK
<1> QED  BY <1>1, Always, PTL

-----------------------------------------------------------------------------
(* What a granule of a crash image may be, and that it may be all of that. *)
LEMMA DropsAll ==
  ASSUME LogOK, NEW p \in 0 .. Len(log), NEW g \in Granule
  PROVE  CrashImage(p, {})[g] = Newest(LastSync(p), g)
<1>1. p \in Nat  BY DEF LogOK
<1>2. LastSync(p) \in 0 .. p  BY <1>1, LastSyncIs
<1>3. \A j : Landed(j, p, {}) = {h \in DOMAIN log[j].data : j <= LastSync(p)}
  BY DEF Landed
<1>4. Hits(p, p, {}, g) = Wrote(LastSync(p), g)
  BY <1>1, <1>2, <1>3 DEF Hits, Wrote
<1>5. CrashImage(p, {}) = Replay(p, p, {})  BY <1>1, CrashImageIs DEF LogOK
<1>6. Replay(p, p, {})[g] = IF Hits(p, p, {}, g) = {} THEN epochBase[g]
                            ELSE log[Max(Hits(p, p, {}, g))].data[g]
  BY DEF Replay
<1> QED  BY <1>4, <1>5, <1>6 DEF Newest

LEMMA KeepsAll ==
  ASSUME LogOK, NEW p \in 0 .. Len(log), NEW g \in Granule
  PROVE  CrashImage(p, InFlight(p))[g] = Newest(p, g)
<1>1. p \in Nat  BY DEF LogOK
<1>2. LastSync(p) \in 0 .. p  BY <1>1, LastSyncIs
<1> DEFINE K == InFlight(p)
<1>3. \A j \in 1 .. p : g \in Landed(j, p, K) <=> g \in DOMAIN log[j].data
  BY <1>1, <1>2 DEF Landed, InFlight
<1>4. Hits(p, p, K, g) = Wrote(p, g)
  BY <1>3 DEF Hits, Wrote
<1> HIDE DEF K
<1>5. CrashImage(p, K) = Replay(p, p, K)  BY <1>1, CrashImageIs DEF LogOK
<1>6. Replay(p, p, K)[g] = IF Hits(p, p, K, g) = {} THEN epochBase[g]
                            ELSE log[Max(Hits(p, p, K, g))].data[g]
  BY DEF Replay
<1> QED  BY <1>4, <1>5, <1>6 DEF Newest, K

(* durable_image and visible_image are the two extreme replays.            *)
THEOREM BothExtremes == Spec => []Extremes
<1>1. IInv => Extremes
  <2> SUFFICES ASSUME IInv PROVE Extremes
    OBVIOUS
  <2> DEFINE n == Len(log)
  <2>1. LogOK /\ n \in 0 .. n /\ n \in Nat  BY DEF IInv, LogOK
  <2>2. CrashImage(n, {}) \in Image /\ CrashImage(n, InFlight(n)) \in Image
    BY <2>1, CrashInImage
  <2>3. \A g \in Granule : /\ CrashImage(n, {})[g] = durable[g]
                           /\ CrashImage(n, InFlight(n))[g] = cache[g]
    BY <2>1, DropsAll, KeepsAll DEF IInv, ImagesInv
  <2>4. durable \in Image /\ cache \in Image  BY DEF IInv
  <2> DEFINE a == CrashImage(n, {})
             b == CrashImage(n, InFlight(n))
  <2> HIDE DEF a, b
  <2>5. durable = a /\ cache = b
    <3>1. a \in Image /\ b \in Image /\ \A g \in Granule : a[g] = durable[g] /\ b[g] = cache[g]
      BY <2>2, <2>3 DEF a, b
    <3> QED  BY <2>4, <3>1 DEF Image
  <2> QED  BY <2>5 DEF Extremes, DropAll, KeepAll, a, b
<1> QED  BY <1>1, Always, PTL

(* A granule of a crash image either was not written since the barrier in  *)
(* any write that landed, or holds the last that did.                      *)
LEMMA CrashGranule ==
  ASSUME LogOK, NEW p \in 0 .. Len(log), NEW K \in SUBSET InFlight(p), NEW g \in Granule
  PROVE  \/ /\ \A j \in 1 .. p : <<j, g>> \notin K
            /\ CrashImage(p, K)[g] = Newest(LastSync(p), g)
         \/ \E j \in 1 .. p : /\ <<j, g>> \in K
                              /\ \A k \in 1 .. p : <<k, g>> \in K => k <= j
                              /\ CrashImage(p, K)[g] = log[j].data[g]
<1> DEFINE H == Hits(p, p, K, g)
           L == LastSync(p)
<1>1. p \in Nat /\ L \in 0 .. p  BY LastSyncIs DEF LogOK
<1>2. CrashImage(p, K)[g] = IF H = {} THEN epochBase[g] ELSE log[Max(H)].data[g]
  <2>1. CrashImage(p, K) = Replay(p, p, K)  BY <1>1, CrashImageIs DEF LogOK
  <2> QED  BY <2>1 DEF Replay
<1>3. \A j \in 1 .. p : <<j, g>> \in K => j > L /\ g \in DOMAIN log[j].data
  BY DEF InFlight
<1>4. \A j \in 1 .. p : j \in H <=> g \in DOMAIN log[j].data /\ (j <= L \/ <<j, g>> \in K)
  BY DEF Hits, Landed
<1>5. H \subseteq 1 .. p  BY DEF Hits
<1>6. H # {} => Max(H) \in H /\ \A k \in H : k <= Max(H)
  BY <1>1, HitsMax
<1> HIDE DEF H
<1>7. CASE \A j \in 1 .. p : <<j, g>> \notin K
  <2> DEFINE R == Wrote(L, g)
  <2> HIDE DEF L
  <2>1. R \subseteq 1 .. p /\ \A j \in 1 .. p : j \in R <=> j <= L /\ g \in DOMAIN log[j].data
    BY <1>1 DEF Wrote
  <2>2. H = R
    <3> HIDE DEF R
    <3>1. \A j \in 1 .. p : j \in H <=> j \in R  BY <1>4, <1>7, <2>1
    <3> QED  BY <1>5, <2>1, <3>1
  <2>3. CrashImage(p, K)[g] = Newest(L, g)
    BY <1>2, <2>2 DEF Newest
  <2> QED  BY <1>7, <2>3 DEF L
<1>8. ASSUME NEW i \in 1 .. p, <<i, g>> \in K
      PROVE  \E j \in 1 .. p : /\ <<j, g>> \in K
                               /\ \A k \in 1 .. p : <<k, g>> \in K => k <= j
                               /\ CrashImage(p, K)[g] = log[j].data[g]
  <2> HIDE DEF L
  <2>1. i \in H /\ i > L  BY <1>3, <1>4, <1>8
  <2>2. PICK j \in 1 .. p : j = Max(H) /\ j \in H /\ \A k \in H : k <= j
    BY <1>5, <1>6, <2>1
  <2>3. j > L  BY <1>1, <2>1, <2>2
  <2>4. <<j, g>> \in K  BY <1>1, <1>4, <2>2, <2>3
  <2>5. \A k \in 1 .. p : <<k, g>> \in K => k <= j
    BY <1>3, <1>4, <2>2
  <2>6. CrashImage(p, K)[g] = log[j].data[g]
    BY <1>2, <2>1, <2>2
  <2> QED  BY <2>4, <2>5, <2>6
<1> QED  BY <1>7, <1>8

(* What Surviving allows a granule, said of single writes.                 *)
LEMMA SurvivingIs ==
  ASSUME IInv, NEW n \in Nat, n = Len(log), NEW g \in Granule, NEW x
  PROVE  x \in Surviving(g) <=>
           \/ x = Newest(LastSync(n), g)
           \/ \E j \in 1 .. n : <<j, g>> \in InFlight(n) /\ x = log[j].data[g]
<1> DEFINE L == LastSync(n)
<1>1. L \in 0 .. n  BY LastSyncIs
<1>2. durable[g] = Newest(L, g)  BY DEF IInv, ImagesInv
<1>3. x \in Surviving(g) <=>
        \/ x = durable[g]
        \/ \E j \in (L + 1) .. n : g \in DOMAIN log[j].data /\ x = log[j].data[g]
  BY DEF Surviving
<1>4. \A j \in 1 .. n : <<j, g>> \in InFlight(n) <=> j > L /\ g \in DOMAIN log[j].data
  BY DEF InFlight
<1> HIDE DEF L
<1>5. \A j : j \in (L + 1) .. n <=> j \in 1 .. n /\ j > L  BY <1>1
<1>6. x \in Surviving(g) <=>
        \/ x = Newest(L, g)
        \/ \E j \in 1 .. n : <<j, g>> \in InFlight(n) /\ x = log[j].data[g]
  BY <1>2, <1>3, <1>4, <1>5
<1> QED  BY <1>6 DEF L

(* What a reader sees is among them.                                       *)
LEMMA CacheSurvives == ASSUME IInv, NEW g \in Granule PROVE cache[g] \in Surviving(g)
<1>1. PICK n \in Nat : n = Len(log)  BY DEF IInv, LogOK
<1> DEFINE K == InFlight(n)
<1>2. n \in 0 .. Len(log) /\ K \in SUBSET InFlight(n) /\ LogOK  BY <1>1 DEF IInv
<1>3. CrashImage(n, K)[g] = cache[g]
  BY <1>1, <1>2, KeepsAll DEF IInv, ImagesInv
<1> HIDE DEF K
<1>4. \/ CrashImage(n, K)[g] = Newest(LastSync(n), g)
      \/ \E j \in 1 .. n : <<j, g>> \in K /\ CrashImage(n, K)[g] = log[j].data[g]
  BY <1>2, CrashGranule
<1> QED  BY <1>1, <1>2, <1>3, <1>4, SurvivingIs

(* The crash images are the images that give every granule, on its own,    *)
(* one of the contents it may keep.                                        *)
LEMMA ImagesSurvive ==
  ASSUME IInv, NEW v \in CrashImages(Len(log))
  PROVE  v \in Image /\ \A g \in Granule : v[g] \in Surviving(g)
<1>1. PICK n \in Nat : n = Len(log)  BY DEF IInv, LogOK
<1>2. PICK K \in SUBSET InFlight(n) : v = CrashImage(n, K)
  BY <1>1 DEF CrashImages
<1>3. n \in 0 .. Len(log) /\ LogOK  BY <1>1 DEF IInv
<1>4. v \in Image  BY <1>2, <1>3, CrashInImage
<1>5. ASSUME NEW g \in Granule PROVE v[g] \in Surviving(g)
  <2>1. \/ v[g] = Newest(LastSync(n), g)
        \/ \E j \in 1 .. n : <<j, g>> \in K /\ v[g] = log[j].data[g]
    BY <1>2, <1>3, CrashGranule
  <2> QED  BY <1>1, <1>2, <2>1, SurvivingIs
<1> QED  BY <1>4, <1>5

LEMMA SurvivorsAreImages ==
  ASSUME IInv, NEW v \in Image, \A g \in Granule : v[g] \in Surviving(g)
  PROVE  v \in CrashImages(Len(log))
<1>1. PICK n \in Nat : n = Len(log)  BY DEF IInv, LogOK
<1> DEFINE Gives(j, g) == <<j, g>> \in InFlight(n) /\ v[g] = log[j].data[g]
           pick(g) == CHOOSE j \in 1 .. n : Gives(j, g)
           lost(g) == v[g] = Newest(LastSync(n), g)
           K == {e \in InFlight(n) : ~ lost(e[2]) /\ e[1] = pick(e[2])}
<1>2. n \in 0 .. Len(log) /\ K \in SUBSET InFlight(n) /\ LogOK  BY <1>1 DEF IInv
<1>3. CrashImage(n, K) \in Image  BY <1>2, CrashInImage
<1>4. ASSUME NEW g \in Granule PROVE CrashImage(n, K)[g] = v[g]
  <2>1. lost(g) \/ \E j \in 1 .. n : Gives(j, g)
    BY <1>1, SurvivingIs
  <2>2. ~ lost(g) => pick(g) \in 1 .. n /\ Gives(pick(g), g)
    BY <2>1
  <2>3. \A j \in 1 .. n : <<j, g>> \in K <=> <<j, g>> \in InFlight(n) /\ ~ lost(g) /\ j = pick(g)
    OBVIOUS
  <2> HIDE DEF pick, K
  <2>4. \/ /\ \A j \in 1 .. n : <<j, g>> \notin K
           /\ CrashImage(n, K)[g] = Newest(LastSync(n), g)
        \/ \E j \in 1 .. n : <<j, g>> \in K /\ CrashImage(n, K)[g] = log[j].data[g]
    BY <1>2, CrashGranule
  <2>5. CASE lost(g)
    <3>1. \A j \in 1 .. n : <<j, g>> \notin K  BY <2>3, <2>5
    <3> QED  BY <2>4, <2>5, <3>1
  <2>6. CASE ~ lost(g)
    <3>1. <<pick(g), g>> \in K  BY <2>2, <2>3, <2>6
    <3>2. PICK j \in 1 .. n : <<j, g>> \in K /\ CrashImage(n, K)[g] = log[j].data[g]
      BY <2>2, <2>4, <2>6, <3>1
    <3>3. j = pick(g)  BY <2>3, <3>2
    <3> QED  BY <2>2, <2>6, <3>2, <3>3
  <2> QED  BY <2>5, <2>6
<1> DEFINE w == CrashImage(n, K)
<1>5. w \in CrashImages(n)  BY <1>2 DEF CrashImages
<1> HIDE DEF w, K
<1>6. w = v
  <2>1. w \in [Granule -> Data] /\ v \in [Granule -> Data] /\ \A g \in Granule : w[g] = v[g]
    BY <1>3, <1>4 DEF w, Image
  <2> QED  BY <2>1
<1> QED  BY <1>1, <1>5, <1>6

(* So are the images Medium allows.                                        *)
LEMMA OverlaySurvives ==
  ASSUME IInv, NEW f \in M!Images(Granule)
  PROVE  M!Overlay(f) \in Image /\ \A g \in Granule : M!Overlay(f)[g] \in Surviving(g)
<1> DEFINE v == M!Overlay(f)
<1>1. v = [c \in Granule |-> IF c \in DOMAIN f THEN f[c] ELSE cache[c]]
  BY DEF M!Overlay
<1>2. \A c \in DOMAIN f : c \in Granule => f[c] \in Surviving(c)
  BY DEF M!Images, M!Open
<1> HIDE DEF v
<1>3. \A g \in Granule : v[g] \in Surviving(g)
  BY <1>1, <1>2, CacheSurvives
<1>4. ASSUME NEW g \in Granule PROVE v[g] \in Data
  <2>1. PICK n \in Nat : n = Len(log)  BY DEF IInv, LogOK
  <2>2. \/ v[g] = Newest(LastSync(n), g)
        \/ \E j \in 1 .. n : <<j, g>> \in InFlight(n) /\ v[g] = log[j].data[g]
    BY <1>3, <2>1, SurvivingIs
  <2>3. CASE v[g] = Newest(LastSync(n), g)
    BY <2>1, <2>3 DEF IInv, ImagesInv, Image
  <2>4. ASSUME NEW j \in 1 .. n, <<j, g>> \in InFlight(n), v[g] = log[j].data[g] PROVE v[g] \in Data
    BY <2>1, <2>4, LogFacts DEF InFlight, IInv
  <2> QED  BY <2>2, <2>3, <2>4
<1>5. v = [g \in Granule |-> v[g]]  BY <1>1
<1>6. v \in Image  BY <1>4, <1>5 DEF Image
<1> QED  BY <1>3, <1>6 DEF v

LEMMA SurvivorsAreOverlays ==
  ASSUME NEW v \in Image, \A g \in Granule : v[g] \in Surviving(g)
  PROVE  \E f \in M!Images(Granule) : v = M!Overlay(f)
<1> DEFINE O == M!Open(Granule)
           f == [c \in O |-> v[c]]
<1>1. O = {c \in Granule : Surviving(c) # {cache[c]}}
  BY DEF M!Open
<1>2. M!Images(Granule) = {h \in [O -> UNION {Surviving(c) : c \in O}] : \A c \in O : h[c] \in Surviving(c)}
  <2>1. M!Images(Granule) =
          {h \in [O -> UNION {[g \in Granule |-> Surviving(g)][c] : c \in O}] :
             \A c \in O : h[c] \in [g \in Granule |-> Surviving(g)][c]}
    BY DEF M!Images
  <2>2. \A c \in O : [g \in Granule |-> Surviving(g)][c] = Surviving(c)
    BY <1>1
  <2>3. {[g \in Granule |-> Surviving(g)][c] : c \in O} = {Surviving(c) : c \in O}
    <3> HIDE DEF O
    <3> QED  BY <2>2
  <2> HIDE DEF O
  <2> QED  BY <2>1, <2>2, <2>3
<1> HIDE DEF O
<1>3. O \subseteq Granule  BY <1>1
<1>4. \A c \in O : f[c] = v[c] /\ v[c] \in Surviving(c)  BY <1>3
<1>5. f \in [O -> UNION {Surviving(c) : c \in O}]  BY <1>4
<1>6. f \in M!Images(Granule)  BY <1>2, <1>4, <1>5
<1>7. v = M!Overlay(f)
  <2>1. M!Overlay(f) = [c \in Granule |-> IF c \in O THEN v[c] ELSE cache[c]]
    BY DEF M!Overlay
  <2>2. \A c \in Granule : c \notin O => v[c] = cache[c]  BY <1>1
  <2>3. v = [c \in Granule |-> v[c]]  BY DEF Image
  <2> HIDE DEF f
  <2>4. [c \in Granule |-> IF c \in O THEN v[c] ELSE cache[c]] = [c \in Granule |-> v[c]]
    BY <2>2
  <2> QED  BY <2>1, <2>3, <2>4
<1> QED  BY <1>6, <1>7

LEMMA Outcomes == ASSUME IInv PROVE EveryOutcome
<1> DEFINE C == CrashImages(Len(log))
           O == {M!Overlay(f) : f \in M!Images(Granule)}
<1>1. C \subseteq O  BY ImagesSurvive, SurvivorsAreOverlays
<1>2. O \subseteq C  BY OverlaySurvives, SurvivorsAreImages
<1> QED  BY <1>1, <1>2 DEF EveryOutcome

(* The crash images a test can ask for are exactly the outcomes of a power *)
(* loss under the contract of Medium.                                      *)
THEOREM AllOutcomes == Spec => []EveryOutcome
<1>1. IInv => EveryOutcome  BY Outcomes
<1> QED  BY <1>1, Always, PTL

-----------------------------------------------------------------------------
(* The refinement: what every action does to the contents a granule may    *)
(* keep.                                                                   *)
NoneInFlight == log = <<>> => \A g : Surviving(g) = {durable[g]}
LEMMA NothingOpen == NoneInFlight
<1> SUFFICES ASSUME log = <<>>, NEW g PROVE Surviving(g) = {durable[g]}
  BY DEF NoneInFlight
<1>1. Len(log) = 0 /\ LastSync(Len(log)) = 0
  BY EmptyLog DEF BaseOnly
<1>2. {j \in (LastSync(Len(log)) + 1) .. Len(log) : g \in DOMAIN log[j].data} = {}
  BY <1>1
<1> QED  BY <1>2 DEF Surviving

LEMMA WriteOpens ==
  ASSUME IInv, NEW W \in Writes, WriteAt(W), NEW g \in Granule
  PROVE  Surviving(g)' = IF g \in DOMAIN W THEN Surviving(g) \cup {W[g]} ELSE Surviving(g)
<1> DEFINE e == Write(W)
<1>1. e \in LogOp /\ Logged(e) /\ e.data = W /\ e.op # "sync" /\ LogOK
  BY DEF LogOp, Logged, WriteAt, Write, IInv
<1>2. durable' = durable  BY DEF WriteAt
<1> HIDE DEF e
<1>3. PICK n \in Nat : n = Len(log)  BY <1>1 DEF LogOK
<1>4. /\ Len(log)' = n + 1 /\ log'[n + 1] = e
      /\ \A j \in 1 .. n : log'[j] = log[j]
  BY <1>1, <1>3, LogGrows
<1>5. PICK L \in 0 .. n : L = LastSync(Len(log)) /\ LastSync(Len(log))' = L
  BY <1>1, <1>3, LastSyncIs, LoggedStep
<1> DEFINE A == {j \in (L + 1) .. n : g \in DOMAIN log[j].data}
           B == {j \in (L + 1) .. (n + 1) : g \in DOMAIN log'[j].data}
<1>6. Surviving(g) = {durable[g]} \cup {log[j].data[g] : j \in A}
  BY <1>3, <1>5 DEF Surviving
<1>7. Surviving(g)' = {durable[g]} \cup {log'[j].data[g] : j \in B}
  BY <1>2, <1>4, <1>5 DEF Surviving
<1>8. A \subseteq 1 .. n /\ \A j \in A : log'[j] = log[j]
  BY <1>4
<1>9. B = IF g \in DOMAIN W THEN A \cup {n + 1} ELSE A
  <2>1. \A j : j \in (L + 1) .. (n + 1) <=> j \in (L + 1) .. n \/ j = n + 1
    OBVIOUS
  <2>2. \A j \in (L + 1) .. n : log'[j] = log[j]  BY <1>4
  <2> QED  BY <1>1, <1>4, <2>1, <2>2
<1> HIDE DEF A, B
<1>10. {log'[j].data[g] : j \in A} = {log[j].data[g] : j \in A}
  BY <1>8
<1>11. CASE g \in DOMAIN W
  <2>1. {log'[j].data[g] : j \in B} = {log'[j].data[g] : j \in A} \cup {W[g]}
    BY <1>1, <1>4, <1>9, <1>11
  <2> QED  BY <1>6, <1>7, <1>10, <1>11, <2>1
<1>12. CASE g \notin DOMAIN W
  BY <1>6, <1>7, <1>9, <1>10, <1>12
<1> QED  BY <1>11, <1>12

LEMMA SyncSettles ==
  ASSUME IInv, Sync, NEW g \in Granule PROVE Surviving(g)' = {cache[g]}
<1> DEFINE e == SyncOp
<1>1. e \in LogOp /\ Logged(e) /\ e.op = "sync" /\ LogOK
  BY DEF LogOp, Logged, Sync, IInv, SyncOp
<1> HIDE DEF e
<1>2. Len(log)' \in Nat /\ LastSync(Len(log))' = Len(log)'
  BY <1>1, LogGrows, LoggedStep
<1>3. {j \in (Len(log)' + 1) .. Len(log)' : g \in DOMAIN log'[j].data} = {}
  BY <1>2
<1>4. Surviving(g)' = {durable'[g]} \cup {log'[j].data[g] :
         j \in {k \in (LastSync(Len(log))' + 1) .. Len(log)' : g \in DOMAIN log'[k].data}}
  BY DEF Surviving
<1>5. durable' = cache  BY DEF Sync
<1> QED  BY <1>2, <1>3, <1>4, <1>5

(* Where nothing is logged before or after, all images are one.            *)
LEMMA QuietImages == ASSUME IInv, log = <<>> PROVE cache = durable
<1>1. \A g \in Granule : cache[g] = durable[g]
  BY EmptyLog DEF BaseOnly, IInv, ImagesInv
<1> QED  BY <1>1 DEF IInv, Image

LEMMA InitMedium == Init => M!Init
<1> SUFFICES ASSUME Init PROVE M!Init
  OBVIOUS
<1>1. \A g : Surviving(g) = {durable[g]}
  BY NothingOpen DEF NoneInFlight, Init
<1>2. [g \in Granule |-> Surviving(g)] = [g \in Granule |-> {cache[g]}]
  BY <1>1 DEF Init
<1>3. M!Settled(cache)  BY <1>2 DEF M!Settled
<1>4. cache \in [Granule -> Data]  BY DEF Init, Image
<1> QED  BY <1>3, <1>4 DEF M!Init

Outlook == [g \in Granule |-> Surviving(g)]

LEMMA NextMedium == IInv /\ [Next]_vars => [M!Next]_(M!medium)
<1> SUFFICES ASSUME IInv, [Next]_vars PROVE M!Next \/ UNCHANGED M!medium
  OBVIOUS
<1>0. /\ Outlook = [g \in Granule |-> Surviving(g)]
      /\ Outlook' = [g \in Granule |-> Surviving(g)']
  BY DEF Outlook
<1>1. CASE BeginRecording
  <2>1. NoneInFlight'  BY NothingOpen, PTL
  <2>2. cache' = cache /\ durable' = cache /\ log' = <<>>
    BY <1>1 DEF BeginRecording
  <2>3. \A g \in Granule : Surviving(g)' = {cache[g]}
    BY <2>1, <2>2 DEF NoneInFlight
  <2>4. M!Sync  BY <2>2, <2>3 DEF M!Sync
  <2> QED  BY <2>4 DEF M!Next
<1>2. ASSUME NEW W \in Writes, WriteAt(W) PROVE M!Next
  <2>1. cache' = Paint(cache, W)  BY <1>2 DEF WriteAt
  <2>2. \A g \in Granule :
          Surviving(g)' = IF g \in DOMAIN W THEN Surviving(g) \cup {W[g]} ELSE Surviving(g)
    BY <1>2, WriteOpens
  <2>3. M!WriteCells(W)
    BY <2>1, <2>2 DEF M!WriteCells, Paint
  <2>4. DOMAIN W \in SUBSET Granule /\ W \in [DOMAIN W -> Data]
    <3>1. W = [g \in DOMAIN W |-> W[g]]  BY DEF Writes
    <3> QED  BY <3>1, WriteCovers
  <2> QED  BY <2>3, <2>4 DEF M!Next
<1>3. CASE Sync
  <2>1. \A g \in Granule : Surviving(g)' = {cache[g]}  BY <1>3, SyncSettles
  <2>2. M!Sync  BY <1>3, <2>1 DEF Sync, M!Sync
  <2> QED  BY <2>2 DEF M!Next
<1>4. ASSUME NEW n \in Budgets, FailWritesAfter(n) PROVE UNCHANGED M!medium
  BY <1>4 DEF FailWritesAfter, M!medium, Surviving, LastSync
<1>5. ASSUME NEW g \in Granule, NEW x \in Data, Poke(g, x) PROVE M!Next
  <2>1. NoneInFlight'  BY NothingOpen, PTL
  <2>2. /\ cache' = [cache EXCEPT ![g] = x] /\ durable' = [durable EXCEPT ![g] = x]
        /\ log = <<>> /\ log' = <<>> /\ cache = durable
    BY <1>5, QuietImages DEF Poke
  <2>3. \A h \in Granule : Surviving(h) = {cache[h]} /\ Surviving(h)' = {cache'[h]}
    BY <2>1, <2>2, NothingOpen DEF NoneInFlight
  <2>4. cache \in [Granule -> Data]  BY DEF IInv, Image
  <2>5. [h \in Granule |-> {cache'[h]}] = [[h \in Granule |-> {cache[h]}] EXCEPT ![g] = {x}]
    BY <2>2, <2>4
  <2>6. Outlook = [h \in Granule |-> {cache[h]}] /\ Outlook' = [h \in Granule |-> {cache'[h]}]
    BY <1>0, <2>3
  <2>7. Outlook' = [Outlook EXCEPT ![g] = {x}]
    BY <2>5, <2>6
  <2>8. M!Poke(g, x)  BY <2>2, <2>7 DEF M!Poke, Outlook
  <2> QED  BY <2>8 DEF M!Next
<1>6. CASE PowerLoss
  <2>1. PICK img \in CrashImages(Len(log)) : FromImage(img)
    BY <1>6 DEF PowerLoss
  <2>2. PICK f \in M!Images(Granule) : img = M!Overlay(f)
    BY Outcomes DEF EveryOutcome
  <2>3. cache' = img /\ durable' = img /\ log' = <<>>
    BY <2>1 DEF FromImage
  <2>4. NoneInFlight'  BY NothingOpen, PTL
  <2>5. \A g \in Granule : Surviving(g)' = {img[g]}
    BY <2>3, <2>4 DEF NoneInFlight
  <2>6. M!PowerCut  BY <2>2, <2>3, <2>5 DEF M!PowerCut
  <2> QED  BY <2>6 DEF M!Next
<1>7. CASE UNCHANGED vars
  BY <1>7 DEF vars, M!medium, Surviving, LastSync
<1> QED  BY <1>1, <1>2, <1>3, <1>4, <1>5, <1>6, <1>7 DEF Next

(* FaultDevice is a device as the engine models assume it.                 *)
THEOREM MediumProvided == Spec => ImplementsMedium
BY InitMedium, NextMedium, Always, PTL DEF Spec, ImplementsMedium, M!Spec

-----------------------------------------------------------------------------
(* The past.  An operation more changes neither the last barrier of an     *)
(* earlier prefix nor what a crash there leaves.                           *)
ReplayTrue ==
  epochBase \in Image => \A p \in Nat : \A K : CrashImage(p, K) = Replay(p, p, K)
LEMMA ReplayAll == ReplayTrue
BY CrashImageIs DEF ReplayTrue

LEMMA PastStep ==
  ASSUME IInv, NEW e \in LogOp, Logged(e), NEW p \in 0 .. Len(log)
  PROVE  CrashImages(p)' = CrashImages(p)
<1>1. LogOK /\ LogOK'  BY LogGrows DEF IInv
<1>2. /\ p \in Nat /\ Len(log) \in Nat
      /\ \A j \in 1 .. p : log'[j] = log[j]
      /\ LastSync(p)' = LastSync(p) /\ epochBase' = epochBase
  BY <1>1, LogGrows, LastSyncPast DEF Logged
<1>3. InFlight(p)' = InFlight(p)
  BY <1>2 DEF InFlight
<1>4. ASSUME NEW K PROVE CrashImage(p, K)' = CrashImage(p, K)
  <2>1. ReplayTrue'  BY ReplayAll, PTL
  <2>2. \A j \in 1 .. p : Landed(j, p, K)' = Landed(j, p, K)
    BY <1>2 DEF Landed
  <2>3. \A g : Hits(p, p, K, g)' = Hits(p, p, K, g)
    BY <2>2 DEF Hits
  <2>4. ASSUME NEW g \in Granule, Hits(p, p, K, g) # {}
        PROVE  Max(Hits(p, p, K, g)) \in 1 .. p
    BY <1>2, <2>4, HitsMax DEF Hits
  <2>5. Replay(p, p, K)' = Replay(p, p, K)
    BY <1>2, <2>3, <2>4 DEF Replay
  <2>6. CrashImage(p, K)' = Replay(p, p, K)'
    BY <1>1, <1>2, <2>1 DEF ReplayTrue, LogOK
  <2>7. CrashImage(p, K) = Replay(p, p, K)
    BY <1>1, <1>2, CrashImageIs DEF LogOK
  <2> QED  BY <2>5, <2>6, <2>7
<1> QED  BY <1>3, <1>4 DEF CrashImages

Kept == log # <<>> /\ log' # <<>> => \A p \in 0 .. Len(log) : CrashImages(p)' = CrashImages(p)

LEMMA NextKept == IInv /\ [Next]_vars => Kept
<1> SUFFICES ASSUME IInv, [Next]_vars, log # <<>>, log' # <<>>, NEW p \in 0 .. Len(log)
             PROVE  CrashImages(p)' = CrashImages(p)
  BY DEF Kept
<1>1. CASE BeginRecording  BY <1>1 DEF BeginRecording
<1>2. ASSUME NEW W \in Writes, WriteAt(W) PROVE CrashImages(p)' = CrashImages(p)
  <2>1. Write(W) \in LogOp /\ Logged(Write(W))  BY <1>2 DEF WriteAt, LogOp, Logged
  <2> QED  BY <2>1, PastStep
<1>3. CASE Sync
  <2>1. SyncOp \in LogOp /\ Logged(SyncOp)  BY <1>3 DEF Sync, LogOp, Logged
  <2> QED  BY <2>1, PastStep
<1>4. CASE UNCHANGED <<epochBase, log>>
  BY <1>4 DEF CrashImages, CrashImage, InFlight, Landed, LastSync
<1>5. ASSUME NEW n \in Budgets, FailWritesAfter(n) PROVE CrashImages(p)' = CrashImages(p)
  BY <1>4, <1>5 DEF FailWritesAfter
<1>6. ASSUME NEW g \in Granule, NEW x \in Data, Poke(g, x) PROVE CrashImages(p)' = CrashImages(p)
  BY <1>6 DEF Poke
<1>7. CASE PowerLoss  BY <1>7 DEF PowerLoss, FromImage
<1>8. CASE UNCHANGED vars  BY <1>4, <1>8 DEF vars
<1> QED  BY <1>1, <1>2, <1>3, <1>5, <1>6, <1>7, <1>8 DEF Next

(* A sweep over every prefix of the log is a sweep over every moment of    *)
(* the recording.                                                          *)
THEOREM PastStaysFixed == Spec => PastIsFixed
<1>1. IInv /\ [Next]_vars =>
        [log # <<>> /\ log' # <<>> =>
           \A p \in 0 .. Len(log) : CrashImages(p)' = CrashImages(p)]_vars
  BY NextKept DEF Kept
<1> QED  BY <1>1, Always, PTL DEF Spec, PastIsFixed

=============================================================================
