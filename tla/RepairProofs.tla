---------------------------- MODULE RepairProofs ----------------------------
(***************************************************************************)
(* Proofs about Engine: what check() reports as repaired is complete and   *)
(* survives a power loss.  The report is made two steps after the contents *)
(* of the write were chosen, from reports taken earlier still; what has to *)
(* be known in between is that the end about to be counted is whole, and   *)
(* that the barrier before the count covers it.  Then, that no step but    *)
(* damage loses a slot or the Superblock, in any image of a power loss.    *)
(***************************************************************************)
EXTENDS EngineProofs, FiniteSetTheorems

(* The ends are taken in order: at most one is due.                        *)
LEMMA OneIsDue ==
  ASSUME BooksOK, NEW i, NEW j, Due(i), Due(j)
  PROVE  i = j
<1>1. i \in Slots \X Side /\ j \in Slots \X Side
  BY DEF Due, BooksOK
<1>2. i[1] \in Nat /\ j[1] \in Nat /\ i[2] \in Side /\ j[2] \in Side
  <2>1. i[1] \in Slots /\ j[1] \in Slots /\ i[2] \in Side /\ j[2] \in Side
    BY <1>1
  <2>2. Slots \subseteq Nat
    BY SlotsAssumption
  <2> QED BY <2>1, <2>2
<1>3. i = <<i[1], i[2]>> /\ j = <<j[1], j[2]>>
  BY <1>1
<1>4. i = j \/ (Before(i, j) /\ Before(j, i))
  BY DEF Due
<1>5. Before(i, j) /\ Before(j, i) => i[1] = j[1] /\ i[2] = "head" /\ j[2] = "head"
  BY <1>2 DEF Before
<1> QED BY <1>3, <1>4, <1>5

(* A block of two good parts verifies in both, one with a good first part  *)
(* verifies at least in that.                                              *)
LEMMA GoodParts ==
  ASSUME NEW x, NEW y, x.is = "ptr"
  PROVE  /\ VerifyPtrBlock(x, y) # {}
         /\ y.is = "ptr" /\ y.n = x.n => Fallbacks(VerifyPtrBlock(x, y)) # {}
<1> DEFINE F == {u.to : u \in {v \in {y} : v.is = "ptr" /\ v.n = x.n}}
           B == [real |-> x.to, fallback |-> F, algo |-> x.n]
<1>1. VerifyPtrBlock(x, y) = {B}
  BY DEF VerifyPtrBlock
<1>2. y.is = "ptr" /\ y.n = x.n => y.to \in F
  OBVIOUS
<1>3. B.fallback = F
  OBVIOUS
<1> HIDE DEF B, F
<1>4. Fallbacks({B}) = F
  BY <1>3 DEF Fallbacks
<1> QED BY <1>1, <1>2, <1>4

(* A block rebuilt from a true report verifies, for slot 0 in both parts.  *)
LEMMA RebuiltIsComplete ==
  ASSUME NEW s \in Slots, NEW d \in Side, NEW r, TrueReport(r, s),
         NEW b \in RebuildPtrBlock(r, d)
  PROVE  Complete(s, VerifyPtrBlock(b[1], b[2]))
<1>1. r.slot = s
  BY DEF TrueReport
<1>2. CASE s # 0
  <2>1. PICK g \in Chosen(r) : b = BuildPtrBlock(g.algo, g.real, g.fallback)
    BY <1>1, <1>2 DEF RebuildPtrBlock
  <2>2. b[1].is = "ptr"
    BY <2>1 DEF BuildPtrBlock, Ptr
  <2> QED BY <1>2, <2>2, GoodParts DEF Complete
<1>3. CASE s = 0
  <2>1. PICK g \in Chosen(r), x \in SbPrimary(r), y \in SbBackup(r) :
          b = SlotZeroBlock(d, g.algo, x, y)
    BY <1>1, <1>3 DEF RebuildPtrBlock
  <2>2. PICK u, w : b = BuildPtrBlock(g.algo, u, {w})
    BY <2>1 DEF SlotZeroBlock
  <2>3. b[1] = Ptr(u, g.algo) /\ b[2] = Ptr(w, g.algo)
    BY <2>2 DEF BuildPtrBlock
  <2>4. b[1].is = "ptr" /\ b[2].is = "ptr" /\ b[2].n = b[1].n
    BY <2>3 DEF Ptr
  <2> QED BY <2>4, GoodParts DEF Complete
<1> QED BY <1>2, <1>3

(* A whole write leaves a whole end, and a whole copy of the Superblock.   *)
LEMMA RebuiltIsIntact ==
  ASSUME NEW j \in Slots \X Side, NEW r, TrueReport(r, j[1]),
         NEW b \in RebuildPtrBlock(r, j[2]), M!WriteCells(BlockWrite(j, b))
  PROVE  EndIntact(j[2], j[1])'
<1>1. j[1] \in Slots /\ j[2] \in Side
  OBVIOUS
<1>2. Complete(j[1], VerifyPtrBlock(b[1], b[2]))
  BY <1>1, RebuiltIsComplete
<1>3. \A p \in {1, 2} : vis'[<<Block(j[2], j[1]), p>>] = b[p]
  <2> TAKE p \in {1, 2}
  <2>1. <<Block(j[2], j[1]), p>> \in Cell
    BY <1>1, Cells
  <2>2. <<Block(j[2], j[1]), p>> \in Parts(Block(j[2], j[1]))
    BY DEF Parts
  <2> QED BY <2>1, <2>2 DEF M!WriteCells, BlockWrite
<1> QED BY <1>2, <1>3 DEF EndIntact, PtrAt

LEMMA CopyIsFine ==
  ASSUME NEW sb, ChecksumOk(sb), NEW p \in SbRegion,
         M!WriteCells([c \in Parts(p) \cap Cell |-> sb[c[2]]])
  PROVE  ChecksumOk(ReadReal(vis', p))
<1>1. \A i \in {1, 2} : <<p, i>> \in Cell /\ <<p, i>> \in Parts(p)
  BY DEF Cell, SbCell, Parts
<1>2. \A i \in {1, 2} : vis'[<<p, i>>] = sb[i]
  BY <1>1 DEF M!WriteCells
<1> QED BY <1>1, <1>2 DEF ChecksumOk, ReadReal

-----------------------------------------------------------------------------
(* What is known between the choice of a write and its report.             *)
MendInv ==
  /\ pc = "barrier" => \A j : Due(j) => EndIntact(j[2], j[1])
  /\ pc = "sbwrite" => ChecksumOk(superblock)
  /\ pc = "sbsync" => \A p \in sbAt.primary : ChecksumOk(ReadReal(vis, p))

LEMMA RewriteMends ==
  ASSUME IInv, NEW j \in todo, RewriteEnd(j)
  PROVE  MendInv'
<1>1. PICK b \in RebuildPtrBlock(anchors[j[1]], j[2]) : M!WriteCells(BlockWrite(j, b))
  BY DEF RewriteEnd
<1>2. j \in Slots \X Side /\ TrueReport(anchors[j[1]], j[1])
  BY DEF IInv, BooksOK, ReportsOK
<1>5. EndIntact(j[2], j[1])'
  BY <1>1, <1>2, RebuiltIsIntact
<1>6. \A i : Due(i)' => i = j
  BY OneIsDue DEF IInv, RewriteEnd, Due
<1>7. pc' = "barrier"
  BY DEF RewriteEnd
<1> QED BY <1>5, <1>6, <1>7 DEF MendInv

LEMMA WriteMends ==
  ASSUME IInv, MendInv, WriteSuperblock
  PROVE  MendInv'
<1>1. PICK p \in sbAt.primary : M!WriteCells(SuperblockWrite(p))
  BY DEF WriteSuperblock
<1>2. pc' = "sbsync" /\ sbAt' = sbAt /\ pc = "sbwrite"
  BY DEF WriteSuperblock, session
<1>3. p = At("superblock") /\ \A q \in sbAt.primary : q = p
  BY DEF IInv, SessionOK
<1>6. ChecksumOk(superblock)
  BY <1>2 DEF MendInv
<1>7. ChecksumOk(ReadReal(vis', p))
  BY <1>1, <1>3, <1>6, CopyIsFine DEF SuperblockWrite, SbRegion
<1>8. \A q \in sbAt'.primary : ChecksumOk(ReadReal(vis', q))
  BY <1>2, <1>3, <1>7
<1> QED BY <1>2, <1>8 DEF MendInv

(* Damage strikes while no call is under way.                              *)
LEMMA MendNext == IInv /\ MendInv /\ [Next]_vars => MendInv'
<1> SUFFICES ASSUME IInv, MendInv, [Next]_vars PROVE MendInv'
  OBVIOUS
<1>1. ASSUME NEW j \in todo, RewriteEnd(j) PROVE MendInv'
  BY <1>1, RewriteMends
<1>2. ASSUME NEW j \in todo, NextEnd(j) PROVE MendInv'
  BY <1>2 DEF NextEnd, MendInv
<1>3. ASSUME SuperblockFine \/ SuperblockUnrecoverable PROVE MendInv'
  BY <1>3 DEF SuperblockFine, SuperblockUnrecoverable, MendInv
<1>4. ASSUME AdoptBackup PROVE MendInv'
  BY <1>4 DEF AdoptBackup, BackupFine, MendInv
<1>5. ASSUME WriteSuperblock PROVE MendInv'
  BY <1>5, WriteMends
<1>6. ASSUME CheckFails \/ SyncSuperblock PROVE MendInv'
  BY <1>6 DEF CheckFails, SyncSuperblock, MendInv
<1>7. ASSUME ConfirmStep PROVE MendInv'
  BY <1>7 DEF ConfirmStep, WriteSmart, WriteSmartFails, SyncSmart, MendInv
<1>8. ASSUME Calls PROVE MendInv'
  BY <1>8 DEF Calls, MountFull, MountBypass, MountRefused, CheckStart,
     ConfirmStart, CallSync, Close, Remount, Forget, MendInv
<1>9. ASSUME Damage PROVE MendInv'
  BY <1>9, DamageWhenAssumption DEF Damage, Corrupt, BadSector, WriteBlock, MendInv
<1>10. ASSUME Kill \/ PowerLoss PROVE MendInv'
  BY <1>10 DEF Kill, PowerLoss, Forget, MendInv
<1>11. CASE UNCHANGED vars
  BY <1>11 DEF vars, session, MendInv, Due, EndIntact
<1> QED
  BY <1>1, <1>2, <1>3, <1>4, <1>5, <1>6, <1>7, <1>8, <1>9, <1>10, <1>11
     DEF Next, Running, CheckStep, RewriteEndFails, SyncEnd, SyncEndFails,
         WriteSuperblockFails, SyncSuperblockFails

-----------------------------------------------------------------------------
(* After a barrier nothing is left to chance.                              *)
LEMMA SyncedIsDurable ==
  ASSUME M!Sync, NEW r, Parts(r) \subseteq Cell
  PROVE  Durable(r)'
<1>1. \A c \in Parts(r) : surv'[c] = {vis[c]}
  BY DEF M!Sync
<1>2. \A x : Cardinality({x}) = 1
  BY FS_Singleton
<1> QED BY <1>1, <1>2 DEF Durable

(* A step that counts nothing reports nothing.                             *)
Silent == /\ res'.repaired \subseteq res.repaired
          /\ res'.sbRepaired => res.sbRepaired

LEMMA SilentIsDurable == ASSUME Silent PROVE ReportedDurable
BY DEF Silent, ReportedDurable

(* A call that begins has counted nothing.                                 *)
LEMMA ResultIsSilent == ASSUME NEW call, res' = Result(call) PROVE Silent
BY DEF Silent, Result, NoResult

LEMMA CheckStartIsSilent == ASSUME CheckStart PROVE Silent
<1> DEFINE r == Result("check")
<1>1. r \in Results /\ r.repaired = {} /\ r.sbRepaired = FALSE
  BY DEF Result, NoResult, Results, Reporting
<1>2. \E deg, lost, dis :
        res' = [r EXCEPT !.degraded = deg, !.lost = lost, !.disagree = dis]
  BY Zenon DEF CheckStart
<1> HIDE DEF r
<1>3. ASSUME NEW deg, NEW lost, NEW dis
      PROVE  LET q == [r EXCEPT !.degraded = deg, !.lost = lost, !.disagree = dis]
             IN  q.repaired = r.repaired /\ q.sbRepaired = r.sbRepaired
  BY <1>1 DEF Results
<1> QED BY <1>1, <1>2, <1>3 DEF Silent

LEMMA ReportedNext == IInv /\ MendInv /\ [Next]_vars => [ReportedDurable]_vars
<1> SUFFICES ASSUME IInv, MendInv, Next PROVE ReportedDurable
  OBVIOUS
<1>1. ASSUME NEW j \in todo, SyncEnd(j) PROVE ReportedDurable
  <2>1. /\ pc = "barrier" /\ Due(j) /\ M!Sync
        /\ res' = [res EXCEPT !.repaired = @ \cup {j}]
    BY <1>1 DEF SyncEnd
  <2>2. j[1] \in Slots /\ j[2] \in Side
    BY DEF IInv, BooksOK
  <2>3. vis' = vis
    BY <2>1 DEF M!Sync
  <2>4. EndIntact(j[2], j[1])'
    BY <2>1, <2>3 DEF MendInv, EndIntact
  <2>5. Parts(Block(j[2], j[1])) \subseteq Cell
    BY <2>2, Cells DEF Parts
  <2>6. Durable(Block(j[2], j[1]))'
    BY <2>1, <2>5, SyncedIsDurable
  <2>7. res'.repaired \ res.repaired \subseteq {j} /\ res'.sbRepaired = res.sbRepaired
    BY <2>1 DEF IInv, BooksOK, Results
  <2> QED BY <2>4, <2>6, <2>7 DEF ReportedDurable
<1>2. ASSUME SyncSuperblock PROVE ReportedDurable
  <2>1. pc = "sbsync" /\ M!Sync /\ res' = [res EXCEPT !.sbRepaired = TRUE]
    BY <1>2 DEF SyncSuperblock
  <2>2. vis' = vis /\ sbAt' = sbAt
    BY <1>2, <2>1 DEF M!Sync, SyncSuperblock, session
  <2>3. \A p \in sbAt.primary : ChecksumOk(ReadReal(vis', p))
    BY <2>1, <2>2 DEF MendInv
  <2>4. \A p \in sbAt.primary : Durable(p)'
    <3> TAKE p \in sbAt.primary
    <3>1. p = At("superblock")
      BY DEF IInv, SessionOK
    <3>2. Parts(p) \subseteq Cell
      BY <3>1 DEF Parts, Cell, SbCell, SbRegion
    <3> QED BY <2>1, <3>2, SyncedIsDurable
  <2>5. res'.repaired = res.repaired
    BY <2>1 DEF IInv, BooksOK, Results
  <2> QED BY <2>3, <2>4, <2>5 DEF ReportedDurable
<1>3. ASSUME NEW j \in todo, RewriteEnd(j) \/ RewriteEndFails(j) \/ SyncEndFails(j)
      PROVE  ReportedDurable
  BY <1>3, SilentIsDurable DEF RewriteEnd, RewriteEndFails, SyncEndFails, Silent
<1>4. ASSUME SuperblockFine \/ SuperblockUnrecoverable \/ AdoptBackup
      PROVE  ReportedDurable
  BY <1>4, SilentIsDurable
     DEF SuperblockFine, SuperblockUnrecoverable, AdoptBackup, Silent, IInv,
         BooksOK, Results
<1>5. ASSUME WriteSuperblock \/ ConfirmStep PROVE ReportedDurable
  BY <1>5, SilentIsDurable, ResultIsSilent
     DEF WriteSuperblock, ConfirmStep, WriteSmart, WriteSmartFails, SyncSmart, Silent
<1>6. ASSUME CheckFails PROVE ReportedDurable
  BY <1>6, SilentIsDurable, ResultIsSilent DEF CheckFails
<1>7. ASSUME Calls PROVE ReportedDurable
  <2>1. CheckStart => Silent
    BY CheckStartIsSilent
  <2>2. Close => Silent
    BY DEF Close, Silent, NoResult
  <2>3. Calls => CheckStart \/ Close \/ \E call : res' = Result(call)
    BY DEF Calls, MountFull, MountBypass, MountRefused, ConfirmStart, CallSync,
           Remount
  <2> QED BY <1>7, <2>1, <2>2, <2>3, ResultIsSilent, SilentIsDurable
<1>8. ASSUME Damage PROVE ReportedDurable
  BY <1>8, SilentIsDurable, ResultIsSilent
     DEF Damage, Corrupt, BadSector, WriteBlock, Silent
<1>9. ASSUME Kill \/ PowerLoss PROVE ReportedDurable
  BY <1>9, SilentIsDurable DEF Kill, PowerLoss, Silent, NoResult
<1> QED
  BY <1>1, <1>2, <1>3, <1>4, <1>5, <1>6, <1>7, <1>8, <1>9
     DEF Next, Running, CheckStep, WriteSuperblockFails, SyncSuperblockFails

(* check.rs:114-126, 160-165: what check() counts as repaired is complete  *)
(* on the device and no power loss takes it back, whatever failed before.  *)
THEOREM RepairsAreDurable == Spec => RepairedIsDurable
<1>1. Init => MendInv
  BY DEF Init, MendInv
<1>2. Spec => []IInv
  BY InitIInv, NextIInv, PTL DEF Spec
<1>3. Spec => []MendInv
  BY <1>1, <1>2, MendNext, PTL DEF Spec
<1>4. Spec => [][ReportedDurable]_vars
  BY <1>2, <1>3, ReportedNext, PTL DEF Spec
<1> QED BY <1>4 DEF RepairedIsDurable

-----------------------------------------------------------------------------
(***************************************************************************)
(* Proofs about Engine: only damage loses information.  SlotSafe and       *)
(* SuperblockSafe speak of every image a power loss may leave; both come   *)
(* down to what is sure of a granule, whichever of its survivors it turns  *)
(* out to hold.  A step of the engine adds no survivor to a granule that   *)
(* is worse than the ones it had: what was sure remains so.                *)
(***************************************************************************)

TableTop == <<At("function_table"), 1>>

(* The invariant.  A volume has one pointer checksum algorithm n: a block  *)
(* of an old part and a new one would not verify without that.  The SMART  *)
(* table a session writes is not the Superblock, unless damage said so.    *)
OfAlgo(x, n) == x.is = "ptr" => x.n = n
ReportsAlgo(r, n) == \A s \in Slots : \A b \in r[s].head \cup r[s].tail : b.algo = n

LossInv(n) ==
  /\ M!VisibleMaySurvive
  /\ \A c \in PtrCell : \A x \in surv[c] : OfAlgo(x, n)
  /\ ReportsAlgo(anchors, n)
  /\ \A x \in surv[TableTop] : x.to \notin SbRegion
  /\ \A t \in smartMain : t.at \notin SbRegion
OneAlgo == \E n : LossInv(n)

-----------------------------------------------------------------------------
(* One image: sub-block p of slot s on end d verifies.                     *)
Has(v, d, s, p) == Readable(Block(d, s)) /\ v[<<Block(d, s), p>>].is = "ptr"
SlotCells(s) == {c \in PtrCell : c[1][2] = s}

LEMMA SlotCellFacts ==
  ASSUME NEW s \in Slots, NEW d \in Side, NEW p \in {1, 2}
  PROVE  LET c == <<Block(d, s), p>>
         IN  c \in SlotCells(s) /\ c \in PtrCell /\ c \in Cell /\ c[1][2] = s /\ c[2] = p
BY Cells DEF SlotCells, Block

(* What an end of slot s tells, in terms of its two parts.                 *)
LEMMA EndTells ==
  ASSUME NEW v, NEW n, NEW s \in Slots, NEW d \in Side,
         \A c \in SlotCells(s) : OfAlgo(v[c], n)
  PROVE  LET e == ReadPtr(v, d, s) IN
         /\ e # {} <=> Has(v, d, s, 1)
         /\ Reals(e) # {} <=> Has(v, d, s, 1)
         /\ Fallbacks(e) # {} <=> Has(v, d, s, 1) /\ Has(v, d, s, 2)
<1> DEFINE x == v[<<Block(d, s), 1>>]
           y == v[<<Block(d, s), 2>>]
           F == {u.to : u \in {z \in {y} : z.is = "ptr" /\ z.n = x.n}}
           B == [real |-> x.to, fallback |-> F, algo |-> x.n]
           e == ReadPtr(v, d, s)
<1>1. OfAlgo(x, n) /\ OfAlgo(y, n)
  BY SlotCellFacts
<1>2. e = IF Has(v, d, s, 1) THEN {B} ELSE {}
  BY DEF ReadPtr, PtrAt, VerifyPtrBlock, Has
<1>3. Has(v, d, s, 1) => (F # {} <=> Has(v, d, s, 2))
  BY <1>1 DEF Has, OfAlgo
<1>4. B.fallback = F
  OBVIOUS
<1> HIDE DEF B, F, e
<1>5. Fallbacks({B}) = F /\ Fallbacks({}) = {} /\ Reals({B}) # {} /\ Reals({}) = {}
  BY <1>4 DEF Fallbacks, Reals
<1>6. /\ e # {} <=> Has(v, d, s, 1)
      /\ Reals(e) # {} <=> Has(v, d, s, 1)
      /\ Fallbacks(e) # {} <=> Has(v, d, s, 1) /\ Has(v, d, s, 2)
  BY <1>2, <1>3, <1>5
<1> QED BY <1>6 DEF e

(* Which parts a slot can be recovered from: h1 and h2 say that the parts  *)
(* of the head are there, t1 and t2 those of the tail.                     *)
Enough(s, h1, h2, t1, t2) ==
  IF s = 0 THEN (h1 /\ h2) \/ (h1 /\ t1) \/ (t1 /\ t2) ELSE h1 \/ t1

LEMMA ReportTells ==
  ASSUME NEW r
  PROVE  Recoverable(r) <=>
           IF r.slot = 0
           THEN /\ IF r.head # {} THEN Reals(r.head) # {} ELSE Fallbacks(r.tail) # {}
                /\ Fallbacks(r.head) # {} \/ Reals(r.tail) # {}
           ELSE r.head # {} \/ r.tail # {}
BY DEF Recoverable, SbPrimary, SbBackup

LEMMA RecoverableIff ==
  ASSUME NEW v, NEW n, NEW s \in Slots,
         \A c \in SlotCells(s) : OfAlgo(v[c], n)
  PROVE  Recoverable(ReportOf(v, s)) <=>
           Enough(s, Has(v, "head", s, 1), Has(v, "head", s, 2),
                     Has(v, "tail", s, 1), Has(v, "tail", s, 2))
<1> DEFINE h == ReadPtr(v, "head", s)
           t == ReadPtr(v, "tail", s)
           r == ReportOf(v, s)
<1>1. r.slot = s /\ r.head = h /\ r.tail = t
  BY DEF ReportOf, SlotReport
<1>2. \A d \in Side : LET e == ReadPtr(v, d, s) IN
         /\ e # {} <=> Has(v, d, s, 1)
         /\ Reals(e) # {} <=> Has(v, d, s, 1)
         /\ Fallbacks(e) # {} <=> Has(v, d, s, 1) /\ Has(v, d, s, 2)
  BY EndTells
<1>3. /\ h # {} <=> Has(v, "head", s, 1)
      /\ Reals(h) # {} <=> Has(v, "head", s, 1)
      /\ Fallbacks(h) # {} <=> Has(v, "head", s, 1) /\ Has(v, "head", s, 2)
      /\ t # {} <=> Has(v, "tail", s, 1)
      /\ Reals(t) # {} <=> Has(v, "tail", s, 1)
      /\ Fallbacks(t) # {} <=> Has(v, "tail", s, 1) /\ Has(v, "tail", s, 2)
  BY <1>2 DEF Side
<1> HIDE DEF h, t, r
<1> DEFINE E == Enough(s, Has(v, "head", s, 1), Has(v, "head", s, 2),
                          Has(v, "tail", s, 1), Has(v, "tail", s, 2))
<1>4. CASE s = 0
  <2>1. E <=> \/ Has(v, "head", s, 1) /\ Has(v, "head", s, 2)
              \/ Has(v, "head", s, 1) /\ Has(v, "tail", s, 1)
              \/ Has(v, "tail", s, 1) /\ Has(v, "tail", s, 2)
    BY <1>4 DEF Enough
  <2>2. Recoverable(r) <=>
          /\ IF h # {} THEN Reals(h) # {} ELSE Fallbacks(t) # {}
          /\ Fallbacks(h) # {} \/ Reals(t) # {}
    BY <1>1, <1>4, ReportTells
  <2> HIDE DEF E
  <2>3. Recoverable(r) <=> E
    BY <1>3, <2>1, <2>2, Zenon
  <2> QED BY <2>3 DEF r, E
<1>5. CASE s # 0
  <2>1. E <=> Has(v, "head", s, 1) \/ Has(v, "tail", s, 1)
    BY <1>5 DEF Enough
  <2>2. Recoverable(r) <=> h # {} \/ t # {}
    BY <1>1, <1>5, ReportTells
  <2> HIDE DEF E
  <2>3. Recoverable(r) <=> E
    BY <1>3, <2>1, <2>2, Zenon
  <2> QED BY <2>3 DEF r, E
<1> QED BY <1>4, <1>5

-----------------------------------------------------------------------------
(* All images: what is sure of a slot and of a copy of the Superblock.     *)
Sure(d, s, p) ==
  Readable(Block(d, s)) /\ \A x \in surv[<<Block(d, s), p>>] : x.is = "ptr"
SlotSure(s) == Enough(s, Sure("head", s, 1), Sure("head", s, 2),
                         Sure("tail", s, 1), Sure("tail", s, 2))
CopySure(b) == \A p \in {1, 2} : \A x \in surv[<<b, p>>] : x.is = "superblock"
SuperblockSure == \E b \in SbRegion \ unreadable : CopySure(b)

(* A choice of survivors for the cells of C is an image, and the reverse.  *)
SomeImage(v, C) == \A c \in C : v[c] \in surv[c]

LEMMA ImageIsChoice ==
  ASSUME NEW C, C \subseteq Cell, NEW f \in M!Images(C)
  PROVE  SomeImage(M!Overlay(f), C)
<1> SUFFICES ASSUME NEW c \in C PROVE M!Overlay(f)[c] \in surv[c]
  BY DEF SomeImage
<1>1. DOMAIN f = M!Open(C) /\ \A x \in M!Open(C) : f[x] \in surv[x]
  BY DEF M!Images
<1>2. c \in M!Open(C) \/ surv[c] = {vis[c]}
  BY DEF M!Open
<1> QED BY <1>1, <1>2 DEF M!Overlay

LEMMA ChoiceIsImage ==
  ASSUME NEW C, C \subseteq Cell, NEW v, SomeImage(v, C)
  PROVE  \E f \in M!Images(C) : \A c \in C : M!Overlay(f)[c] = v[c]
<1> DEFINE f == [c \in M!Open(C) |-> v[c]]
<1>1. M!Open(C) \subseteq C /\ \A c \in C : c \in M!Open(C) \/ surv[c] = {vis[c]}
  BY DEF M!Open
<1>2. \A c \in M!Open(C) : f[c] \in surv[c] /\ f[c] \in UNION {surv[x] : x \in M!Open(C)}
  BY <1>1 DEF SomeImage
<1>3. f \in M!Images(C)
  BY <1>2 DEF M!Images
<1>4. ASSUME NEW c \in C PROVE M!Overlay(f)[c] = v[c]
  BY <1>1 DEF M!Overlay, SomeImage
<1> QED BY <1>3, <1>4

(* The worst choice holds nothing of kind k that is not sure.              *)
Worst(k) == [c \in Cell |-> IF \E x \in surv[c] : x.is # k
                            THEN CHOOSE x \in surv[c] : x.is # k ELSE vis[c]]

LEMMA WorstIsChoice ==
  ASSUME M!VisibleMaySurvive, NEW k, NEW C, C \subseteq Cell
  PROVE  /\ SomeImage(Worst(k), C)
         /\ \A c \in C : Worst(k)[c].is = k => \A x \in surv[c] : x.is = k
<1> SUFFICES ASSUME NEW c \in C
             PROVE  /\ Worst(k)[c] \in surv[c]
                    /\ Worst(k)[c].is = k => \A x \in surv[c] : x.is = k
  BY DEF SomeImage
<1>1. vis[c] \in surv[c]
  BY DEF M!VisibleMaySurvive
<1>2. CASE \E x \in surv[c] : x.is # k
  <2>1. Worst(k)[c] = CHOOSE x \in surv[c] : x.is # k
    BY <1>2 DEF Worst
  <2> QED BY <1>2, <2>1
<1>3. CASE \A x \in surv[c] : x.is = k
  BY <1>1, <1>3 DEF Worst
<1> QED BY <1>2, <1>3

LEMMA SlotSafeIff ==
  OneAlgo => \A s \in Slots : SlotSafe(s) <=> SlotSure(s)
<1> SUFFICES ASSUME OneAlgo, NEW s \in Slots PROVE SlotSafe(s) <=> SlotSure(s)
  OBVIOUS
<1>1. PICK n : LossInv(n)
  BY DEF OneAlgo
<1>2. SlotCells(s) \subseteq Cell /\ SlotCells(s) \subseteq PtrCell
  BY Cells DEF SlotCells
<1>3. ASSUME NEW v, SomeImage(v, SlotCells(s))
      PROVE  \A c \in SlotCells(s) : OfAlgo(v[c], n)
  BY <1>1, <1>2, <1>3 DEF LossInv, SomeImage
<1>4. SlotSafe(s) <=> \A f \in M!Images(SlotCells(s)) : Recoverable(ReportOf(M!Overlay(f), s))
  BY DEF SlotSafe, SlotCells
<1>5. ASSUME SlotSure(s), NEW f \in M!Images(SlotCells(s))
      PROVE  Recoverable(ReportOf(M!Overlay(f), s))
  <2> DEFINE v == M!Overlay(f)
  <2>1. SomeImage(v, SlotCells(s))
    BY <1>2, ImageIsChoice
  <2> HIDE DEF v
  <2>2. \A d \in Side, p \in {1, 2} : Sure(d, s, p) => Has(v, d, s, p)
    BY <2>1, SlotCellFacts DEF Sure, Has, SomeImage
  <2>3. /\ Sure("head", s, 1) => Has(v, "head", s, 1)
        /\ Sure("head", s, 2) => Has(v, "head", s, 2)
        /\ Sure("tail", s, 1) => Has(v, "tail", s, 1)
        /\ Sure("tail", s, 2) => Has(v, "tail", s, 2)
    BY <2>2 DEF Side
  <2>4. Enough(s, Has(v, "head", s, 1), Has(v, "head", s, 2),
                  Has(v, "tail", s, 1), Has(v, "tail", s, 2))
    BY <1>5, <2>3 DEF SlotSure, Enough
  <2>5. Recoverable(ReportOf(v, s))
    BY <1>3, <2>1, <2>4, RecoverableIff
  <2> QED BY <2>5 DEF v
<1>6. ASSUME \A f \in M!Images(SlotCells(s)) : Recoverable(ReportOf(M!Overlay(f), s))
      PROVE  SlotSure(s)
  <2> DEFINE w == Worst("ptr")
  <2>1. /\ SomeImage(w, SlotCells(s))
        /\ \A c \in SlotCells(s) : w[c].is = "ptr" => \A x \in surv[c] : x.is = "ptr"
    BY <1>1, <1>2, WorstIsChoice DEF LossInv
  <2> HIDE DEF w
  <2>2. PICK f \in M!Images(SlotCells(s)) : \A c \in SlotCells(s) : M!Overlay(f)[c] = w[c]
    BY <1>2, <2>1, ChoiceIsImage
  <2> DEFINE v == M!Overlay(f)
  <2>3. Recoverable(ReportOf(v, s))
    BY <1>6
  <2>4. SomeImage(v, SlotCells(s))
    BY <2>1, <2>2 DEF SomeImage
  <2>5. \A c \in SlotCells(s) : v[c] = w[c]
    BY <2>2
  <2> HIDE DEF v
  <2>6. Enough(s, Has(v, "head", s, 1), Has(v, "head", s, 2),
                  Has(v, "tail", s, 1), Has(v, "tail", s, 2))
    BY <1>3, <2>3, <2>4, RecoverableIff
  <2>7. \A d \in Side, p \in {1, 2} : Has(v, d, s, p) => Sure(d, s, p)
    BY <2>1, <2>5, SlotCellFacts DEF Sure, Has
  <2>8. /\ Has(v, "head", s, 1) => Sure("head", s, 1)
        /\ Has(v, "head", s, 2) => Sure("head", s, 2)
        /\ Has(v, "tail", s, 1) => Sure("tail", s, 1)
        /\ Has(v, "tail", s, 2) => Sure("tail", s, 2)
    BY <2>7 DEF Side
  <2> QED BY <2>6, <2>8 DEF SlotSure, Enough
<1> QED BY <1>4, <1>5, <1>6

LEMMA SuperblockSafeIff == OneAlgo => (SuperblockSafe <=> SuperblockSure)
<1> SUFFICES ASSUME OneAlgo PROVE SuperblockSafe <=> SuperblockSure
  OBVIOUS
<1>1. M!VisibleMaySurvive
  BY DEF OneAlgo, LossInv
<1>2. SbCell \subseteq Cell
  BY Cells
<1>3. \A b \in SbRegion, p \in {1, 2} : <<b, p>> \in SbCell /\ <<b, p>> \in Cell
  BY <1>2 DEF SbCell
<1>4. ASSUME NEW v, NEW b \in SbRegion
      PROVE  ChecksumOk(ReadReal(v, b)) <=> \A p \in {1, 2} : v[<<b, p>>].is = "superblock"
  BY <1>3 DEF ChecksumOk, ReadReal
<1>5. ASSUME SuperblockSure, NEW f \in M!Images(SbCell)
      PROVE  \E b \in SbRegion \ unreadable : ChecksumOk(ReadReal(M!Overlay(f), b))
  <2>1. PICK b \in SbRegion \ unreadable : CopySure(b)
    BY <1>5 DEF SuperblockSure
  <2>2. SomeImage(M!Overlay(f), SbCell)
    BY <1>2, ImageIsChoice
  <2>3. \A p \in {1, 2} : M!Overlay(f)[<<b, p>>].is = "superblock"
    BY <1>3, <2>1, <2>2 DEF CopySure, SomeImage
  <2> QED BY <1>4, <2>1, <2>3
<1>6. ASSUME SuperblockSafe PROVE SuperblockSure
  <2> DEFINE w == Worst("superblock")
  <2>1. /\ SomeImage(w, SbCell)
        /\ \A c \in SbCell : w[c].is = "superblock" => \A x \in surv[c] : x.is = "superblock"
    BY <1>1, <1>2, WorstIsChoice
  <2> HIDE DEF w
  <2>2. PICK f \in M!Images(SbCell) : \A c \in SbCell : M!Overlay(f)[c] = w[c]
    BY <1>2, <2>1, ChoiceIsImage
  <2>3. PICK b \in SbRegion \ unreadable : ChecksumOk(ReadReal(M!Overlay(f), b))
    BY <1>6 DEF SuperblockSafe
  <2> DEFINE v == M!Overlay(f)
  <2>4. \A p \in {1, 2} : w[<<b, p>>].is = "superblock"
    <3>1. \A p \in {1, 2} : v[<<b, p>>] = w[<<b, p>>]
      BY <1>3, <2>2
    <3>2. ChecksumOk(ReadReal(v, b))
      BY <2>3
    <3> HIDE DEF v
    <3>3. \A p \in {1, 2} : v[<<b, p>>].is = "superblock"
      BY <1>4, <3>2
    <3> QED BY <3>1, <3>3
  <2>5. CopySure(b)
    BY <1>3, <2>1, <2>4 DEF CopySure
  <2> QED BY <2>3, <2>5 DEF SuperblockSure
<1> QED BY <1>5, <1>6 DEF SuperblockSafe

-----------------------------------------------------------------------------
(* What a step may add to the survivors of cell c.                         *)
Harmless(c, x, n) ==
  /\ c \in PtrCell => OfAlgo(x, n)
  /\ c = TableTop => x.to \notin SbRegion

(* No worse than a granule that is whole: the fallback part of a slot      *)
(* other than 0 carries nothing.                                           *)
Sound(c, x) ==
  /\ c \in PtrCell => x.is = "ptr" \/ (c[2] = 2 /\ c[1][2] # 0)
  /\ c \in SbCell => x.is = "superblock"

Adds(c, x, n) == Harmless(c, x, n) /\ (damage' = damage => Sound(c, x))
DeviceStep(n) ==
  /\ M!VisibleMaySurvive'
  /\ \A c \in Cell : \A x \in surv'[c] : x \in surv[c] \/ Adds(c, x, n)

(* What a reader sees of it, unless the power is lost.                     *)
Seen(n) == \A c \in Cell : vis'[c] = vis[c] \/ Adds(c, vis'[c], n)

LEMMA WriteAdds ==
  ASSUME NEW n, M!VisibleMaySurvive, NEW W, M!WriteCells(W),
         \A c \in DOMAIN W : c \in Cell => Adds(c, W[c], n)
  PROVE  DeviceStep(n) /\ Seen(n)
BY DEF DeviceStep, Seen, M!WriteCells, M!VisibleMaySurvive

LEMMA WriteFailsAdds ==
  ASSUME NEW n, M!VisibleMaySurvive, NEW W, NEW D, M!WriteFails(W, D),
         \A c \in DOMAIN W : c \in Cell => Adds(c, W[c], n)
  PROVE  DeviceStep(n) /\ Seen(n)
<1> DEFINE V == [c \in DOMAIN W \cap D |-> W[c]]
<1>1. M!WriteCells(V)
  BY DEF M!WriteFails
<1>2. \A c \in DOMAIN V : c \in Cell => Adds(c, V[c], n)
  OBVIOUS
<1> HIDE DEF V
<1> QED BY <1>1, <1>2, WriteAdds

LEMMA SyncAdds == ASSUME NEW n, M!VisibleMaySurvive, M!Sync PROVE DeviceStep(n) /\ Seen(n)
BY DEF DeviceStep, Seen, M!Sync, M!VisibleMaySurvive

LEMMA SameAdds ==
  ASSUME NEW n, M!VisibleMaySurvive, UNCHANGED <<vis, surv>> PROVE DeviceStep(n) /\ Seen(n)
BY DEF DeviceStep, Seen, M!VisibleMaySurvive

LEMMA SyncFailsAdds ==
  ASSUME NEW n, M!VisibleMaySurvive, M!SyncFails PROVE DeviceStep(n) /\ Seen(n)
BY SameAdds DEF M!SyncFails, M!medium

LEMMA PowerCutAdds == ASSUME NEW n, PowerLoss PROVE DeviceStep(n)
<1>1. PICK f \in M!Images(Cell) : /\ vis' = M!Overlay(f)
                                  /\ surv' = [c \in Cell |-> {M!Overlay(f)[c]}]
  BY DEF PowerLoss, M!PowerCut
<1>2. SomeImage(M!Overlay(f), Cell)
  BY ImageIsChoice
<1> QED BY <1>1, <1>2 DEF DeviceStep, M!VisibleMaySurvive, SomeImage

LEMMA PokeAdds ==
  ASSUME NEW n, IInv, M!VisibleMaySurvive, NEW c \in Cell, NEW x, M!Poke(c, x),
         Adds(c, x, n)
  PROVE  DeviceStep(n) /\ Seen(n)
BY DEF DeviceStep, Seen, M!Poke, M!VisibleMaySurvive, IInv, DeviceOK, TrueImage, TrueFutures

-----------------------------------------------------------------------------
(* What the engine writes.                                                 *)
LEMMA PlaceFacts ==
  /\ TableTop \in Cell /\ TableTop \notin PtrCell /\ TableTop \notin SbCell
  /\ \A c \in SbCell : c \notin PtrCell /\ c # TableTop
  /\ \A d \in Side : \A s, p :
       LET c == <<Block(d, s), p>> IN c \notin SbCell /\ c # TableTop
BY DEF TableTop, Cell, TableCell, TableRegion, PtrCell, PtrRegion, SbCell, SbRegion,
       Block, Side, At

LEMMA RebuiltAdds ==
  ASSUME NEW n, NEW s \in Slots, NEW d \in Side, NEW r, r.slot = s,
         \A g \in r.head \cup r.tail : g.algo = n, NEW b \in RebuildPtrBlock(r, d)
  PROVE  \A p \in {1, 2} : Adds(<<Block(d, s), p>>, b[p], n)
<1>1. \A g \in Chosen(r) : g.algo = n
  BY DEF Chosen
<1>0. /\ \A u : Ptr(u, n).is = "ptr" /\ Ptr(u, n).n = n /\ OfAlgo(Ptr(u, n), n)
      /\ OfAlgo(Junk, n)
  BY DEF Ptr, Junk, OfAlgo
<1>2. b[1].is = "ptr" /\ b[1].n = n /\ OfAlgo(b[2], n) /\ (s = 0 => b[2].is = "ptr")
  <2>1. CASE s # 0
    <3>1. PICK g \in Chosen(r) : b = BuildPtrBlock(g.algo, g.real, g.fallback)
      BY <2>1 DEF RebuildPtrBlock
    <3>2. b[1] = Ptr(g.real, n) /\ (b[2] = Junk \/ \E u : b[2] = Ptr(u, n))
      BY <1>1, <3>1 DEF BuildPtrBlock
    <3> QED BY <1>0, <2>1, <3>2
  <2>2. CASE s = 0
    <3>1. PICK g \in Chosen(r), x \in SbPrimary(r), y \in SbBackup(r) :
            b = SlotZeroBlock(d, g.algo, x, y)
      BY <2>2 DEF RebuildPtrBlock
    <3>2. PICK u, w : b = BuildPtrBlock(g.algo, u, {w})
      BY <3>1 DEF SlotZeroBlock
    <3>3. b[1] = Ptr(u, n) /\ b[2] = Ptr(w, n)
      BY <1>1, <3>2 DEF BuildPtrBlock
    <3> QED BY <1>0, <3>3
  <2> QED BY <2>1, <2>2
<1> SUFFICES ASSUME NEW p \in {1, 2} PROVE Adds(<<Block(d, s), p>>, b[p], n)
  OBVIOUS
<1> DEFINE c == <<Block(d, s), p>>
<1>3. c[2] = p /\ c[1][2] = s /\ c \notin SbCell /\ c # TableTop
  BY PlaceFacts DEF Block
<1> HIDE DEF c
<1>4. OfAlgo(b[p], n) /\ (b[p].is = "ptr" \/ (p = 2 /\ s # 0))
  BY <1>2 DEF OfAlgo
<1>5. Adds(c, b[p], n)
  BY <1>3, <1>4 DEF Adds, Harmless, Sound
<1> QED BY <1>5 DEF c

LEMMA RebuiltWriteAdds ==
  ASSUME NEW n, NEW j \in Slots \X Side, NEW r, r.slot = j[1],
         \A g \in r.head \cup r.tail : g.algo = n, NEW b \in RebuildPtrBlock(r, j[2])
  PROVE  \A c \in DOMAIN BlockWrite(j, b) : Adds(c, BlockWrite(j, b)[c], n)
<1>1. j[1] \in Slots /\ j[2] \in Side
  OBVIOUS
<1>2. \A p \in {1, 2} : Adds(<<Block(j[2], j[1]), p>>, b[p], n)
  BY <1>1, RebuiltAdds
<1> SUFFICES ASSUME NEW c \in Parts(Block(j[2], j[1])) PROVE Adds(c, b[c[2]], n)
  BY DEF BlockWrite
<1> QED BY <1>2 DEF Parts

LEMMA CopyWriteAdds ==
  ASSUME NEW n, NEW sb, ChecksumOk(sb), NEW p \in SbRegion
  PROVE  \A c \in Parts(p) \cap Cell : Adds(c, sb[c[2]], n)
<1> SUFFICES ASSUME NEW c \in Parts(p) \cap Cell PROVE Adds(c, sb[c[2]], n)
  OBVIOUS
<1>1. c \in SbCell /\ c[2] \in {1, 2}
  BY DEF Parts, SbCell
<1>2. sb[c[2]].is = "superblock"
  BY <1>1 DEF ChecksumOk
<1> QED BY <1>1, <1>2, PlaceFacts DEF Adds, Harmless, Sound

LEMMA BlockWriteAdds ==
  ASSUME NEW n, IInv, LossInv(n), NEW j \in todo,
         NEW b \in RebuildPtrBlock(anchors[j[1]], j[2])
  PROVE  \A c \in DOMAIN BlockWrite(j, b) : Adds(c, BlockWrite(j, b)[c], n)
<1>1. j \in Slots \X Side /\ anchors[j[1]].slot = j[1]
  BY DEF IInv, BooksOK, ReportsOK, TrueReport
<1>2. \A g \in anchors[j[1]].head \cup anchors[j[1]].tail : g.algo = n
  BY <1>1 DEF LossInv, ReportsAlgo
<1> QED BY <1>1, <1>2, RebuiltWriteAdds

LEMMA SuperblockWriteAdds ==
  ASSUME NEW n, IInv, ChecksumOk(superblock), NEW p \in sbAt.primary
  PROVE  \A c \in DOMAIN SuperblockWrite(p) : Adds(c, SuperblockWrite(p)[c], n)
<1>1. p \in SbRegion
  BY DEF IInv, SessionOK, SbRegion
<1> QED BY <1>1, CopyWriteAdds DEF SuperblockWrite

LEMMA SmartWriteAdds ==
  ASSUME NEW n, IInv, LossInv(n), NEW t \in smartMain
  PROVE  \A c \in DOMAIN SmartWrite(t) : Adds(c, SmartWrite(t)[c], n)
<1>1. t.at \in Structure /\ t.at \notin SbRegion
  BY DEF IInv, SessionOK, LossInv
<1> SUFFICES ASSUME NEW c \in {<<t.at, 1>>} PROVE Adds(c, SmartTable(Confirmed(t).n), n)
  BY DEF SmartWrite
<1>2. c \notin PtrCell /\ c \notin SbCell
  <2>1. c = <<t.at, 1>> /\ c[1] = t.at
    OBVIOUS
  <2>2. \A y \in SbCell : y[1] \in SbRegion
    BY DEF SbCell
  <2> QED BY <1>1, <2>1, <2>2, Cells
<1>3. SmartTable(Confirmed(t).n).to \notin SbRegion
  BY DEF SmartTable, Beyond, SbRegion, At
<1> QED BY <1>2, <1>3 DEF Adds, Harmless, Sound

-----------------------------------------------------------------------------
(* Damage may point smart_main_lba anywhere but at the Superblock, which   *)
(* confirm() would then overwrite, as the run claim_confirm shows: mount() *)
(* believes a Function Table without a checksum.                           *)
NoWildTable == WildTargets \cap SbRegion = {}

LEMMA DeviceSteps ==
  ASSUME NoWildTable, NEW n, IInv, MendInv, LossInv(n), [Next]_vars
  PROVE  DeviceStep(n) /\ (Seen(n) \/ PowerLoss)
<1>0. M!VisibleMaySurvive
  BY DEF LossInv
<1>1. ASSUME NEW j \in todo, RewriteEnd(j) \/ RewriteEndFails(j) PROVE DeviceStep(n) /\ Seen(n)
  <2>1. PICK b \in RebuildPtrBlock(anchors[j[1]], j[2]) :
          \/ M!WriteCells(BlockWrite(j, b))
          \/ \E D : M!WriteFails(BlockWrite(j, b), D)
    BY <1>1 DEF RewriteEnd, RewriteEndFails
  <2>2. \A c \in DOMAIN BlockWrite(j, b) : Adds(c, BlockWrite(j, b)[c], n)
    BY BlockWriteAdds
  <2> QED BY <1>0, <2>1, <2>2, WriteAdds, WriteFailsAdds
<1>2. ASSUME NEW j \in todo, SyncEnd(j) \/ SyncEndFails(j) PROVE DeviceStep(n) /\ Seen(n)
  BY <1>0, <1>2, SyncAdds, SyncFailsAdds DEF SyncEnd, SyncEndFails
<1>3. ASSUME SuperblockFine \/ SuperblockUnrecoverable \/ AdoptBackup
      PROVE  DeviceStep(n) /\ Seen(n)
  BY <1>0, <1>3, SameAdds DEF SuperblockFine, SuperblockUnrecoverable, AdoptBackup
<1>4. ASSUME WriteSuperblock \/ WriteSuperblockFails PROVE DeviceStep(n) /\ Seen(n)
  <2>1. PICK p \in sbAt.primary : \/ M!WriteCells(SuperblockWrite(p))
                                  \/ \E D : M!WriteFails(SuperblockWrite(p), D)
    BY <1>4 DEF WriteSuperblock, WriteSuperblockFails
  <2>2. ChecksumOk(superblock)
    BY <1>4 DEF WriteSuperblock, WriteSuperblockFails, MendInv
  <2>3. \A c \in DOMAIN SuperblockWrite(p) : Adds(c, SuperblockWrite(p)[c], n)
    BY <2>2, SuperblockWriteAdds
  <2> QED BY <1>0, <2>1, <2>3, WriteAdds, WriteFailsAdds
<1>5. ASSUME SyncSuperblock \/ SyncSuperblockFails PROVE DeviceStep(n) /\ Seen(n)
  BY <1>0, <1>5, SyncAdds, SyncFailsAdds DEF SyncSuperblock, SyncSuperblockFails
<1>6. ASSUME ConfirmStep PROVE DeviceStep(n) /\ Seen(n)
  <2>1. ASSUME WriteSmart PROVE DeviceStep(n) /\ Seen(n)
    <3>1. PICK t \in smartMain : M!WriteCells(SmartWrite(t))
      BY <2>1 DEF WriteSmart
    <3>2. \A c \in DOMAIN SmartWrite(t) : Adds(c, SmartWrite(t)[c], n)
      BY SmartWriteAdds
    <3> QED BY <1>0, <3>1, <3>2, WriteAdds
  <2>2. ASSUME WriteSmartFails PROVE DeviceStep(n) /\ Seen(n)
    <3>1. PICK t \in smartMain : \E D : M!WriteFails(SmartWrite(t), D)
      BY <2>2 DEF WriteSmartFails
    <3>2. \A c \in DOMAIN SmartWrite(t) : Adds(c, SmartWrite(t)[c], n)
      BY SmartWriteAdds
    <3> QED BY <1>0, <3>1, <3>2, WriteFailsAdds
  <2>3. ASSUME SyncSmart PROVE DeviceStep(n) /\ Seen(n)
    BY <1>0, <2>3, SyncAdds, SyncFailsAdds DEF SyncSmart
  <2> QED BY <1>6, <2>1, <2>2, <2>3 DEF ConfirmStep
<1>7. ASSUME Calls PROVE DeviceStep(n) /\ Seen(n)
  <2>1. Calls => UNCHANGED <<vis, surv>> \/ M!Sync \/ M!SyncFails
    BY DEF Calls, MountFull, MountBypass, MountRefused, CheckStart, ConfirmStart,
           CallSync, Close, Remount
  <2> QED BY <1>0, <1>7, <2>1, SyncAdds, SyncFailsAdds, SameAdds
<1>8. ASSUME Damage PROVE DeviceStep(n) /\ Seen(n)
  <2>1. damage' = damage + 1 => damage' # damage
    BY DEF IInv, BooksOK
  <2>2. ASSUME NEW c \in Cell, Corrupt(c) PROVE DeviceStep(n) /\ Seen(n)
    <3>1. PICK x \in Corruptions(c) : M!Poke(c, x)
      BY <2>2 DEF Corrupt
    <3>2. damage' # damage
      BY <2>1, <2>2 DEF Corrupt
    <3>3. x.is # "ptr" /\ (c = TableTop => x.to \in WildTargets)
      BY DEF Corruptions, Junk, TableTop
    <3>4. Adds(c, x, n)
      BY <3>2, <3>3 DEF Adds, Harmless, OfAlgo, NoWildTable
    <3> QED BY <1>0, <3>1, <3>4, PokeAdds
  <2>3. ASSUME NEW r \in Region, BadSector(r) PROVE DeviceStep(n) /\ Seen(n)
    BY <1>0, <2>3, SameAdds DEF BadSector
  <2>4. ASSUME NEW c \in PtrCell \cup SbCell, WriteBlock(c) PROVE DeviceStep(n) /\ Seen(n)
    <3> DEFINE W == [y \in {c} |-> Junk]
    <3>1. M!WriteCells(W) /\ damage' # damage
      BY <2>1, <2>4 DEF WriteBlock
    <3>2. \A y \in DOMAIN W : W[y] = Junk /\ y # TableTop
      BY PlaceFacts
    <3> HIDE DEF W
    <3>3. \A y \in DOMAIN W : Adds(y, W[y], n)
      BY <3>1, <3>2 DEF Adds, Harmless, OfAlgo, Junk
    <3> QED BY <1>0, <3>1, <3>3, WriteAdds
  <2> QED BY <1>8, <2>2, <2>3, <2>4 DEF Damage
<1>9. ASSUME Kill \/ PowerLoss PROVE DeviceStep(n) /\ (Seen(n) \/ PowerLoss)
  BY <1>0, <1>9, SameAdds, PowerCutAdds DEF Kill
<1>10. CASE UNCHANGED vars
  BY <1>0, <1>10, SameAdds DEF vars
<1> QED
  BY <1>1, <1>2, <1>3, <1>4, <1>5, <1>6, <1>7, <1>8, <1>9, <1>10
     DEF Next, Running, CheckStep

-----------------------------------------------------------------------------
(* The session: what it reads and keeps.                                   *)
LEMMA ScanAlgo ==
  ASSUME NEW n, NEW v, \A c \in PtrCell : OfAlgo(v[c], n)
  PROVE  ReportsAlgo(ScanAnchors(v), n)
<1> SUFFICES ASSUME NEW s \in Slots, NEW d \in Side, NEW b \in ReadPtr(v, d, s)
             PROVE  b.algo = n
  BY DEF ReportsAlgo, ScanAnchors, ReportOf, SlotReport, Side
<1>1. OfAlgo(v[<<Block(d, s), 1>>], n)
  BY SlotCellFacts
<1> QED BY <1>1 DEF ReadPtr, PtrAt, VerifyPtrBlock, OfAlgo

LEMMA SmartReadApart ==
  ASSUME IInv, NEW n, LossInv(n)
  PROVE  \A t \in ReadSmartMain : t.at \notin SbRegion
<1>1. vis[TableTop].to \notin SbRegion /\ TableTop \in Cell
  BY PlaceFacts DEF LossInv, M!VisibleMaySurvive
<1>2. ASSUME 4 \in Slots, NEW b \in Chosen(ReportOf(vis, 4))
      PROVE  b.real = At("function_table")
  <2>1. TrueReport(ReportOf(vis, 4), 4)
    BY <1>2, ReportTrue DEF IInv, DeviceOK
  <2>2. \A d \in Side : PrimaryTarget(d, 4) = At("function_table")
    BY DEF PrimaryTarget, RealOf
  <2> QED BY <1>2, <2>1, <2>2 DEF TrueReport, TrueBlock, Chosen, Side
<1>3. ReadReal(vis, At("function_table"))[1] = vis[TableTop]
  BY <1>1 DEF ReadReal, TableTop
<1>4. \A u \in ReadFunctionTable : u \notin SbRegion
  BY <1>1, <1>2, <1>3 DEF ReadFunctionTable
<1> DEFINE T    == {u \in ReadFunctionTable :
                       u \notin {Null, Beyond} /\ u \notin unreadable}
           N(t) == IF <<t, 1>> \in Cell THEN vis[<<t, 1>>].n ELSE 0
<1>5. ReadSmartMain = {[at |-> t, n |-> N(t)] : t \in T}
  BY DEF ReadSmartMain
<1>6. \A t \in T : t \notin SbRegion
  BY <1>4
<1> HIDE DEF T, N
<1> QED BY <1>5, <1>6

LEMMA SessionSteps ==
  ASSUME [Next]_vars
  PROVE  /\ \/ anchors' = anchors \/ anchors' = NoReport
            \/ anchors' = ScanAnchors(vis) \/ anchors' = ScanAnchors(vis')
         /\ \/ smartMain' = smartMain \/ smartMain' = {}
            \/ smartMain' = ReadSmartMain
            \/ smartMain' = {Confirmed(t) : t \in smartMain}
<1> USE DEF session
<1>1. ASSUME NEW j \in todo, NextEnd(j)
      PROVE  /\ anchors' = anchors \/ anchors' = ScanAnchors(vis')
             /\ smartMain' = smartMain
  BY <1>1 DEF NextEnd
<1>2. ASSUME CheckStep
      PROVE  /\ anchors' = anchors \/ anchors' = ScanAnchors(vis')
             /\ smartMain' = smartMain
  BY <1>1, <1>2
     DEF CheckStep, RewriteEnd, RewriteEndFails, SyncEnd, SyncEndFails, SuperblockFine,
         SuperblockUnrecoverable, AdoptBackup, WriteSuperblock, WriteSuperblockFails,
         SyncSuperblock, SyncSuperblockFails, CheckFails
<1>3. ASSUME ConfirmStep
      PROVE  /\ anchors' = anchors
             /\ \/ smartMain' = smartMain
                \/ smartMain' = {Confirmed(t) : t \in smartMain}
  BY <1>3 DEF ConfirmStep, WriteSmart, WriteSmartFails, SyncSmart
<1>4. ASSUME Calls
      PROVE  /\ \/ anchors' = anchors \/ anchors' = NoReport
                \/ anchors' = ScanAnchors(vis)
             /\ \/ smartMain' = smartMain \/ smartMain' = {}
                \/ smartMain' = ReadSmartMain
  BY <1>4 DEF Calls, MountFull, MountBypass, MountRefused, CheckStart, ConfirmStart,
              CallSync, Close, Remount, Forget
<1>5. ASSUME Damage PROVE anchors' = anchors /\ smartMain' = smartMain
  BY <1>5 DEF Damage, Corrupt, BadSector, WriteBlock
<1>6. ASSUME Kill \/ PowerLoss PROVE anchors' = NoReport /\ smartMain' = {}
  BY <1>6 DEF Kill, PowerLoss, Forget
<1>7. CASE UNCHANGED vars
  BY <1>7 DEF vars
<1> QED BY <1>2, <1>3, <1>4, <1>5, <1>6, <1>7 DEF Next, Running

LEMMA LossStep ==
  ASSUME NoWildTable, NEW n, IInv, MendInv, LossInv(n), [Next]_vars
  PROVE  LossInv(n)'
<1>1. LossInv(n)
  OBVIOUS
<1>2. DeviceStep(n)
  BY <1>1, DeviceSteps
<1>3. \A c \in PtrCell : \A x \in surv'[c] : OfAlgo(x, n)
  BY <1>1, <1>2, Cells DEF DeviceStep, Adds, Harmless, LossInv
<1>4. \A x \in surv'[TableTop] : x.to \notin SbRegion
  BY <1>1, <1>2, PlaceFacts DEF DeviceStep, Adds, Harmless, LossInv
<1>5. ReportsAlgo(anchors', n)
  <2>1. \A c \in PtrCell : OfAlgo(vis[c], n) /\ OfAlgo(vis'[c], n)
    BY <1>1, <1>2, <1>3, Cells DEF LossInv, DeviceStep, M!VisibleMaySurvive
  <2>2. ReportsAlgo(NoReport, n)
    BY DEF ReportsAlgo, NoReport, SlotReport
  <2>3. ReportsAlgo(anchors, n)
    BY <1>1 DEF LossInv
  <2>4. ReportsAlgo(ScanAnchors(vis), n) /\ ReportsAlgo(ScanAnchors(vis'), n)
    BY <2>1, ScanAlgo
  <2> QED BY <2>2, <2>3, <2>4, SessionSteps
<1>6. \A t \in smartMain' : t.at \notin SbRegion
  <2>1. \A t \in smartMain : Confirmed(t).at = t.at /\ t.at \notin SbRegion
    BY <1>1 DEF IInv, SessionOK, Confirmed, LossInv
  <2> QED BY <1>1, <2>1, SmartReadApart, SessionSteps
<1> QED BY <1>2, <1>3, <1>4, <1>5, <1>6 DEF LossInv, DeviceStep

LEMMA LossNext ==
  ASSUME NoWildTable
  PROVE  IInv /\ MendInv /\ OneAlgo /\ [Next]_vars => OneAlgo'
BY LossStep DEF OneAlgo

LEMMA LossInit == Init => OneAlgo
<1> SUFFICES ASSUME Init PROVE OneAlgo
  OBVIOUS
<1>1. PICK a \in Formats : M!Settled(Formatted(a))
  BY DEF Init
<1>2. vis = Formatted(a) /\ \A c \in Cell : surv[c] = {Formatted(a)[c]}
  BY <1>1 DEF M!Settled
<1>3. M!VisibleMaySurvive
  BY <1>2 DEF M!VisibleMaySurvive
<1>4. ASSUME NEW c \in PtrCell PROVE OfAlgo(Formatted(a)[c], a)
  <2>1. c \in Cell /\ c[2] \in {1, 2}
    BY Cells DEF PtrCell
  <2>2. \A x, y : \A p \in {1, 2} : OfAlgo(BuildPtrBlock(a, x, y)[p], a)
    BY DEF BuildPtrBlock, OfAlgo, Ptr, Junk
  <2> QED BY <2>1, <2>2 DEF Formatted
<1>5. ReportsAlgo(anchors, a)
  BY DEF Init, ReportsAlgo, NoReport, SlotReport
<1>6. Formatted(a)[TableTop].to \notin SbRegion
  <2>1. Formatted(a)[TableTop] = FunctionTable(At("smart"))
    BY PlaceFacts DEF Formatted, TableTop, At
  <2> QED BY <2>1 DEF FunctionTable, SbRegion, At
<1>7. smartMain = {}
  BY DEF Init
<1>8. LossInv(a)
  BY <1>2, <1>3, <1>4, <1>5, <1>6, <1>7, Cells, PlaceFacts DEF LossInv
<1> QED BY <1>8 DEF OneAlgo

-----------------------------------------------------------------------------
(* Without damage a step takes nothing that was sure.                      *)
Unharmed == unreadable' = unreadable /\ damage' = damage

LEMMA UnharmedStep == ASSUME IInv, Next, damage' = damage PROVE Unharmed
<1>1. damage + 1 # damage
  BY DEF IInv, BooksOK
<1>2. CheckStep \/ ConfirmStep \/ Calls \/ Kill \/ PowerLoss => unreadable' = unreadable
  BY DEF CheckStep, RewriteEnd, RewriteEndFails, SyncEnd, SyncEndFails, NextEnd,
     SuperblockFine, SuperblockUnrecoverable, AdoptBackup, WriteSuperblock,
     WriteSuperblockFails, SyncSuperblock, SyncSuperblockFails, CheckFails,
     ConfirmStep, WriteSmart, WriteSmartFails, SyncSmart, Calls, MountFull,
     MountBypass, MountRefused, CheckStart, ConfirmStart, CallSync, Close, Remount,
     Kill, PowerLoss
<1>3. ~Damage
  BY <1>1 DEF Damage, Corrupt, BadSector, WriteBlock
<1> QED BY <1>2, <1>3 DEF Next, Running, Unharmed

LEMMA SlotKept ==
  ASSUME NEW n, DeviceStep(n), Unharmed, NEW s \in Slots, SlotSure(s)
  PROVE  SlotSure(s)'
<1>1. ASSUME NEW d \in Side, NEW p \in {1, 2}, p = 1 \/ s = 0, Sure(d, s, p)
      PROVE  Sure(d, s, p)'
  <2> DEFINE c == <<Block(d, s), p>>
  <2>1. c \in Cell /\ c \in PtrCell /\ c[1][2] = s /\ c[2] = p
    BY SlotCellFacts
  <2>2. \A x \in surv'[c] : x \in surv[c] \/ Sound(c, x)
    BY <2>1 DEF DeviceStep, Adds, Unharmed
  <2>3. \A x \in surv[c] : x.is = "ptr"
    BY <1>1 DEF Sure
  <2>4. \A x \in surv'[c] : x.is = "ptr"
    <3> HIDE DEF c
    <3> QED BY <1>1, <2>1, <2>2, <2>3 DEF Sound
  <2> QED BY <1>1, <2>4 DEF Sure, Unharmed, Readable
<1>2. /\ Sure("head", s, 1) => Sure("head", s, 1)'
      /\ Sure("tail", s, 1) => Sure("tail", s, 1)'
      /\ s = 0 /\ Sure("head", s, 2) => Sure("head", s, 2)'
      /\ s = 0 /\ Sure("tail", s, 2) => Sure("tail", s, 2)'
  BY <1>1 DEF Side
<1>3. CASE s = 0
  BY <1>2, <1>3 DEF SlotSure, Enough
<1>4. CASE s # 0
  BY <1>2, <1>4 DEF SlotSure, Enough
<1> QED BY <1>3, <1>4

LEMMA SuperblockKept ==
  ASSUME NEW n, DeviceStep(n), Unharmed, SuperblockSure
  PROVE  SuperblockSure'
<1>1. PICK b \in SbRegion \ unreadable : CopySure(b)
  BY DEF SuperblockSure
<1>2. ASSUME NEW p \in {1, 2}, NEW x \in surv'[<<b, p>>]
      PROVE  x.is = "superblock"
  <2>1. <<b, p>> \in SbCell /\ <<b, p>> \in Cell
    BY Cells DEF SbCell
  <2>2. x \in surv[<<b, p>>] \/ Sound(<<b, p>>, x)
    BY <1>2, <2>1 DEF DeviceStep, Adds, Unharmed
  <2> QED BY <1>1, <2>1, <2>2 DEF CopySure, Sound
<1>3. CopySure(b)'
  BY <1>2 DEF CopySure
<1> QED BY <1>1, <1>3 DEF SuperblockSure, Unharmed

KeptStep ==
  damage' = damage =>
    /\ \A s \in Slots : SlotSafe(s) => SlotSafe(s)'
    /\ SuperblockSafe => SuperblockSafe'

LEMMA KeptBy ==
  ASSUME OneAlgo, OneAlgo', NEW n, DeviceStep(n), Unharmed
  PROVE  /\ \A s \in Slots : SlotSafe(s) => SlotSafe(s)'
         /\ SuperblockSafe => SuperblockSafe'
<1>1. (OneAlgo => \A s \in Slots : SlotSafe(s) <=> SlotSure(s))'
  BY SlotSafeIff, PTL
<1>2. (OneAlgo => (SuperblockSafe <=> SuperblockSure))'
  BY SuperblockSafeIff, PTL
<1>3. \A s \in Slots : SlotSafe(s) => SlotSafe(s)'
  BY <1>1, SlotSafeIff, SlotKept
<1>4. SuperblockSafe => SuperblockSafe'
  BY <1>2, SuperblockSafeIff, SuperblockKept
<1> QED BY <1>3, <1>4

LEMMA KeptNext ==
  ASSUME NoWildTable
  PROVE  IInv /\ MendInv /\ OneAlgo /\ OneAlgo' /\ [Next]_vars => [KeptStep]_vars
<1> SUFFICES ASSUME IInv, MendInv, OneAlgo, OneAlgo', Next, damage' = damage
             PROVE  /\ \A s \in Slots : SlotSafe(s) => SlotSafe(s)'
                    /\ SuperblockSafe => SuperblockSafe'
  BY DEF KeptStep
<1>1. PICK n : LossInv(n)
  BY DEF OneAlgo
<1>2. DeviceStep(n) /\ Unharmed
  BY <1>1, DeviceSteps, UnharmedStep
<1> QED BY <1>2, KeptBy

(* check.rs, confirm.rs, mount.rs, lib.rs: no step of the engine, and no   *)
(* power loss, kill or failed operation between two of them, takes a slot  *)
(* or the Superblock from recoverable to not recoverable, whatever damage  *)
(* came before, as long as the function table never names the Superblock   *)
(* as the SMART table.                                                     *)
THEOREM OnlyDamageLoses ==
  ASSUME NoWildTable
  PROVE  Spec => NothingLost
<1>1. Init => MendInv
  BY DEF Init, MendInv
<1>2. Spec => []IInv
  BY InitIInv, NextIInv, PTL DEF Spec
<1>3. Spec => []MendInv
  BY <1>1, <1>2, MendNext, PTL DEF Spec
<1>4. Spec => []OneAlgo
  BY <1>2, <1>3, LossInit, LossNext, PTL DEF Spec
<1>5. Spec => [][KeptStep]_vars
  BY <1>2, <1>3, <1>4, KeptNext, PTL DEF Spec
<1> QED BY <1>5 DEF KeptStep, NothingLost

=============================================================================
