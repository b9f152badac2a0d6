---------------------------- MODULE EngineProofs ----------------------------
(***************************************************************************)
(* Proofs about Engine, for every set of slots, every bound and every      *)
(* device content a behaviour can reach.                                   *)
(***************************************************************************)
EXTENDS Engine, TLAPS

(* A report that points, from either end, at nothing but what the format   *)
(* put behind the slot.                                                    *)
TrueBlock(b, d, s) ==
  /\ b.real = PrimaryTarget(d, s)
  /\ b.fallback \subseteq FallbackTarget(d, s)
TrueReport(r, s) ==
  /\ r \in Reports /\ r.slot = s
  /\ \A b \in r.head : TrueBlock(b, "head", s)
  /\ \A b \in r.tail : TrueBlock(b, "tail", s)

TrueImage(v) == v \in [Cell -> Content] /\ \A c \in PtrCell : TruePointer(c, v[c])
TrueFutures(f) ==
  f \in [Cell -> SUBSET Content] /\ \A c \in PtrCell : \A x \in f[c] : TruePointer(c, x)

-----------------------------------------------------------------------------
(* Operators of Anchor and Volume.                                         *)

LEMMA Targets ==
  ASSUME NEW d \in Side, NEW s
  PROVE  /\ PrimaryTarget(d, s) \in Structure
         /\ FallbackTarget(d, s) \subseteq Structure
<1>1. RealOf(s) \in Structure  BY DEF RealOf, Structure
<1>2. QED  BY <1>1 DEF PrimaryTarget, FallbackTarget, Structure

LEMMA Cells ==
  /\ PtrCell \subseteq Cell /\ SbCell \subseteq Cell
  /\ \A d \in Side, s \in Slots, p \in {1, 2} :
       <<Block(d, s), p>> \in PtrCell
  /\ \A c \in SbCell \cup TableCell : c \notin PtrCell
  /\ \A t \in Structure, p \in {1, 2} : <<t, p>> \notin PtrCell
<1>1. PtrCell \subseteq Cell /\ SbCell \subseteq Cell  BY DEF Cell
<1>2. \A d \in Side, s \in Slots, p \in {1, 2} : <<Block(d, s), p>> \in PtrCell
  BY DEF PtrCell, PtrRegion
<1>3. \A t \in Structure : t \notin PtrRegion
  BY DEF Structure, PtrRegion, Block, Side, At
<1>4. \A t \in Structure, p \in {1, 2} : <<t, p>> \notin PtrCell
  BY <1>3 DEF PtrCell
<1>5. SbRegion \cup TableRegion \subseteq Structure
  BY DEF SbRegion, TableRegion, Structure
<1>6. \A c \in SbCell \cup TableCell : c \notin PtrCell
  BY <1>3, <1>5 DEF SbCell, TableCell, PtrCell
<1>7. QED  BY <1>1, <1>2, <1>4, <1>6

(* What verifies on a true image is a true block.                          *)
LEMMA PtrAtTrue ==
  ASSUME NEW v, TrueImage(v), NEW d \in Side, NEW s \in Slots,
         NEW b \in PtrAt(v, d, s)
  PROVE  b \in BlockValue /\ TrueBlock(b, d, s)
<1> DEFINE c1 == <<Block(d, s), 1>>
           c2 == <<Block(d, s), 2>>
<1>1. c1 \in PtrCell /\ c2 \in PtrCell /\ c1 \in Cell /\ c2 \in Cell
  BY Cells
<1>2. v[c1] \in Content /\ v[c2] \in Content
      /\ TruePointer(c1, v[c1]) /\ TruePointer(c2, v[c2])
  BY <1>1 DEF TrueImage
<1>3. v[c1].is = "ptr" /\ b.real = v[c1].to /\ b.algo = v[c1].n
      /\ b.fallback = {f.to : f \in {x \in {v[c2]} : x.is = "ptr" /\ x.n = v[c1].n}}
      /\ b = [real |-> b.real, fallback |-> b.fallback, algo |-> b.algo]
  BY DEF PtrAt, VerifyPtrBlock
<1>4. b.real = PrimaryTarget(d, s)
  BY <1>2, <1>3 DEF TruePointer, Block
<1>5. b.fallback \subseteq FallbackTarget(d, s)
  BY <1>2, <1>3 DEF TruePointer, Block
<1>6. b.algo \in Nat
  BY <1>2, <1>3 DEF Content
<1>7. b.real \in Structure /\ b.fallback \subseteq Structure
  BY <1>4, <1>5, Targets
<1>8. QED  BY <1>3, <1>4, <1>5, <1>6, <1>7 DEF BlockValue, TrueBlock

LEMMA ReportTrue ==
  ASSUME NEW v, TrueImage(v), NEW s \in Slots
  PROVE  TrueReport(ReportOf(v, s), s)
<1>1. "head" \in Side /\ "tail" \in Side  BY DEF Side
<1>2. \A d \in Side : \A b \in ReadPtr(v, d, s) :
        b \in BlockValue /\ TrueBlock(b, d, s)
  BY PtrAtTrue DEF ReadPtr
<1>3. QED  BY <1>1, <1>2 DEF ReportOf, SlotReport, TrueReport, Reports

(* Slot 0 names the Superblock and its backup, each in its role.           *)
LEMMA PairTrue ==
  ASSUME NEW r, TrueReport(r, 0)
  PROVE  /\ SbPrimary(r) \subseteq {At("superblock")}
         /\ SbBackup(r) \subseteq {At("sb_backup")}
<1>1. /\ PrimaryTarget("head", 0) = At("superblock")
      /\ PrimaryTarget("tail", 0) = At("sb_backup")
      /\ FallbackTarget("head", 0) = {At("sb_backup")}
      /\ FallbackTarget("tail", 0) = {At("superblock")}
  BY DEF PrimaryTarget, FallbackTarget, RealOf
<1>2. Reals(r.head) \subseteq {At("superblock")}
      /\ Fallbacks(r.head) \subseteq {At("sb_backup")}
  BY <1>1 DEF TrueReport, TrueBlock, Reals, Fallbacks
<1>3. Reals(r.tail) \subseteq {At("sb_backup")}
      /\ Fallbacks(r.tail) \subseteq {At("superblock")}
  BY <1>1 DEF TrueReport, TrueBlock, Reals, Fallbacks
<1>4. QED  BY <1>2, <1>3 DEF SbPrimary, SbBackup

(* A rebuilt block, whichever end and whichever halves it is rebuilt from, *)
(* is true for the end it is written to.                                   *)
LEMMA RebuildTrue ==
  ASSUME NEW s \in Slots, NEW d \in Side, NEW r, TrueReport(r, s),
         NEW b \in RebuildPtrBlock(r, d)
  PROVE  \A p \in {1, 2} : b[p] \in Content /\ TruePointer(<<Block(d, s), p>>, b[p])
<1>1. \A g \in Chosen(r) : g.algo \in Nat /\ g.real \in Structure
  BY DEF Chosen, TrueReport, Reports, BlockValue
<1>2. \A t \in Structure, a \in Nat : Ptr(t, a) \in Content
  BY DEF Ptr, Content
<1>3. Junk \in Content  BY DEF Junk, Content
<1>4. \A y : (CHOOSE t \in {y} : TRUE) = y  OBVIOUS
<1>5. CASE s = 0
  <2>1. r.slot = 0  BY <1>5 DEF TrueReport
  <2>2. PICK g \in Chosen(r), x \in SbPrimary(r), y \in SbBackup(r) :
          b = SlotZeroBlock(d, g.algo, x, y)
    BY <2>1 DEF RebuildPtrBlock
  <2>3. x = At("superblock") /\ y = At("sb_backup")
    BY <1>5, PairTrue
  <2>4. x \in Structure /\ y \in Structure  BY <2>3 DEF Structure
  <2>5. CASE d = "head"
    <3>1. b = BuildPtrBlock(g.algo, x, {y})  BY <2>2, <2>5 DEF SlotZeroBlock
    <3>2. b[1] = Ptr(x, g.algo) /\ b[2] = Ptr(y, g.algo)
      BY <1>4, <3>1 DEF BuildPtrBlock
    <3>3. PrimaryTarget(d, s) = x /\ FallbackTarget(d, s) = {y}
      BY <1>5, <2>3, <2>5 DEF PrimaryTarget, FallbackTarget, RealOf
    <3>4. QED  BY <1>1, <1>2, <2>4, <3>2, <3>3 DEF TruePointer, Block, Ptr
  <2>6. CASE d = "tail"
    <3>1. b = BuildPtrBlock(g.algo, y, {x})  BY <2>2, <2>6 DEF SlotZeroBlock
    <3>2. b[1] = Ptr(y, g.algo) /\ b[2] = Ptr(x, g.algo)
      BY <1>4, <3>1 DEF BuildPtrBlock
    <3>3. PrimaryTarget(d, s) = y /\ FallbackTarget(d, s) = {x}
      BY <1>5, <2>3, <2>6 DEF PrimaryTarget, FallbackTarget
    <3>4. QED  BY <1>1, <1>2, <2>4, <3>2, <3>3 DEF TruePointer, Block, Ptr
  <2>7. QED  BY <2>5, <2>6 DEF Side
<1>6. CASE s # 0
  <2>1. r.slot # 0  BY <1>6 DEF TrueReport
  <2>2. PICK g \in Chosen(r) : b = BuildPtrBlock(g.algo, g.real, g.fallback)
    BY <2>1 DEF RebuildPtrBlock
  <2>3. g.real = PrimaryTarget(d, s) /\ g.fallback = {}
    BY <1>6 DEF Chosen, TrueReport, TrueBlock, PrimaryTarget, FallbackTarget
  <2>4. b[1] = Ptr(g.real, g.algo) /\ b[2] = Junk
    BY <2>2, <2>3 DEF BuildPtrBlock
  <2>5. QED  BY <1>1, <1>2, <1>3, <2>3, <2>4 DEF TruePointer, Block, Ptr, Junk
<1>7. QED  BY <1>5, <1>6

-----------------------------------------------------------------------------
(***************************************************************************)
(* The inductive invariant.  TypeOK is not inductive: that the place a     *)
(* verified block names is one of the structures needs PointersTrue, and   *)
(* PointersTrue needs that the reports cached by the session, from which   *)
(* check() rebuilds a block long after they were read, are true as well,   *)
(* and that the Superblock is written to the place of the Superblock.      *)
(***************************************************************************)
DeviceOK  == TrueImage(vis) /\ TrueFutures(surv)
ReportsOK ==
  anchors \in [Slots -> Reports] /\ \A s \in Slots : TrueReport(anchors[s], s)
SessionOK ==
  /\ mode \in {"full", "bypass"} /\ rw \in BOOLEAN
  /\ opts \in [readonly : BOOLEAN, flush : BOOLEAN]
  /\ sbAt \in [primary : SUBSET {At("superblock")},
               backup : SUBSET {At("sb_backup")}]
  /\ superblock \in [{1, 2} -> Content]
  /\ smartMain \subseteq [at : Structure, n : Nat]
BooksOK ==
  /\ unreadable \subseteq Region
  /\ damage \in 0..MaxDamage /\ mishaps \in 0..MaxMishaps
  /\ pc \in Places /\ todo \subseteq Slots \X Side /\ res \in Results

IInv == DeviceOK /\ ReportsOK /\ SessionOK /\ BooksOK

LEMMA IInvImplies == IInv => TypeOK /\ PointersTrue
<1>1. {At("superblock"), At("sb_backup")} \subseteq Structure  BY DEF Structure
<1>2. QED
  BY <1>1 DEF IInv, DeviceOK, ReportsOK, SessionOK, BooksOK, TrueImage,
              TrueFutures, TypeOK, PointersTrue

-----------------------------------------------------------------------------
(* The device.                                                             *)

LEMMA WriteTrue ==
  ASSUME DeviceOK, NEW W, M!WriteCells(W),
         \A c \in DOMAIN W :
           W[c] \in Content /\ (c \in PtrCell => TruePointer(c, W[c]))
  PROVE  DeviceOK'
<1>1. TrueImage(vis')
  BY Cells DEF DeviceOK, TrueImage, M!WriteCells
<1>2. TrueFutures(surv')
  <2>1. surv' = [c \in Cell |-> IF c \in DOMAIN W THEN surv[c] \cup {W[c]} ELSE surv[c]]
    BY DEF M!WriteCells
  <2>2. surv' \in [Cell -> SUBSET Content]
    BY <2>1 DEF DeviceOK, TrueFutures
  <2>3. ASSUME NEW c \in PtrCell, NEW x \in surv'[c]
        PROVE  TruePointer(c, x)
    <3>1. c \in Cell  BY Cells
    <3>2. x \in surv[c] \/ (c \in DOMAIN W /\ x = W[c])  BY <2>1, <3>1
    <3>3. QED  BY <3>2 DEF DeviceOK, TrueFutures
  <2>4. QED  BY <2>2, <2>3 DEF TrueFutures
<1>3. QED  BY <1>1, <1>2 DEF DeviceOK

LEMMA WriteFailsTrue ==
  ASSUME DeviceOK, NEW W, NEW D, M!WriteFails(W, D),
         \A c \in DOMAIN W :
           W[c] \in Content /\ (c \in PtrCell => TruePointer(c, W[c]))
  PROVE  DeviceOK'
<1> DEFINE V == [c \in DOMAIN W \cap D |-> W[c]]
<1>1. M!WriteCells(V)  BY DEF M!WriteFails
<1>2. \A c \in DOMAIN V :
        V[c] \in Content /\ (c \in PtrCell => TruePointer(c, V[c]))
  OBVIOUS
<1> HIDE DEF V
<1>3. QED  BY <1>1, <1>2, WriteTrue

LEMMA SyncTrue == ASSUME DeviceOK, M!Sync PROVE DeviceOK'
BY Cells DEF DeviceOK, TrueImage, TrueFutures, M!Sync

LEMMA SyncFailsTrue == ASSUME DeviceOK, M!SyncFails PROVE DeviceOK'
BY DEF DeviceOK, M!SyncFails, M!medium

LEMMA PokeTrue ==
  ASSUME DeviceOK, NEW c \in Cell, NEW x \in Content, x.is # "ptr", M!Poke(c, x)
  PROVE  DeviceOK'
BY Cells DEF DeviceOK, TrueImage, TrueFutures, TruePointer, M!Poke

LEMMA PowerCutTrue == ASSUME DeviceOK, M!PowerCut PROVE DeviceOK'
<1>1. PICK f \in M!Images(Cell) :
        /\ vis' = M!Overlay(f)
        /\ surv' = [c \in Cell |-> {M!Overlay(f)[c]}]
  BY DEF M!PowerCut
<1>2. \A c \in DOMAIN f : f[c] \in surv[c]
  BY <1>1 DEF M!Images
<1>3. \A c \in Cell : M!Overlay(f)[c] \in Content
                     /\ (c \in PtrCell => TruePointer(c, M!Overlay(f)[c]))
  BY <1>2 DEF M!Overlay, DeviceOK, TrueImage, TrueFutures
<1>4. M!Overlay(f) \in [Cell -> Content]
  BY <1>3 DEF M!Overlay
<1>5. TrueImage(vis')
  BY <1>1, <1>3, <1>4, Cells DEF TrueImage
<1>6. TrueFutures(surv')
  BY <1>1, <1>3, Cells DEF TrueFutures
<1>7. QED  BY <1>5, <1>6 DEF DeviceOK

-----------------------------------------------------------------------------
(* The session.                                                            *)

LEMMA SessionSame ==
  ASSUME ReportsOK, SessionOK, UNCHANGED session
  PROVE  ReportsOK' /\ SessionOK'
BY DEF ReportsOK, SessionOK, session

LEMMA EmptyReports ==
  /\ NoReport \in [Slots -> Reports]
  /\ \A s \in Slots : TrueReport(NoReport[s], s)
BY DEF NoReport, SlotReport, Reports, TrueReport

LEMMA ForgetTrue ==
  ASSUME Forget
  PROVE  ReportsOK' /\ SessionOK' /\ pc' \in Places /\ todo' \subseteq Slots \X Side
<1>1. ReportsOK'  BY EmptyReports DEF Forget, ReportsOK
<1>2. NoBlock \in [{1, 2} -> Content]  BY DEF NoBlock, Junk, Content
<1>3. SessionOK'
  BY <1>2 DEF Forget, SessionOK, NoOpts, NoSb
<1>4. QED  BY <1>1, <1>3 DEF Forget, Places

LEMMA ScanTrue ==
  ASSUME NEW v, TrueImage(v)
  PROVE  /\ ScanAnchors(v) \in [Slots -> Reports]
         /\ \A s \in Slots : TrueReport(ScanAnchors(v)[s], s)
BY ReportTrue DEF ScanAnchors, TrueReport

LEMMA ReadRealType ==
  ASSUME TrueImage(vis), NEW r
  PROVE  ReadReal(vis, r) \in [{1, 2} -> Content]
BY DEF ReadReal, TrueImage, Junk, Content

(* What mount() reads of the SMART table.                                  *)
LEMMA SmartMainType ==
  ASSUME TrueImage(vis)
  PROVE  ReadSmartMain \subseteq [at : Structure, n : Nat]
<1>1. \A r : ReadReal(vis, r)[1].to \in Structure \cup {Null, Beyond}
  BY ReadRealType DEF Content
<1>2. ReadFunctionTable \subseteq Structure \cup {Null, Beyond}
  BY <1>1 DEF ReadFunctionTable
<1>3. \A c \in Cell : vis[c].n \in Nat  BY DEF TrueImage, Content
<1> DEFINE T    == {u \in ReadFunctionTable :
                       u \notin {Null, Beyond} /\ u \notin unreadable}
           N(t) == IF <<t, 1>> \in Cell THEN vis[<<t, 1>>].n ELSE 0
<1>4. ReadSmartMain = {[at |-> t, n |-> N(t)] : t \in T}
  BY DEF ReadSmartMain
<1>5. \A t \in T : t \in Structure /\ N(t) \in Nat
  BY <1>2, <1>3
<1> HIDE DEF T, N
<1>6. QED  BY <1>4, <1>5

LEMMA ResultType == \A call \in Reporting : Result(call) \in Results
BY DEF Result, NoResult, Results

(* One operation of check() leaves an end of a slot behind.                *)
LEMMA NextEndTrue ==
  ASSUME IInv, DeviceOK', NEW j \in todo, NextEnd(j)
  PROVE  /\ ReportsOK' /\ SessionOK' /\ pc' \in Places
         /\ todo' \subseteq Slots \X Side
<1>1. ReportsOK'
  <2>1. ScanAnchors(vis') \in [Slots -> Reports]
        /\ \A s \in Slots : TrueReport(ScanAnchors(vis')[s], s)
    BY ScanTrue DEF DeviceOK
  <2>2. anchors' = ScanAnchors(vis') \/ anchors' = anchors  BY DEF NextEnd
  <2>3. QED  BY <2>1, <2>2 DEF IInv, ReportsOK
<1>2. SessionOK'  BY DEF IInv, SessionOK, NextEnd
<1>3. pc' \in Places /\ todo' \subseteq Slots \X Side
  BY DEF IInv, BooksOK, NextEnd, Places
<1>4. QED  BY <1>1, <1>2, <1>3

(* What the engine writes carries no false pointer.                        *)
LEMMA RebuiltWriteTrue ==
  ASSUME NEW j \in Slots \X Side, NEW r, TrueReport(r, j[1]),
         NEW b \in RebuildPtrBlock(r, j[2])
  PROVE  \A c \in DOMAIN BlockWrite(j, b) :
           /\ BlockWrite(j, b)[c] \in Content
           /\ c \in PtrCell => TruePointer(c, BlockWrite(j, b)[c])
<1>1. j[1] \in Slots /\ j[2] \in Side  OBVIOUS
<1>2. \A p \in {1, 2} : /\ b[p] \in Content
                       /\ TruePointer(<<Block(j[2], j[1]), p>>, b[p])
  BY <1>1, RebuildTrue
<1>3. QED  BY <1>2 DEF BlockWrite, Parts

LEMMA CopyWriteTrue ==
  ASSUME NEW sb \in [{1, 2} -> Content], NEW p \in Structure
  PROVE  \A c \in Parts(p) \cap Cell :
           sb[c[2]] \in Content /\ (c \in PtrCell => TruePointer(c, sb[c[2]]))
<1>1. <<p, 1>> \notin PtrCell /\ <<p, 2>> \notin PtrCell  BY Cells
<1>2. \A c \in Parts(p) : c \notin PtrCell /\ c[2] \in {1, 2}
  BY <1>1 DEF Parts
<1>3. QED  BY <1>2

LEMMA BlockWriteTrue ==
  ASSUME ReportsOK, BooksOK, NEW j \in todo,
         NEW b \in RebuildPtrBlock(anchors[j[1]], j[2])
  PROVE  \A c \in DOMAIN BlockWrite(j, b) :
           /\ BlockWrite(j, b)[c] \in Content
           /\ c \in PtrCell => TruePointer(c, BlockWrite(j, b)[c])
<1>1. j \in Slots \X Side  BY DEF BooksOK
<1>2. TrueReport(anchors[j[1]], j[1])  BY <1>1 DEF ReportsOK
<1>3. QED  BY <1>1, <1>2, RebuiltWriteTrue

LEMMA SuperblockWriteTrue ==
  ASSUME SessionOK, NEW p \in sbAt.primary
  PROVE  \A c \in DOMAIN SuperblockWrite(p) :
           /\ SuperblockWrite(p)[c] \in Content
           /\ c \in PtrCell => TruePointer(c, SuperblockWrite(p)[c])
<1>1. p \in Structure  BY DEF SessionOK, Structure
<1>2. QED  BY <1>1, CopyWriteTrue DEF SuperblockWrite, SessionOK

LEMMA SmartWriteTrue ==
  ASSUME SessionOK, NEW t \in smartMain
  PROVE  \A c \in DOMAIN SmartWrite(t) :
           /\ SmartWrite(t)[c] \in Content
           /\ c \in PtrCell => TruePointer(c, SmartWrite(t)[c])
<1>1. t.n \in Nat  BY DEF SessionOK
<1>2. Confirmed(t).n \in Nat
  BY <1>1, WrapAssumption DEF Confirmed, SessionOK
<1>3. SmartTable(Confirmed(t).n) \in Content
      /\ SmartTable(Confirmed(t).n).is # "ptr"
  BY <1>2 DEF SmartTable, Content
<1>4. QED  BY <1>3 DEF SmartWrite, TruePointer

-----------------------------------------------------------------------------
(* The initial states, and every step.                                     *)

LEMMA FormattedTrue ==
  ASSUME NEW a \in Algo PROVE TrueImage(Formatted(a))
<1>1. a \in Nat  BY DEF Algo, CRC32C, XXHASH32
<1>2. \A t \in Structure : Ptr(t, a) \in Content  BY <1>1 DEF Ptr, Content
<1>3. Junk \in Content  BY DEF Junk, Content
<1>4. \A y : (CHOOSE t \in {y} : TRUE) = y  OBVIOUS
<1>5. ASSUME NEW c \in PtrCell
      PROVE  Formatted(a)[c] \in Content /\ TruePointer(c, Formatted(a)[c])
  <2>1. PICK d \in Side, s \in Slots, p \in {1, 2} : c = <<Block(d, s), p>>
    BY DEF PtrCell, PtrRegion
  <2>2. c[1][1] = d /\ c[1][2] = s /\ c[2] = p  BY <2>1 DEF Block
  <2>3. Formatted(a)[c] = BuildPtrBlock(a, PrimaryTarget(d, s), FallbackTarget(d, s))[p]
    BY <2>2, Cells DEF Formatted
  <2>4. PrimaryTarget(d, s) \in Structure /\ FallbackTarget(d, s) \subseteq Structure
    BY Targets
  <2>5. CASE p = 1
    BY <1>2, <2>2, <2>3, <2>4, <2>5 DEF BuildPtrBlock, TruePointer, Ptr
  <2>6. CASE p = 2 /\ FallbackTarget(d, s) = {}
    BY <1>3, <2>2, <2>3, <2>6 DEF BuildPtrBlock, TruePointer, Junk
  <2>7. CASE p = 2 /\ FallbackTarget(d, s) # {}
    <3>1. PICK y : FallbackTarget(d, s) = {y}
      BY <2>7 DEF FallbackTarget
    <3>2. Formatted(a)[c] = Ptr(y, a)
      BY <1>4, <2>3, <2>7, <3>1 DEF BuildPtrBlock
    <3>3. QED  BY <1>2, <2>2, <2>4, <2>7, <3>1, <3>2 DEF TruePointer, Ptr
  <2>8. QED  BY <2>5, <2>6, <2>7
<1>6. ASSUME NEW c \in Cell, c \notin PtrCell
      PROVE  Formatted(a)[c] \in Content
  <2>1. Superblock \in Content  BY DEF Superblock, Content
  <2>2. SmartTable(0) \in Content  BY DEF SmartTable, Content
  <2>3. FunctionTable(At("smart")) \in Content
    BY DEF FunctionTable, Content, Structure
  <2>4. QED  BY <1>6, <2>1, <2>2, <2>3 DEF Formatted
<1>7. Formatted(a) \in [Cell -> Content]
  <2>1. \A c \in Cell : Formatted(a)[c] \in Content  BY <1>5, <1>6
  <2>2. QED  BY <2>1 DEF Formatted
<1>8. QED  BY <1>5, <1>7 DEF TrueImage

LEMMA InitIInv == Init => IInv
<1> SUFFICES ASSUME Init PROVE IInv  OBVIOUS
<1>1. PICK a \in Formats : M!Settled(Formatted(a))  BY DEF Init
<1>2. TrueImage(Formatted(a))  BY <1>1, FormatsAssumption, FormattedTrue
<1>3. DeviceOK
  BY <1>1, <1>2, Cells DEF M!Settled, DeviceOK, TrueImage, TrueFutures
<1>4. ReportsOK  BY EmptyReports DEF Init, ReportsOK
<1>5. NoBlock \in [{1, 2} -> Content]  BY DEF NoBlock, Junk, Content
<1>6. SessionOK  BY <1>5 DEF Init, SessionOK, NoOpts, NoSb
<1>7. NoResult \in Results  BY DEF NoResult, Results, Reporting
<1>8. BooksOK  BY <1>7, BoundsAssumption DEF Init, BooksOK, Places
<1>9. QED  BY <1>3, <1>4, <1>6, <1>8 DEF IInv

(* A step that leaves the session alone.                                   *)
LEMMA QuietStep ==
  ASSUME IInv, DeviceOK', BooksOK', UNCHANGED session
  PROVE  IInv'
BY SessionSame DEF IInv

LEMMA DeviceSame ==
  ASSUME DeviceOK, UNCHANGED <<vis, surv>> PROVE DeviceOK'
BY DEF DeviceOK

(* The steps inside check().                                               *)
LEMMA CheckStepIInv == ASSUME IInv, CheckStep PROVE IInv'
<1> USE DEF IInv
<1>1. ASSUME NEW j \in todo, RewriteEnd(j) PROVE IInv'
  <2>1. DeviceOK'
    <3>1. PICK b \in RebuildPtrBlock(anchors[j[1]], j[2]) :
            M!WriteCells(BlockWrite(j, b))
      BY <1>1 DEF RewriteEnd
    <3>2. QED  BY <3>1, WriteTrue, BlockWriteTrue
  <2>2. BooksOK'  BY <1>1 DEF RewriteEnd, BooksOK, Places
  <2>3. QED  BY <1>1, <2>1, <2>2, QuietStep DEF RewriteEnd
<1>2. ASSUME NEW j \in todo, RewriteEndFails(j) PROVE IInv'
  <2>1. DeviceOK'
    <3>1. PICK b \in RebuildPtrBlock(anchors[j[1]], j[2]), k \in 0..2 :
            M!WriteFails(BlockWrite(j, b), PtrRegion \X (1..k))
      BY <1>2 DEF RewriteEndFails
    <3>2. QED  BY <3>1, WriteFailsTrue, BlockWriteTrue
  <2>2. ReportsOK' /\ SessionOK' /\ pc' \in Places /\ todo' \subseteq Slots \X Side
    BY <1>2, <2>1, NextEndTrue DEF RewriteEndFails
  <2>3. BooksOK'
    BY <1>2, <2>2, BoundsAssumption DEF RewriteEndFails, NextEnd, BooksOK
  <2>4. QED  BY <2>1, <2>2, <2>3
<1>3. ASSUME NEW j \in todo, SyncEnd(j) PROVE IInv'
  <2>1. DeviceOK'  BY <1>3, SyncTrue DEF SyncEnd
  <2>2. ReportsOK' /\ SessionOK' /\ pc' \in Places /\ todo' \subseteq Slots \X Side
    BY <1>3, <2>1, NextEndTrue DEF SyncEnd
  <2>3. res' \in Results
    BY <1>3 DEF SyncEnd, BooksOK, Results
  <2>4. BooksOK'  BY <1>3, <2>2, <2>3 DEF SyncEnd, NextEnd, BooksOK
  <2>5. QED  BY <2>1, <2>2, <2>4
<1>4. ASSUME NEW j \in todo, SyncEndFails(j) PROVE IInv'
  <2>1. DeviceOK'  BY <1>4, SyncFailsTrue DEF SyncEndFails
  <2>2. ReportsOK' /\ SessionOK' /\ pc' \in Places /\ todo' \subseteq Slots \X Side
    BY <1>4, <2>1, NextEndTrue DEF SyncEndFails
  <2>3. BooksOK'
    BY <1>4, <2>2, BoundsAssumption DEF SyncEndFails, NextEnd, BooksOK
  <2>4. QED  BY <2>1, <2>2, <2>3
<1>5. ASSUME SuperblockFine PROVE IInv'
  <2>1. DeviceOK'  BY <1>5, DeviceSame DEF SuperblockFine
  <2>2. BooksOK'  BY <1>5 DEF SuperblockFine, BooksOK, Places, Results
  <2>3. QED  BY <1>5, <2>1, <2>2, QuietStep DEF SuperblockFine
<1>6. ASSUME SuperblockUnrecoverable PROVE IInv'
  <2>1. DeviceOK'  BY <1>6, DeviceSame DEF SuperblockUnrecoverable
  <2>2. BooksOK'  BY <1>6 DEF SuperblockUnrecoverable, BooksOK, Places
  <2>3. QED  BY <1>6, <2>1, <2>2, QuietStep DEF SuperblockUnrecoverable
<1>7. ASSUME AdoptBackup PROVE IInv'
  <2>1. DeviceOK'  BY <1>7, DeviceSame DEF AdoptBackup
  <2>2. ReportsOK'  BY <1>7 DEF AdoptBackup, ReportsOK
  <2>3. superblock' \in [{1, 2} -> Content]
    BY <1>7, ReadRealType DEF AdoptBackup, DeviceOK
  <2>4. SessionOK'  BY <1>7, <2>3 DEF AdoptBackup, SessionOK
  <2>5. BooksOK'  BY <1>7 DEF AdoptBackup, BooksOK, Places, Results
  <2>6. QED  BY <2>1, <2>2, <2>4, <2>5
<1>8. ASSUME WriteSuperblock PROVE IInv'
  <2>1. DeviceOK'
    <3>1. PICK p \in sbAt.primary : M!WriteCells(SuperblockWrite(p))
      BY <1>8 DEF WriteSuperblock
    <3>2. QED  BY <3>1, WriteTrue, SuperblockWriteTrue
  <2>2. BooksOK'  BY <1>8 DEF WriteSuperblock, BooksOK, Places
  <2>3. QED  BY <1>8, <2>1, <2>2, QuietStep DEF WriteSuperblock
<1>9. ASSUME CheckFails PROVE BooksOK' /\ UNCHANGED session
  BY <1>9, ResultType, BoundsAssumption DEF CheckFails, BooksOK, Places, Reporting
<1>10. ASSUME WriteSuperblockFails PROVE IInv'
  <2>1. DeviceOK'
    <3>1. PICK p \in sbAt.primary, k \in 0..2 :
            M!WriteFails(SuperblockWrite(p), SbRegion \X (1..k))
      BY <1>10 DEF WriteSuperblockFails
    <3>2. QED  BY <3>1, WriteFailsTrue, SuperblockWriteTrue
  <2>2. QED  BY <1>9, <1>10, <2>1, QuietStep DEF WriteSuperblockFails
<1>11. ASSUME SyncSuperblock PROVE IInv'
  <2>1. DeviceOK'  BY <1>11, SyncTrue DEF SyncSuperblock
  <2>2. BooksOK'  BY <1>11 DEF SyncSuperblock, BooksOK, Places, Results
  <2>3. QED  BY <1>11, <2>1, <2>2, QuietStep DEF SyncSuperblock
<1>12. ASSUME SyncSuperblockFails PROVE IInv'
  <2>1. DeviceOK'  BY <1>12, SyncFailsTrue DEF SyncSuperblockFails
  <2>2. QED  BY <1>9, <1>12, <2>1, QuietStep DEF SyncSuperblockFails
<1>13. QED
  BY <1>1, <1>2, <1>3, <1>4, <1>5, <1>6, <1>7, <1>8, <1>10, <1>11, <1>12
     DEF CheckStep

(* The steps inside confirm().                                             *)
LEMMA ConfirmStepIInv == ASSUME IInv, ConfirmStep PROVE IInv'
<1> USE DEF IInv
<1>1. ASSUME WriteSmart PROVE IInv'
  <2>1. DeviceOK'
    <3>1. PICK t \in smartMain : M!WriteCells(SmartWrite(t))
      BY <1>1 DEF WriteSmart
    <3>2. QED  BY <3>1, WriteTrue, SmartWriteTrue
  <2>2. BooksOK'  BY <1>1 DEF WriteSmart, BooksOK, Places
  <2>3. QED  BY <1>1, <2>1, <2>2, QuietStep DEF WriteSmart
<1>2. ASSUME WriteSmartFails PROVE IInv'
  <2>1. DeviceOK'
    <3>1. PICK t \in smartMain : \E D : M!WriteFails(SmartWrite(t), D)
      BY <1>2 DEF WriteSmartFails
    <3> QED BY <3>1, WriteFailsTrue, SmartWriteTrue
  <2>2. BooksOK'
    BY <1>2, ResultType, BoundsAssumption
       DEF WriteSmartFails, BooksOK, Places, Reporting
  <2>3. QED  BY <1>2, <2>1, <2>2, QuietStep DEF WriteSmartFails
<1>3. ASSUME SyncSmart PROVE IInv'
  <2>1. DeviceOK'  BY <1>3, SyncTrue, SyncFailsTrue DEF SyncSmart
  <2>2. ReportsOK'  BY <1>3 DEF SyncSmart, ReportsOK
  <2>3. \A t \in [at : Structure, n : Nat] :
          Confirmed(t) \in [at : Structure, n : Nat]
    BY WrapAssumption DEF Confirmed
  <2>4. SessionOK'  BY <1>3, <2>3 DEF SyncSmart, SessionOK
  <2>5. BooksOK'
    BY <1>3, BoundsAssumption DEF SyncSmart, BooksOK, Places
  <2>6. QED  BY <2>1, <2>2, <2>4, <2>5
<1>4. QED  BY <1>1, <1>2, <1>3 DEF ConfirmStep

(* The calls of the owner of the session.                                  *)
LEMMA CallsIInv == ASSUME IInv, Calls PROVE IInv'
<1> USE DEF IInv
<1>1. ASSUME NEW w \in BOOLEAN, MountFull(w) PROVE IInv'
  <2>1. DeviceOK'  BY <1>1, DeviceSame DEF MountFull
  <2>2. ReportsOK'  BY <1>1, ScanTrue DEF MountFull, ReportsOK, DeviceOK
  <2>3. superblock' \in [{1, 2} -> Content]
    BY <1>1, ReadRealType DEF MountFull, DeviceOK
  <2>4. sbAt' \in [primary : SUBSET {At("superblock")},
                  backup : SUBSET {At("sb_backup")}]
    <3>1. TrueReport(ReportOf(vis, 0), 0)
      BY SlotsAssumption, ReportTrue DEF DeviceOK
    <3>2. QED  BY <1>1, <3>1, PairTrue DEF MountFull
  <2>5. smartMain' \subseteq [at : Structure, n : Nat]
    BY <1>1, SmartMainType DEF MountFull, DeviceOK
  <2>6. SessionOK'
    BY <1>1, <2>3, <2>4, <2>5 DEF MountFull, SessionOK, NoOpts
  <2>7. BooksOK'
    BY <1>1, ResultType DEF MountFull, BooksOK, Places, Reporting
  <2>8. QED  BY <2>1, <2>2, <2>6, <2>7
<1>2. ASSUME NEW w \in BOOLEAN, MountBypass(w) PROVE IInv'
  <2>1. DeviceOK'  BY <1>2, DeviceSame DEF MountBypass
  <2>2. ReportsOK' /\ SessionOK'
    BY <1>2 DEF MountBypass, ReportsOK, SessionOK
  <2>3. BooksOK'
    BY <1>2, ResultType DEF MountBypass, BooksOK, Places, Reporting
  <2>4. QED  BY <2>1, <2>2, <2>3
<1>3. ASSUME MountRefused PROVE IInv'
  <2>1. DeviceOK'  BY <1>3, DeviceSame DEF MountRefused
  <2>2. BooksOK'
    BY <1>3, ResultType DEF MountRefused, BooksOK, Reporting
  <2>3. QED  BY <1>3, <2>1, <2>2, QuietStep DEF MountRefused
<1>4. ASSUME CheckStart PROVE IInv'
  <2>1. DeviceOK'  BY <1>4, DeviceSame DEF CheckStart
  <2>2. todo' \subseteq Slots \X Side  BY <1>4 DEF CheckStart
  <2>3. res' \in Results
    <3>1. \E D, L, G \in SUBSET Slots :
            res' = [Result("check") EXCEPT !.degraded = D, !.lost = L, !.disagree = G]
      <4> DEFINE D == {s \in Slots : Bad(s) /\ Recoverable(anchors[s])}
                 L == {s \in Slots : Bad(s) /\ ~Recoverable(anchors[s])}
                 G == {s \in Slots : Disagree(anchors[s])}
      <4>1. D \in SUBSET Slots /\ L \in SUBSET Slots /\ G \in SUBSET Slots
        OBVIOUS
      <4>2. res' = [Result("check") EXCEPT !.degraded = D, !.lost = L, !.disagree = G]
        BY <1>4 DEF CheckStart
      <4> HIDE DEF D, L, G
      <4>3. QED  BY <4>1, <4>2
    <3>2. Result("check") \in Results  BY ResultType DEF Reporting
    <3>3. QED  BY <3>1, <3>2 DEF Results
  <2>4. BooksOK'  BY <1>4, <2>2, <2>3 DEF CheckStart, BooksOK, Places
  <2>5. QED  BY <1>4, <2>1, <2>4, QuietStep DEF CheckStart
<1>5. ASSUME ConfirmStart PROVE IInv'
  <2>1. DeviceOK'  BY <1>5, DeviceSame DEF ConfirmStart
  <2>2. BooksOK'
    BY <1>5, ResultType DEF ConfirmStart, BooksOK, Places, Reporting
  <2>3. QED  BY <1>5, <2>1, <2>2, QuietStep DEF ConfirmStart
<1>6. ASSUME CallSync PROVE IInv'
  <2>1. DeviceOK'  BY <1>6, SyncTrue DEF CallSync
  <2>2. BooksOK'  BY <1>6, ResultType DEF CallSync, BooksOK, Reporting
  <2>3. QED  BY <1>6, <2>1, <2>2, QuietStep DEF CallSync
<1>7. ASSUME Close PROVE IInv'
  <2>1. DeviceOK'
    BY <1>7, SyncTrue, SyncFailsTrue, DeviceSame DEF Close
  <2>2. ReportsOK' /\ SessionOK' /\ pc' \in Places /\ todo' \subseteq Slots \X Side
    BY <1>7, ForgetTrue DEF Close
  <2>3. BooksOK'
    BY <1>7, <2>2, BoundsAssumption DEF Close, BooksOK, NoResult, Results, Reporting
  <2>4. QED  BY <2>1, <2>2, <2>3
<1>8. ASSUME NEW o \in Remounts, Remount(o) PROVE IInv'
  <2>1. DeviceOK'  BY <1>8, DeviceSame DEF Remount
  <2>2. ReportsOK'  BY <1>8 DEF Remount, ReportsOK
  <2>3. SessionOK'  BY <1>8, RemountsAssumption DEF Remount, SessionOK
  <2>4. BooksOK'  BY <1>8, ResultType DEF Remount, BooksOK, Reporting
  <2>5. QED  BY <2>1, <2>2, <2>3, <2>4
<1>9. QED
  BY <1>1, <1>2, <1>3, <1>4, <1>5, <1>6, <1>7, <1>8 DEF Calls

(* Damage to the media, and the owner's own writes.                        *)
LEMMA DamageIInv == ASSUME IInv, Damage PROVE IInv'
<1> USE DEF IInv
<1>1. ASSUME NEW c \in Cell, Corrupt(c) PROVE IInv'
  <2>1. PICK x \in Corruptions(c) : M!Poke(c, x)  BY <1>1 DEF Corrupt
  <2>2. x \in Content /\ x.is # "ptr"
    BY WildAssumption, WrapAssumption DEF Corruptions, Junk, Content, Count
  <2>3. DeviceOK'  BY <2>1, <2>2, PokeTrue
  <2>4. BooksOK'  BY <1>1, BoundsAssumption DEF Corrupt, BooksOK
  <2>5. QED  BY <1>1, <2>3, <2>4, QuietStep DEF Corrupt
<1>2. ASSUME NEW r \in Region, BadSector(r) PROVE IInv'
  <2>1. DeviceOK'  BY <1>2, DeviceSame DEF BadSector
  <2>2. BooksOK'  BY <1>2, BoundsAssumption DEF BadSector, BooksOK
  <2>3. QED  BY <1>2, <2>1, <2>2, QuietStep DEF BadSector
<1>3. ASSUME NEW c \in PtrCell \cup SbCell, WriteBlock(c) PROVE IInv'
  <2>1. DeviceOK'
    <3> DEFINE W == [x \in {c} |-> Junk]
    <3>1. M!WriteCells(W)  BY <1>3 DEF WriteBlock
    <3>2. \A x \in DOMAIN W :
            W[x] \in Content /\ (x \in PtrCell => TruePointer(x, W[x]))
      BY DEF Junk, Content, TruePointer
    <3> HIDE DEF W
    <3>3. QED  BY <3>1, <3>2, WriteTrue
  <2>2. BooksOK'
    BY <1>3, ResultType, BoundsAssumption DEF WriteBlock, BooksOK, Reporting
  <2>3. QED  BY <1>3, <2>1, <2>2, QuietStep DEF WriteBlock
<1>4. QED  BY <1>1, <1>2, <1>3 DEF Damage

LEMMA MishapIInv == ASSUME IInv, Kill \/ PowerLoss PROVE IInv'
<1> USE DEF IInv
<1>1. DeviceOK'
  BY DeviceSame, PowerCutTrue DEF Kill, PowerLoss
<1>2. ReportsOK' /\ SessionOK' /\ pc' \in Places /\ todo' \subseteq Slots \X Side
  BY ForgetTrue DEF Kill, PowerLoss
<1>3. NoResult \in Results  BY DEF NoResult, Results, Reporting
<1>4. BooksOK'
  BY <1>2, <1>3, BoundsAssumption DEF Kill, PowerLoss, BooksOK
<1>5. QED  BY <1>1, <1>2, <1>4

LEMMA NextIInv == IInv /\ [Next]_vars => IInv'
<1> SUFFICES ASSUME IInv, [Next]_vars PROVE IInv'  OBVIOUS
<1>1. CASE UNCHANGED vars
  BY <1>1 DEF vars, session, IInv, DeviceOK, ReportsOK, SessionOK, BooksOK
<1>2. CASE Next
  BY <1>2, CheckStepIInv, ConfirmStepIInv, CallsIInv, DamageIInv, MishapIInv
     DEF Next, Running
<1>3. QED  BY <1>1, <1>2

-----------------------------------------------------------------------------
(* Every variable of the engine keeps its type.                            *)
THEOREM TypeCorrect == Spec => []TypeOK
<1>1. Spec => []IInv  BY InitIInv, NextIInv, PTL DEF Spec
<1>2. QED  BY <1>1, IInvImplies, PTL

(* No repair, interrupted, torn or computed from a report taken earlier in *)
(* the session, ever leaves a well-formed pointer to the wrong place, on   *)
(* the device or among what a power loss may uncover.                      *)
THEOREM PointersStayTrue == Spec => []PointersTrue
<1>1. Spec => []IInv  BY InitIInv, NextIInv, PTL DEF Spec
<1>2. QED  BY <1>1, IInvImplies, PTL

-----------------------------------------------------------------------------
(* The decision to write is taken once, when a call begins or when it      *)
(* adopts the backup, and used some steps later: it is still right then.   *)
MayWriteInv ==
  pc \in {"rewrite", "barrier", "sbwrite", "sbsync", "smartwrite", "smartsync"}
    => CanWrite

LEMMA MayWriteStep == MayWriteInv /\ [Next]_vars => MayWriteInv'
<1> SUFFICES ASSUME MayWriteInv, [Next]_vars PROVE MayWriteInv'  OBVIOUS
<1> USE DEF MayWriteInv, CanWrite
<1>1. ASSUME CheckStep PROVE MayWriteInv'
  BY <1>1 DEF CheckStep, RewriteEnd, RewriteEndFails, SyncEnd, SyncEndFails,
     NextEnd, SuperblockFine, SuperblockUnrecoverable, AdoptBackup,
     WriteSuperblock, WriteSuperblockFails, SyncSuperblock,
     SyncSuperblockFails, CheckFails, session
<1>2. ASSUME ConfirmStep PROVE MayWriteInv'
  BY <1>2 DEF ConfirmStep, WriteSmart, WriteSmartFails, SyncSmart, session
<1>3. ASSUME Calls PROVE MayWriteInv'
  BY <1>3 DEF Calls, MountFull, MountBypass, MountRefused, CheckStart,
     ConfirmStart, CallSync, Close, Remount, Forget, session
<1>4. ASSUME Damage PROVE MayWriteInv'
  BY <1>4 DEF Damage, Corrupt, BadSector, WriteBlock, session
<1>5. ASSUME Kill \/ PowerLoss PROVE MayWriteInv'
  BY <1>5 DEF Kill, PowerLoss, Forget
<1>6. CASE UNCHANGED vars  BY <1>6 DEF vars, session
<1>7. QED
  BY <1>1, <1>2, <1>3, <1>4, <1>5, <1>6 DEF Next, Running

(* Every step is an operation of the device, or leaves it as it is.        *)
DeviceOp == \/ UNCHANGED <<vis, surv>> \/ M!Sync \/ M!PowerCut
            \/ \E W : M!WriteCells(W)
            \/ \E c \in Cell : \E x : M!Poke(c, x)

LEMMA EveryStepIsDeviceOp == ASSUME Next PROVE DeviceOp
<1>1. \A W, D : M!WriteFails(W, D) => DeviceOp
  BY DEF M!WriteFails, DeviceOp
<1>2. M!SyncFails => DeviceOp
  BY DEF M!SyncFails, M!medium, DeviceOp
<1>3. ASSUME CheckStep PROVE DeviceOp
  BY <1>1, <1>2, <1>3 DEF CheckStep, RewriteEnd, RewriteEndFails, SyncEnd, SyncEndFails,
     SuperblockFine, SuperblockUnrecoverable, AdoptBackup, WriteSuperblock,
     WriteSuperblockFails, SyncSuperblock, SyncSuperblockFails, DeviceOp
<1>4. ASSUME ConfirmStep PROVE DeviceOp
  BY <1>1, <1>2, <1>4 DEF ConfirmStep, WriteSmart, WriteSmartFails, SyncSmart, DeviceOp
<1>5. ASSUME Calls PROVE DeviceOp
  BY <1>2, <1>5 DEF Calls, MountFull, MountBypass, MountRefused, CheckStart,
     ConfirmStart, CallSync, Close, Remount, DeviceOp
<1>6. ASSUME Damage PROVE DeviceOp
  BY <1>6 DEF Damage, Corrupt, BadSector, WriteBlock, DeviceOp
<1>7. ASSUME Kill \/ PowerLoss PROVE DeviceOp
  BY <1>7 DEF Kill, PowerLoss, DeviceOp
<1> QED BY <1>3, <1>4, <1>5, <1>6, <1>7 DEF Next, Running

LEMMA StaysVisible ==
  IInv /\ M!VisibleMaySurvive /\ [Next]_vars => M!VisibleMaySurvive'
<1> SUFFICES ASSUME IInv, M!VisibleMaySurvive, DeviceOp PROVE M!VisibleMaySurvive'
  BY EveryStepIsDeviceOp DEF vars, DeviceOp
<1> USE DEF M!VisibleMaySurvive
<1>1. vis \in [Cell -> Content] /\ surv \in [Cell -> SUBSET Content]
  BY DEF IInv, DeviceOK, TrueImage, TrueFutures
<1>2. CASE UNCHANGED <<vis, surv>>  BY <1>2
<1>3. CASE M!Sync  BY <1>3 DEF M!Sync
<1>4. CASE M!PowerCut  BY <1>4 DEF M!PowerCut, M!Overlay
<1>5. ASSUME NEW W, M!WriteCells(W) PROVE M!VisibleMaySurvive'
  BY <1>5 DEF M!WriteCells
<1>6. ASSUME NEW c \in Cell, NEW x, M!Poke(c, x) PROVE M!VisibleMaySurvive'
  BY <1>1, <1>6 DEF M!Poke
<1> QED BY <1>2, <1>3, <1>4, <1>5, <1>6 DEF DeviceOp

ReadonlyStep ==
  pc # "closed" /\ (~rw \/ opts.readonly) /\ ~MediaDamage =>
    /\ vis' = vis \/ pc' = "closed"
    /\ \A c \in Cell : surv'[c] \subseteq surv[c]

(* Nothing is written: the device stays as it is, or becomes durable.      *)
NoWrite == UNCHANGED <<vis, surv>> \/ M!Sync

LEMMA ReadonlyNext ==
  M!VisibleMaySurvive /\ MayWriteInv /\ [Next]_vars => [ReadonlyStep]_vars
<1> SUFFICES ASSUME M!VisibleMaySurvive, MayWriteInv, Next, ~CanWrite, pc # "closed",
                    ~MediaDamage
             PROVE  /\ vis' = vis \/ pc' = "closed"
                    /\ \A c \in Cell : surv'[c] \subseteq surv[c]
  BY DEF ReadonlyStep, CanWrite
<1>1. pc \notin {"rewrite", "barrier", "sbwrite", "sbsync", "smartwrite", "smartsync"}
  BY DEF MayWriteInv
<1>2. M!SyncFails => NoWrite  BY DEF M!SyncFails, M!medium, NoWrite
<1>3. ASSUME CheckStep PROVE NoWrite
  BY <1>1, <1>3 DEF CheckStep, RewriteEnd, RewriteEndFails, SyncEnd,
     SyncEndFails, SuperblockFine, SuperblockUnrecoverable, AdoptBackup,
     WriteSuperblock, WriteSuperblockFails, SyncSuperblock, SyncSuperblockFails,
     NoWrite
<1>4. ASSUME ConfirmStep PROVE FALSE
  BY <1>1, <1>4 DEF ConfirmStep, WriteSmart, WriteSmartFails, SyncSmart
<1>5. ASSUME Calls PROVE NoWrite
  BY <1>2, <1>5 DEF Calls, MountFull, MountBypass, MountRefused, CheckStart,
     ConfirmStart, CallSync, Close, Remount, NoWrite
<1>6. ASSUME Damage PROVE FALSE
  BY <1>6 DEF Damage, MediaDamage, WriteBlock
<1>7. NoWrite => /\ vis' = vis
                 /\ \A c \in Cell : surv'[c] \subseteq surv[c]
  BY DEF NoWrite, M!Sync, M!VisibleMaySurvive
<1>8. CASE Kill  BY <1>8 DEF Kill, Forget
<1>9. CASE PowerLoss
  <2>1. PICK f \in M!Images(Cell) : surv' = [c \in Cell |-> {M!Overlay(f)[c]}]
    BY <1>9 DEF PowerLoss, M!PowerCut
  <2>2. \A c \in Cell : M!Overlay(f)[c] \in surv[c]
    BY DEF M!Images, M!Open, M!Overlay, M!VisibleMaySurvive
  <2> QED BY <1>9, <2>1, <2>2 DEF PowerLoss, Forget
<1> QED BY <1>3, <1>4, <1>5, <1>6, <1>7, <1>8, <1>9 DEF Next, Running

(* A session opened read-only, or remounted read-only in software over a   *)
(* writable descriptor, writes nothing: not by check() or confirm(), not   *)
(* by write_block, not when it is closed (remount.rs:72-76).               *)
THEOREM ReadonlyIsReadonly == Spec => ReadonlyWritesNothing
<1>1. Init => MayWriteInv  BY DEF Init, MayWriteInv
<1>2. Spec => []MayWriteInv  BY <1>1, MayWriteStep, PTL DEF Spec
<1>3. Spec => []IInv  BY InitIInv, NextIInv, PTL DEF Spec
<1>4. Init => M!VisibleMaySurvive  BY DEF Init, M!Settled, M!VisibleMaySurvive
<1>5. Spec => []M!VisibleMaySurvive  BY <1>3, <1>4, StaysVisible, PTL DEF Spec
<1>6. Spec => [][ReadonlyStep]_vars
  BY <1>2, <1>5, ReadonlyNext, PTL DEF Spec
<1> QED  BY <1>6 DEF ReadonlyStep, ReadonlyWritesNothing

-----------------------------------------------------------------------------
(***************************************************************************)
(* What a session remembers of the device: the SMART table it increments   *)
(* again and again, and the reports of pointer blocks it judges by.  Both  *)
(* are read once and used much later.                                      *)
(***************************************************************************)

(* The table is a granule of its own.                                      *)
LEMMA SmartCellFacts ==
  SmartCell \in Cell /\ SmartCell \notin PtrCell /\ SmartCell \notin SbCell
BY DEF SmartCell, Cell, TableCell, TableRegion, PtrCell, PtrRegion, SbCell,
   SbRegion, Block, Side, At

-----------------------------------------------------------------------------
(***************************************************************************)
(* The SMART table.  A session has read at most one.  Between the write of *)
(* confirm() and its end the device is one count ahead of the memory, and  *)
(* so it may be after a write that reported an error, until the next write *)
(* that does not.  A check() under way has put its own name in res.        *)
(***************************************************************************)
AtMostOne(S) == \A x, y \in S : x = y
Agrees(t) == vis[SmartCell].n = t.n /\ pc # "smartsync"
Ahead(t)  == vis[SmartCell].n = (t.n + 1) % Wrap /\ ~Counted
SmartInv ==
  /\ AtMostOne(smartMain)
  /\ vis[SmartCell].is = "smart" =>
       \A t \in smartMain : t.at = At("smart") => Agrees(t) \/ Ahead(t)
Judging ==
  pc \in {"rewrite", "barrier", "superblock", "sbwrite", "sbsync"} =>
    res.call = "check"

LEMMA JudgingNext == IInv /\ Judging /\ [Next]_vars => Judging'
<1> SUFFICES ASSUME IInv, Judging, [Next]_vars PROVE Judging'
  OBVIOUS
<1> USE DEF Judging
<1>1. /\ \A R : [res EXCEPT !.repaired = R].call = res.call
      /\ \A b : [res EXCEPT !.sbOk = b].call = res.call
      /\ \A b : [res EXCEPT !.sbRepaired = b].call = res.call
  BY DEF IInv, BooksOK, Results
<1>2. ASSUME CheckStep PROVE Judging'
  <2>1. ASSUME NEW j \in todo,
               RewriteEnd(j) \/ RewriteEndFails(j) \/ SyncEnd(j) \/ SyncEndFails(j)
        PROVE  Judging'
    BY <1>1, <2>1 DEF RewriteEnd, RewriteEndFails, SyncEnd, SyncEndFails
  <2>2. ASSUME SuperblockFine \/ SuperblockUnrecoverable \/ AdoptBackup PROVE Judging'
    BY <1>1, <2>2 DEF SuperblockFine, SuperblockUnrecoverable, AdoptBackup
  <2>3. ASSUME WriteSuperblock \/ WriteSuperblockFails \/ SyncSuperblock
               \/ SyncSuperblockFails
        PROVE  Judging'
    BY <2>3 DEF WriteSuperblock, WriteSuperblockFails, SyncSuperblock,
       SyncSuperblockFails, CheckFails
  <2> QED BY <1>2, <2>1, <2>2, <2>3 DEF CheckStep
<1>3. ASSUME ConfirmStep PROVE Judging'
  BY <1>3 DEF ConfirmStep, WriteSmart, WriteSmartFails, SyncSmart
<1>4. ASSUME CheckStart PROVE Judging'
  BY <1>4, Zenon DEF CheckStart, Result, NoResult
<1>5. ASSUME Calls, ~CheckStart PROVE Judging'
  BY <1>5 DEF Calls, MountFull, MountBypass, MountRefused, ConfirmStart, CallSync,
     Close, Remount, Forget, session
<1>6. ASSUME Damage PROVE Judging'
  BY <1>6 DEF Damage, Corrupt, BadSector, WriteBlock
<1>7. ASSUME Kill \/ PowerLoss PROVE Judging'
  BY <1>7 DEF Kill, PowerLoss, Forget
<1>8. CASE UNCHANGED vars  BY <1>8 DEF vars
<1> QED BY <1>2, <1>3, <1>4, <1>5, <1>6, <1>7, <1>8 DEF Next, Running

LEMMA SmartQuiet ==
  ASSUME SmartInv, smartMain' = smartMain,
         vis'[SmartCell] = vis[SmartCell] \/ vis'[SmartCell].is # "smart",
         pc = "smartsync" <=> pc' = "smartsync",
         Counted' => Counted
  PROVE  SmartInv'
BY DEF SmartInv, AtMostOne, Agrees, Ahead

LEMMA SmartForgotten == ASSUME smartMain' = {} PROVE SmartInv'
BY DEF SmartInv, AtMostOne

(* What mount() reads is at most one table, with the count of the device.  *)
LEMMA SmartRead ==
  /\ AtMostOne(ReadSmartMain)
  /\ \A t \in ReadSmartMain : t.at = At("smart") => t.n = vis[SmartCell].n
<1>1. \A s : AtMostOne(Chosen(ReportOf(vis, s)))
  BY DEF AtMostOne, Chosen, ReportOf, SlotReport, ReadPtr, PtrAt, VerifyPtrBlock
<1>2. AtMostOne(ReadFunctionTable)
  BY <1>1 DEF AtMostOne, ReadFunctionTable
<1> DEFINE T    == {u \in ReadFunctionTable :
                       u \notin {Null, Beyond} /\ u \notin unreadable}
           N(t) == IF <<t, 1>> \in Cell THEN vis[<<t, 1>>].n ELSE 0
<1>3. ReadSmartMain = {[at |-> t, n |-> N(t)] : t \in T} /\ AtMostOne(T)
  BY <1>2 DEF ReadSmartMain, AtMostOne
<1>4. N(At("smart")) = vis[SmartCell].n
  BY SmartCellFacts DEF SmartCell
<1> HIDE DEF T, N
<1> QED BY <1>3, <1>4 DEF AtMostOne

(* A write of cells other than the table's.                                *)
LEMMA WriteElsewhere ==
  ASSUME NEW W, M!WriteCells(W), SmartCell \notin DOMAIN W
  PROVE  vis'[SmartCell] = vis[SmartCell]
BY SmartCellFacts DEF M!WriteCells

LEMMA WriteFailsElsewhere ==
  ASSUME NEW W, NEW D, M!WriteFails(W, D), SmartCell \notin DOMAIN W
  PROVE  vis'[SmartCell] = vis[SmartCell]
<1> DEFINE V == [c \in DOMAIN W \cap D |-> W[c]]
<1>1. M!WriteCells(V) /\ SmartCell \notin DOMAIN V
  BY DEF M!WriteFails
<1> HIDE DEF V
<1> QED BY <1>1, WriteElsewhere

LEMMA SmartCheckStep ==
  ASSUME IInv, SmartInv, Judging, CheckStep PROVE SmartInv'
<1>0. Counted' => Counted
  <2>1. res'.call # "confirm"
    <3>1. /\ \A R : [res EXCEPT !.repaired = R].call = res.call
          /\ \A b : [res EXCEPT !.sbOk = b].call = res.call
          /\ \A b : [res EXCEPT !.sbRepaired = b].call = res.call
      BY DEF IInv, BooksOK, Results
    <3>2. res.call = "check"
      BY DEF Judging, CheckStep, RewriteEnd, RewriteEndFails, SyncEnd, SyncEndFails,
         SuperblockFine, SuperblockUnrecoverable, AdoptBackup, WriteSuperblock,
         WriteSuperblockFails, SyncSuperblock, SyncSuperblockFails
    <3>3. res'.call \in {res.call, "check_failed"}
      BY <3>1 DEF CheckStep, RewriteEnd, RewriteEndFails, SyncEnd, SyncEndFails,
         SuperblockFine, SuperblockUnrecoverable, AdoptBackup, WriteSuperblock,
         WriteSuperblockFails, SyncSuperblock, SyncSuperblockFails, CheckFails, Result,
         NoResult
    <3> QED BY <3>2, <3>3
  <2> QED BY <2>1 DEF Counted
<1>1. \A j, b : SmartCell \notin DOMAIN BlockWrite(j, b) \/ j[2] \notin Side
  BY DEF BlockWrite, Parts, SmartCell, Block, At, Side
<1>2. \A j \in todo : j[2] \in Side
  BY DEF IInv, BooksOK
<1>3. \A p \in sbAt.primary : SmartCell \notin DOMAIN SuperblockWrite(p)
  BY DEF IInv, SessionOK, SuperblockWrite, Parts, SmartCell, At
<1>4. ASSUME NEW j \in todo, RewriteEnd(j) PROVE SmartInv'
  BY <1>0, <1>1, <1>2, <1>4, WriteElsewhere, SmartQuiet DEF RewriteEnd, session
<1>5. ASSUME NEW j \in todo, RewriteEndFails(j) PROVE SmartInv'
  BY <1>0, <1>1, <1>2, <1>5, WriteFailsElsewhere, SmartQuiet DEF RewriteEndFails, NextEnd
<1>6. ASSUME NEW j \in todo, SyncEnd(j) \/ SyncEndFails(j) PROVE SmartInv'
  BY <1>0, <1>6, SmartQuiet DEF SyncEnd, SyncEndFails, NextEnd, M!Sync, M!SyncFails, M!medium
<1>7. ASSUME SuperblockFine \/ SuperblockUnrecoverable \/ AdoptBackup PROVE SmartInv'
  BY <1>0, <1>7, SmartQuiet DEF SuperblockFine, SuperblockUnrecoverable, AdoptBackup, session
<1>8. ASSUME WriteSuperblock PROVE SmartInv'
  BY <1>0, <1>3, <1>8, WriteElsewhere, SmartQuiet DEF WriteSuperblock, session
<1>9. ASSUME WriteSuperblockFails PROVE SmartInv'
  BY <1>0, <1>3, <1>9, WriteFailsElsewhere, SmartQuiet
     DEF WriteSuperblockFails, CheckFails, session
<1>10. ASSUME SyncSuperblock \/ SyncSuperblockFails PROVE SmartInv'
  BY <1>0, <1>10, SmartQuiet DEF SyncSuperblock, SyncSuperblockFails, CheckFails,
     M!Sync, M!SyncFails, M!medium, session
<1> QED BY <1>4, <1>5, <1>6, <1>7, <1>8, <1>9, <1>10 DEF CheckStep

LEMMA SmartConfirmStep == ASSUME IInv, SmartInv, ConfirmStep PROVE SmartInv'
<1>1. \A t \in smartMain : Confirmed(t).n = (t.n + 1) % Wrap /\ Confirmed(t).at = t.at
  BY DEF IInv, SessionOK, Confirmed
<1>2. ASSUME WriteSmart PROVE SmartInv'
  <2>1. PICK t \in smartMain : M!WriteCells(SmartWrite(t))
    BY <1>2 DEF WriteSmart
  <2>2. smartMain' = smartMain /\ pc' = "smartsync" /\ pc # "smartsync"
    BY <1>2 DEF WriteSmart, session
  <2>3. CASE t.at = At("smart")
    <3>1. SmartCell \in DOMAIN SmartWrite(t)
          /\ SmartWrite(t)[SmartCell] = SmartTable(Confirmed(t).n)
      BY <2>3, SmartCellFacts DEF SmartWrite, SmartCell
    <3>2. vis'[SmartCell].n = (t.n + 1) % Wrap
      BY <1>1, <2>1, <3>1, SmartCellFacts DEF M!WriteCells, SmartTable
    <3> QED BY <2>2, <3>2 DEF SmartInv, AtMostOne, Agrees, Ahead, Counted
  <2>4. CASE t.at # At("smart")
    <3>1. \A u \in smartMain : u.at # At("smart")
      BY <2>4 DEF SmartInv, AtMostOne
    <3> QED BY <2>2, <3>1 DEF SmartInv
  <2> QED BY <2>3, <2>4
<1>3. ASSUME WriteSmartFails PROVE SmartInv'
  <2>1. PICK t \in smartMain : \E D : M!WriteFails(SmartWrite(t), D)
    BY <1>3 DEF WriteSmartFails
  <2>2. PICK D : M!WriteFails(SmartWrite(t), D)
    BY <2>1
  <2>3. /\ smartMain' = smartMain /\ pc = "smartwrite" /\ pc' = "idle"
        /\ res'.call = "confirm_failed"
    BY <1>3 DEF WriteSmartFails, session, Result, NoResult
  <2>4. ~Counted'
    BY <2>3 DEF Counted
  <2>5. CASE vis'[SmartCell] = vis[SmartCell]
    BY <2>3, <2>4, <2>5, SmartQuiet
  <2>6. CASE vis'[SmartCell] # vis[SmartCell]
    <3>1. /\ SmartCell \in DOMAIN SmartWrite(t)
          /\ vis'[SmartCell] = SmartWrite(t)[SmartCell]
      BY <2>2, <2>6, SmartCellFacts DEF M!WriteFails, M!WriteCells
    <3>2. t.at = At("smart") /\ SmartWrite(t)[SmartCell] = SmartTable(Confirmed(t).n)
      BY <3>1 DEF SmartWrite, SmartCell
    <3>3. vis'[SmartCell].n = (t.n + 1) % Wrap
      BY <1>1, <3>1, <3>2 DEF SmartTable
    <3> QED BY <2>3, <2>4, <3>3 DEF SmartInv, AtMostOne, Agrees, Ahead
  <2> QED BY <2>5, <2>6
<1>4. ASSUME SyncSmart PROVE SmartInv'
  <2>1. /\ pc = "smartsync" /\ pc' = "idle" /\ vis' = vis
        /\ smartMain' = {Confirmed(t) : t \in smartMain}
    BY <1>4 DEF SyncSmart, M!Sync, M!SyncFails, M!medium
  <2>2. AtMostOne(smartMain')
    BY <2>1 DEF SmartInv, AtMostOne
  <2>3. ASSUME vis[SmartCell].is = "smart", NEW t \in smartMain, t.at = At("smart")
        PROVE  vis[SmartCell].n = Confirmed(t).n
    BY <1>1, <2>1, <2>3 DEF SmartInv, Agrees, Ahead
  <2> QED BY <1>1, <2>1, <2>2, <2>3 DEF SmartInv, Agrees
<1> QED BY <1>2, <1>3, <1>4 DEF ConfirmStep

LEMMA SmartNext == IInv /\ Judging /\ SmartInv /\ [Next]_vars => SmartInv'
<1> SUFFICES ASSUME IInv, Judging, SmartInv, [Next]_vars PROVE SmartInv'
  OBVIOUS
<1>1. ASSUME Calls PROVE SmartInv'
  <2>1. ASSUME NEW w \in BOOLEAN, MountFull(w) PROVE SmartInv'
    BY <2>1, SmartRead DEF MountFull, SmartInv, Agrees
  <2>2. ASSUME Close PROVE SmartInv'
    BY <2>2, SmartForgotten DEF Close, Forget
  <2>3. ASSUME NEW w \in BOOLEAN, MountBypass(w) PROVE SmartInv'
    BY <2>3, SmartQuiet DEF MountBypass, Counted, Result, NoResult
  <2>4. ASSUME NEW o \in Remounts, Remount(o) PROVE SmartInv'
    BY <2>4, SmartQuiet DEF Remount, Counted, Result, NoResult
  <2>5. ASSUME MountRefused \/ CheckStart PROVE SmartInv'
    <3>1. pc' # "idle"
      BY <2>5 DEF MountRefused, CheckStart
    <3> QED BY <2>5, <3>1, SmartQuiet DEF MountRefused, CheckStart, session, Counted
  <2>6. ASSUME CallSync PROVE SmartInv'
    BY <2>6, SmartQuiet DEF CallSync, M!Sync, session, Counted, Result, NoResult
  <2>7. ASSUME ConfirmStart PROVE SmartInv'
    <3>1. CASE smartMain = {}
      BY <2>7, <3>1, SmartForgotten DEF ConfirmStart, session
    <3>2. CASE smartMain # {}
      BY <2>7, <3>2, SmartQuiet DEF ConfirmStart, session, Counted
    <3> QED BY <3>1, <3>2
  <2> QED BY <1>1, <2>1, <2>2, <2>3, <2>4, <2>5, <2>6, <2>7 DEF Calls
<1>2. ASSUME Damage PROVE SmartInv'
  <2>1. ASSUME NEW c \in Cell, Corrupt(c) PROVE SmartInv'
    <3>1. PICK x \in Corruptions(c) : M!Poke(c, x)
      BY <2>1 DEF Corrupt
    <3>2. x.is # "smart"
      BY DEF Corruptions, Junk
    <3>3. vis'[SmartCell] = vis[SmartCell] \/ vis'[SmartCell].is # "smart"
      BY <3>1, <3>2, SmartCellFacts DEF M!Poke, IInv, DeviceOK, TrueImage
    <3> QED BY <2>1, <3>3, SmartQuiet DEF Corrupt, session, Counted
  <2>2. ASSUME NEW r \in Region, BadSector(r) PROVE SmartInv'
    BY <2>2, SmartQuiet DEF BadSector, session, Counted
  <2>3. ASSUME NEW c \in PtrCell \cup SbCell, WriteBlock(c) PROVE SmartInv'
    <3> DEFINE W == [x \in {c} |-> Junk]
    <3>1. M!WriteCells(W) /\ SmartCell \notin DOMAIN W
      BY <2>3, SmartCellFacts DEF WriteBlock
    <3> HIDE DEF W
    <3> QED BY <2>3, <3>1, WriteElsewhere, SmartQuiet
            DEF WriteBlock, session, Counted, Result, NoResult
  <2> QED BY <1>2, <2>1, <2>2, <2>3 DEF Damage
<1>3. ASSUME Kill \/ PowerLoss PROVE SmartInv'
  BY <1>3, SmartForgotten DEF Kill, PowerLoss, Forget
<1>4. CASE UNCHANGED vars
  BY <1>4, SmartQuiet DEF vars, session, Counted
<1> QED BY <1>1, <1>2, <1>3, <1>4, SmartCheckStep, SmartConfirmStep DEF Next, Running

(* A confirm() whose write did not fail leaves memory and device at one    *)
(* count, whatever the barrier and earlier confirm() calls did and also    *)
(* when the counter wraps; one whose write failed leaves the device at     *)
(* most one count ahead (confirm.rs:54-60 over device.rs:110-120).         *)
THEOREM CountsAgree == Spec => []SmartCoherent
<1>1. Init => SmartInv /\ Judging
  BY DEF Init, SmartInv, AtMostOne, Judging
<1>2. IInv /\ SmartInv => SmartCoherent
  <2>1. IInv => \A t \in smartMain : Confirmed(t).n = (t.n + 1) % Wrap
    BY DEF IInv, SessionOK, Confirmed
  <2> QED BY <2>1 DEF SmartInv, SmartCoherent, Agrees, Ahead
<1>3. Spec => []IInv
  BY InitIInv, NextIInv, PTL DEF Spec
<1>4. Spec => []Judging
  BY <1>1, <1>3, JudgingNext, PTL DEF Spec
<1> QED BY <1>1, <1>2, <1>3, <1>4, SmartNext, PTL DEF Spec

-----------------------------------------------------------------------------
(***************************************************************************)
(* The reports.  What the device could still rebuild, the reports of the   *)
(* session can: since they were taken the device has only lost blocks, or  *)
(* has got some that were built from these reports.                        *)
(***************************************************************************)
ReportsKnow(r) == \A s \in Slots : Rebuildable(s) => Recoverable(r[s])
KnownInv == pc # "closed" /\ mode = "full" => ReportsKnow(anchors)

LEMMA ScanKnows == ReportsKnow(ScanAnchors(vis))
<1> SUFFICES ASSUME NEW s \in Slots, Rebuildable(s)
             PROVE  Recoverable(ReportOf(vis, s))
  BY DEF ReportsKnow, ScanAnchors
<1> DEFINE h == ReadPtr(vis, "head", s)
           t == ReadPtr(vis, "tail", s)
           r == ReportOf(vis, s)
<1>1. r.slot = s /\ r.head = h /\ r.tail = t
  BY DEF ReportOf, SlotReport
<1> HIDE DEF h, t, r
<1>2. CASE s # 0
  BY <1>1, <1>2 DEF Rebuildable, Recoverable, h, t, r
<1>3. CASE s = 0
  <2>1. Reals(h) \cup Fallbacks(t) # {} /\ Fallbacks(h) \cup Reals(t) # {}
    BY <1>3 DEF Rebuildable, h, t
  <2>2. h = {} => Reals(h) = {}
    BY DEF Reals
  <2>3. h # {} => Reals(h) # {}
    BY DEF Reals
  <2>4. SbPrimary(r) # {}
    BY <1>1, <2>1, <2>2, <2>3 DEF SbPrimary
  <2> QED BY <1>1, <1>3, <2>1, <2>4 DEF Recoverable, SbBackup, r
<1> QED BY <1>2, <1>3

(* The new scan after the last end sees the device as the step leaves it.  *)
LEMMA RescanKnows ==
  ASSUME UNCHANGED unreadable
  PROVE  \A s \in Slots : Rebuildable(s)' => Recoverable(ScanAnchors(vis')[s])
<1>1. \A s \in Slots : ScanAnchors(vis)'[s] = ScanAnchors(vis')[s]
  BY DEF ScanAnchors, ReportOf, ReadPtr, Readable
<1>2. ReportsKnow(ScanAnchors(vis))'
  BY ScanKnows, PTL
<1> QED BY <1>1, <1>2 DEF ReportsKnow

(* Slot s on the device is as it was, or worse.                            *)
Worse(s) ==
  /\ unreadable \subseteq unreadable'
  /\ \A d \in Side, p \in {1, 2} :
       LET c == <<Block(d, s), p>> IN vis'[c] = vis[c] \/ vis'[c].is # "ptr"

(* A block of which a part is gone tells nothing new.                      *)
LEMMA PartGone ==
  ASSUME NEW a, NEW b, NEW x, NEW y,
         x = a \/ x.is # "ptr", y = b \/ y.is # "ptr"
  PROVE  LET g == VerifyPtrBlock(x, y)
             f == VerifyPtrBlock(a, b)
         IN /\ Reals(g) \subseteq Reals(f) /\ Fallbacks(g) \subseteq Fallbacks(f)
            /\ g # {} => f # {}
<1> DEFINE Fb(p, q) == {u.to : u \in {v \in {q} : v.is = "ptr" /\ v.n = p.n}}
           B(p, q) == [real |-> p.to, fallback |-> Fb(p, q), algo |-> p.n]
<1>1. \A p, q : VerifyPtrBlock(p, q) = IF p.is = "ptr" THEN {B(p, q)} ELSE {}
  BY DEF VerifyPtrBlock
<1>2. \A p, q : /\ Reals(VerifyPtrBlock(p, q)) = IF p.is = "ptr" THEN {p.to} ELSE {}
                /\ Fallbacks(VerifyPtrBlock(p, q)) = IF p.is = "ptr" THEN Fb(p, q) ELSE {}
  <2>1. \A p, q : B(p, q).real = p.to /\ B(p, q).fallback = Fb(p, q)
    OBVIOUS
  <2> HIDE DEF B, Fb
  <2>2. \A e : Reals({e}) = {e.real} /\ Fallbacks({e}) = e.fallback
    BY DEF Reals, Fallbacks
  <2>3. Reals({}) = {} /\ Fallbacks({}) = {}
    BY DEF Reals, Fallbacks
  <2> QED BY <1>1, <2>1, <2>2, <2>3
<1>3. Fb(a, y) \subseteq Fb(a, b)
  OBVIOUS
<1> HIDE DEF Fb, B
<1> QED BY <1>1, <1>2, <1>3

LEMMA WorseKnows == ASSUME NEW s \in Slots, Worse(s), Rebuildable(s)' PROVE Rebuildable(s)
<1> DEFINE H(d) == ReadPtr(vis, d, s)
           G(d) == ReadPtr(vis, d, s)'
<1>1. ASSUME NEW d \in Side
      PROVE  /\ Reals(G(d)) \subseteq Reals(H(d)) /\ Fallbacks(G(d)) \subseteq Fallbacks(H(d))
             /\ G(d) # {} => H(d) # {}
  <2> DEFINE c1 == <<Block(d, s), 1>>
             c2 == <<Block(d, s), 2>>
  <2>1. /\ vis'[c1] = vis[c1] \/ vis'[c1].is # "ptr"
        /\ vis'[c2] = vis[c2] \/ vis'[c2].is # "ptr"
    BY DEF Worse
  <2>2. CASE Readable(Block(d, s))'
    <3>1. Readable(Block(d, s))
      BY <2>2 DEF Readable, Worse
    <3>2. /\ G(d) = VerifyPtrBlock(vis'[c1], vis'[c2])
          /\ H(d) = VerifyPtrBlock(vis[c1], vis[c2])
      BY <2>2, <3>1 DEF ReadPtr, PtrAt
    <3> HIDE DEF G, H, c1, c2
    <3> QED BY <2>1, <3>2, PartGone
  <2>3. CASE ~Readable(Block(d, s))'
    <3>1. G(d) = {}
      BY <2>3 DEF ReadPtr
    <3> HIDE DEF G
    <3> QED BY <3>1 DEF Reals, Fallbacks
  <2> QED BY <2>2, <2>3
<1>2. "head" \in Side /\ "tail" \in Side
  BY DEF Side
<1>3. CASE s # 0
  <2>1. G("head") \cup G("tail") # {}
    BY <1>3 DEF Rebuildable
  <2>2. H("head") \cup H("tail") # {}
    <3> HIDE DEF G, H
    <3> QED BY <1>1, <1>2, <2>1
  <2> QED BY <1>3, <2>2 DEF Rebuildable
<1>4. CASE s = 0
  <2>1. /\ Reals(G("head")) \cup Fallbacks(G("tail")) # {}
        /\ Fallbacks(G("head")) \cup Reals(G("tail")) # {}
    BY <1>4 DEF Rebuildable
  <2>2. /\ Reals(H("head")) \cup Fallbacks(H("tail")) # {}
        /\ Fallbacks(H("head")) \cup Reals(H("tail")) # {}
    <3> HIDE DEF G, H
    <3> QED BY <1>1, <1>2, <2>1
  <2> QED BY <1>4, <2>2 DEF Rebuildable
<1> QED BY <1>3, <1>4

(* A step after which every slot is as it was, or worse, keeps the reports *)
(* good enough.                                                            *)
LEMMA WorseStep ==
  ASSUME KnownInv, \A s \in Slots : Worse(s), pc' # "closed" => pc # "closed",
         anchors' = anchors, mode' = mode
  PROVE  KnownInv'
BY WorseKnows DEF KnownInv, ReportsKnow

(* A write of the cells of W leaves a slot alone that has none in W.       *)
LEMMA WriteSpares ==
  ASSUME NEW W, M!WriteCells(W), UNCHANGED unreadable, NEW s \in Slots,
         \A d \in Side, p \in {1, 2} :
           LET c == <<Block(d, s), p>> IN c \in DOMAIN W => W[c].is # "ptr"
  PROVE  Worse(s)
BY Cells DEF Worse, M!WriteCells

LEMMA WriteFailsSpares ==
  ASSUME NEW W, NEW D, M!WriteFails(W, D), UNCHANGED unreadable, NEW s \in Slots,
         \A d \in Side, p \in {1, 2} :
           LET c == <<Block(d, s), p>> IN c \in DOMAIN W => W[c].is # "ptr"
  PROVE  Worse(s)
<1> DEFINE V == [c \in DOMAIN W \cap D |-> W[c]]
<1>1. M!WriteCells(V)
  BY DEF M!WriteFails
<1>2. \A d \in Side, p \in {1, 2} :
        LET c == <<Block(d, s), p>> IN c \in DOMAIN V => V[c].is # "ptr"
  OBVIOUS
<1> HIDE DEF V
<1> QED BY <1>1, <1>2, WriteSpares

LEMMA SameIsWorse ==
  ASSUME vis' = vis, UNCHANGED unreadable PROVE \A s : Worse(s)
BY DEF Worse

(* Only a slot the reports can rebuild is rewritten.                       *)
LEMMA RewriteKnows ==
  ASSUME IInv, KnownInv, pc = "rewrite", NEW j \in todo,
         NEW b \in RebuildPtrBlock(anchors[j[1]], j[2]), UNCHANGED unreadable,
         M!WriteCells(BlockWrite(j, b)) \/
           \E D : M!WriteFails(BlockWrite(j, b), D)
  PROVE  mode = "full" => \A s \in Slots : Rebuildable(s)' => Recoverable(anchors[s])
<1> SUFFICES ASSUME mode = "full", NEW s \in Slots, Rebuildable(s)'
             PROVE  Recoverable(anchors[s])
  OBVIOUS
<1>1. anchors[s].slot = s /\ j[1] \in Slots /\ j[2] \in Side
  BY DEF IInv, ReportsOK, TrueReport, BooksOK
<1>2. CASE s = j[1]
  BY <1>1, <1>2 DEF RebuildPtrBlock, Recoverable, Chosen
<1>3. CASE s # j[1]
  <2>1. \A d \in Side, p \in {1, 2} : <<Block(d, s), p>> \notin DOMAIN BlockWrite(j, b)
    BY <1>3 DEF BlockWrite, Parts, Block
  <2>2. Worse(s)
    BY <2>1, WriteSpares, WriteFailsSpares
  <2>3. Rebuildable(s)
    BY <2>2, WorseKnows
  <2> QED BY <2>3 DEF KnownInv, ReportsKnow
<1> QED BY <1>2, <1>3

LEMMA KnownCheckStep == ASSUME IInv, KnownInv, CheckStep PROVE KnownInv'
<1>1. \A p \in sbAt.primary, s \in Slots, d \in Side, q \in {1, 2} :
        <<Block(d, s), q>> \notin DOMAIN SuperblockWrite(p)
  BY DEF IInv, SessionOK, SuperblockWrite, Parts, Block, At, Side
<1>2. ASSUME NEW j \in todo, RewriteEnd(j) PROVE KnownInv'
  <2>1. /\ pc = "rewrite" /\ pc' = "barrier" /\ mode' = mode /\ anchors' = anchors
        /\ unreadable' = unreadable
    BY <1>2 DEF RewriteEnd, session
  <2>2. mode = "full" => \A s \in Slots : Rebuildable(s)' => Recoverable(anchors[s])
    BY <1>2, <2>1, RewriteKnows DEF RewriteEnd
  <2> QED BY <2>1, <2>2 DEF KnownInv, ReportsKnow
<1>3. ASSUME NEW j \in todo, RewriteEndFails(j) PROVE KnownInv'
  <2>1. /\ pc = "rewrite" /\ mode' = mode /\ unreadable' = unreadable
        /\ anchors' = anchors \/ anchors' = ScanAnchors(vis')
    BY <1>3 DEF RewriteEndFails, NextEnd
  <2>2. mode = "full" => \A s \in Slots : Rebuildable(s)' => Recoverable(anchors[s])
    BY <1>3, <2>1, RewriteKnows DEF RewriteEndFails
  <2>3. \A s \in Slots : Rebuildable(s)' => Recoverable(ScanAnchors(vis')[s])
    BY <2>1, RescanKnows
  <2> QED BY <2>1, <2>2, <2>3 DEF KnownInv, ReportsKnow
<1>4. ASSUME NEW j \in todo, SyncEnd(j) \/ SyncEndFails(j) PROVE KnownInv'
  <2>1. /\ vis' = vis /\ unreadable' = unreadable /\ mode' = mode
        /\ pc = "barrier" /\ (anchors' = anchors \/ anchors' = ScanAnchors(vis'))
    BY <1>4 DEF SyncEnd, SyncEndFails, NextEnd, M!Sync, M!SyncFails, M!medium
  <2>2. \A s \in Slots : Rebuildable(s)' => Recoverable(ScanAnchors(vis')[s])
    BY <2>1, RescanKnows
  <2>3. CASE anchors' = anchors
    BY <2>1, <2>3, SameIsWorse, WorseStep
  <2>4. CASE anchors' = ScanAnchors(vis')
    BY <2>2, <2>4 DEF KnownInv, ReportsKnow
  <2> QED BY <2>1, <2>3, <2>4
<1>5. ASSUME SuperblockFine \/ SuperblockUnrecoverable \/ AdoptBackup PROVE KnownInv'
  BY <1>5, SameIsWorse, WorseStep
     DEF SuperblockFine, SuperblockUnrecoverable, AdoptBackup, session
<1>6. ASSUME WriteSuperblock PROVE KnownInv'
  <2>1. \A s \in Slots : Worse(s)
    BY <1>1, <1>6, WriteSpares DEF WriteSuperblock
  <2> QED BY <1>6, <2>1, WorseStep DEF WriteSuperblock, session
<1>7. ASSUME WriteSuperblockFails PROVE KnownInv'
  <2>1. \A s \in Slots : Worse(s)
    BY <1>1, <1>7, WriteFailsSpares DEF WriteSuperblockFails, CheckFails
  <2> QED BY <1>7, <2>1, WorseStep DEF WriteSuperblockFails, CheckFails, session
<1>8. ASSUME SyncSuperblock \/ SyncSuperblockFails PROVE KnownInv'
  BY <1>8, SameIsWorse, WorseStep DEF SyncSuperblock, SyncSuperblockFails,
     CheckFails, M!Sync, M!SyncFails, M!medium, session
<1> QED BY <1>2, <1>3, <1>4, <1>5, <1>6, <1>7, <1>8 DEF CheckStep

LEMMA KnownConfirmStep == ASSUME IInv, KnownInv, ConfirmStep PROVE KnownInv'
<1>1. ASSUME WriteSmart PROVE KnownInv'
  <2>1. PICK t \in smartMain : M!WriteCells(SmartWrite(t))
    BY <1>1 DEF WriteSmart
  <2>2. \A s \in Slots, d \in Side, p \in {1, 2} :
          LET c == <<Block(d, s), p>> IN
          c \in DOMAIN SmartWrite(t) => SmartWrite(t)[c].is # "ptr"
    BY DEF SmartWrite, SmartTable
  <2>3. \A s \in Slots : Worse(s)
    BY <1>1, <2>1, <2>2, WriteSpares DEF WriteSmart
  <2> QED BY <1>1, <2>3, WorseStep DEF WriteSmart, session
<1>2. ASSUME WriteSmartFails PROVE KnownInv'
  <2>1. PICK t \in smartMain : \E D : M!WriteFails(SmartWrite(t), D)
    BY <1>2 DEF WriteSmartFails
  <2>2. \A s \in Slots, d \in Side, p \in {1, 2} :
          LET c == <<Block(d, s), p>> IN
          c \in DOMAIN SmartWrite(t) => SmartWrite(t)[c].is # "ptr"
    BY DEF SmartWrite, SmartTable
  <2>3. \A s \in Slots : Worse(s)
    BY <1>2, <2>1, <2>2, WriteFailsSpares DEF WriteSmartFails
  <2> QED BY <1>2, <2>3, WorseStep DEF WriteSmartFails, session
<1>3. ASSUME SyncSmart PROVE KnownInv'
  BY <1>3, SameIsWorse, WorseStep
     DEF SyncSmart, M!Sync, M!SyncFails, M!medium, session
<1> QED BY <1>1, <1>2, <1>3 DEF ConfirmStep

LEMMA KnownNext == IInv /\ KnownInv /\ [Next]_vars => KnownInv'
<1> SUFFICES ASSUME IInv, KnownInv, [Next]_vars PROVE KnownInv'
  OBVIOUS
<1>1. ASSUME Calls PROVE KnownInv'
  <2>1. ASSUME NEW w \in BOOLEAN, MountFull(w) PROVE KnownInv'
    <3>1. ReportsKnow(ScanAnchors(vis))'
      BY ScanKnows, PTL
    <3>2. vis' = vis /\ anchors' = ScanAnchors(vis)
      BY <2>1 DEF MountFull
    <3>3. anchors' = ScanAnchors(vis)'
      BY <2>1, <3>2 DEF MountFull, ScanAnchors, ReportOf, ReadPtr, Readable
    <3> QED BY <3>1, <3>3 DEF KnownInv, ReportsKnow
  <2>2. ASSUME NEW w \in BOOLEAN, MountBypass(w) PROVE KnownInv'
    BY <2>2 DEF MountBypass, KnownInv
  <2>3. ASSUME Close PROVE KnownInv'
    BY <2>3 DEF Close, Forget, KnownInv
  <2>4. ASSUME NEW o \in Remounts, Remount(o) PROVE KnownInv'
    BY <2>4, SameIsWorse, WorseStep DEF Remount
  <2>5. ASSUME MountRefused \/ CheckStart \/ ConfirmStart PROVE KnownInv'
    BY <2>5, SameIsWorse, WorseStep DEF MountRefused, CheckStart, ConfirmStart, session
  <2>6. ASSUME CallSync PROVE KnownInv'
    BY <2>6, SameIsWorse, WorseStep DEF CallSync, M!Sync, session
  <2> QED BY <1>1, <2>1, <2>2, <2>3, <2>4, <2>5, <2>6 DEF Calls
<1>2. ASSUME Damage PROVE KnownInv'
  <2>1. ASSUME NEW c \in Cell, Corrupt(c) PROVE KnownInv'
    <3>1. PICK x \in Corruptions(c) : M!Poke(c, x)
      BY <2>1 DEF Corrupt
    <3>2. x.is # "ptr"
      BY DEF Corruptions, Junk
    <3>3. \A s \in Slots : Worse(s)
      BY <2>1, <3>1, <3>2, Cells DEF Worse, Corrupt, M!Poke, IInv, DeviceOK, TrueImage
    <3> QED BY <2>1, <3>3, WorseStep DEF Corrupt, session
  <2>2. ASSUME NEW r \in Region, BadSector(r) PROVE KnownInv'
    <3>1. \A s \in Slots : Worse(s)
      BY <2>2 DEF BadSector, Worse
    <3> QED BY <2>2, <3>1, WorseStep DEF BadSector, session
  <2>3. ASSUME NEW c \in PtrCell \cup SbCell, WriteBlock(c) PROVE KnownInv'
    <3> DEFINE W == [x \in {c} |-> Junk]
    <3>1. M!WriteCells(W) /\ \A x \in DOMAIN W : W[x].is # "ptr"
      BY <2>3 DEF WriteBlock, Junk
    <3> HIDE DEF W
    <3>2. \A s \in Slots : Worse(s)
      BY <2>3, <3>1, WriteSpares DEF WriteBlock
    <3> QED BY <2>3, <3>2, WorseStep DEF WriteBlock, session
  <2> QED BY <1>2, <2>1, <2>2, <2>3 DEF Damage
<1>3. ASSUME Kill \/ PowerLoss PROVE KnownInv'
  BY <1>3 DEF Kill, PowerLoss, Forget, KnownInv
<1>4. CASE UNCHANGED vars
  BY <1>4, SameIsWorse, WorseStep DEF vars, session
<1> QED BY <1>1, <1>2, <1>3, <1>4, KnownCheckStep, KnownConfirmStep DEF Next, Running

LostStep == \A s \in res'.lost \ res.lost : ~Rebuildable(s)

LEMMA LostNext == BooksOK /\ KnownInv /\ [Next]_vars => [LostStep]_vars
<1> SUFFICES ASSUME BooksOK, KnownInv, Next, NEW s \in res'.lost \ res.lost
             PROVE  ~Rebuildable(s)
  BY DEF LostStep
<1>1. \A call \in Reporting : Result(call).lost = {}
  BY DEF Result, NoResult
<1>2. NoResult.lost = {}
  BY DEF NoResult
<1>3. ASSUME CheckStep PROVE FALSE
  <2>1. CheckFails => res'.lost = {}
    BY <1>1 DEF CheckFails, Reporting
  <2>2. /\ \A R : [res EXCEPT !.repaired = R].lost = res.lost
        /\ [res EXCEPT !.sbOk = TRUE].lost = res.lost
        /\ [res EXCEPT !.sbRepaired = TRUE].lost = res.lost
    BY DEF BooksOK, Results
  <2>3. \A j \in todo : /\ RewriteEnd(j) => res'.lost = res.lost
                        /\ RewriteEndFails(j) => res'.lost = res.lost
                        /\ SyncEndFails(j) => res'.lost = res.lost
    BY DEF RewriteEnd, RewriteEndFails, SyncEndFails
  <2>4. \A j \in todo : SyncEnd(j) => res'.lost = res.lost
    BY <2>2 DEF SyncEnd
  <2>5. SuperblockFine \/ AdoptBackup \/ SyncSuperblock => res'.lost = res.lost
    BY <2>2 DEF SuperblockFine, AdoptBackup, SyncSuperblock
  <2>6. SuperblockUnrecoverable \/ WriteSuperblock => res'.lost = res.lost
    BY DEF SuperblockUnrecoverable, WriteSuperblock
  <2>7. WriteSuperblockFails \/ SyncSuperblockFails => res'.lost = {}
    BY <2>1 DEF WriteSuperblockFails, SyncSuperblockFails
  <2> QED BY <1>3, <2>3, <2>4, <2>5, <2>6, <2>7 DEF CheckStep
<1>4. ASSUME ConfirmStep \/ Damage \/ Kill \/ PowerLoss PROVE FALSE
  BY <1>1, <1>2, <1>4 DEF ConfirmStep, WriteSmart, WriteSmartFails, SyncSmart, Damage,
     Corrupt, BadSector, WriteBlock, Kill, PowerLoss, Reporting
<1>5. ASSUME Calls, ~CheckStart PROVE FALSE
  BY <1>1, <1>2, <1>5 DEF Calls, MountFull, MountBypass, MountRefused, ConfirmStart,
     CallSync, Close, Remount, Reporting
<1>6. CASE CheckStart
  <2>1. s \in Slots /\ ~Recoverable(anchors[s])
    BY <1>6 DEF CheckStart, Result, NoResult
  <2>2. pc = "idle" /\ mode = "full"
    BY <1>6 DEF CheckStart
  <2> QED BY <2>1, <2>2 DEF KnownInv, ReportsKnow
<1> QED BY <1>3, <1>4, <1>5, <1>6 DEF Next, Running

(* check() gives a slot up only if nothing on the device could rebuild it, *)
(* although it decides from reports taken earlier in the session.          *)
THEOREM LostForGood == Spec => LostIsLost
<1>1. Init => KnownInv
  BY DEF Init, KnownInv
<1>2. Spec => []IInv
  BY InitIInv, NextIInv, PTL DEF Spec
<1>3. Spec => [][LostStep]_vars
  <2>1. IInv => BooksOK
    BY DEF IInv
  <2> QED BY <1>1, <1>2, <2>1, KnownNext, LostNext, PTL DEF Spec
<1> QED BY <1>3 DEF LostStep, LostIsLost

=============================================================================
