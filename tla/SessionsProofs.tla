---------------------------- MODULE SessionsProofs ----------------------------
(***************************************************************************)
(* Proofs about Sessions: two processes that repair the same regular file  *)
(* at once.  Each decides from reports the other may have outdated, and    *)
(* writes while the other is between its write and its barrier.  What      *)
(* saves them is that true reports lead to true blocks whatever they are   *)
(* rebuilt from, and that a whole end is overwritten with nothing worse,   *)
(* sub-block by sub-block.                                                 *)
(***************************************************************************)
EXTENDS Sessions, RepairProofs

-----------------------------------------------------------------------------
(* The operators of the second session are those of the first.             *)
LEMMA SamePlaces ==
  /\ Second!PtrCell = PtrCell /\ Second!SbCell = SbCell /\ Second!Cell = Cell
  /\ Second!SbRegion = SbRegion /\ Second!Region = Region
  /\ Second!Side = Side /\ Second!PtrRegion = PtrRegion
BY DEF Second!PtrCell, PtrCell, Second!SbCell, SbCell, Second!Cell, Cell,
       Second!TableCell, TableCell, Second!PtrRegion, PtrRegion, Second!SbRegion,
       SbRegion, Second!TableRegion, TableRegion, Second!Region, Region,
       Second!Block, Block, Second!Side, Side, Second!At, At

LEMMA SameParts ==
  /\ \A r : Second!Parts(r) = Parts(r)
  /\ \A j, b : Second!BlockWrite(j, b) = BlockWrite(j, b)
BY DEF Second!Parts, Parts, Second!BlockWrite, BlockWrite, Second!Block, Block

LEMMA SameDevice ==
  /\ \A W : Second!M!WriteCells(W) <=> M!WriteCells(W)
  /\ \A W, D : Second!M!WriteFails(W, D) <=> M!WriteFails(W, D)
  /\ Second!M!Sync <=> M!Sync
  /\ Second!M!SyncFails <=> M!SyncFails
BY SamePlaces
   DEF Second!M!WriteCells, M!WriteCells, Second!M!WriteFails, M!WriteFails,
       Second!M!Sync, M!Sync, Second!M!SyncFails, M!SyncFails, Second!M!medium, M!medium

LEMMA SamePairs ==
  ASSUME NEW r
  PROVE  /\ Second!SbPrimary(r) = SbPrimary(r) /\ Second!SbBackup(r) = SbBackup(r)
         /\ Second!Recoverable(r) <=> Recoverable(r)
         /\ \A d : Second!RebuildPtrBlock(r, d) = RebuildPtrBlock(r, d)
BY DEF Second!SbPrimary, SbPrimary, Second!SbBackup, SbBackup, Second!Reals, Reals,
       Second!Fallbacks, Fallbacks, Second!Recoverable, Recoverable,
       Second!RebuildPtrBlock, RebuildPtrBlock, Second!SlotZeroBlock, SlotZeroBlock,
       Second!BuildPtrBlock, BuildPtrBlock, Second!Chosen, Chosen, Second!Ptr, Ptr,
       Second!Junk, Junk, Second!Null, Null, Second!At, At

LEMMA SameReports ==
  ASSUME NEW v
  PROVE  /\ \A s : Second!ReportOf(v, s) = ReportOf(v, s)
         /\ Second!ScanAnchors(v) = ScanAnchors(v)
         /\ \A d, s : Second!PtrAt(v, d, s) = PtrAt(v, d, s)
<1>1. \A d, s : Second!PtrAt(v, d, s) = PtrAt(v, d, s)
  BY DEF Second!PtrAt, PtrAt, Second!VerifyPtrBlock, VerifyPtrBlock, Second!Block, Block
<1>2. \A d, s : Second!ReadPtr(v, d, s) = ReadPtr(v, d, s)
  BY <1>1, SamePlaces
     DEF Second!ReadPtr, ReadPtr, Second!Readable, Readable, Second!Block, Block
<1>3. \A s : Second!ReportOf(v, s) = ReportOf(v, s)
  BY <1>2 DEF Second!ReportOf, ReportOf, Second!SlotReport, SlotReport
<1> QED  BY <1>1, <1>3 DEF Second!ScanAnchors, ScanAnchors

LEMMA SameCopies ==
  /\ \A v, r : Second!ReadReal(v, r) = ReadReal(v, r)
  /\ \A sb : Second!ChecksumOk(sb) <=> ChecksumOk(sb)
  /\ \A b : Second!BackupFine(b) <=> BackupFine(b)
<1>1. \A v, r : Second!ReadReal(v, r) = ReadReal(v, r)
  BY SamePlaces DEF Second!ReadReal, ReadReal, Second!Junk, Junk, Second!Null, Null,
     Second!At, At
<1>2. \A sb : Second!ChecksumOk(sb) <=> ChecksumOk(sb)
  BY DEF Second!ChecksumOk, ChecksumOk
<1> QED  BY <1>1, <1>2 DEF Second!BackupFine, BackupFine

LEMMA SameStart ==
  /\ Second!NoReport = NoReport /\ Second!NoSb = NoSb /\ Second!NoBlock = NoBlock
  /\ Second!NoResult = NoResult /\ \A call : Second!Result(call) = Result(call)
BY DEF Second!NoReport, NoReport, Second!SlotReport, SlotReport, Second!NoSb, NoSb,
       Second!NoBlock, NoBlock, Second!Junk, Junk, Second!Null, Null, Second!At, At,
       Second!NoResult, NoResult, Second!Result, Result

-----------------------------------------------------------------------------
(***************************************************************************)
(* The steps of the tool, in the words of Engine.                          *)
(***************************************************************************)
memory2 == <<anchors2, sbAt2, superblock2>>
Due2(j) == j \in todo2 /\ \A i \in todo2 : i = j \/ Before(j, i)
Copy(p) == [c \in Parts(p) \cap Cell |-> superblock2[c[2]]]
Same    == UNCHANGED <<vis, surv, unreadable, damage, mishaps>>

(* A call that fails: the operation reports an error.                      *)
OneMore == mishaps < MaxMishaps /\ mishaps' = mishaps + 1

Left2(j) ==
  /\ todo2' = todo2 \ {j}
  /\ pc2' \in {"superblock", "rewrite"}
  /\ anchors2' = anchors2 \/ anchors2' = ScanAnchors(vis')
  /\ UNCHANGED <<unreadable, damage, sbAt2, superblock2>>

Gone2 ==
  /\ pc2' = "closed" /\ anchors2' = NoReport /\ sbAt2' = NoSb
  /\ superblock2' = NoBlock /\ todo2' = {}

LEMMA SecondDue == \A j : Second!Due(j) <=> Due2(j)
BY DEF Second!Due, Due2, Second!Before, Before

LEMMA SecondForget == Second!Forget => Gone2
BY SameStart DEF Second!Forget, Gone2

LEMMA SecondMount ==
  ASSUME Second!ToolMount
  PROVE  /\ Same /\ todo2' = todo2 /\ pc2' = "idle"
         /\ anchors2' = ScanAnchors(vis)
         /\ sbAt2' = [primary |-> SbPrimary(ReportOf(vis, 0)),
                      backup  |-> SbBackup(ReportOf(vis, 0))]
         /\ \E p : superblock2' = ReadReal(vis, p)
         /\ res2' = Result("mount")
BY SameReports, SamePairs, SameCopies, SameStart
   DEF Second!ToolMount, Second!MountFull, Same

LEMMA SecondRefused ==
  ASSUME Second!MountRefused
  PROVE  Same /\ UNCHANGED <<pc2, memory2, todo2>> /\ res2' = Result("mount_refused")
BY SameStart DEF Second!MountRefused, Second!session, Same, memory2

LEMMA SecondStart ==
  ASSUME Second!ToolCheck
  PROVE  /\ Same /\ UNCHANGED memory2
         /\ todo2' \subseteq Slots \X Side /\ pc2' \in {"superblock", "rewrite"}
         /\ \E D, L, G \in SUBSET Slots :
              res2' = [Result("check") EXCEPT !.degraded = D, !.lost = L, !.disagree = G]
<1>1. Second!CheckStart
  BY DEF Second!ToolCheck
<1>2. Same /\ UNCHANGED memory2 /\ pc2' \in {"superblock", "rewrite"}
  BY <1>1 DEF Second!CheckStart, Second!session, Same, memory2
<1>3. todo2' \subseteq Slots \X Side
  BY <1>1, SamePlaces DEF Second!CheckStart
<1> DEFINE D == {s \in Slots : Second!Bad(s) /\ Second!Recoverable(anchors2[s])}
           L == {s \in Slots : Second!Bad(s) /\ ~Second!Recoverable(anchors2[s])}
           G == {s \in Slots : Second!Disagree(anchors2[s])}
<1>4. D \in SUBSET Slots /\ L \in SUBSET Slots /\ G \in SUBSET Slots
  OBVIOUS
<1>5. res2' = [Result("check") EXCEPT !.degraded = D, !.lost = L, !.disagree = G]
  BY <1>1, SameStart DEF Second!CheckStart
<1> HIDE DEF D, L, G
<1> QED  BY <1>2, <1>3, <1>4, <1>5

LEMMA SecondNext ==
  ASSUME NEW j, Second!NextEnd(j) PROVE Left2(j)
BY SameReports DEF Second!NextEnd, Left2

LEMMA SecondRewrite ==
  ASSUME NEW j, Second!RewriteEnd(j)
  PROVE  /\ Due2(j)
         /\ \E b \in RebuildPtrBlock(anchors2[j[1]], j[2]) : M!WriteCells(BlockWrite(j, b))
         /\ pc2' = "barrier" /\ UNCHANGED <<unreadable, damage, mishaps, memory2, todo2, res2>>
BY SecondDue, SamePairs, SameParts, SameDevice
   DEF Second!RewriteEnd, Second!session, memory2

LEMMA SecondRewriteFails ==
  ASSUME NEW j, Second!RewriteEndFails(j)
  PROVE  /\ Due2(j) /\ Left2(j) /\ OneMore /\ res2' = res2
         /\ \E b \in RebuildPtrBlock(anchors2[j[1]], j[2]) :
              \E D : M!WriteFails(BlockWrite(j, b), D)
BY SecondDue, SecondNext, SamePairs, SameParts, SameDevice
   DEF Second!RewriteEndFails, OneMore

LEMMA SecondSync ==
  ASSUME NEW j, Second!SyncEnd(j)
  PROVE  /\ pc2 = "barrier" /\ Due2(j) /\ Left2(j) /\ M!Sync /\ mishaps' = mishaps
         /\ res2' = [res2 EXCEPT !.repaired = @ \cup {j}]
BY SecondDue, SecondNext, SameDevice DEF Second!SyncEnd

LEMMA SecondSyncFails ==
  ASSUME NEW j, Second!SyncEndFails(j)
  PROVE  Due2(j) /\ Left2(j) /\ OneMore /\ M!SyncFails /\ res2' = res2
BY SecondDue, SecondNext, SameDevice DEF Second!SyncEndFails, OneMore

LEMMA SecondJudges ==
  ASSUME Second!SuperblockFine \/ Second!SuperblockUnrecoverable
  PROVE  /\ Same /\ UNCHANGED <<memory2, todo2>> /\ pc2' = "idle"
         /\ res2' = res2 \/ res2' = [res2 EXCEPT !.sbOk = TRUE]
BY DEF Second!SuperblockFine, Second!SuperblockUnrecoverable, Second!session, Same, memory2

LEMMA SecondAdopts ==
  ASSUME Second!AdoptBackup
  PROVE  /\ Same /\ UNCHANGED <<anchors2, sbAt2, todo2>> /\ pc2' \in {"sbwrite", "idle"}
         /\ \E b : superblock2' = ReadReal(vis, b) /\ ChecksumOk(superblock2')
         /\ res2' = [res2 EXCEPT !.sbOk = TRUE]
BY SameCopies DEF Second!AdoptBackup, BackupFine, Same

LEMMA SecondWrites ==
  ASSUME Second!WriteSuperblock
  PROVE  /\ pc2 = "sbwrite" /\ \E p \in sbAt2.primary : M!WriteCells(Copy(p))
         /\ pc2' = "sbsync" /\ UNCHANGED <<unreadable, damage, mishaps, memory2, todo2, res2>>
BY SameParts, SamePlaces, SameDevice
   DEF Second!WriteSuperblock, Second!SuperblockWrite, Second!session, Copy, memory2

LEMMA SecondFails ==
  ASSUME Second!CheckFails
  PROVE  /\ OneMore /\ UNCHANGED <<unreadable, damage, memory2, todo2>> /\ pc2' = "idle"
         /\ res2' = Result("check_failed")
BY SameStart DEF Second!CheckFails, Second!session, OneMore, memory2

LEMMA SecondWriteFails ==
  ASSUME Second!WriteSuperblockFails
  PROVE  /\ pc2 = "sbwrite" /\ \E p \in sbAt2.primary : \E D : M!WriteFails(Copy(p), D)
         /\ Second!CheckFails
BY SameParts, SamePlaces, SameDevice
   DEF Second!WriteSuperblockFails, Second!SuperblockWrite, Copy

LEMMA SecondSbSync ==
  ASSUME Second!SyncSuperblock
  PROVE  /\ pc2 = "sbsync" /\ M!Sync /\ pc2' = "idle"
         /\ res2' = [res2 EXCEPT !.sbRepaired = TRUE]
         /\ UNCHANGED <<unreadable, damage, mishaps, memory2, todo2>>
BY SameDevice DEF Second!SyncSuperblock, Second!session, memory2

LEMMA SecondSbSyncFails ==
  ASSUME Second!SyncSuperblockFails
  PROVE  M!SyncFails /\ Second!CheckFails
BY SameDevice DEF Second!SyncSuperblockFails

LEMMA SecondEnds ==
  ASSUME Second!ToolExit \/ Second!Kill
  PROVE  /\ UNCHANGED <<vis, surv, unreadable, damage>> /\ (mishaps' = mishaps \/ OneMore)
         /\ Gone2 /\ res2' = NoResult
BY SecondForget, SameStart DEF Second!ToolExit, Second!Kill, OneMore

-----------------------------------------------------------------------------
(***************************************************************************)
(* The invariant: the tool's cached reports are true as well.              *)
(***************************************************************************)
Session2 ==
  /\ anchors2 \in [Slots -> Reports] /\ \A s \in Slots : TrueReport(anchors2[s], s)
  /\ sbAt2 \in [primary : SUBSET {At("superblock")}, backup : SUBSET {At("sb_backup")}]
  /\ superblock2 \in [{1, 2} -> Content]
  /\ todo2 \subseteq Slots \X Side /\ res2 \in Results
PairInv == IInv /\ Session2

(* What a step of the tool does to the device.                             *)
ToolStep == Second!Tool \/ Second!Kill
Quiet    == UNCHANGED <<vis, surv>> \/ M!Sync \/ M!SyncFails
Rewrites == \E j \in todo2 : \E b \in RebuildPtrBlock(anchors2[j[1]], j[2]) :
              M!WriteCells(BlockWrite(j, b)) \/ \E D : M!WriteFails(BlockWrite(j, b), D)
Copies   == pc2 = "sbwrite" /\ \E p \in sbAt2.primary :
              M!WriteCells(Copy(p)) \/ \E D : M!WriteFails(Copy(p), D)

LEMMA ToolSteps ==
  ASSUME ToolStep
  PROVE  \/ Second!ToolMount \/ Second!MountRefused \/ Second!ToolCheck
         \/ \E j \in todo2 : \/ Second!RewriteEnd(j) \/ Second!RewriteEndFails(j)
                             \/ Second!SyncEnd(j) \/ Second!SyncEndFails(j)
         \/ Second!SuperblockFine \/ Second!SuperblockUnrecoverable \/ Second!AdoptBackup
         \/ Second!WriteSuperblock \/ Second!WriteSuperblockFails
         \/ Second!SyncSuperblock \/ Second!SyncSuperblockFails
         \/ Second!ToolExit \/ Second!Kill
BY DEF ToolStep, Second!Tool, Second!CheckStep

LEMMA ToolWrites ==
  ASSUME ToolStep
  PROVE  /\ Quiet \/ Rewrites \/ Copies
         /\ UNCHANGED <<unreadable, damage>> /\ (mishaps' = mishaps \/ OneMore)
<1> DEFINE G == /\ Quiet \/ Rewrites \/ Copies
                /\ UNCHANGED <<unreadable, damage>> /\ (mishaps' = mishaps \/ OneMore)
<1>1. ASSUME Second!ToolMount \/ Second!MountRefused \/ Second!ToolCheck
             \/ Second!SuperblockFine \/ Second!SuperblockUnrecoverable
             \/ Second!AdoptBackup
      PROVE  G
  BY <1>1, SecondMount, SecondRefused, SecondStart, SecondJudges, SecondAdopts
     DEF Same, Quiet
<1>2. ASSUME NEW j \in todo2, Second!RewriteEnd(j) PROVE G
  BY <1>2, SecondRewrite DEF Rewrites
<1>3. ASSUME NEW j \in todo2, Second!RewriteEndFails(j) PROVE G
  BY <1>3, SecondRewriteFails DEF Rewrites, Left2
<1>4. ASSUME NEW j \in todo2, Second!SyncEnd(j) \/ Second!SyncEndFails(j) PROVE G
  BY <1>4, SecondSync, SecondSyncFails DEF Quiet, Left2
<1>5. ASSUME Second!WriteSuperblock PROVE G
  BY <1>5, SecondWrites DEF Copies
<1>6. ASSUME Second!WriteSuperblockFails PROVE G
  BY <1>6, SecondWriteFails, SecondFails DEF Copies
<1>7. ASSUME Second!SyncSuperblock \/ Second!SyncSuperblockFails PROVE G
  BY <1>7, SecondSbSync, SecondSbSyncFails, SecondFails DEF Quiet
<1>8. ASSUME Second!ToolExit \/ Second!Kill PROVE G
  BY <1>8, SecondEnds DEF Quiet
<1> HIDE DEF G
<1>9. G
  BY <1>1, <1>2, <1>3, <1>4, <1>5, <1>6, <1>7, <1>8, ToolSteps
<1> QED BY <1>9 DEF G

(* What it does to the tool's memory.                                      *)
LEMMA ToolReads ==
  ASSUME ToolStep
  PROVE  /\ \/ anchors2' = anchors2 \/ anchors2' = NoReport
            \/ anchors2' = ScanAnchors(vis) \/ anchors2' = ScanAnchors(vis')
         /\ \/ sbAt2' = sbAt2 \/ sbAt2' = NoSb
            \/ sbAt2' = [primary |-> SbPrimary(ReportOf(vis, 0)),
                         backup  |-> SbBackup(ReportOf(vis, 0))]
         /\ \/ superblock2' = superblock2 \/ superblock2' = NoBlock
            \/ \E r : superblock2' = ReadReal(vis, r)
         /\ todo2' \subseteq todo2 \/ todo2' \subseteq Slots \X Side
<1> DEFINE G ==
         /\ \/ anchors2' = anchors2 \/ anchors2' = NoReport
            \/ anchors2' = ScanAnchors(vis) \/ anchors2' = ScanAnchors(vis')
         /\ \/ sbAt2' = sbAt2 \/ sbAt2' = NoSb
            \/ sbAt2' = [primary |-> SbPrimary(ReportOf(vis, 0)),
                         backup  |-> SbBackup(ReportOf(vis, 0))]
         /\ \/ superblock2' = superblock2 \/ superblock2' = NoBlock
            \/ \E r : superblock2' = ReadReal(vis, r)
         /\ todo2' \subseteq todo2 \/ todo2' \subseteq Slots \X Side
<1>1. ASSUME UNCHANGED <<memory2, todo2>> PROVE G
  BY <1>1 DEF memory2
<1>2. ASSUME NEW j, Left2(j) PROVE G
  BY <1>2 DEF Left2
<1>3. ASSUME Second!ToolMount PROVE G
  BY <1>3, SecondMount
<1>4. ASSUME Second!ToolCheck PROVE G
  BY <1>4, SecondStart DEF memory2
<1>5. ASSUME Second!AdoptBackup PROVE G
  BY <1>5, SecondAdopts
<1>6. ASSUME Gone2 PROVE G
  BY <1>6 DEF Gone2
<1> HIDE DEF G
<1>7. ASSUME NEW j, \/ Second!RewriteEnd(j) \/ Second!RewriteEndFails(j)
                    \/ Second!SyncEnd(j) \/ Second!SyncEndFails(j)
      PROVE  G
  BY <1>1, <1>2, <1>7, SecondRewrite, SecondRewriteFails, SecondSync, SecondSyncFails
<1>8. ASSUME \/ Second!MountRefused \/ Second!SuperblockFine
             \/ Second!SuperblockUnrecoverable \/ Second!WriteSuperblock
             \/ Second!WriteSuperblockFails \/ Second!SyncSuperblock
             \/ Second!SyncSuperblockFails
      PROVE  G
  BY <1>1, <1>8, SecondRefused, SecondJudges, SecondWrites, SecondWriteFails,
     SecondFails, SecondSbSync, SecondSbSyncFails
<1>9. G
  BY <1>3, <1>4, <1>5, <1>6, <1>7, <1>8, ToolSteps, SecondEnds
<1> QED BY <1>9 DEF G

(* What it reports.                                                        *)
LEMMA ToolResult == ASSUME Session2, ToolStep PROVE res2' \in Results
<1> USE DEF Session2
<1>1. \A call \in Reporting : Result(call) \in Results
  BY ResultType
<1>2. NoResult \in Results
  BY DEF NoResult, Results, Reporting
<1>3. ASSUME \/ Second!ToolMount \/ Second!MountRefused \/ Second!ToolExit \/ Second!Kill
             \/ Second!WriteSuperblockFails \/ Second!SyncSuperblockFails
      PROVE  res2' \in Results
  BY <1>1, <1>2, <1>3, SecondMount, SecondRefused, SecondEnds, SecondWriteFails,
     SecondFails, SecondSbSyncFails DEF Reporting
<1>4. ASSUME Second!ToolCheck PROVE res2' \in Results
  <2>1. Result("check") \in Results
    BY <1>1 DEF Reporting
  <2> QED BY <1>4, <2>1, SecondStart DEF Results
<1>5. ASSUME NEW j \in todo2, Second!SyncEnd(j) PROVE res2' \in Results
  BY <1>5, SecondSync DEF Results
<1>6. ASSUME NEW j \in todo2, \/ Second!RewriteEnd(j) \/ Second!RewriteEndFails(j)
                              \/ Second!SyncEndFails(j)
      PROVE  res2' \in Results
  BY <1>6, SecondRewrite, SecondRewriteFails, SecondSyncFails
<1>7. ASSUME \/ Second!SuperblockFine \/ Second!SuperblockUnrecoverable
             \/ Second!AdoptBackup \/ Second!WriteSuperblock \/ Second!SyncSuperblock
      PROVE  res2' \in Results
  BY <1>7, SecondJudges, SecondAdopts, SecondWrites, SecondSbSync DEF Results
<1> QED BY <1>3, <1>4, <1>5, <1>6, <1>7, ToolSteps

LEMMA ToolPair == PairInv /\ ToolStep /\ UNCHANGED first => PairInv'
<1> SUFFICES ASSUME PairInv, ToolStep, UNCHANGED first PROVE PairInv'
  OBVIOUS
<1> USE DEF PairInv
<1>1. DeviceOK'
  <2>1. CASE Quiet
    BY <2>1, DeviceSame, SyncTrue, SyncFailsTrue DEF Quiet, IInv
  <2>2. CASE Rewrites
    <3>1. PICK j \in todo2 : \E b \in RebuildPtrBlock(anchors2[j[1]], j[2]) :
              M!WriteCells(BlockWrite(j, b)) \/ \E D : M!WriteFails(BlockWrite(j, b), D)
      BY <2>2 DEF Rewrites
    <3>2. PICK b \in RebuildPtrBlock(anchors2[j[1]], j[2]) :
              M!WriteCells(BlockWrite(j, b)) \/ \E D : M!WriteFails(BlockWrite(j, b), D)
      BY <3>1
    <3>3. j \in Slots \X Side /\ TrueReport(anchors2[j[1]], j[1])
      BY DEF Session2
    <3>4. \A c \in DOMAIN BlockWrite(j, b) :
           /\ BlockWrite(j, b)[c] \in Content
           /\ c \in PtrCell => TruePointer(c, BlockWrite(j, b)[c])
      BY <3>3, RebuiltWriteTrue
    <3> QED BY <3>2, <3>4, WriteTrue, WriteFailsTrue DEF IInv
  <2>3. CASE Copies
    <3>1. PICK p \in sbAt2.primary :
              M!WriteCells(Copy(p)) \/ \E D : M!WriteFails(Copy(p), D)
      BY <2>3 DEF Copies
    <3>2. p \in Structure /\ superblock2 \in [{1, 2} -> Content]
      BY DEF Session2, Structure
    <3>3. \A c \in DOMAIN Copy(p) :
           /\ Copy(p)[c] \in Content
           /\ c \in PtrCell => TruePointer(c, Copy(p)[c])
      BY <3>2, CopyWriteTrue DEF Copy
    <3> QED BY <3>1, <3>3, WriteTrue, WriteFailsTrue DEF IInv
  <2> QED BY <2>1, <2>2, <2>3, ToolWrites
<1>2. UNCHANGED <<pc, session, todo, res>>
  BY DEF first
<1>3. BooksOK'
  BY <1>2, ToolWrites, BoundsAssumption DEF IInv, BooksOK, OneMore
<1>4. IInv'
  BY <1>1, <1>2, <1>3, QuietStep
<1>5. anchors2' \in [Slots -> Reports] /\ \A s \in Slots : TrueReport(anchors2'[s], s)
  <2>1. TrueImage(vis) /\ TrueImage(vis')
    BY <1>1 DEF IInv, DeviceOK
  <2>2. /\ ScanAnchors(vis) \in [Slots -> Reports]
        /\ \A s \in Slots : TrueReport(ScanAnchors(vis)[s], s)
        /\ ScanAnchors(vis') \in [Slots -> Reports]
        /\ \A s \in Slots : TrueReport(ScanAnchors(vis')[s], s)
    BY <2>1, ScanTrue
  <2> QED BY <2>2, ToolReads, EmptyReports DEF Session2
<1>6. sbAt2' \in [primary : SUBSET {At("superblock")}, backup : SUBSET {At("sb_backup")}]
  <2>1. TrueReport(ReportOf(vis, 0), 0)
    BY SlotsAssumption, ReportTrue DEF IInv, DeviceOK
  <2> QED BY <2>1, PairTrue, ToolReads DEF Session2, NoSb
<1>7. superblock2' \in [{1, 2} -> Content]
  <2>1. NoBlock \in [{1, 2} -> Content]
    BY DEF NoBlock, Junk, Content
  <2> QED BY <2>1, ToolReads, ReadRealType DEF Session2, IInv, DeviceOK
<1>8. todo2' \subseteq Slots \X Side /\ res2' \in Results
  BY ToolReads, ToolResult DEF Session2
<1> QED BY <1>4, <1>5, <1>6, <1>7, <1>8 DEF Session2

LEMMA PairInit == SessionsInit => PairInv
<1> SUFFICES ASSUME SessionsInit PROVE PairInv
  OBVIOUS
<1>1. /\ anchors2 = NoReport /\ sbAt2 = NoSb /\ superblock2 = NoBlock
      /\ todo2 = {} /\ res2 = NoResult /\ pc2 = "closed"
  BY SameStart DEF SessionsInit, Second!Init
<1>2. NoBlock \in [{1, 2} -> Content]
  BY DEF NoBlock, Junk, Content
<1>3. NoResult \in Results
  BY DEF NoResult, Results, Reporting
<1>4. Session2
  BY <1>1, <1>2, <1>3, EmptyReports DEF Session2, NoSb
<1> QED BY <1>4, InitIInv DEF SessionsInit, PairInv

(* A step of the owner, or damage, with the tool where it is.              *)
OwnerStep == Running \/ Calls \/ Kill \/ (pc2 \in DamageWhen /\ Damage)

LEMMA SessionsCases ==
  ASSUME [SessionsNext]_both
  PROVE  \/ OwnerStep /\ Next /\ UNCHANGED second
         \/ ToolStep /\ UNCHANGED first
         \/ PowerLoss /\ Next /\ Gone2 /\ res2' = NoResult
         \/ UNCHANGED vars /\ UNCHANGED second
BY SecondForget
   DEF SessionsNext, PowerLossBoth, OwnerStep, ToolStep, Next, both

LEMMA PairNext == PairInv /\ [SessionsNext]_both => PairInv'
<1> SUFFICES ASSUME PairInv, [SessionsNext]_both PROVE PairInv'
  OBVIOUS
<1>1. CASE [Next]_vars /\ UNCHANGED second
  <2>1. IInv'
    BY <1>1, NextIInv DEF PairInv
  <2>2. Session2'
    BY <1>1 DEF PairInv, Session2, second
  <2> QED BY <2>1, <2>2 DEF PairInv
<1>2. CASE ToolStep /\ UNCHANGED first
  BY <1>2, ToolPair
<1>3. CASE PowerLoss /\ Next /\ Gone2 /\ res2' = NoResult
  <2>1. IInv'
    BY <1>3, NextIInv DEF PairInv
  <2>2. NoBlock \in [{1, 2} -> Content]
    BY DEF NoBlock, Junk, Content
  <2>3. NoResult \in Results
    BY DEF NoResult, Results, Reporting
  <2>4. Session2'
    BY <1>3, <2>2, <2>3, EmptyReports DEF Gone2, Session2, NoSb
  <2> QED BY <2>1, <2>4 DEF PairInv
<1> QED BY <1>1, <1>2, <1>3, SessionsCases

(* check.rs:92-127, mount.rs:33: two processes that repair the same ends   *)
(* from different reports leave no well-formed pointer to a wrong place    *)
(* either, in whatever order their writes, failures and barriers fall.     *)
THEOREM BothWriteTrue == SessionsSpec => []PointersTrue
<1>1. SessionsSpec => []PairInv
  BY PairInit, PairNext, PTL DEF SessionsSpec
<1>2. PairInv => PointersTrue
  BY IInvImplies DEF PairInv
<1> QED BY <1>1, <1>2, PTL

-----------------------------------------------------------------------------
(***************************************************************************)
(* What the tool knows between the choice of a write and its report, and   *)
(* that the tool's reports name the volume's one algorithm n as well.      *)
(***************************************************************************)
Mend2 ==
  /\ pc2 = "barrier" => \A j : Due2(j) => EndIntact(j[2], j[1])
  /\ pc2 = "sbwrite" => ChecksumOk(superblock2)
  /\ pc2 = "sbsync" => \A p \in sbAt2.primary : ChecksumOk(ReadReal(vis, p))
Loss2(n) == LossInv(n) /\ ReportsAlgo(anchors2, n)
BothInv  == PairInv /\ MendInv /\ Mend2 /\ \E n : Loss2(n)

(* A write that is no worse than what it covers, seen by a reader.         *)
Visible == \A c \in Cell : vis'[c] = vis[c] \/ Sound(c, vis'[c])

LEMMA IntactIff ==
  ASSUME NEW v, NEW n, NEW s \in Slots, NEW d \in Side,
         \A c \in PtrCell : OfAlgo(v[c], n)
  PROVE  Complete(s, PtrAt(v, d, s)) <=>
           /\ v[<<Block(d, s), 1>>].is = "ptr"
           /\ s = 0 => v[<<Block(d, s), 2>>].is = "ptr"
<1> DEFINE x == v[<<Block(d, s), 1>>]
           y == v[<<Block(d, s), 2>>]
<1>1. OfAlgo(x, n) /\ OfAlgo(y, n)
  BY SlotCellFacts
<1>2. PtrAt(v, d, s) = VerifyPtrBlock(x, y)
  BY DEF PtrAt
<1> HIDE DEF x, y
<1>3. CASE x.is = "ptr"
  <2> DEFINE F == {u.to : u \in {z \in {y} : z.is = "ptr" /\ z.n = x.n}}
             B == [real |-> x.to, fallback |-> F, algo |-> x.n]
  <2>1. VerifyPtrBlock(x, y) = {B}
    BY <1>3 DEF VerifyPtrBlock
  <2>2. F # {} <=> y.is = "ptr"
    BY <1>1, <1>3 DEF OfAlgo
  <2>3. B.fallback = F
    OBVIOUS
  <2> HIDE DEF B, F
  <2>4. Fallbacks({B}) = F
    BY <2>3 DEF Fallbacks
  <2>5. Complete(s, {B}) <=> (s = 0 => y.is = "ptr")
    BY <2>2, <2>4 DEF Complete
  <2>6. Complete(s, PtrAt(v, d, s)) <=> x.is = "ptr" /\ (s = 0 => y.is = "ptr")
    BY <1>2, <1>3, <2>1, <2>5
  <2> QED BY <2>6 DEF x, y
<1>4. CASE x.is # "ptr"
  <2>1. VerifyPtrBlock(x, y) = {}
    BY <1>4 DEF VerifyPtrBlock
  <2>2. ~Complete(s, PtrAt(v, d, s))
    BY <1>2, <2>1 DEF Complete
  <2> QED BY <1>4, <2>2 DEF x
<1> QED BY <1>3, <1>4

LEMMA IntactKept ==
  ASSUME NEW n, LossInv(n), LossInv(n)', Visible, NEW s \in Slots, NEW d \in Side,
         EndIntact(d, s)
  PROVE  EndIntact(d, s)'
<1>1. \A c \in PtrCell : OfAlgo(vis[c], n) /\ OfAlgo(vis'[c], n)
  BY Cells DEF LossInv, M!VisibleMaySurvive
<1>2. /\ vis[<<Block(d, s), 1>>].is = "ptr"
      /\ s = 0 => vis[<<Block(d, s), 2>>].is = "ptr"
  BY <1>1, IntactIff DEF EndIntact
<1>3. ASSUME NEW p \in {1, 2}, p = 1 \/ s = 0, vis[<<Block(d, s), p>>].is = "ptr"
      PROVE  vis'[<<Block(d, s), p>>].is = "ptr"
  <2> DEFINE c == <<Block(d, s), p>>
  <2>1. c \in Cell /\ c \in PtrCell /\ c[1][2] = s /\ c[2] = p
    BY SlotCellFacts
  <2> HIDE DEF c
  <2>2. vis[c].is = "ptr" => vis'[c].is = "ptr"
    BY <1>3, <2>1 DEF Visible, Sound
  <2> QED BY <1>3, <2>2 DEF c
<1>4. /\ vis'[<<Block(d, s), 1>>].is = "ptr"
      /\ s = 0 => vis'[<<Block(d, s), 2>>].is = "ptr"
  BY <1>2, <1>3
<1>5. Complete(s, PtrAt(vis', d, s))
  BY <1>1, <1>4, IntactIff
<1> QED BY <1>5 DEF EndIntact

LEMMA CopyKept ==
  ASSUME Visible, NEW p \in SbRegion, ChecksumOk(ReadReal(vis, p))
  PROVE  ChecksumOk(ReadReal(vis', p))
<1>1. \A i \in {1, 2} : <<p, i>> \in Cell /\ <<p, i>> \in SbCell
  BY Cells DEF SbCell
<1>2. \A i \in {1, 2} : vis[<<p, i>>].is = "superblock"
  BY <1>1 DEF ChecksumOk, ReadReal
<1>3. \A i \in {1, 2} : vis'[<<p, i>>].is = "superblock"
  BY <1>1, <1>2 DEF Visible, Sound
<1> QED BY <1>1, <1>3 DEF ChecksumOk, ReadReal

(* What one session knows outlasts the other one's steps.                  *)
LEMMA FirstKnows ==
  ASSUME NEW n, PairInv, MendInv, LossInv(n), LossInv(n)', Visible, UNCHANGED first
  PROVE  MendInv'
<1>1. UNCHANGED <<pc, todo, superblock, sbAt>>
  BY DEF first, session
<1>2. \A j : Due(j) => j[1] \in Slots /\ j[2] \in Side
  BY DEF PairInv, IInv, BooksOK, Due
<1>3. pc' = "barrier" => \A j : Due(j)' => EndIntact(j[2], j[1])'
  BY <1>1, <1>2, IntactKept DEF MendInv, Due
<1>4. \A p \in sbAt.primary : p \in SbRegion
  BY DEF PairInv, IInv, SessionOK, SbRegion
<1>5. pc' = "sbsync" => \A p \in sbAt'.primary : ChecksumOk(ReadReal(vis', p))
  BY <1>1, <1>4, CopyKept DEF MendInv
<1> QED BY <1>1, <1>3, <1>5 DEF MendInv

LEMMA SecondKnows ==
  ASSUME NEW n, PairInv, Mend2, LossInv(n), LossInv(n)', Visible, UNCHANGED second
  PROVE  Mend2'
<1>1. UNCHANGED <<pc2, todo2, superblock2, sbAt2>>
  BY DEF second
<1>2. \A j : Due2(j) => j[1] \in Slots /\ j[2] \in Side
  BY DEF PairInv, Session2, Due2
<1>3. pc2' = "barrier" => \A j : Due2(j)' => EndIntact(j[2], j[1])'
  BY <1>1, <1>2, IntactKept DEF Mend2, Due2
<1>4. \A p \in sbAt2.primary : p \in SbRegion
  BY DEF PairInv, Session2, SbRegion
<1>5. pc2' = "sbsync" => \A p \in sbAt2'.primary : ChecksumOk(ReadReal(vis', p))
  BY <1>1, <1>4, CopyKept DEF Mend2
<1> QED BY <1>1, <1>3, <1>5 DEF Mend2

-----------------------------------------------------------------------------
(* The steps of the tool.                                                  *)
LEMMA ToolAdds ==
  ASSUME NEW n, PairInv, Mend2, Loss2(n), ToolStep
  PROVE  DeviceStep(n) /\ Seen(n)
<1>0. M!VisibleMaySurvive
  BY DEF Loss2, LossInv
<1>1. CASE Quiet
  BY <1>0, <1>1, SameAdds, SyncAdds, SyncFailsAdds DEF Quiet
<1>2. CASE Rewrites
  <2>1. PICK j \in todo2 : \E b \in RebuildPtrBlock(anchors2[j[1]], j[2]) :
            M!WriteCells(BlockWrite(j, b)) \/ \E D : M!WriteFails(BlockWrite(j, b), D)
    BY <1>2 DEF Rewrites
  <2>2. PICK b \in RebuildPtrBlock(anchors2[j[1]], j[2]) :
            M!WriteCells(BlockWrite(j, b)) \/ \E D : M!WriteFails(BlockWrite(j, b), D)
    BY <2>1
  <2>3. j \in Slots \X Side /\ anchors2[j[1]].slot = j[1]
    BY DEF PairInv, Session2, TrueReport
  <2>4. \A g \in anchors2[j[1]].head \cup anchors2[j[1]].tail : g.algo = n
    BY <2>3 DEF Loss2, ReportsAlgo
  <2>5. \A c \in DOMAIN BlockWrite(j, b) : Adds(c, BlockWrite(j, b)[c], n)
    BY <2>3, <2>4, RebuiltWriteAdds
  <2> QED BY <1>0, <2>2, <2>5, WriteAdds, WriteFailsAdds
<1>3. CASE Copies
  <2>1. PICK p \in sbAt2.primary :
            M!WriteCells(Copy(p)) \/ \E D : M!WriteFails(Copy(p), D)
    BY <1>3 DEF Copies
  <2>2. p \in SbRegion /\ ChecksumOk(superblock2)
    BY <1>3 DEF PairInv, Session2, SbRegion, Copies, Mend2
  <2>3. \A c \in DOMAIN Copy(p) : Adds(c, Copy(p)[c], n)
    BY <2>2, CopyWriteAdds DEF Copy
  <2> QED BY <1>0, <2>1, <2>3, WriteAdds, WriteFailsAdds
<1> QED BY <1>1, <1>2, <1>3, ToolWrites

LEMMA ToolUnharmed == ASSUME ToolStep PROVE Unharmed
BY ToolWrites DEF Unharmed

LEMMA SeenIsVisible == ASSUME NEW n, Seen(n), damage' = damage PROVE Visible
BY DEF Seen, Adds, Visible

LEMMA OneIsDue2 ==
  ASSUME Session2, NEW i, NEW j, Due2(i), Due2(j) PROVE i = j
<1>1. i \in Slots \X Side /\ j \in Slots \X Side
  BY DEF Due2, Session2
<1>2. i[1] \in Nat /\ j[1] \in Nat /\ i[2] \in Side /\ j[2] \in Side
  <2>1. i[1] \in Slots /\ j[1] \in Slots /\ i[2] \in Side /\ j[2] \in Side
    BY <1>1
  <2>2. Slots \subseteq Nat
    BY SlotsAssumption
  <2> QED BY <2>1, <2>2
<1>3. i = <<i[1], i[2]>> /\ j = <<j[1], j[2]>>
  BY <1>1
<1>4. i = j \/ (Before(i, j) /\ Before(j, i))
  BY DEF Due2
<1>5. Before(i, j) /\ Before(j, i) => i[1] = j[1] /\ i[2] = "head" /\ j[2] = "head"
  BY <1>2 DEF Before
<1> QED BY <1>3, <1>4, <1>5

LEMMA ToolMends == ASSUME PairInv, Mend2, ToolStep PROVE Mend2'
<1>1. ASSUME NEW j \in todo2, Second!RewriteEnd(j) PROVE Mend2'
  <2>1. PICK b \in RebuildPtrBlock(anchors2[j[1]], j[2]) : M!WriteCells(BlockWrite(j, b))
    BY <1>1, SecondRewrite
  <2>2. j \in Slots \X Side /\ TrueReport(anchors2[j[1]], j[1])
    BY DEF PairInv, Session2
  <2>3. EndIntact(j[2], j[1])'
    BY <2>1, <2>2, RebuiltIsIntact
  <2>4. Due2(j) /\ pc2' = "barrier" /\ todo2' = todo2
    BY <1>1, SecondRewrite
  <2>5. \A i : Due2(i)' => i = j
    BY <2>4, OneIsDue2 DEF PairInv, Due2
  <2> QED BY <2>3, <2>4, <2>5 DEF Mend2
<1>2. ASSUME NEW j, Left2(j) PROVE Mend2'
  BY <1>2 DEF Left2, Mend2
<1>3. ASSUME pc2' = "idle" \/ pc2' = "closed" PROVE Mend2'
  BY <1>3 DEF Mend2
<1>4. ASSUME Second!ToolCheck PROVE Mend2'
  BY <1>4, SecondStart DEF Mend2
<1>5. ASSUME Second!AdoptBackup PROVE Mend2'
  BY <1>5, SecondAdopts DEF Mend2
<1>6. ASSUME Second!WriteSuperblock PROVE Mend2'
  <2>1. PICK p \in sbAt2.primary : M!WriteCells(Copy(p))
    BY <1>6, SecondWrites
  <2>2. pc2' = "sbsync" /\ sbAt2' = sbAt2 /\ pc2 = "sbwrite"
    BY <1>6, SecondWrites DEF memory2
  <2>3. p = At("superblock") /\ \A q \in sbAt2.primary : q = p
    BY DEF PairInv, Session2
  <2>4. ChecksumOk(ReadReal(vis', p))
    BY <2>1, <2>2, <2>3, CopyIsFine DEF Copy, SbRegion, Mend2
  <2>5. \A q \in sbAt2'.primary : ChecksumOk(ReadReal(vis', q))
    BY <2>2, <2>3, <2>4
  <2> QED BY <2>2, <2>5 DEF Mend2
<1>7. ASSUME Second!MountRefused PROVE Mend2'
  <2>1. UNCHANGED <<pc2, superblock2, sbAt2, todo2, vis>>
    BY <1>7, SecondRefused DEF memory2, Same
  <2> QED BY <2>1 DEF Mend2, Due2, EndIntact
<1> QED
  BY <1>1, <1>2, <1>3, <1>4, <1>5, <1>6, <1>7, ToolSteps, SecondMount,
     SecondRewriteFails, SecondSync, SecondSyncFails, SecondJudges, SecondWriteFails,
     SecondFails, SecondSbSync, SecondSbSyncFails, SecondEnds DEF Gone2

-----------------------------------------------------------------------------
(* The steps of the owner: none is worse for a reader than what it covers. *)
LEMMA OwnerVisible ==
  ASSUME NoWildTable, NEW n, IInv, MendInv, LossInv(n), Running \/ Calls \/ Kill
  PROVE  Visible
<1>1. CASE Running
  <2>1. pc' # "closed" /\ damage' = damage
    BY <1>1 DEF Running, CheckStep, RewriteEnd, RewriteEndFails, SyncEnd, SyncEndFails,
       NextEnd, SuperblockFine, SuperblockUnrecoverable, AdoptBackup, WriteSuperblock,
       WriteSuperblockFails, SyncSuperblock, SyncSuperblockFails, CheckFails,
       ConfirmStep, WriteSmart, WriteSmartFails, SyncSmart
  <2>2. ~PowerLoss
    BY <2>1 DEF PowerLoss, Forget
  <2> QED BY <1>1, <2>1, <2>2, DeviceSteps, SeenIsVisible DEF Next
<1>2. CASE Calls \/ Kill
  <2>1. vis' = vis
    BY <1>2 DEF Calls, MountFull, MountBypass, MountRefused, CheckStart, ConfirmStart,
       CallSync, Close, Remount, Kill, M!Sync, M!SyncFails, M!medium
  <2> QED BY <2>1 DEF Visible
<1> QED BY <1>1, <1>2

LEMMA ToolLoss ==
  ASSUME NEW n, PairInv, Mend2, Loss2(n), ToolStep, UNCHANGED first
  PROVE  Loss2(n)'
<1>1. DeviceStep(n) /\ LossInv(n)
  BY ToolAdds DEF Loss2
<1>2. UNCHANGED <<anchors, smartMain>>
  BY DEF first, session
<1>3. \A c \in PtrCell : \A x \in surv'[c] : OfAlgo(x, n)
  BY <1>1, Cells DEF DeviceStep, Adds, Harmless, LossInv
<1>4. \A x \in surv'[TableTop] : x.to \notin SbRegion
  BY <1>1, PlaceFacts DEF DeviceStep, Adds, Harmless, LossInv
<1>5. LossInv(n)'
  BY <1>1, <1>2, <1>3, <1>4 DEF LossInv, DeviceStep
<1>6. ReportsAlgo(anchors2', n)
  <2>1. \A c \in PtrCell : OfAlgo(vis[c], n) /\ OfAlgo(vis'[c], n)
    BY <1>1, <1>3, Cells DEF LossInv, DeviceStep, M!VisibleMaySurvive
  <2>2. ReportsAlgo(NoReport, n) /\ ReportsAlgo(anchors2, n)
    BY DEF ReportsAlgo, NoReport, SlotReport, Loss2
  <2>3. ReportsAlgo(ScanAnchors(vis), n) /\ ReportsAlgo(ScanAnchors(vis'), n)
    BY <2>1, ScanAlgo
  <2> QED BY <2>2, <2>3, ToolReads
<1> QED BY <1>5, <1>6 DEF Loss2

LEMMA BothInit == SessionsInit => BothInv
<1> SUFFICES ASSUME SessionsInit PROVE BothInv
  OBVIOUS
<1>1. PairInv /\ Init /\ OneAlgo
  BY PairInit, LossInit DEF SessionsInit
<1>2. MendInv
  BY <1>1 DEF Init, MendInv
<1>3. anchors2 = NoReport /\ pc2 = "closed"
  BY SameStart DEF SessionsInit, Second!Init
<1>4. Mend2
  BY <1>3 DEF Mend2
<1>5. \A n : ReportsAlgo(anchors2, n)
  BY <1>3 DEF ReportsAlgo, NoReport, SlotReport
<1> QED BY <1>1, <1>2, <1>4, <1>5 DEF BothInv, Loss2, OneAlgo

LEMMA BothStep ==
  ASSUME NoWildTable, NEW n, PairInv, MendInv, Mend2, Loss2(n), [SessionsNext]_both
  PROVE  MendInv' /\ Mend2' /\ Loss2(n)'
<1>1. IInv /\ LossInv(n)
  BY DEF PairInv, Loss2
<1>2. CASE OwnerStep /\ Next /\ UNCHANGED second
  <2>1. MendInv' /\ LossInv(n)'
    BY <1>1, <1>2, MendNext, LossStep
  <2>2. ReportsAlgo(anchors2', n)
    BY <1>2 DEF Loss2, second
  <2>3. Mend2'
    <3>1. CASE Running \/ Calls \/ Kill
      BY <1>1, <1>2, <2>1, <3>1, OwnerVisible, SecondKnows
    <3>2. CASE pc2 \in DamageWhen
      BY <1>2, <3>2, DamageWhenAssumption DEF Mend2, second
    <3> QED BY <1>2, <3>1, <3>2 DEF OwnerStep
  <2> QED BY <2>1, <2>2, <2>3 DEF Loss2
<1>3. CASE ToolStep /\ UNCHANGED first
  <2>1. Loss2(n)' /\ Mend2'
    BY <1>3, ToolLoss, ToolMends
  <2>2. Visible
    BY <1>3, ToolAdds, ToolWrites, SeenIsVisible
  <2>3. MendInv'
    BY <1>1, <1>3, <2>1, <2>2, FirstKnows DEF Loss2
  <2> QED BY <2>1, <2>3
<1>4. CASE PowerLoss /\ Next /\ Gone2 /\ res2' = NoResult
  <2>1. MendInv' /\ LossInv(n)'
    BY <1>1, <1>4, MendNext, LossStep
  <2>2. Mend2'
    BY <1>4 DEF Gone2, Mend2
  <2>3. ReportsAlgo(anchors2', n)
    BY <1>4 DEF Gone2, ReportsAlgo, NoReport, SlotReport
  <2> QED BY <2>1, <2>2, <2>3 DEF Loss2
<1>5. CASE UNCHANGED vars /\ UNCHANGED second
  <2>1. MendInv' /\ LossInv(n)'
    BY <1>1, <1>5, MendNext, LossStep
  <2>2. Visible
    BY <1>5 DEF vars, Visible
  <2>3. Mend2'
    BY <1>1, <1>5, <2>1, <2>2, SecondKnows
  <2>4. ReportsAlgo(anchors2', n)
    BY <1>5 DEF Loss2, second
  <2> QED BY <2>1, <2>3, <2>4 DEF Loss2
<1> QED BY <1>2, <1>3, <1>4, <1>5, SessionsCases

LEMMA BothNext ==
  ASSUME NoWildTable
  PROVE  BothInv /\ [SessionsNext]_both => BothInv'
<1> SUFFICES ASSUME BothInv, [SessionsNext]_both PROVE BothInv'
  OBVIOUS
<1>1. PICK n : Loss2(n)
  BY DEF BothInv
<1>2. MendInv' /\ Mend2' /\ Loss2(n)'
  BY <1>1, BothStep DEF BothInv
<1>3. PairInv'
  BY PairNext DEF BothInv
<1> QED BY <1>2, <1>3 DEF BothInv

-----------------------------------------------------------------------------
(* Nothing is lost, whoever takes the step.                                *)
LEMMA BothKept ==
  ASSUME NoWildTable
  PROVE  BothInv /\ BothInv' /\ [SessionsNext]_both => [KeptStep]_vars
<1> SUFFICES ASSUME BothInv, BothInv', [SessionsNext]_both, vars' # vars,
                    damage' = damage
             PROVE  /\ \A s \in Slots : SlotSafe(s) => SlotSafe(s)'
                    /\ SuperblockSafe => SuperblockSafe'
  BY DEF KeptStep
<1>1. PICK n : Loss2(n)
  BY DEF BothInv
<1>2. OneAlgo /\ OneAlgo' /\ IInv /\ MendInv /\ LossInv(n)
  BY <1>1 DEF BothInv, PairInv, Loss2, OneAlgo
<1>3. CASE Next
  BY <1>2, <1>3, DeviceSteps, UnharmedStep, KeptBy
<1>4. CASE ToolStep
  BY <1>1, <1>2, <1>4, ToolAdds, ToolUnharmed, KeptBy DEF BothInv
<1> QED BY <1>3, <1>4, SessionsCases

(* mount.rs:33, check.rs:92-169: with two processes repairing one volume   *)
(* at once it still takes damage to lose a slot or the Superblock, however *)
(* their writes, failures, kills and power losses interleave.              *)
THEOREM BothKeepEverything ==
  ASSUME NoWildTable
  PROVE  SessionsSpec => NothingLost
<1>1. SessionsSpec => []BothInv
  BY BothInit, BothNext, PTL DEF SessionsSpec
<1>2. SessionsSpec => [][KeptStep]_vars
  BY <1>1, BothKept, PTL DEF SessionsSpec
<1> QED BY <1>2 DEF KeptStep, NothingLost

-----------------------------------------------------------------------------
(* What the tool counts, in the words of Engine.                           *)
Reported2 ==
  /\ \A j \in res2'.repaired \ res2.repaired :
       (EndIntact(j[2], j[1]) /\ Durable(Block(j[2], j[1])))'
  /\ res2'.sbRepaired /\ ~res2.sbRepaired =>
       \A p \in sbAt2.primary : (ChecksumOk(ReadReal(vis, p)) /\ Durable(p))'
Silent2 == /\ res2'.repaired \subseteq res2.repaired
           /\ res2'.sbRepaired => res2.sbRepaired

LEMMA SameClaims == Reported2 => Second!ReportedDurable
<1>1. \A d, s : EndIntact(d, s)' => Second!EndIntact(d, s)'
  BY SameReports DEF EndIntact, Second!EndIntact, Complete, Second!Complete,
     Fallbacks, Second!Fallbacks
<1>2. \A r : Durable(r)' => Second!Durable(r)'
  <2>1. \A S : Second!Cardinality(S) = Cardinality(S)
    BY DEF Second!Cardinality, Cardinality
  <2> QED BY <2>1, SameParts DEF Durable, Second!Durable
<1>3. \A d, s : Second!Block(d, s) = Block(d, s)
  BY DEF Second!Block, Block
<1>4. \A p : ChecksumOk(ReadReal(vis', p)) => Second!ChecksumOk(Second!ReadReal(vis', p))
  BY SameCopies
<1> QED BY <1>1, <1>2, <1>3, <1>4 DEF Reported2, Second!ReportedDurable

LEMMA Silence2 == ASSUME Silent2 PROVE Reported2
BY DEF Silent2, Reported2

LEMMA FreshIsSilent == ASSUME NEW call, res2' = Result(call) PROVE Silent2
BY DEF Silent2, Result, NoResult

LEMMA ToolReported == ASSUME PairInv, Mend2, ToolStep PROVE Reported2
<1>1. ASSUME NEW j \in todo2, Second!SyncEnd(j) PROVE Reported2
  <2>1. /\ pc2 = "barrier" /\ Due2(j) /\ M!Sync
        /\ res2' = [res2 EXCEPT !.repaired = @ \cup {j}]
    BY <1>1, SecondSync
  <2>2. j[1] \in Slots /\ j[2] \in Side
    BY DEF PairInv, Session2
  <2>3. vis' = vis
    BY <2>1 DEF M!Sync
  <2>4. EndIntact(j[2], j[1])'
    BY <2>1, <2>3 DEF Mend2, EndIntact
  <2>5. Parts(Block(j[2], j[1])) \subseteq Cell
    BY <2>2, Cells DEF Parts
  <2>6. Durable(Block(j[2], j[1]))'
    BY <2>1, <2>5, SyncedIsDurable
  <2>7. res2'.repaired \ res2.repaired \subseteq {j} /\ res2'.sbRepaired = res2.sbRepaired
    BY <2>1 DEF PairInv, Session2, Results
  <2> QED BY <2>4, <2>6, <2>7 DEF Reported2
<1>2. ASSUME Second!SyncSuperblock PROVE Reported2
  <2>1. pc2 = "sbsync" /\ M!Sync /\ res2' = [res2 EXCEPT !.sbRepaired = TRUE]
    BY <1>2, SecondSbSync
  <2>2. vis' = vis
    BY <2>1 DEF M!Sync
  <2>3. \A p \in sbAt2.primary : ChecksumOk(ReadReal(vis', p))
    BY <2>1, <2>2 DEF Mend2
  <2>4. \A p \in sbAt2.primary : Durable(p)'
    <3> TAKE p \in sbAt2.primary
    <3>1. p = At("superblock")
      BY DEF PairInv, Session2
    <3>2. Parts(p) \subseteq Cell
      BY <3>1 DEF Parts, Cell, SbCell, SbRegion
    <3> QED BY <2>1, <3>2, SyncedIsDurable
  <2>5. res2'.repaired = res2.repaired
    BY <2>1 DEF PairInv, Session2, Results
  <2> QED BY <2>3, <2>4, <2>5 DEF Reported2
<1>3. ASSUME NEW j \in todo2, \/ Second!RewriteEnd(j) \/ Second!RewriteEndFails(j)
                              \/ Second!SyncEndFails(j)
      PROVE  Silent2
  BY <1>3, SecondRewrite, SecondRewriteFails, SecondSyncFails DEF Silent2
<1>4. ASSUME \/ Second!SuperblockFine \/ Second!SuperblockUnrecoverable
             \/ Second!AdoptBackup \/ Second!WriteSuperblock
      PROVE  Silent2
  BY <1>4, SecondJudges, SecondAdopts, SecondWrites
     DEF Silent2, PairInv, Session2, Results
<1>5. ASSUME Second!ToolCheck PROVE Silent2
  <2> DEFINE r == Result("check")
  <2>1. r \in Results /\ r.repaired = {} /\ r.sbRepaired = FALSE
    BY DEF Result, NoResult, Results, Reporting
  <2>2. \E D, L, G \in SUBSET Slots :
          res2' = [r EXCEPT !.degraded = D, !.lost = L, !.disagree = G]
    BY <1>5, SecondStart
  <2> HIDE DEF r
  <2> QED BY <2>1, <2>2 DEF Silent2, Results
<1>6. ASSUME \/ Second!ToolMount \/ Second!MountRefused
             \/ Second!WriteSuperblockFails \/ Second!SyncSuperblockFails
      PROVE  Silent2
  BY <1>6, SecondMount, SecondRefused, SecondWriteFails, SecondFails, SecondSbSyncFails,
     FreshIsSilent
<1>7. ASSUME Second!ToolExit \/ Second!Kill PROVE Silent2
  BY <1>7, SecondEnds DEF Silent2, NoResult
<1> QED BY <1>1, <1>2, <1>3, <1>4, <1>5, <1>6, <1>7, ToolSteps, Silence2

EitherReported == ReportedDurable /\ Second!ReportedDurable

LEMMA EitherNext == BothInv /\ [SessionsNext]_both => [EitherReported]_both
<1> SUFFICES ASSUME BothInv, [SessionsNext]_both
             PROVE  ReportedDurable /\ Second!ReportedDurable
  BY DEF EitherReported
<1>1. ASSUME Next \/ UNCHANGED vars PROVE ReportedDurable
  <2>1. CASE Next /\ vars' # vars
    BY <2>1, ReportedNext DEF BothInv, PairInv
  <2>2. CASE UNCHANGED vars
    BY <2>2, SilentIsDurable DEF vars, Silent
  <2> QED BY <1>1, <2>1, <2>2
<1>2. CASE ToolStep /\ UNCHANGED first
  <2>1. ReportedDurable
    BY <1>2, SilentIsDurable DEF first, Silent
  <2>2. Reported2
    BY <1>2, ToolReported DEF BothInv
  <2> QED BY <2>1, <2>2, SameClaims
<1>3. ASSUME UNCHANGED second \/ res2' = NoResult PROVE Second!ReportedDurable
  BY <1>3, Silence2, SameClaims DEF second, Silent2, NoResult
<1> QED BY <1>1, <1>2, <1>3, SessionsCases

(* check.rs:114-126, 160-165: what either process counts as repaired is    *)
(* complete and survives a power loss, although the other may be in the    *)
(* middle of writing the same end, from reports of its own.                *)
THEOREM EitherIsDurable ==
  ASSUME NoWildTable
  PROVE  SessionsSpec => EitherRepairedIsDurable
<1>1. SessionsSpec => []BothInv
  BY BothInit, BothNext, PTL DEF SessionsSpec
<1>2. SessionsSpec => [][EitherReported]_both
  BY <1>1, EitherNext, PTL DEF SessionsSpec
<1> QED BY <1>2 DEF EitherReported, EitherRepairedIsDurable

=============================================================================
