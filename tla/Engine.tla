------------------------------- MODULE Engine -------------------------------
(***************************************************************************)
(* One CAFS I/O engine session over one device: mount, check, remount,     *)
(* confirm, sync, write_block and close (lib.rs, mount.rs, check.rs,       *)
(* remount.rs, confirm.rs, block_io.rs), one step for every device         *)
(* operation that can fail or be cut short, over the device of Medium.     *)
(*                                                                         *)
(* The environment may lose power, kill the process, fail a write or a     *)
(* sync (mishaps), damage a granule or make a sector unreadable (damage).  *)
(***************************************************************************)
EXTENDS Volume

CONSTANTS
  Formats,      \* the pointer checksum algorithms a volume may be made with
  Remounts,     \* the MountOpts callers pass to remount()
  Wrap,         \* mount_count is kept modulo Wrap (2^32 in the code)
  WildTargets,  \* what a damaged smart_main_lba field may hold
  DamageWhen,   \* the values of pc in which media damage may strike
  MaxDamage,    \* bound: damage events in a behaviour
  MaxMishaps    \* bound: power losses, kills and failing operations

ASSUME FormatsAssumption == Formats \subseteq Algo
ASSUME RemountsAssumption ==
  Remounts \subseteq [readonly : BOOLEAN, flush : BOOLEAN]
ASSUME WrapAssumption == Wrap \in Nat \ {0}
ASSUME WildAssumption ==
  WildTargets \subseteq Structure \cup {Null, Beyond}
ASSUME BoundsAssumption == MaxDamage \in Nat /\ MaxMishaps \in Nat
ASSUME DamageWhenAssumption == DamageWhen \subseteq {"closed", "idle"}

Count == 0 .. (Wrap - 1)

VARIABLES
  vis, surv,    \* the device, see Medium
  unreadable,   \* regions with a sector that cannot be read
  damage,       \* damage events so far
  mishaps,      \* mishaps so far
  pc,           \* where the session is; "closed" when there is none
  mode,         \* MountMode
  rw,           \* want_write
  opts,         \* MountOpts: readonly and destroy_flush
  anchors,      \* the slot reports cached in the session
  sbAt,         \* sb_primary and sb_backup, as options
  superblock,   \* the Superblock in memory, as its two parts
  smartMain,    \* smart_main: option of its mount_count and offset
  todo,         \* ends of slots check() has still to rewrite
  res           \* what the call under way, or the last one, reports to its
                \* caller or, as confirm() does, on the standard error output

M == INSTANCE Medium

session == <<mode, rw, opts, anchors, sbAt, superblock, smartMain>>
vars == <<vis, surv, unreadable, damage, mishaps, pc, session, todo, res>>

-----------------------------------------------------------------------------
(* Reading the device: v is the image that is read.                        *)
Readable(r) == r \in Region /\ r \notin unreadable

ReadPtr(v, d, s) ==
  IF Readable(Block(d, s)) THEN PtrAt(v, d, s) ELSE {}
ReportOf(v, s)  == SlotReport(s, ReadPtr(v, "head", s), ReadPtr(v, "tail", s))
ScanAnchors(v)  == [s \in Slots |-> ReportOf(v, s)]

(* Variant for mutation: a software read-only remount is not honoured.     *)
CanWriteFd == rw
CanWrite == rw /\ ~opts.readonly

NoReport == [s \in Slots |-> SlotReport(s, {}, {})]
NoOpts   == [readonly |-> FALSE, flush |-> FALSE]
NoSb     == [primary |-> {}, backup |-> {}]
NoBlock  == [p \in {1, 2} |-> Junk]
NoResult == [call |-> "none", sbOk |-> FALSE, sbRepaired |-> FALSE,
             degraded |-> {}, repaired |-> {}, lost |-> {}, disagree |-> {}]
Result(call) == [NoResult EXCEPT !.call = call]

Forget ==
  /\ pc' = "closed"
  /\ mode' = "full" /\ rw' = FALSE /\ opts' = NoOpts
  /\ anchors' = NoReport /\ sbAt' = NoSb /\ superblock' = NoBlock
  /\ smartMain' = {} /\ todo' = {}

-----------------------------------------------------------------------------
Init ==
  /\ \E a \in Formats : M!Settled(Formatted(a))
  /\ unreadable = {} /\ damage = 0 /\ mishaps = 0
  /\ pc = "closed" /\ mode = "full" /\ rw = FALSE /\ opts = NoOpts
  /\ anchors = NoReport /\ sbAt = NoSb /\ superblock = NoBlock
  /\ smartMain = {} /\ todo = {} /\ res = NoResult

-----------------------------------------------------------------------------
(* mount_device_with: it only reads, and reads no region twice, so a step  *)
(* of the environment during it is a step before or after it.              *)
ReadFunctionTable ==
  IF 4 \notin Slots THEN {}
  ELSE {ReadReal(vis, b.real)[1].to :
          b \in {x \in Chosen(ReportOf(vis, 4)) : x.real \notin unreadable}}
ReadSmartMain ==
  {[at |-> t, n |-> IF <<t, 1>> \in Cell THEN vis[<<t, 1>>].n ELSE 0] :
     t \in {u \in ReadFunctionTable :
              u \notin {Null, Beyond} /\ u \notin unreadable}}

MountFull(w) ==
  LET r == ReportOf(vis, 0) IN
  /\ pc = "closed"
  /\ \E p \in SbPrimary(r) :
       /\ p \notin unreadable
       /\ superblock' = ReadReal(vis, p)
  /\ sbAt' = [primary |-> SbPrimary(r), backup |-> SbBackup(r)]
  /\ pc' = "idle" /\ mode' = "full" /\ rw' = w /\ opts' = NoOpts
  /\ anchors' = ScanAnchors(vis) /\ smartMain' = ReadSmartMain
  /\ res' = Result("mount")
  /\ UNCHANGED <<vis, surv, unreadable, damage, mishaps, todo>>

(* No end of slot 0 leads to the Superblock, or it cannot be read.         *)
MountRefused ==
  /\ pc = "closed"
  /\ \A p \in SbPrimary(ReportOf(vis, 0)) : p \in unreadable
  /\ res' = Result("mount_refused")
  /\ UNCHANGED <<vis, surv, unreadable, damage, mishaps, pc, session, todo>>

MountBypass(w) ==
  /\ pc = "closed"
  /\ pc' = "idle" /\ mode' = "bypass" /\ rw' = w
  /\ res' = Result("mount")
  /\ UNCHANGED <<vis, surv, unreadable, damage, mishaps, opts, anchors, sbAt,
                 superblock, smartMain, todo>>

-----------------------------------------------------------------------------
(* check(), first stage.  The reports are those cached by the last scan;   *)
(* the ends to rewrite are known when the call starts.                     *)
Bad(s) == ~Good(anchors[s], "head") \/ ~Good(anchors[s], "tail")

CheckStart ==
  LET degraded == {s \in Slots : Bad(s) /\ Recoverable(anchors[s])}
      ends == {j \in degraded \X Side : ~Good(anchors[j[1]], j[2])}
  IN
  /\ pc = "idle" /\ mode = "full"
  /\ todo' = IF CanWrite THEN ends ELSE {}
  /\ pc' = IF todo' = {} THEN "superblock" ELSE "rewrite"
  /\ res' = [Result("check") EXCEPT
               !.degraded = degraded,
               !.lost = {s \in Slots : Bad(s) /\ ~Recoverable(anchors[s])},
               !.disagree = {s \in Slots : Disagree(anchors[s])}]
  /\ UNCHANGED <<vis, surv, unreadable, damage, mishaps, session>>

(* The loop takes the slots in order, the head before the tail.            *)
Before(i, j) == i[1] < j[1] \/ (i[1] = j[1] /\ i[2] = "head")
Due(j) == j \in todo /\ \A i \in todo : i = j \/ Before(j, i)

(* Variant for mutation: the end just handled is taken up again.           *)
NextEndStays(j) ==
  /\ todo' = todo /\ pc' = "rewrite" /\ anchors' = anchors
  /\ UNCHANGED <<unreadable, damage, mode, rw, opts, sbAt, superblock,
                 smartMain>>

(* Leaving one end behind; the slots are scanned again after the last one  *)
(* if any end was rewritten.                                               *)
NextEnd(j) ==
  /\ todo' = todo \ {j}
  /\ pc' = IF todo' = {} THEN "superblock" ELSE "rewrite"
  /\ anchors' = IF todo' = {} /\ res'.repaired # {}
                THEN ScanAnchors(vis') ELSE anchors
  /\ UNCHANGED <<unreadable, damage, mode, rw, opts, sbAt, superblock,
                 smartMain>>

BlockWrite(j, b) ==
  [c \in Parts(Block(j[2], j[1])) |-> b[c[2]]]

RewriteEnd(j) ==
  /\ pc = "rewrite" /\ Due(j)
  /\ \E b \in RebuildPtrBlock(anchors[j[1]], j[2]) :
       M!WriteCells(BlockWrite(j, b))
  /\ pc' = "barrier"
  /\ UNCHANGED <<unreadable, damage, mishaps, session, todo, res>>

(* write_at stops with an error, some prefix of the block written.         *)
RewriteEndFails(j) ==
  /\ pc = "rewrite" /\ Due(j) /\ mishaps < MaxMishaps
  /\ \E b \in RebuildPtrBlock(anchors[j[1]], j[2]), k \in 0..2 :
       M!WriteFails(BlockWrite(j, b), PtrRegion \X (1..k))
  /\ mishaps' = mishaps + 1
  /\ res' = res
  /\ NextEnd(j)

(* Variants for mutation: an end is counted without its barrier; the slot  *)
(* counted is the next one.                                                *)
CountEnd(j, entry) ==
  /\ pc = "barrier" /\ Due(j)
  /\ res' = [res EXCEPT !.repaired = @ \cup {entry}]
  /\ mishaps' = mishaps
  /\ NextEnd(j)
SyncEndSkipped(j) == UNCHANGED <<vis, surv>> /\ CountEnd(j, j)
SyncEndNext(j)    == M!Sync /\ CountEnd(j, <<j[1] + 1, j[2]>>)

SyncEnd(j) ==
  /\ pc = "barrier" /\ Due(j)
  /\ M!Sync
  /\ res' = [res EXCEPT !.repaired = @ \cup {j}]
  /\ mishaps' = mishaps
  /\ NextEnd(j)

SyncEndFails(j) ==
  /\ pc = "barrier" /\ Due(j) /\ mishaps < MaxMishaps
  /\ M!SyncFails
  /\ mishaps' = mishaps + 1
  /\ res' = res
  /\ NextEnd(j)

-----------------------------------------------------------------------------
(* check(), second stage: the Superblock in memory is what is verified.    *)
SuperblockFine ==
  /\ pc = "superblock" /\ ChecksumOk(superblock)
  /\ pc' = "idle" /\ res' = [res EXCEPT !.sbOk = TRUE]
  /\ UNCHANGED <<vis, surv, unreadable, damage, mishaps, session, todo>>

BackupFine(b) == b \notin unreadable /\ ChecksumOk(ReadReal(vis, b))

SuperblockUnrecoverable ==
  /\ pc = "superblock" /\ ~ChecksumOk(superblock)
  /\ \A b \in sbAt.backup : ~BackupFine(b)
  /\ pc' = "idle"
  /\ UNCHANGED <<vis, surv, unreadable, damage, mishaps, session, todo, res>>

(* Variant for mutation: the adopted copy is never written back.           *)
AdoptOnly ==
  /\ pc = "superblock" /\ ~ChecksumOk(superblock)
  /\ \E b \in sbAt.backup :
       BackupFine(b) /\ superblock' = ReadReal(vis, b)
  /\ pc' = "idle" /\ res' = [res EXCEPT !.sbOk = TRUE]
  /\ UNCHANGED <<vis, surv, unreadable, damage, mishaps, mode, rw, opts,
                 anchors, sbAt, smartMain, todo>>

AdoptBackup ==
  /\ pc = "superblock" /\ ~ChecksumOk(superblock)
  /\ \E b \in sbAt.backup :
       BackupFine(b) /\ superblock' = ReadReal(vis, b)
  /\ pc' = IF CanWrite THEN "sbwrite" ELSE "idle"
  /\ res' = [res EXCEPT !.sbOk = TRUE]
  /\ UNCHANGED <<vis, surv, unreadable, damage, mishaps, mode, rw, opts,
                 anchors, sbAt, smartMain, todo>>

SuperblockWrite(p) ==
  [c \in Parts(p) \cap Cell |-> superblock[c[2]]]

WriteSuperblock ==
  /\ pc = "sbwrite"
  /\ \E p \in sbAt.primary : M!WriteCells(SuperblockWrite(p))
  /\ pc' = "sbsync"
  /\ UNCHANGED <<unreadable, damage, mishaps, session, todo, res>>

(* The error is returned: the caller gets no CheckResult.                  *)
CheckFails ==
  /\ mishaps < MaxMishaps /\ mishaps' = mishaps + 1
  /\ pc' = "idle" /\ res' = Result("check_failed")
  /\ UNCHANGED <<unreadable, damage, session, todo>>

WriteSuperblockFails ==
  /\ pc = "sbwrite"
  /\ \E p \in sbAt.primary, k \in 0..2 :
       M!WriteFails(SuperblockWrite(p), SbRegion \X (1..k))
  /\ CheckFails

SyncSuperblock ==
  /\ pc = "sbsync" /\ M!Sync
  /\ pc' = "idle" /\ res' = [res EXCEPT !.sbRepaired = TRUE]
  /\ UNCHANGED <<unreadable, damage, mishaps, session, todo>>

SyncSuperblockFails == pc = "sbsync" /\ M!SyncFails /\ CheckFails

-----------------------------------------------------------------------------
(* remount(): the refused calls change nothing and are not steps.          *)
Remount(o) ==
  /\ pc = "idle" /\ (o.readonly \/ rw)
  /\ opts' = o /\ res' = Result("remount")
  /\ UNCHANGED <<vis, surv, unreadable, damage, mishaps, pc, mode, rw,
                 anchors, sbAt, superblock, smartMain, todo>>

(* confirm(): without a SMART table it returns at once.                    *)
ConfirmStart ==
  /\ pc = "idle" /\ mode = "full" /\ CanWrite
  /\ pc' = IF smartMain = {} THEN "idle" ELSE "smartwrite"
  /\ res' = Result("confirm")
  /\ UNCHANGED <<vis, surv, unreadable, damage, mishaps, session, todo>>

Confirmed(t) == [t EXCEPT !.n = (@ + 1) % Wrap]
SmartWrite(t) ==
  [c \in {<<t.at, 1>>} \cap Cell |-> SmartTable(Confirmed(t).n)]

WriteSmart ==
  /\ pc = "smartwrite"
  /\ \E t \in smartMain : M!WriteCells(SmartWrite(t))
  /\ pc' = "smartsync"
  /\ UNCHANGED <<unreadable, damage, mishaps, session, todo, res>>

(* Variant for mutation: memory goes on to the new table although the      *)
(* write of it failed.                                                     *)
WriteSmartFailsCounted ==
  /\ pc = "smartwrite" /\ mishaps < MaxMishaps
  /\ \E t \in smartMain, k \in 0..1 :
       M!WriteFails(SmartWrite(t), Region \X (1..k))
  /\ mishaps' = mishaps + 1
  /\ smartMain' = {Confirmed(t) : t \in smartMain}
  /\ pc' = "idle" /\ res' = Result("confirm_failed")
  /\ UNCHANGED <<unreadable, damage, mode, rw, opts, anchors, sbAt,
                 superblock, todo>>

(* The table lies in one granule; the write may report an error before or  *)
(* after it has landed.  Memory keeps the old table either way.            *)
WriteSmartFails ==
  /\ pc = "smartwrite" /\ mishaps < MaxMishaps
  /\ \E t \in smartMain, k \in 0..1 :
       M!WriteFails(SmartWrite(t), Region \X (1..k))
  /\ mishaps' = mishaps + 1
  /\ pc' = "idle" /\ res' = Result("confirm_failed")
  /\ UNCHANGED <<unreadable, damage, session, todo>>

(* Variant for mutation: a failed barrier leaves the old table in memory.  *)
SyncSmartDrops ==
  /\ pc = "smartsync"
  /\ \/ M!Sync /\ mishaps' = mishaps
        /\ smartMain' = {Confirmed(t) : t \in smartMain}
     \/ M!SyncFails /\ mishaps < MaxMishaps /\ mishaps' = mishaps + 1
        /\ smartMain' = smartMain
  /\ pc' = "idle"
  /\ UNCHANGED <<unreadable, damage, mode, rw, opts, anchors, sbAt,
                 superblock, todo, res>>

SyncSmart ==
  /\ pc = "smartsync"
  /\ \/ M!Sync /\ mishaps' = mishaps
     \/ M!SyncFails /\ mishaps < MaxMishaps /\ mishaps' = mishaps + 1
  /\ smartMain' = {Confirmed(t) : t \in smartMain}
  /\ pc' = "idle"
  /\ UNCHANGED <<unreadable, damage, mode, rw, opts, anchors, sbAt,
                 superblock, todo, res>>

-----------------------------------------------------------------------------
(* CafsCtx::sync, called by the owner of the session.                      *)
CallSync ==
  /\ pc = "idle" /\ M!Sync /\ res' = Result("sync")
  /\ UNCHANGED <<unreadable, damage, mishaps, pc, session, todo>>

(* Variant for mutation: write_block does not ask whether it may write.    *)
WriteBlockAnyway(c) ==
  /\ pc = "idle"
  /\ "idle" \in DamageWhen /\ damage < MaxDamage /\ damage' = damage + 1
  /\ M!WriteCells([x \in {c} |-> Junk])
  /\ res' = Result("write_block")
  /\ UNCHANGED <<unreadable, mishaps, pc, session, todo>>

(* write_block by the owner over a granule of the anchor region or a       *)
(* Superblock: the engine neither refuses it nor refreshes its reports.    *)
WriteBlock(c) ==
  /\ pc = "idle" /\ CanWrite
  /\ "idle" \in DamageWhen /\ damage < MaxDamage /\ damage' = damage + 1
  /\ M!WriteCells([x \in {c} |-> Junk])
  /\ res' = Result("write_block")
  /\ UNCHANGED <<unreadable, mishaps, pc, session, todo>>

(* close(): the device is released whether or not the flush succeeds.      *)
Close ==
  /\ pc = "idle" /\ res' = NoResult /\ Forget
  /\ \/ opts.flush /\ rw /\ M!Sync /\ mishaps' = mishaps
     \/ opts.flush /\ rw /\ M!SyncFails
        /\ mishaps < MaxMishaps /\ mishaps' = mishaps + 1
     \/ ~(opts.flush /\ rw) /\ UNCHANGED <<vis, surv, mishaps>>
  /\ UNCHANGED <<unreadable, damage>>

-----------------------------------------------------------------------------
(* The environment.                                                        *)
Corruptions(c) ==
  IF c[1] = At("function_table")
  THEN {[Junk EXCEPT !.to = t] : t \in WildTargets}
  ELSE IF c[1] = At("smart") THEN {[Junk EXCEPT !.n = k] : k \in Count}
  ELSE {Junk}

Corrupt(c) ==
  /\ pc \in DamageWhen /\ damage < MaxDamage /\ damage' = damage + 1
  /\ \E x \in Corruptions(c) : M!Damaged(c, x) /\ M!Poke(c, x)
  /\ UNCHANGED <<unreadable, mishaps, pc, session, todo, res>>

BadSector(r) ==
  /\ pc \in DamageWhen /\ damage < MaxDamage /\ damage' = damage + 1
  /\ r \notin unreadable
  /\ unreadable' = unreadable \cup {r}
  /\ UNCHANGED <<vis, surv, mishaps, pc, session, todo, res>>

(* The process dies: the device keeps what was written.                    *)
Kill ==
  /\ pc # "closed" /\ mishaps < MaxMishaps /\ mishaps' = mishaps + 1
  /\ Forget /\ res' = NoResult
  /\ UNCHANGED <<vis, surv, unreadable, damage>>

PowerLoss ==
  /\ mishaps < MaxMishaps /\ mishaps' = mishaps + 1
  /\ M!PowerCut
  /\ Forget /\ res' = NoResult
  /\ UNCHANGED <<unreadable, damage>>

-----------------------------------------------------------------------------
(* Steps inside a call: once it has begun, a call runs on by itself.       *)
CheckStep ==
  \/ \E j \in todo : \/ RewriteEnd(j) \/ RewriteEndFails(j)
                     \/ SyncEnd(j) \/ SyncEndFails(j)
  \/ SuperblockFine \/ SuperblockUnrecoverable \/ AdoptBackup
  \/ WriteSuperblock \/ WriteSuperblockFails
  \/ SyncSuperblock \/ SyncSuperblockFails
ConfirmStep == WriteSmart \/ WriteSmartFails \/ SyncSmart
Running == CheckStep \/ ConfirmStep

(* Steps the owner of the session takes.                                   *)
Calls ==
  \/ \E w \in BOOLEAN : MountFull(w) \/ MountBypass(w)
  \/ MountRefused \/ CheckStart \/ ConfirmStart \/ CallSync \/ Close
  \/ \E o \in Remounts : Remount(o)

Damage ==
  \/ \E c \in Cell : Corrupt(c)
  \/ \E r \in Region : BadSector(r)
  \/ \E c \in PtrCell \cup SbCell : WriteBlock(c)

Next == Running \/ Calls \/ Damage \/ Kill \/ PowerLoss

Spec == Init /\ [][Next]_vars

-----------------------------------------------------------------------------
(***************************************************************************)
(* Properties.                                                             *)
(***************************************************************************)
(* Every variable has its type.                                            *)
BlockValue == [real : Structure, fallback : SUBSET Structure, algo : Nat]
Reports    == [slot : Slots, head : SUBSET BlockValue, tail : SUBSET BlockValue]
Reporting  == {"none", "mount", "mount_refused", "check", "check_failed",
               "remount", "confirm", "confirm_failed", "sync", "write_block"}
Results    == [call : Reporting, sbOk : BOOLEAN, sbRepaired : BOOLEAN,
               degraded : SUBSET Slots, repaired : SUBSET (Slots \X Side),
               lost : SUBSET Slots, disagree : SUBSET Slots]
Places     == {"closed", "idle", "rewrite", "barrier", "superblock", "sbwrite",
               "sbsync", "smartwrite", "smartsync"}
TypeOK ==
  /\ vis \in [Cell -> Content] /\ surv \in [Cell -> SUBSET Content]
  /\ unreadable \subseteq Region
  /\ damage \in 0..MaxDamage /\ mishaps \in 0..MaxMishaps
  /\ pc \in Places
  /\ mode \in {"full", "bypass"} /\ rw \in BOOLEAN
  /\ opts \in [readonly : BOOLEAN, flush : BOOLEAN]
  /\ anchors \in [Slots -> Reports]
  /\ sbAt \in [primary : SUBSET Structure, backup : SUBSET Structure]
  /\ superblock \in [{1, 2} -> Content]
  /\ smartMain \subseteq [at : Structure, n : Nat]
  /\ todo \subseteq Slots \X Side
  /\ res \in Results

(* A pointer block that verifies after any power loss points where the     *)
(* format put its structure: a repair from a stale report, from half of    *)
(* each end, or cut short, never leaves a well-formed wrong pointer.       *)
PointersTrue == \A c \in PtrCell : \A x \in surv[c] : TruePointer(c, x)

(* Slot s can be recovered, and some copy of the Superblock verifies,      *)
(* whatever an interruption at this point leaves on the device.            *)
SlotSafe(s) ==
  \A f \in M!Images({c \in PtrCell : c[1][2] = s}) :
    Recoverable(ReportOf(M!Overlay(f), s))
SuperblockSafe ==
  \A f \in M!Images(SbCell) :
    \E b \in SbRegion \ unreadable : ChecksumOk(ReadReal(M!Overlay(f), b))

(* Only damage loses information: no step of the engine, and no power      *)
(* loss, kill or failed operation between two of them, takes a slot or the *)
(* Superblock from recoverable to not recoverable.                         *)
NothingLost ==
  [][damage' = damage =>
       /\ \A s \in Slots : SlotSafe(s) => SlotSafe(s)'
       /\ SuperblockSafe => SuperblockSafe']_vars

(* What check() reports as repaired is complete and already survives a     *)
(* power loss: a count is never ahead of its write or of its barrier.      *)
Durable(r) == \A c \in Parts(r) : Cardinality(surv[c]) = 1
EndIntact(d, s) == Complete(s, PtrAt(vis, d, s))
ReportedDurable ==
  /\ \A j \in res'.repaired \ res.repaired :
       (EndIntact(j[2], j[1]) /\ Durable(Block(j[2], j[1])))'
  /\ res'.sbRepaired /\ ~res.sbRepaired =>
       \A p \in sbAt.primary : (ChecksumOk(ReadReal(vis, p)) /\ Durable(p))'
RepairedIsDurable == [][ReportedDurable]_vars

(* check() gives a slot up only if nothing on the device could rebuild it  *)
(* now, although it decides from reports of an earlier scan.  Of slot 0    *)
(* each of the two pointers is carried once by either end.                 *)
Rebuildable(s) ==
  LET h == ReadPtr(vis, "head", s)
      t == ReadPtr(vis, "tail", s)
  IN IF s = 0 THEN /\ Reals(h) \cup Fallbacks(t) # {}
                   /\ Fallbacks(h) \cup Reals(t) # {}
     ELSE h \cup t # {}
LostIsLost == [][\A s \in res'.lost \ res.lost : ~Rebuildable(s)]_vars

(* A session opened read-only, or remounted read-only, writes nothing: no  *)
(* call, check() and confirm() begun before and write_block included, adds *)
(* to what may survive on the device, and a reader sees no change but that *)
(* of a power loss.  Only damage of the media is left aside.               *)
MediaDamage == (\E c \in Cell : Corrupt(c)) \/ (\E r \in Region : BadSector(r))
ReadonlyWritesNothing ==
  [][pc # "closed" /\ (~rw \/ opts.readonly) /\ ~MediaDamage =>
       /\ vis' = vis \/ pc' = "closed"
       /\ \A c \in Cell : surv'[c] \subseteq surv[c]]_vars

(* confirm() counts every mount it reports as counted, and none twice: the *)
(* table a session will increment next is the one on the device, whether   *)
(* or not the barrier held.  Only after a write that failed may the device *)
(* be one count ahead, never behind, so that the next confirm() writes the *)
(* same count again instead of one that is lost or skipped.                *)
SmartCell == <<At("smart"), 1>>
Counted   == pc = "idle" /\ res.call = "confirm"
SmartCoherent ==
  pc # "smartsync" /\ vis[SmartCell].is = "smart" =>
    \A t \in smartMain : t.at = At("smart") =>
      \/ vis[SmartCell].n = t.n
      \/ vis[SmartCell].n = Confirmed(t).n /\ ~Counted

=============================================================================
