-------------------------------- MODULE Resize --------------------------------
(***************************************************************************)
(* A volume on a device that grows and shrinks between sessions, which     *)
(* nothing on the volume records.  Sessions mount it and run check(): the  *)
(* decisions are those of Anchor, here over byte positions, so that a      *)
(* block may be read where another one, or part of it, was written.        *)
(*                                                                         *)
(* A granule of the device is named by its byte offset.  Pointers hold     *)
(* byte offsets.                                                           *)
(***************************************************************************)
EXTENDS Layout, FiniteSets

CONSTANTS
  Born,         \* the size of the device when it is formatted
  Sizes,        \* the sizes it may have later
  MaxResizes,   \* bound: changes of size
  MaxDamage,    \* bound: granules that are zeroed
  MaxMishaps    \* bound: kills and failing writes

ASSUME BornAssumption == Born \in Nat /\ Formattable(Born)
ASSUME SizesAssumption == Sizes \subseteq Nat /\ \A n \in Sizes : Openable(n)
ASSUME BoundsAssumption ==
  MaxResizes \in Nat /\ MaxDamage \in Nat /\ MaxMishaps \in Nat

(* Sizes no two of which have tail mirrors that overlap.                   *)
TailsApart(S) ==
  \A n, m \in S \cup {Born} : n # m => Disjoint(TailRegion(n), TailRegion(m))

VARIABLES
  size,         \* the present size of the device
  disk,         \* the granules the model keeps
  pc, anchors, sbAt, superblock, todo,  \* the session, as in Engine
  repaired,     \* has this check() rewritten an end?
  resizes, damage, mishaps

session == <<pc, anchors, sbAt, superblock, todo, repaired>>
vars == <<size, disk, session, resizes, damage, mishaps>>

-----------------------------------------------------------------------------
(* Granules, and what they hold.                                           *)
GRANULE == 1024
Cells(at, len) == {at + GRANULE * i : i \in 0 .. ((len - 1) \div GRANULE)}
BlockCells(d, s, n) == Cells(SlotOffset(d, s, n), slot_block_size(s))
CopyCells(at) == Cells(at, REAL_BLOCK_4K)

Zero        == Junk
Piece(t, i) == [is |-> t, to |-> Null, n |-> i]

(* The structures whose contents a repair reads or could spoil.            *)
Kept == {At("superblock"), At("sb_backup"), At("config")}

(* Sizes whose tail mirror lies over none of them.                         *)
Clear(S) ==
  \A n \in S, t \in Kept :
    Disjoint(TailRegion(n), [at |-> Place(t, Born), len |-> REAL_BLOCK_4K])

Cell ==
  (UNION {BlockCells(d, s, n) : d \in Side, s \in Slot, n \in Sizes \cup {Born}})
  \cup (UNION {CopyCells(Place(t, Born)) : t \in Kept})

(* Pieces of a structure are numbered; a copy of the Superblock that is    *)
(* read whole and in order verifies.                                       *)
Copy(t, at) == [c \in CopyCells(at) |->
                  Piece(IF t = At("config") THEN "config" ELSE "superblock",
                        (c - at) \div GRANULE)]
ReadAt(v, at, len, n) ==
  [i \in 0 .. ((len - 1) \div GRANULE) |->
     LET c == at + GRANULE * i IN IF c \in Cell /\ c < n THEN v[c] ELSE Zero]
ChecksumOk(sb) == \A i \in DOMAIN sb : sb[i] = Piece("superblock", i)

(* The block of slot s as it is written: its two parts, zero elsewhere.    *)
BlockImage(d, s, n, b) ==
  [c \in BlockCells(d, s, n) |->
     CASE c = SlotOffset(d, s, n) -> b[1]
       [] c = SlotOffset(d, s, n) + fallback_offset(s) -> b[2]
       [] OTHER -> Zero]
Written(v, W) == [c \in Cell |-> IF c \in DOMAIN W THEN W[c] ELSE v[c]]

(* Offsets for the places Anchor speaks of.                                *)
Target(d, s)   == Place(PrimaryTarget(d, s), Born)
Fallback(d, s) == {Place(t, Born) : t \in FallbackTarget(d, s)}
TrueBlock(d, s) == BuildPtrBlock(CRC32C, Target(d, s), Fallback(d, s))

Format ==
  [c \in Cell |->
     LET W == {BlockImage(d, s, Born, TrueBlock(d, s)) : d \in Side, s \in Slot}
              \cup {Copy(t, Place(t, Born)) : t \in Kept}
     IN IF \E w \in W : c \in DOMAIN w
        THEN (CHOOSE w \in W : c \in DOMAIN w)[c] ELSE Zero]

-----------------------------------------------------------------------------
PtrAt(v, d, s, n) ==
  LET b == ReadAt(v, SlotOffset(d, s, n), slot_block_size(s), n)
  IN VerifyPtrBlock(b[0], b[fallback_offset(s) \div GRANULE])
(* Variant for mutation: the reports are numbered from one.                *)
ScanFromOne(v, n) ==
  [s \in Slot |-> SlotReport(s + 1, PtrAt(v, "head", s, n), PtrAt(v, "tail", s, n))]
ScanAnchors(v, n) ==
  [s \in Slot |-> SlotReport(s, PtrAt(v, "head", s, n), PtrAt(v, "tail", s, n))]

NoSb == [primary |-> {}, backup |-> {}]
NoReports == [s \in Slot |-> SlotReport(s, {}, {})]

Forget ==
  /\ pc' = "closed" /\ anchors' = NoReports /\ sbAt' = NoSb
  /\ superblock' = <<>> /\ todo' = {} /\ repaired' = FALSE

Init ==
  /\ size = Born /\ disk = Format
  /\ pc = "closed" /\ anchors = NoReports /\ sbAt = NoSb
  /\ superblock = <<>> /\ todo = {} /\ repaired = FALSE
  /\ resizes = 0 /\ damage = 0 /\ mishaps = 0

(* The device is enlarged or truncated; what is cut off is gone.           *)
ChangeSize(n) ==
  /\ pc = "closed" /\ n # size /\ resizes < MaxResizes /\ resizes' = resizes + 1
  /\ size' = n
  /\ disk' = [c \in Cell |-> IF c < n THEN disk[c] ELSE Zero]
  /\ UNCHANGED <<session, damage, mishaps>>

Mount ==
  LET r == ScanAnchors(disk, size) IN
  /\ pc = "closed"
  /\ anchors' = r
  /\ sbAt' = [primary |-> SbPrimary(r[0]), backup |-> SbBackup(r[0])]
  /\ \E p \in SbPrimary(r[0]) :
       /\ p + REAL_BLOCK_4K <= size
       /\ superblock' = ReadAt(disk, p, REAL_BLOCK_4K, size)
  /\ pc' = "idle"
  /\ UNCHANGED <<size, disk, todo, repaired, resizes, damage, mishaps>>

(* No end leads to a Superblock that lies on the device.                   *)
MountRefused ==
  /\ pc = "closed"
  /\ \A p \in SbPrimary(ScanAnchors(disk, size)[0]) : p + REAL_BLOCK_4K > size
  /\ UNCHANGED vars

(* check(): the ends to rewrite, in order; every block is rebuilt from the *)
(* reports of the scan.                                                    *)
CheckStart ==
  LET bad(s) == {d \in Side : ~Good(anchors[s], d)} IN
  /\ pc = "idle"
  /\ todo' = {j \in Slot \X Side : j[2] \in bad(j[1]) /\ Recoverable(anchors[j[1]])}
  /\ pc' = IF todo' = {} THEN "superblock" ELSE "rewrite"
  /\ UNCHANGED <<size, disk, anchors, sbAt, superblock, repaired, resizes, damage,
                 mishaps>>

Before(i, j) == i[1] < j[1] \/ (i[1] = j[1] /\ i[2] = "head")
Due(j) == j \in todo /\ \A i \in todo : i = j \/ Before(j, i)

(* Variant for mutation: a tail block goes where the format put it.        *)
EndWriteAtBorn(j) ==
  {BlockImage(j[2], j[1], Born, b) : b \in RebuildPtrBlock(anchors[j[1]], j[2])}
EndWrite(j) ==
  {BlockImage(j[2], j[1], size, b) : b \in RebuildPtrBlock(anchors[j[1]], j[2])}

NextEnd(j) ==
  /\ todo' = todo \ {j}
  /\ pc' = IF todo' = {} THEN "superblock" ELSE "rewrite"
  /\ anchors' = IF todo' = {} /\ repaired' THEN ScanAnchors(disk', size) ELSE anchors
  /\ UNCHANGED <<size, sbAt, superblock, resizes, damage>>

RewriteEnd(j) ==
  /\ pc = "rewrite" /\ Due(j)
  /\ \E W \in EndWrite(j) : disk' = Written(disk, W)
  /\ repaired' = TRUE /\ mishaps' = mishaps
  /\ NextEnd(j)

(* The write stops half-way with an error.                                 *)
RewriteEndFails(j) ==
  /\ pc = "rewrite" /\ Due(j) /\ mishaps < MaxMishaps /\ mishaps' = mishaps + 1
  /\ \E W \in EndWrite(j), c \in BlockCells(j[2], j[1], size) :
       disk' = Written(disk, [x \in {y \in DOMAIN W : y < c} |-> W[x]])
  /\ repaired' = repaired
  /\ NextEnd(j)

(* check_superblock: adopt the backup and write it over the primary.       *)
SuperblockDone ==
  /\ pc = "superblock"
  /\ \/ ChecksumOk(superblock)
     \/ \A b \in sbAt.backup :
          ~ChecksumOk(ReadAt(disk, b, REAL_BLOCK_4K, size))
  /\ pc' = "checked"
  /\ UNCHANGED <<size, disk, anchors, sbAt, superblock, todo, repaired, resizes,
                 damage, mishaps>>

(* Variant for mutation: the copy goes to the wrong one of the two places. *)
RestoreOverBackup ==
  /\ pc = "superblock" /\ ~ChecksumOk(superblock)
  /\ \E b \in sbAt.backup :
       /\ ChecksumOk(ReadAt(disk, b, REAL_BLOCK_4K, size))
       /\ superblock' = ReadAt(disk, b, REAL_BLOCK_4K, size)
       /\ disk' = Written(disk, [c \in CopyCells(b) |-> superblock[(c - b) \div GRANULE]])
  /\ pc' = "checked"
  /\ UNCHANGED <<size, anchors, sbAt, todo, repaired, resizes, damage, mishaps>>

RestoreSuperblock ==
  /\ pc = "superblock" /\ ~ChecksumOk(superblock)
  /\ \E p \in sbAt.primary, b \in sbAt.backup :
       /\ ChecksumOk(ReadAt(disk, b, REAL_BLOCK_4K, size))
       /\ superblock' = ReadAt(disk, b, REAL_BLOCK_4K, size)
       /\ disk' = Written(disk, [c \in CopyCells(p) |->
                                   superblock'[(c - p) \div GRANULE]])
  /\ pc' = "checked"
  /\ UNCHANGED <<size, anchors, sbAt, todo, repaired, resizes, damage, mishaps>>

Close ==
  /\ pc \in {"idle", "checked"} /\ Forget
  /\ UNCHANGED <<size, disk, resizes, damage, mishaps>>

Kill ==
  /\ pc \in {"rewrite", "superblock"} /\ mishaps < MaxMishaps
  /\ mishaps' = mishaps + 1 /\ Forget
  /\ UNCHANGED <<size, disk, resizes, damage>>

Corrupt(c) ==
  /\ pc = "closed" /\ damage < MaxDamage /\ damage' = damage + 1
  /\ disk[c] # Zero /\ disk' = [disk EXCEPT ![c] = Zero]
  /\ UNCHANGED <<size, session, resizes, mishaps>>

Next ==
  \/ Mount \/ MountRefused \/ CheckStart \/ SuperblockDone \/ RestoreSuperblock \/ Close \/ Kill
  \/ \E j \in todo : RewriteEnd(j) \/ RewriteEndFails(j)
  \/ \E n \in Sizes : ChangeSize(n)
  \/ \E c \in Cell : Corrupt(c)

Spec == Init /\ [][Next]_vars

-----------------------------------------------------------------------------
(* Every variable has its type.                                            *)
ResizeTypeOK ==
  /\ size \in Sizes \cup {Born} /\ DOMAIN disk = Cell
  /\ pc \in {"closed", "idle", "rewrite", "superblock", "checked"}
  /\ todo \subseteq Slot \X Side /\ repaired \in BOOLEAN
  /\ \A s \in Slot : anchors[s].slot = s
  /\ resizes \in 0..MaxResizes /\ damage \in 0..MaxDamage
  /\ mishaps \in 0..MaxMishaps

(* tests/anchors.rs:166, "Real structures stay where they were": where the *)
(* format put something, check() never writes anything but just that, on a *)
(* device of any later size.                                               *)
RepairsRestore ==
  [][pc # "closed" =>
       \A c \in Cell : disk'[c] # disk[c] /\ Format[c] # Zero =>
                          disk'[c] = Format[c]]_vars

(* The same for the structures alone, the old mirror left aside.           *)
StructuresStay ==
  [][pc # "closed" =>
       \A t \in Kept : \A c \in CopyCells(Place(t, Born)) :
         disk'[c] # disk[c] => disk'[c] = Format[c]]_vars

(* A block that verifies at either end of the device as it is now holds    *)
(* the pointers of its own slot: no position at the new end falls on a     *)
(* block, or part of one, of another slot.                                 *)
BlocksTrue ==
  \A d \in Side, s \in Slot : \A b \in PtrAt(disk, d, s, size) :
    b.real = Target(d, s) /\ b.fallback \subseteq Fallback(d, s)

(* tests/anchors.rs:155, "check rebuilds it at the new end": a check() that*)
(* is not disturbed leaves a full mirror of every slot it could recover at *)
(* the end the device has now.                                             *)
MirrorRebuilt ==
  pc = "checked" /\ mishaps = 0 =>
    \A s \in Slot : Recoverable(anchors[s]) =>
      \A d \in Side : Complete(s, PtrAt(disk, d, s, size))

=============================================================================
