-------------------------------- MODULE Mkfs --------------------------------
(***************************************************************************)
(* mkfs_cafs (mkfs_cafs.rs): the format of a regular file or of a block    *)
(* device, one step for every write and barrier it issues, over the device *)
(* of Medium.  A power loss or a kill may interrupt it anywhere, and it    *)
(* may be run again on what is left.  Whether a block device is accepted   *)
(* is decided in Safety, which composes the two.                           *)
(***************************************************************************)
EXTENDS Volume, Sequences

CONSTANTS
  SyncErrors,   \* bound: barriers that report an error
  MaxMishaps    \* bound: these, power losses, kills and failing writes

ASSUME MkfsBoundsAssumption == SyncErrors \in Nat /\ MaxMishaps \in Nat

VARIABLES
  vis, surv,    \* the target, see Medium
  target,       \* "file", "partition" or whole "disk"
  at,           \* the next step of Plan; 0 when the tool is not running
  verdict,      \* how the last run ended
  syncErrors,   \* barriers that failed so far
  mishaps       \* mishaps so far

vars == <<vis, surv, target, at, verdict, syncErrors, mishaps>>

M == INSTANCE Medium

-----------------------------------------------------------------------------
(* What the tool may find on the target.                                   *)
Zero  == Junk
Noise == [Junk EXCEPT !.n = 1]

Blank == [c \in Cell |-> Zero]

(* A CAFS volume in use, with its mount count.                             *)
Used == [Formatted(CRC32C) EXCEPT ![<<At("smart"), 1>>] = SmartTable(1)]

(* The start of the device cleared with dd, as the tool itself suggests:   *)
(* what lies at the end survives.                                          *)
FrontCell(c) ==
  c[1] \in TableRegion \cup {At("superblock")} \/ c[1][1] = "head"
Cleared == [c \in Cell |-> IF FrontCell(c) THEN Zero ELSE Used[c]]

(* A CAFS volume of another size: the structures of the end are elsewhere. *)
OtherSize ==
  [c \in Cell |-> IF ~FrontCell(c) THEN Noise
                  ELSE IF c = <<Block("head", 0), 2>> THEN Ptr(Beyond, CRC32C)
                  ELSE Used[c]]

(* A file system of another kind, and swap space.  The mark of swap lies   *)
(* at 4086, in the last quarter of the block of slot 1.                    *)
Foreign == [c \in Cell |-> IF FrontCell(c) THEN Noise ELSE Zero]
SwapMark == [Junk EXCEPT !.n = 2]
SwapCell == <<Block("head", 1), 2>>
Swap == [c \in Cell |-> IF c = SwapCell THEN SwapMark ELSE Zero]

Found == {Blank, Used, Cleared, OtherSize, Foreign, Swap}

-----------------------------------------------------------------------------
(* The order of the writes: the structures, the tail mirror, the head,     *)
(* each group with a barrier behind it.  A mirror is all six slots, also   *)
(* those the instance keeps no cells of.                                   *)
SYNC == <<"sync", 0>>
Structures ==
  <<At("superblock"), At("function_table"), At("smart"), At("sb_backup")>>
Mirror(d) == [i \in 1..6 |-> Block(d, i - 1)]

(* Variants for mutation: the head before the structures; no last barrier. *)
HeadFirst ==
  Mirror("head") \o <<SYNC>> \o Mirror("tail") \o <<SYNC>> \o Structures \o <<SYNC>>
NoLastSync ==
  Structures \o <<SYNC>> \o Mirror("tail") \o <<SYNC>> \o Mirror("head")

Plan ==
  Structures \o <<SYNC>> \o Mirror("tail") \o <<SYNC>> \o Mirror("head") \o <<SYNC>>

(* Variant for mutation: the primary sub-block is left for later.          *)
FormatWithoutMagic(r) ==
  [c \in Parts(r) \cap Cell |->
     IF c[2] = 1 /\ r \in PtrRegion THEN Zero ELSE Formatted(CRC32C)[c]]

FormatWrite(r) == [c \in Parts(r) \cap Cell |-> Formatted(CRC32C)[c]]

Init ==
  /\ \E v \in Found : M!Settled(v)
  /\ target \in {"file", "partition", "disk"}
  /\ at = 0 /\ verdict = "none" /\ syncErrors = 0 /\ mishaps = 0

(* A regular file is created or truncated: all of it reads as zero.  Only  *)
(* the file system could bring the old contents back, whole.               *)
Truncate == vis' = Blank /\ surv' = [c \in Cell |-> {Blank[c]}]

StartFile ==
  /\ at = 0 /\ target = "file"
  /\ Truncate
  /\ at' = 1 /\ verdict' = "none"
  /\ UNCHANGED <<target, syncErrors, mishaps>>

(* The size argument is looked at after the file has been truncated.       *)
TooSmall ==
  /\ at = 0 /\ target = "file" /\ mishaps < MaxMishaps
  /\ Truncate
  /\ verdict' = "died" /\ mishaps' = mishaps + 1
  /\ UNCHANGED <<target, at, syncErrors>>

(* The device is held: from here on nobody else can claim it.              *)
StartDevice ==
  /\ at = 0 /\ target # "file"
  /\ at' = 1 /\ verdict' = "none"
  /\ UNCHANGED <<vis, surv, target, syncErrors, mishaps>>

WriteNext ==
  /\ at \in DOMAIN Plan /\ Plan[at] # SYNC
  /\ M!WriteCells(FormatWrite(Plan[at]))
  /\ at' = at + 1
  /\ UNCHANGED <<target, verdict, syncErrors, mishaps>>

WriteFails ==
  /\ at \in DOMAIN Plan /\ Plan[at] # SYNC /\ mishaps < MaxMishaps
  /\ \E k \in 0..2 : M!WriteFails(FormatWrite(Plan[at]), Region \X (1..k))
  /\ at' = 0 /\ verdict' = "died" /\ mishaps' = mishaps + 1
  /\ UNCHANGED <<target, syncErrors>>

(* sync_data().ok(): whether the barrier held is not looked at.            *)
SyncNext ==
  /\ at \in DOMAIN Plan /\ Plan[at] = SYNC
  /\ \/ M!Sync /\ UNCHANGED <<syncErrors, mishaps>>
     \/ /\ syncErrors < SyncErrors /\ syncErrors' = syncErrors + 1
        /\ mishaps < MaxMishaps /\ mishaps' = mishaps + 1
        /\ M!SyncFails
  /\ at' = at + 1
  /\ UNCHANGED <<target, verdict>>

(* Variant for mutation: runs one step past the last barrier.              *)
DoneOverruns ==
  /\ at = Len(Plan) + 1
  /\ at' = at + 1 /\ verdict' = "formatted"
  /\ UNCHANGED <<vis, surv, target, syncErrors, mishaps>>

Done ==
  /\ at = Len(Plan) + 1
  /\ at' = 0 /\ verdict' = "formatted"
  /\ UNCHANGED <<vis, surv, target, syncErrors, mishaps>>

Kill ==
  /\ at # 0 /\ mishaps < MaxMishaps /\ mishaps' = mishaps + 1
  /\ at' = 0 /\ verdict' = "none"
  /\ UNCHANGED <<vis, surv, target, syncErrors>>

(* Medium's PowerCut: the images of the three groups of writes are         *)
(* independent of each other, and far sooner enumerated one by one.        *)
PowerCut ==
  \E f \in M!Images(SbCell \cup TableCell),
     g \in M!Images({c \in PtrCell : c[1][1] = "tail"}),
     h \in M!Images({c \in PtrCell : c[1][1] = "head"}) :
    /\ vis' = [c \in Cell |-> CASE c \in DOMAIN f -> f[c] [] c \in DOMAIN g -> g[c]
                               [] c \in DOMAIN h -> h[c] [] OTHER -> vis[c]]
    /\ surv' = [c \in Cell |-> {vis'[c]}]

PowerLoss ==
  /\ mishaps < MaxMishaps /\ mishaps' = mishaps + 1
  /\ PowerCut
  /\ at' = 0
  /\ verdict' = IF verdict = "formatted" THEN verdict ELSE "none"
  /\ UNCHANGED <<target, syncErrors>>

FormatStep ==
  \/ StartFile \/ TooSmall \/ WriteNext \/ WriteFails \/ SyncNext \/ Done

-----------------------------------------------------------------------------
MkfsTypeOK ==
  /\ M!MediumTypeOK
  /\ target \in {"file", "partition", "disk"}
  /\ at \in 0 .. (Len(Plan) + 1)
  /\ verdict \in {"none", "formatted", "died", "refused"}
  /\ syncErrors \in 0..SyncErrors /\ mishaps \in 0..MaxMishaps

(* A barrier that fails goes unnoticed, and the format goes on and reports *)
(* success: what follows is promised only if none did.                     *)
BarriersHeld == syncErrors = 0

(* Whenever a format is cut short, what it leaves either does not mount,   *)
(* or leads to a Superblock, or to a backup of it, that verifies: mount()  *)
(* and check() bring the volume back.                                      *)
Report(v) == SlotReport(0, PtrAt(v, "head", 0), PtrAt(v, "tail", 0))
Sound(v)  == \E b \in SbPrimary(Report(v)) \cup SbBackup(Report(v)) :
               ChecksumOk(ReadReal(v, b))
Vital     == UNION {Parts(r) : r \in {Block("head", 0), Block("tail", 0)} \cup SbRegion}
Mounts(v) == SbPrimary(Report(v)) # {}
NeverStranded ==
  BarriersHeld =>
    \A f \in M!Images(Vital) : Mounts(M!Overlay(f)) => Sound(M!Overlay(f))

(* A volume reported as formatted is the one the engine expects to mount,  *)
(* and a power loss at any later time does not change it.                  *)
FormattedIsDurable ==
  verdict = "formatted" /\ BarriersHeld =>
    \A c \in Cell : surv[c] = {Formatted(CRC32C)[c]}

(* mkfs_cafs.rs:181-182 after fs.info section 13.2: the structures are     *)
(* written and synced before the first pointer block is, and the mirror at *)
(* the tail before the head.                                               *)
Group(r)    == IF r \in SbRegion \cup TableRegion THEN 1 ELSE IF r[1] = "tail" THEN 2 ELSE 3
Writing     == at \in DOMAIN Plan /\ Plan[at] # SYNC
CommitOrder ==
  [][Writing /\ vis' # vis /\ BarriersHeld =>
       \A c \in Cell : Group(c[1]) < Group(Plan[at]) =>
                          surv[c] = {Formatted(CRC32C)[c]}]_vars

=============================================================================
