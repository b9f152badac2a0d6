---------------------------- MODULE EngineClaims ----------------------------
(***************************************************************************)
(* What the comments and documents of the I/O engine say of it, where the  *)
(* code does something else.  Each property restates one sentence; none of *)
(* them holds of Engine.                                                   *)
(***************************************************************************)
EXTENDS Engine

(* remount.rs:7-9: remounting read-write lets check() persist a repair: a  *)
(* writable check() that finds the Superblock in order leaves a good       *)
(* primary on the device.                                                  *)
CheckLeavesGoodPrimary ==
  [][res'.sbOk /\ pc' = "idle" /\ pc # "idle" /\ CanWrite =>
       \A p \in sbAt.primary : ChecksumOk(ReadReal(vis', p))]_vars

(* confirm.rs:8-9: the Superblock and its backup stay untouched on mount.  *)
ConfirmSparesSuperblock ==
  [][pc = "smartwrite" => \A c \in SbCell : vis'[c] = vis[c]]_vars

(* README.md:52-56: past the pointer block of LBA0 a failed read never     *)
(* aborts the mount.                                                       *)
MountSurvivesFailedReads ==
  [][res'.call = "mount_refused" /\ res.call # "mount_refused" =>
       SbPrimary(ReportOf(vis, 0)) = {}]_vars

=============================================================================
