----------------------------- MODULE RepairTool -----------------------------
(***************************************************************************)
(* `cafsctl check --repair' (cafsctl.rs), run again and again over one     *)
(* device: mount read-write, check(), exit without close().                *)
(***************************************************************************)
EXTENDS Engine

ToolMount == MountFull(TRUE)
ToolCheck == res.call = "mount" /\ CheckStart
ToolExit  ==
  /\ pc = "idle" /\ res.call \in {"check", "check_failed"}
  /\ Forget /\ res' = NoResult
  /\ UNCHANGED <<vis, surv, unreadable, damage, mishaps>>

Tool == ToolMount \/ MountRefused \/ ToolCheck \/ CheckStep \/ ToolExit
ToolNext ==
  \/ Tool
  \/ \E c \in Cell : Corrupt(c)
  \/ \E r \in Region : BadSector(r)
  \/ Kill \/ PowerLoss

(* Whoever repairs a volume runs the tool until it has ended.              *)
ToolSpec == Init /\ [][ToolNext]_vars /\ WF_vars(Tool)

(* A check() that runs always returns, or its process dies, although an    *)
(* end that cannot be rewritten is skipped and the rest goes on.           *)
CallsReturn == pc \notin {"closed", "idle"} ~> pc \in {"closed", "idle"}

(* Once damage and mishaps are over, running the tool restores all the     *)
(* redundancy there is something left to restore from, unless the volume   *)
(* cannot be mounted: both ends of every slot, then the Superblock.        *)
SlotRestored(s) ==
  \/ ~Recoverable(ReportOf(vis, s))
  \/ EndIntact("head", s) /\ EndIntact("tail", s)
SuperblockRestored ==
  \/ ChecksumOk(ReadReal(vis, At("superblock")))
  \/ SbBackup(ReportOf(vis, 0)) = {}
  \/ ~BackupFine(At("sb_backup"))
Mountable == \E p \in SbPrimary(ReportOf(vis, 0)) : p \notin unreadable
EventuallyRestored ==
  <>[](Mountable => SuperblockRestored /\ \A s \in Slots : SlotRestored(s))

=============================================================================
