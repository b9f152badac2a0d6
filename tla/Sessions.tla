------------------------------- MODULE Sessions -------------------------------
(***************************************************************************)
(* `cafsctl check --repair' over a regular file that another process has   *)
(* mounted: nothing in mount() keeps the second one out (mount.rs:33; only *)
(* a block device is claimed, device.rs:64-71).  One session is Engine's,  *)
(* the other one RepairTool's.  Each has its own reports and its own       *)
(* Superblock in memory, they share the device, and their steps interleave *)
(* at every device operation.                                              *)
(***************************************************************************)
EXTENDS Engine

VARIABLES   \* the session of the tool
  pc2, mode2, rw2, opts2, anchors2, sbAt2, superblock2, smartMain2, todo2, res2

first  == <<pc, session, todo, res>>
second == <<pc2, mode2, rw2, opts2, anchors2, sbAt2, superblock2, smartMain2,
            todo2, res2>>
both   == <<vars, second>>

Second == INSTANCE RepairTool WITH
  pc <- pc2, mode <- mode2, rw <- rw2, opts <- opts2, anchors <- anchors2,
  sbAt <- sbAt2, superblock <- superblock2, smartMain <- smartMain2,
  todo <- todo2, res <- res2

SessionsInit == Init /\ Second!Init

(* The power goes for both at once.                                        *)
PowerLossBoth == PowerLoss /\ Second!Forget /\ res2' = NoResult

SessionsNext ==
  \/ (Running \/ Calls \/ Kill) /\ UNCHANGED second
  \/ (Second!Tool \/ Second!Kill) /\ UNCHANGED first
  \/ pc2 \in DamageWhen /\ Damage /\ UNCHANGED second
  \/ PowerLossBoth

SessionsSpec == SessionsInit /\ [][SessionsNext]_both

-----------------------------------------------------------------------------
(* What either session reports as repaired is complete and durable, also   *)
(* when the other one is in the middle of writing the same end.            *)
EitherRepairedIsDurable ==
  [][ReportedDurable /\ Second!ReportedDurable]_both

=============================================================================
