-------------------------------- MODULE Safety --------------------------------
(***************************************************************************)
(* The guards in front of a format (safety.rs, and mkfs_cafs.rs up to its  *)
(* exclusive open), on a machine that goes on changing meanwhile: the      *)
(* probes of check_target look at the block device one after the other,    *)
(* and only the open that follows them claims it.  Composed with Mkfs.     *)
(***************************************************************************)
EXTENDS Mkfs

CONSTANT MaxChanges   \* bound: things other programs do to the device

ASSUME ChangesAssumption == MaxChanges \in Nat

VARIABLES
  user,         \* who has claimed the device
  parts,        \* the partition of a whole disk: "none", "unused" or "mounted"
  probe,        \* the next probe of check_target; 0 when none is under way
  altered,      \* have others changed the device since the first probe?
  changes       \* things other programs did so far

machine == <<user, parts, altered, changes>>
allvars == <<vars, machine, probe>>

-----------------------------------------------------------------------------
(* detect_signature, on the first 128 KiB.                                 *)
Signature(v) ==
  CASE v[<<Block("head", 0), 1>>].is = "ptr" -> "cafs"
    [] SwapCell \in Cell /\ v[SwapCell] = SwapMark -> "swap"
    [] \A c \in Cell : FrontCell(c) => v[c] = Zero -> "empty"
    [] OTHER -> "other"
OVERWRITABLE == {"empty", "swap", "cafs"}

(* The probes in their order, and what makes each refuse the target.  A    *)
(* session holds the device without being listed anywhere.                 *)
Probes == <<"partitions", "holders", "mounts", "swaps", "signature">>

(* Variant for mutation: the data on the device is not looked at.          *)
AlarmsBlind(p) ==
  \/ p = "partitions" /\ parts # "none"
  \/ p = "holders" /\ user = "holder"
  \/ p = "mounts"  /\ user = "mount"
  \/ p = "swaps"   /\ user = "swap"

Alarms(p) ==
  \/ p = "partitions" /\ parts # "none"
  \/ p = "holders"    /\ user = "holder"
  \/ p = "mounts"     /\ user = "mount"
  \/ p = "swaps"      /\ user = "swap"
  \/ p = "signature"  /\ Signature(vis) \notin OVERWRITABLE

SafetyInit ==
  /\ Init /\ probe = 0 /\ user = "none"
  /\ parts \in IF target = "disk" THEN {"none", "unused"} ELSE {"none"}
  /\ altered = FALSE /\ changes = 0

CheckTarget ==
  /\ at = 0 /\ probe = 0 /\ target # "file"
  /\ probe' = 1 /\ altered' = FALSE /\ verdict' = "none"
  /\ UNCHANGED <<vis, surv, target, at, syncErrors, mishaps, user, parts, changes>>

ProbePasses ==
  /\ probe \in DOMAIN Probes /\ ~Alarms(Probes[probe])
  /\ probe' = probe + 1
  /\ UNCHANGED <<vars, machine>>

Refuse ==
  /\ probe' = 0 /\ verdict' = "refused"
  /\ UNCHANGED <<vis, surv, target, at, syncErrors, mishaps, machine>>

ProbeAlarms ==
  probe \in DOMAIN Probes /\ Alarms(Probes[probe]) /\ Refuse

(* The kernel grants O_EXCL to one opener, and on a whole disk only while  *)
(* no partition of it is claimed.                                          *)
Claimable == user = "none" /\ parts # "mounted"

(* Variant for mutation: the device is opened without O_EXCL.              *)
OpenShared ==
  probe = Len(Probes) + 1 /\ StartDevice /\ probe' = 0 /\ UNCHANGED machine

OpenExclusive ==
  /\ probe = Len(Probes) + 1 /\ Claimable
  /\ StartDevice /\ probe' = 0 /\ UNCHANGED machine

OpenRefused == probe = Len(Probes) + 1 /\ ~Claimable /\ Refuse

-----------------------------------------------------------------------------
(* The rest of the machine, while mkfs_cafs does not hold the device.      *)
Other ==
  /\ at = 0 /\ target # "file"
  /\ changes < MaxChanges /\ changes' = changes + 1

Claim(u) ==
  /\ Other /\ Claimable /\ user' = u
  /\ u = "mount" => Signature(vis) = "other"
  /\ u = "swap" => Signature(vis) = "swap"
  /\ UNCHANGED <<vars, parts, probe, altered>>

Release ==
  /\ Other /\ user # "none" /\ user' = "none"
  /\ UNCHANGED <<vars, parts, probe, altered>>

(* Another program formats the device, partitions the disk, or mounts a    *)
(* partition of it.                                                        *)
FormatForeign ==
  /\ Other /\ Claimable
  /\ vis' = Foreign /\ surv' = [c \in Cell |-> {Foreign[c]}]
  /\ altered' = TRUE /\ verdict' = "none"
  /\ UNCHANGED <<target, at, syncErrors, mishaps, user, parts, probe>>

Partition ==
  /\ Other /\ Claimable /\ target = "disk" /\ parts = "none"
  /\ parts' = "unused" /\ altered' = TRUE
  /\ UNCHANGED <<vars, user, probe>>

MountPartition ==
  /\ Other /\ Claimable /\ parts = "unused" /\ parts' = "mounted"
  /\ UNCHANGED <<vars, user, probe, altered>>

(* After a power loss nothing is claimed any more.                         *)
PowerLossAll ==
  /\ PowerLoss /\ probe' = 0 /\ user' = "none"
  /\ parts' = IF parts = "none" THEN parts ELSE "unused"
  /\ UNCHANGED <<altered, changes>>

SafetyNext ==
  \/ probe = 0 /\ FormatStep /\ UNCHANGED <<machine, probe>>
  \/ Kill /\ UNCHANGED <<machine, probe>>
  \/ CheckTarget \/ ProbePasses \/ ProbeAlarms \/ OpenExclusive \/ OpenRefused
  \/ \E u \in {"mount", "swap", "holder", "session"} : Claim(u)
  \/ Release \/ FormatForeign \/ Partition \/ MountPartition \/ PowerLossAll

Spec == SafetyInit /\ [][SafetyNext]_allvars

-----------------------------------------------------------------------------
(* mkfs_cafs never writes to a device that anybody else uses, although it  *)
(* has looked for users only before it opened it.                          *)
NeverWhileUsed == at # 0 /\ target # "file" => Claimable

(* safety.rs:6-12: what a format destroys was expendable when it was looked*)
(* at: empty, swap or CAFS, and not a disk with partitions.  Only what     *)
(* others put there between the probe and the open is not protected.       *)
OnlyExpendable ==
  [][at = 0 /\ at' = 1 /\ target # "file" /\ ~altered =>
       Signature(vis) \in OVERWRITABLE /\ parts = "none"]_allvars

(* A device that carries a CAFS volume, whatever a power loss leaves, can  *)
(* be formatted again wherever its format is cut short: what is left is    *)
(* never taken for foreign data (safety.rs:176).                           *)
SurelyCafs == \A x \in surv[<<Block("head", 0), 1>>] : x.is = "ptr"
AcceptedAgain == [][at # 0 /\ SurelyCafs => SurelyCafs']_allvars

=============================================================================
