---------------------------- MODULE FaultDevice ----------------------------
(***************************************************************************)
(* The fault-injecting device every crash test of the engine runs on       *)
(* (fault.rs): a cache, the durable image, and a log of operations from    *)
(* which an image after power loss is replayed.  Medium is what the engine *)
(* models rely on; this module shows that FaultDevice provides it.         *)
(*                                                                         *)
(* The device is a row of granules and writes cover whole granules; the    *)
(* coin that decides which granules of an unsynced write land is a choice. *)
(* The counters of operations are left out.                                *)
(***************************************************************************)
EXTENDS Integers, Sequences, FiniteSets, FiniteSetsExt

CONSTANTS
  Size,       \* granules of the device
  Data,       \* what a granule may hold
  Budgets,    \* the arguments of fail_writes_after
  MaxOps,     \* bound: logged operations between two resets
  MaxPokes    \* bound: pokes in a behaviour

ASSUME SizeAssumption == Size \in Nat \ {0}
ASSUME BudgetsAssumption == Budgets \subseteq Nat
ASSUME LimitsAssumption == MaxOps \in Nat /\ MaxPokes \in Nat

Granule == 0 .. (Size - 1)
Image   == [Granule -> Data]

VARIABLES
  cache,       \* what a reader sees
  durable,     \* what survives a power cut with every unsynced write dropped
  epochBase,   \* the image the log is replayed over
  log,         \* the operations since begin_recording
  budget,      \* option of the writes that may still succeed, of those
               \* granted by fail_writes_after
  pokes        \* pokes so far

vars == <<cache, durable, epochBase, log, budget, pokes>>

Write(W) == [op |-> "write", data |-> W]
SyncOp   == [op |-> "sync", data |-> <<>>]

Paint(img, W) == [g \in Granule |-> IF g \in DOMAIN W THEN W[g] ELSE img[g]]

(* The writes a caller may issue: contiguous runs of granules.             *)
Runs   == {lo .. hi : lo \in Granule, hi \in Granule} \ {{}}
Writes == UNION {[run -> Data] : run \in Runs}

-----------------------------------------------------------------------------
(* crash_image at position prefix of the log, where K holds the pairs      *)
(* <<operation, granule>> the coin lets land among those not yet synced.   *)

(* Variant for mutation: the first barrier is taken for the last one.      *)
FirstSync(prefix) ==
  LET syncs == {i \in 1 .. prefix : log[i].op = "sync"}
  IN IF syncs = {} THEN 0 ELSE Min(syncs)

LastSync(prefix) == Max({0} \cup {i \in 1 .. prefix : log[i].op = "sync"})

Landed(i, prefix, K) ==
  {g \in DOMAIN log[i].data : i <= LastSync(prefix) \/ <<i, g>> \in K}

CrashImage(prefix, K) ==
  LET img[i \in 0 .. prefix] ==
        IF i = 0 THEN epochBase
        ELSE Paint(img[i - 1],
                   [g \in Landed(i, prefix, K) |-> log[i].data[g]])
  IN img[prefix]

InFlight(prefix) ==
  {e \in (1 .. prefix) \X Granule :
     e[1] > LastSync(prefix) /\ e[2] \in DOMAIN log[e[1]].data}

DropAll == {}
KeepAll == InFlight(Len(log))

CrashImages(prefix) == {CrashImage(prefix, K) : K \in SUBSET InFlight(prefix)}

-----------------------------------------------------------------------------
(* from_image.                                                             *)
FromImage(img) ==
  /\ cache' = img /\ durable' = img /\ epochBase' = img
  /\ log' = <<>>
  /\ budget' = {}

Init ==
  /\ cache \in Image /\ durable = cache /\ epochBase = cache
  /\ log = <<>>
  /\ budget = {} /\ pokes = 0

(* Variant for mutation: the log survives the new baseline.                *)
BeginRecordingKeepsLog ==
  /\ durable' = cache /\ epochBase' = cache
  /\ log' = log
  /\ UNCHANGED <<cache, budget, pokes>>

BeginRecording ==
  /\ durable' = cache /\ epochBase' = cache
  /\ log' = <<>>
  /\ UNCHANGED <<cache, budget, pokes>>

(* Variant for mutation: the budget is not looked at.                      *)
WriteUnbudgeted(W) ==
  /\ Len(log) < MaxOps
  /\ cache' = Paint(cache, W)
  /\ log' = Append(log, Write(W))
  /\ budget' = {n - 1 : n \in budget}
  /\ UNCHANGED <<durable, epochBase, pokes>>

(* A write over the budget fails and leaves no trace: it is not a step.    *)
WriteAt(W) ==
  /\ Len(log) < MaxOps
  /\ 0 \notin budget
  /\ cache' = Paint(cache, W)
  /\ log' = Append(log, Write(W))
  /\ budget' = {n - 1 : n \in budget}
  /\ UNCHANGED <<durable, epochBase, pokes>>

(* Variant for mutation: the barrier moves the baseline of the log too.    *)
SyncMovesBase ==
  /\ Len(log) < MaxOps
  /\ durable' = cache /\ epochBase' = cache
  /\ log' = Append(log, SyncOp)
  /\ UNCHANGED <<cache, budget, pokes>>

Sync ==
  /\ Len(log) < MaxOps
  /\ durable' = cache
  /\ log' = Append(log, SyncOp)
  /\ UNCHANGED <<cache, epochBase, budget, pokes>>

FailWritesAfter(n) ==
  /\ budget' = {n}
  /\ UNCHANGED <<cache, durable, epochBase, log, pokes>>

(* Corruption outside the stream of operations: "setup only, call before   *)
(* begin_recording", that is, while nothing is logged.                     *)
Poke(g, x) ==
  /\ log = <<>> /\ pokes < MaxPokes /\ pokes' = pokes + 1
  /\ cache' = [cache EXCEPT ![g] = x]
  /\ durable' = [durable EXCEPT ![g] = x]
  /\ epochBase' = [epochBase EXCEPT ![g] = x]
  /\ UNCHANGED <<log, budget>>

(* Power is lost and a new device is made from what is left.               *)
PowerLoss ==
  /\ \E img \in CrashImages(Len(log)) : FromImage(img)
  /\ UNCHANGED pokes

Next ==
  \/ BeginRecording
  \/ \E W \in Writes : WriteAt(W)
  \/ Sync
  \/ \E n \in Budgets : FailWritesAfter(n)
  \/ \E g \in Granule, x \in Data : Poke(g, x)
  \/ PowerLoss

Spec == Init /\ [][Next]_vars

-----------------------------------------------------------------------------
(* The images are images, the log is made of writes and barriers, and no   *)
(* write is ever let through over the budget of fail_writes_after.         *)
FaultTypeOK ==
  /\ cache \in Image /\ durable \in Image /\ epochBase \in Image
  /\ Len(log) <= MaxOps
  /\ \A i \in DOMAIN log : log[i] = SyncOp \/ \E W \in Writes : log[i] = Write(W)
  /\ budget \subseteq Nat /\ Cardinality(budget) <= 1
  /\ pokes \in 0..MaxPokes

(* What the granule may hold after power loss: its durable content, or any *)
(* write of it not yet covered by a barrier.                               *)
Surviving(g) ==
  {durable[g]} \cup
  {log[i].data[g] : i \in {j \in (LastSync(Len(log)) + 1) .. Len(log) :
                              g \in DOMAIN log[j].data}}

M == INSTANCE Medium WITH Cell <- Granule, Content <- Data, vis <- cache,
                          surv <- [g \in Granule |-> Surviving(g)]

(* FaultDevice is a device as the engine models assume it: every operation *)
(* is one of Medium, and what a power loss leaves is what Medium allows.   *)
ImplementsMedium == M!Spec

(* The crash images a test can ask for are exactly the outcomes of a power *)
(* loss under the contract: none is missed, and none is invented.          *)
EveryOutcome ==
  CrashImages(Len(log)) = {M!Overlay(f) : f \in M!Images(Granule)}

(* durable_image and visible_image, kept beside the log, are the two       *)
(* extreme replays of it.                                                  *)
Extremes ==
  /\ durable = CrashImage(Len(log), DropAll)
  /\ cache = CrashImage(Len(log), KeepAll)

(* A sweep over every prefix of the log is a sweep over every moment of    *)
(* the recording: later operations do not change what an earlier crash     *)
(* leaves.                                                                 *)
PastIsFixed ==
  [][log # <<>> /\ log' # <<>> =>
       \A p \in 0 .. Len(log) : CrashImages(p)' = CrashImages(p)]_vars

=============================================================================
