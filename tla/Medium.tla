------------------------------- MODULE Medium -------------------------------
(***************************************************************************)
(* What the I/O engine may rely on from a block device: the contract of    *)
(* the Device trait (device.rs) together with the power-loss model written *)
(* at the top of fault.rs.  Writes land in a volatile cache that reads see *)
(* at once, sync is the only durability barrier, and on power loss every   *)
(* 512-byte granule written since the last sync lands or not, on its own.  *)
(*                                                                         *)
(* The device is a function from cells (granules) to contents.  vis is     *)
(* what a reader sees; surv[c] is the set of contents cell c may hold      *)
(* after power is lost now.                                                *)
(***************************************************************************)
EXTENDS Naturals

CONSTANTS Cell,      \* the granules the model tells apart
          Content    \* what a granule may hold

VARIABLES vis,       \* [Cell -> Content]
          surv       \* [Cell -> SUBSET Content]

medium == <<vis, surv>>

MediumTypeOK ==
  /\ vis \in [Cell -> Content]
  /\ surv \in [Cell -> SUBSET Content]

(* What a reader sees always is one of the outcomes of a power loss: the   *)
(* model never forgets the newest write of a granule.                      *)
VisibleMaySurvive == \A c \in Cell : vis[c] \in surv[c]

Settled(v) == vis = v /\ surv = [c \in Cell |-> {v[c]}]

(* A write of the cells in DOMAIN W.                                       *)
WriteCells(W) ==
  /\ vis' = [c \in Cell |-> IF c \in DOMAIN W THEN W[c] ELSE vis[c]]
  /\ surv' = [c \in Cell |->
                IF c \in DOMAIN W THEN surv[c] \cup {W[c]} ELSE surv[c]]

(* A write that reports an error after the cells in D had landed.          *)
WriteFails(W, D) == WriteCells([c \in DOMAIN W \cap D |-> W[c]])

Sync ==
  /\ vis' = vis
  /\ surv' = [c \in Cell |-> {vis[c]}]

(* fdatasync reports an error: nothing is known to have become durable.    *)
SyncFails == UNCHANGED medium

(* The images of the cells of C a power loss may leave, given only on the  *)
(* cells whose fate is open.                                               *)
Open(C) == {c \in C : surv[c] # {vis[c]}}
Images(C) ==
  {f \in [Open(C) -> UNION {surv[c] : c \in Open(C)}] :
      \A c \in Open(C) : f[c] \in surv[c]}
Overlay(f) == [c \in Cell |-> IF c \in DOMAIN f THEN f[c] ELSE vis[c]]

PowerCut == \E f \in Images(Cell) :
  /\ vis' = Overlay(f)
  /\ surv' = [c \in Cell |-> {Overlay(f)[c]}]

(* Damage on the media itself, outside the stream of operations.           *)
Damaged(c, x) == surv[c] # {x}
Poke(c, x) ==
  /\ vis' = [vis EXCEPT ![c] = x]
  /\ surv' = [surv EXCEPT ![c] = {x}]

-----------------------------------------------------------------------------
Init == \E v \in [Cell -> Content] : Settled(v)

Next ==
  \/ \E C \in SUBSET Cell : \E W \in [C -> Content] : WriteCells(W)
  \/ Sync
  \/ PowerCut
  \/ \E c \in Cell, x \in Content : Poke(c, x)

Spec == Init /\ [][Next]_medium

=============================================================================
