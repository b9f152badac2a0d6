------------------------------- MODULE Volume -------------------------------
(***************************************************************************)
(* The granules of a CAFS volume the models keep, what they hold, and what *)
(* mkfs_cafs leaves in them (layout.rs, mkfs_cafs.rs).                     *)
(***************************************************************************)
EXTENDS Anchor, FiniteSets

CONSTANT Slots        \* the anchor slots of the instance, a subset of 0..5

ASSUME SlotsAssumption == Slots \subseteq 0..5 /\ 0 \in Slots

(***************************************************************************)
(* Cells.  A region is one pointer block, <<side, slot>>, or one structure;*)
(* a cell <<region, part>> is a granule of it.  The Superblock and its     *)
(* backup are two granules of their eight: enough for a torn copy.         *)
(***************************************************************************)
Block(d, s)  == <<d, s>>
PtrRegion    == {Block(d, s) : d \in Side, s \in Slots}
SbRegion     == {At("superblock"), At("sb_backup")}
TableRegion  == {At("function_table"), At("smart")}
Parts(r)     == {<<r, 1>>, <<r, 2>>}
PtrCell      == PtrRegion \X {1, 2}
SbCell       == SbRegion \X {1, 2}
TableCell    == TableRegion \X {1}
Cell         == PtrCell \cup SbCell \cup TableCell
Region       == PtrRegion \cup SbRegion \cup TableRegion

Superblock       == [is |-> "superblock", to |-> Null, n |-> 0]
FunctionTable(t) == [is |-> "function_table", to |-> t, n |-> 0]
SmartTable(k)    == [is |-> "smart", to |-> Beyond, n |-> k]

Content == [is : {"ptr", "superblock", "function_table", "smart", "junk"},
            to : Structure \cup {Null, Beyond},
            n  : Nat]

(* The volume mkfs_cafs makes, with pointer checksum algorithm a.          *)
Formatted(a) ==
  [c \in Cell |->
     IF c \in PtrCell
     THEN BuildPtrBlock(a, PrimaryTarget(c[1][1], c[1][2]),
                        FallbackTarget(c[1][1], c[1][2]))[c[2]]
     ELSE IF c \in SbCell THEN Superblock
     ELSE IF c[1] = At("smart") THEN SmartTable(0)
     ELSE FunctionTable(At("smart"))]

-----------------------------------------------------------------------------
(* Reading the image v: a pointer block, and a 4 KiB structure as the two  *)
(* granules the model keeps of it.  Places the model holds no cells for    *)
(* never carry a Superblock.                                               *)
PtrAt(v, d, s) ==
  VerifyPtrBlock(v[<<Block(d, s), 1>>], v[<<Block(d, s), 2>>])
ReadReal(v, r) ==
  [p \in {1, 2} |-> IF <<r, p>> \in Cell THEN v[<<r, p>>] ELSE Junk]
ChecksumOk(sb) == \A p \in {1, 2} : sb[p].is = "superblock"

(* Cell c of a pointer block, holding x, points at nothing but what the    *)
(* format put behind it.                                                   *)
TruePointer(c, x) ==
  x.is = "ptr" => IF c[2] = 1 THEN x.to = PrimaryTarget(c[1][1], c[1][2])
                              ELSE x.to \in FallbackTarget(c[1][1], c[1][2])

=============================================================================
