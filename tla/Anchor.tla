------------------------------- MODULE Anchor -------------------------------
(***************************************************************************)
(* Verification and reconstruction of the anchor pointer blocks            *)
(* (anchor.rs, check.rs, layout.rs), as operators on values.               *)
(*                                                                         *)
(* A pointer block has two parts in two different granules of the device:  *)
(* part 1 is the primary sub-block and part 2 the fallback sub-block, each *)
(* with a magic and a checksum of its own.  A part that carries both holds *)
(* is = "ptr", the place `to' it points at (offset and size: the size of a *)
(* structure is fixed by its place) and the id n of the checksum algorithm *)
(* that verifies it.  Any other content fails verification.                *)
(*                                                                         *)
(* Rust's Option<T> and Result<T, E> are sets with at most one element.    *)
(***************************************************************************)
EXTENDS Naturals

CRC32C   == 1
XXHASH32 == 2
Algo     == {CRC32C, XXHASH32}

Side == {"head", "tail"}

(* Every place of the device the engine addresses: <<name, slot>>.         *)
At(name) == <<name, 0>>
Null     == At("null")                    \* offset 0 in a pointer field
Beyond   == At("beyond")                  \* an offset past the device's end
Structure == {At("superblock"), At("sb_backup"), At("config"), At("parity"),
              At("meta"), At("function_table"), At("smart")}

(* What the primary part of a block on either end points at, and what its  *)
(* fallback part does: only slot 0 has one, and its tail copy swaps them.  *)
RealOf(s) == CASE s = 1 -> At("config")
               [] s = 2 -> At("parity")
               [] s = 3 -> At("meta")
               [] s \in {4, 5} -> At("function_table")
               [] OTHER -> At("superblock")
PrimaryTarget(d, s) ==
  IF s = 0 /\ d = "tail" THEN At("sb_backup") ELSE RealOf(s)
FallbackTarget(d, s) ==
  IF s # 0 THEN {}
  ELSE IF d = "head" THEN {At("sb_backup")} ELSE {At("superblock")}

-----------------------------------------------------------------------------
Ptr(t, a) == [is |-> "ptr", to |-> t, n |-> a]
Junk      == [is |-> "junk", to |-> Null, n |-> 0]

(* verify_ptr_block: the fallback counts only if it verifies with the      *)
(* algorithm of the primary.                                               *)
VerifyPtrBlock(part1, part2) ==
  {[real     |-> p.to,
    fallback |-> {f.to : f \in {x \in {part2} : x.is = "ptr" /\ x.n = p.n}},
    algo     |-> p.n] : p \in {x \in {part1} : x.is = "ptr"}}

SlotReport(s, h, t) == [slot |-> s, head |-> h, tail |-> t]

Chosen(r) == IF r.head # {} THEN r.head ELSE r.tail

Fallbacks(side) == UNION {b.fallback : b \in side}
Reals(side)     == {b.real : b \in side}

(* Variant for mutation: the backup is taken from the head's fallback only.*)
SbBackupHeadOnly(r) == Fallbacks(r.head)

(* SlotReport::sb_pair as two options: without a primary it returns None   *)
(* and the backup is not available either.                                 *)
SbPrimary(r) == IF r.head # {} THEN Reals(r.head) ELSE Fallbacks(r.tail)
SbBackup(r)  ==
  IF SbPrimary(r) = {} THEN {}
  ELSE IF Fallbacks(r.head) # {} THEN Fallbacks(r.head) ELSE Reals(r.tail)

Complete(s, side) == side # {} /\ (s = 0 => Fallbacks(side) # {})
Good(r, d) == Complete(r.slot, IF d = "head" THEN r.head ELSE r.tail)

Disagree(r) == \E h \in r.head, t \in r.tail :
  IF r.slot = 0
  THEN {h.real} # t.fallback \/ h.fallback # {t.real}
  ELSE h.real # t.real

(* check_pointer_blocks: can the slot be served or rebuilt at all?         *)
Recoverable(r) ==
  IF r.slot = 0 THEN SbBackup(r) # {} ELSE r.head # {} \/ r.tail # {}

(* build_ptr_block, restricted to the two parts that carry information; a  *)
(* fallback of None leaves zeroes.                                         *)
BuildPtrBlock(a, real, fb) ==
  [p \in {1, 2} |->
     IF p = 1 THEN Ptr(real, a)
     ELSE IF fb = {} THEN Junk ELSE Ptr(CHOOSE t \in fb : TRUE, a)]

(* The block of slot 0 for end d, pointing at Superblock x and backup y.   *)
SlotZeroBlock(d, a, x, y) ==
  IF d = "head" THEN BuildPtrBlock(a, x, {y}) ELSE BuildPtrBlock(a, y, {x})

(* Variants for mutation: the tail of slot 0 is not swapped; the checksum   *)
(* of the rebuilt primary part is not filled in.                           *)
RebuildUnswapped(r, d) ==
  IF r.slot = 0
  THEN {SlotZeroBlock("head", g.algo, x, y) :
          g \in Chosen(r), x \in SbPrimary(r), y \in SbBackup(r)}
  ELSE {BuildPtrBlock(g.algo, g.real, g.fallback) : g \in Chosen(r)}
RebuildUnsigned(r, d) ==
  {[b EXCEPT ![1] = Junk] : b \in RebuildUnswapped(r, d)}

(* rebuild_ptr_block: the block to write over the bad end d of slot r.     *)
RebuildPtrBlock(r, d) ==
  IF r.slot = 0
  THEN {SlotZeroBlock(d, g.algo, x, y) :
          g \in Chosen(r), x \in SbPrimary(r), y \in SbBackup(r)}
  ELSE {BuildPtrBlock(g.algo, g.real, g.fallback) : g \in Chosen(r)}

=============================================================================
