-------------------------------- MODULE Layout --------------------------------
(***************************************************************************)
(* Where everything lies on a CAFS device, in bytes (layout.rs, and the    *)
(* front region of mkfs_cafs.rs).  The front is fixed; all positions at    *)
(* the end follow from the size the device has at the moment.              *)
(***************************************************************************)
EXTENDS Integers, Anchor

SLOT_COUNT           == 6
ANCHOR_REGION_BYTES  == 16384
PTR_BLOCK_SMALL_SIZE == 2048
PTR_BLOCK_LARGE_SIZE == 4096
REAL_BLOCK_4K        == 4096

Slot == 0 .. (SLOT_COUNT - 1)

head_slot_offset(s) == IF s < 4 THEN 2048 * s ELSE 8192 + 4096 * (s - 4)
slot_block_size(s)  == IF s < 4 THEN PTR_BLOCK_SMALL_SIZE ELSE PTR_BLOCK_LARGE_SIZE
tail_slot_offset(s, size) == size - ANCHOR_REGION_BYTES + head_slot_offset(s)
sb_backup_offset(size)    == size - ANCHOR_REGION_BYTES - REAL_BLOCK_4K
smart_backup_offset(size) == sb_backup_offset(size) - REAL_BLOCK_4K
END_REGION_BYTES          == ANCHOR_REGION_BYTES + 2 * REAL_BLOCK_4K

(* The fallback sub-block lies half-way into its block.                    *)
fallback_offset(s) == slot_block_size(s) \div 2

FRONT_REGION_SIZE == 40960
MIN_DEVICE_SIZE   == 1048576

(* What mkfs_cafs accepts, and what mount() does.                          *)
Formattable(size) ==
  size >= MIN_DEVICE_SIZE /\ size >= FRONT_REGION_SIZE + END_REGION_BYTES + 4096
Openable(size) == size >= 2 * ANCHOR_REGION_BYTES

-----------------------------------------------------------------------------
SlotOffset(d, s, size) ==
  IF d = "head" THEN head_slot_offset(s) ELSE tail_slot_offset(s, size)

(* Where mkfs_cafs puts a structure on a device of this size.              *)
Place(t, size) == CASE t = At("superblock")     -> 16384
                    [] t = At("config")         -> 20480
                    [] t = At("parity")         -> 24576
                    [] t = At("meta")           -> 28672
                    [] t = At("function_table") -> 32768
                    [] t = At("smart")          -> 36864
                    [] t = At("sb_backup")      -> sb_backup_offset(size)
                    [] OTHER                    -> smart_backup_offset(size)
Placed == Structure \cup {At("smart_backup")}

(* A region of the device: a pointer block, or one of the structures, each *)
(* of which has 4 KiB to itself.                                           *)
Region(size) ==
  {[what |-> <<d, s>>, at |-> SlotOffset(d, s, size), len |-> slot_block_size(s)] :
     d \in Side, s \in Slot}
  \cup {[what |-> t, at |-> Place(t, size), len |-> REAL_BLOCK_4K] : t \in Placed}

Within(r, size)  == 0 <= r.at /\ r.at + r.len <= size
Disjoint(r, q)   == r.at + r.len <= q.at \/ q.at + q.len <= r.at
TailRegion(size) == [at |-> size - ANCHOR_REGION_BYTES, len |-> ANCHOR_REGION_BYTES]

=============================================================================
