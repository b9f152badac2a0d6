----------------------------- MODULE ResizeProofs -----------------------------
(***************************************************************************)
(* Proofs about Layout and Resize.  First the layout, for devices of every *)
(* size: nothing overlaps when a volume is made, and what a later growth   *)
(* or shrink of the device exposes to a repair.  Then a volume whose       *)
(* device is resized between its sessions.                                 *)
(***************************************************************************)
EXTENDS Resize, TLAPS

(* The six pointer blocks of an end follow each other and fill its 16 KiB. *)
LEMMA SlotsInRegion ==
  ASSUME NEW s \in Slot
  PROVE  /\ head_slot_offset(s) \in Nat /\ slot_block_size(s) \in {2048, 4096}
         /\ head_slot_offset(s) + slot_block_size(s) <= ANCHOR_REGION_BYTES
BY DEF Slot, SLOT_COUNT, head_slot_offset, slot_block_size, ANCHOR_REGION_BYTES,
       PTR_BLOCK_SMALL_SIZE, PTR_BLOCK_LARGE_SIZE

(* Two slots of one end never share a byte.                                *)
LEMMA SlotsApart ==
  ASSUME NEW s \in Slot, NEW t \in Slot, s < t
  PROVE  head_slot_offset(s) + slot_block_size(s) <= head_slot_offset(t)
BY DEF Slot, SLOT_COUNT, head_slot_offset, slot_block_size,
       PTR_BLOCK_SMALL_SIZE, PTR_BLOCK_LARGE_SIZE

(* Where the structures lie: the front ones one after the other behind the *)
(* head, the two copies right before the tail mirror.                      *)
LEMMA Names ==
  ASSUME NEW x, NEW y PROVE At(x) = At(y) <=> x = y
BY DEF At

LEMMA PlacesByName ==
  ASSUME NEW bytes \in Int
  PROVE  /\ Place(At("superblock"), bytes) = 16384
         /\ Place(At("config"), bytes) = 20480
         /\ Place(At("parity"), bytes) = 24576
         /\ Place(At("meta"), bytes) = 28672
         /\ Place(At("function_table"), bytes) = 32768
         /\ Place(At("smart"), bytes) = 36864
         /\ Place(At("sb_backup"), bytes) = bytes - 20480
         /\ Place(At("smart_backup"), bytes) = bytes - 24576
<1>1. /\ sb_backup_offset(bytes) = bytes - 20480
      /\ smart_backup_offset(bytes) = bytes - 24576
  BY DEF sb_backup_offset, smart_backup_offset, ANCHOR_REGION_BYTES, REAL_BLOCK_4K
<1>2. Place(At("superblock"), bytes) = 16384
  BY Names DEF Place
<1>3. Place(At("config"), bytes) = 20480
  BY Names DEF Place
<1>4. Place(At("parity"), bytes) = 24576
  BY Names DEF Place
<1>5. Place(At("meta"), bytes) = 28672
  BY Names DEF Place
<1>6. Place(At("function_table"), bytes) = 32768
  BY Names DEF Place
<1>7. Place(At("smart"), bytes) = 36864
  BY Names DEF Place
<1>8. Place(At("sb_backup"), bytes) = sb_backup_offset(bytes)
  BY Names DEF Place
<1>9. Place(At("smart_backup"), bytes) = smart_backup_offset(bytes)
  BY Names DEF Place
<1> QED BY <1>1, <1>2, <1>3, <1>4, <1>5, <1>6, <1>7, <1>8, <1>9

(* A structure of a device that can be formatted lies between the head     *)
(* pointer blocks and the tail ones, and the copies behind all the rest.   *)
LEMMA PlacesInMiddle ==
  ASSUME NEW bytes \in Nat, Formattable(bytes), NEW t \in Placed
  PROVE  /\ Place(t, bytes) \in Nat
         /\ ANCHOR_REGION_BYTES <= Place(t, bytes)
         /\ Place(t, bytes) + REAL_BLOCK_4K <= bytes - ANCHOR_REGION_BYTES
BY PlacesByName DEF Placed, Structure, Formattable, MIN_DEVICE_SIZE,
   ANCHOR_REGION_BYTES, REAL_BLOCK_4K

(* Two structures never share a byte.                                      *)
LEMMA PlacesApart ==
  ASSUME NEW bytes \in Nat, Formattable(bytes), NEW t \in Placed, NEW u \in Placed,
         t # u
  PROVE  \/ Place(t, bytes) + REAL_BLOCK_4K <= Place(u, bytes)
         \/ Place(u, bytes) + REAL_BLOCK_4K <= Place(t, bytes)
BY PlacesByName DEF Placed, Structure, Formattable, MIN_DEVICE_SIZE, REAL_BLOCK_4K

(* A region is a pointer block or a structure.                             *)
LEMMA RegionCases ==
  ASSUME NEW bytes, NEW r \in Region(bytes)
  PROVE  \/ \E d \in Side, s \in Slot :
              /\ r.what = <<d, s>> /\ r.at = SlotOffset(d, s, bytes)
              /\ r.len = slot_block_size(s)
         \/ \E t \in Placed :
              r.what = t /\ r.at = Place(t, bytes) /\ r.len = REAL_BLOCK_4K
BY DEF Region

(* A pointer block lies within the 16 KiB of its end.                      *)
LEMMA BlocksAtEnds ==
  ASSUME NEW bytes \in Nat, Formattable(bytes), NEW s \in Slot
  PROVE  /\ SlotOffset("head", s, bytes) = head_slot_offset(s)
         /\ SlotOffset("tail", s, bytes) = bytes - ANCHOR_REGION_BYTES + head_slot_offset(s)
         /\ head_slot_offset(s) \in Nat /\ slot_block_size(s) \in Nat
         /\ head_slot_offset(s) + slot_block_size(s) <= ANCHOR_REGION_BYTES
BY SlotsInRegion DEF SlotOffset, tail_slot_offset

(* mkfs_cafs.rs:148-153 with layout.rs: on every device that mkfs_cafs     *)
(* accepts, all it writes lies on the device.                              *)
THEOREM RegionsOnDevice ==
  ASSUME NEW bytes \in Nat, Formattable(bytes)
  PROVE  \A r \in Region(bytes) : Within(r, bytes)
<1> SUFFICES ASSUME NEW r \in Region(bytes) PROVE Within(r, bytes)
  OBVIOUS
<1> USE DEF Within, ANCHOR_REGION_BYTES, REAL_BLOCK_4K
<1>1. bytes >= 1048576
  BY DEF Formattable, MIN_DEVICE_SIZE
<1>2. CASE \E d \in Side, s \in Slot :
             /\ r.what = <<d, s>> /\ r.at = SlotOffset(d, s, bytes)
             /\ r.len = slot_block_size(s)
  <2>1. PICK d \in Side, s \in Slot :
               r.at = SlotOffset(d, s, bytes) /\ r.len = slot_block_size(s)
    BY <1>2
  <2>2. d = "head" \/ d = "tail"
    BY DEF Side
  <2> QED BY <1>1, <2>1, <2>2, BlocksAtEnds
<1>3. CASE \E t \in Placed :
             r.what = t /\ r.at = Place(t, bytes) /\ r.len = REAL_BLOCK_4K
  BY <1>3, PlacesInMiddle
<1> QED BY <1>2, <1>3, RegionCases

(* Where a region may lie, by what it holds: the three parts of the device *)
(* do not overlap.                                                         *)
LEMMA RegionParts ==
  ASSUME NEW bytes \in Nat, Formattable(bytes), NEW r \in Region(bytes)
  PROVE  /\ \A s \in Slot : r.what = <<"head", s>> =>
                /\ r.at = head_slot_offset(s) /\ r.len = slot_block_size(s)
         /\ \A s \in Slot : r.what = <<"tail", s>> =>
                /\ r.at = bytes - ANCHOR_REGION_BYTES + head_slot_offset(s)
                /\ r.len = slot_block_size(s)
         /\ \A t \in Placed : r.what = t =>
                r.at = Place(t, bytes) /\ r.len = REAL_BLOCK_4K
<1>1. \A t \in Placed, d \in Side, s \in Slot : t # <<d, s>>
  BY DEF Placed, Structure, At, Side
<1>2. \A d \in Side, e \in Side, s \in Slot, u \in Slot :
        <<d, s>> = <<e, u>> => d = e /\ s = u
  OBVIOUS
<1>3. CASE \E d \in Side, s \in Slot :
             /\ r.what = <<d, s>> /\ r.at = SlotOffset(d, s, bytes)
             /\ r.len = slot_block_size(s)
  <2>1. PICK d \in Side, s \in Slot :
               /\ r.what = <<d, s>> /\ r.at = SlotOffset(d, s, bytes)
               /\ r.len = slot_block_size(s)
    BY <1>3
  <2>2. \A u \in Slot : r.what = <<"head", u>> => d = "head" /\ s = u
    BY <2>1
  <2>3. \A u \in Slot : r.what = <<"tail", u>> => d = "tail" /\ s = u
    BY <2>1
  <2> QED BY <1>1, <2>1, <2>2, <2>3, BlocksAtEnds
<1>4. CASE \E t \in Placed :
             r.what = t /\ r.at = Place(t, bytes) /\ r.len = REAL_BLOCK_4K
  BY <1>1, <1>4 DEF Side
<1> QED BY <1>3, <1>4, RegionCases

(* mkfs_cafs.rs:148-153: on every device that mkfs_cafs accepts, no two of *)
(* the pointer blocks and structures it writes share a byte.               *)
THEOREM RegionsApart ==
  ASSUME NEW bytes \in Nat, Formattable(bytes)
  PROVE  \A r, q \in Region(bytes) : r.what # q.what => Disjoint(r, q)
<1> SUFFICES ASSUME NEW r \in Region(bytes), NEW q \in Region(bytes), r.what # q.what
             PROVE  Disjoint(r, q)
  OBVIOUS
<1>1. bytes >= 1048576
  BY DEF Formattable, MIN_DEVICE_SIZE
<1>2. \A x \in Region(bytes) :
        \/ \E s \in Slot : x.what = <<"head", s>>
        \/ \E s \in Slot : x.what = <<"tail", s>>
        \/ \E t \in Placed : x.what = t
  BY RegionCases DEF Side
<1>3. ASSUME NEW s \in Slot, NEW u \in Slot, s # u
      PROVE  \/ head_slot_offset(s) + slot_block_size(s) <= head_slot_offset(u)
             \/ head_slot_offset(u) + slot_block_size(u) <= head_slot_offset(s)
  BY <1>3, SlotsApart DEF Slot, SLOT_COUNT
<1>4. CASE \E s \in Slot : r.what = <<"head", s>>
  <2>1. PICK s \in Slot : r.what = <<"head", s>>
    BY <1>4
  <2>2. CASE \E u \in Slot : q.what = <<"head", u>>
    BY <2>1, <2>2, <1>3, RegionParts, BlocksAtEnds DEF Disjoint
  <2>3. CASE \E u \in Slot : q.what = <<"tail", u>>
    BY <2>1, <2>3, <1>1, RegionParts, BlocksAtEnds DEF Disjoint, ANCHOR_REGION_BYTES
  <2>4. CASE \E t \in Placed : q.what = t
    BY <2>1, <2>4, RegionParts, BlocksAtEnds, PlacesInMiddle DEF Disjoint, ANCHOR_REGION_BYTES
  <2> QED BY <1>2, <2>2, <2>3, <2>4
<1>5. CASE \E s \in Slot : r.what = <<"tail", s>>
  <2>1. PICK s \in Slot : r.what = <<"tail", s>>
    BY <1>5
  <2>2. CASE \E u \in Slot : q.what = <<"head", u>>
    BY <2>1, <2>2, <1>1, RegionParts, BlocksAtEnds DEF Disjoint, ANCHOR_REGION_BYTES
  <2>3. CASE \E u \in Slot : q.what = <<"tail", u>>
    BY <2>1, <2>3, <1>3, RegionParts, BlocksAtEnds DEF Disjoint, ANCHOR_REGION_BYTES
  <2>4. CASE \E t \in Placed : q.what = t
    BY <2>1, <2>4, RegionParts, BlocksAtEnds, PlacesInMiddle
       DEF Disjoint, ANCHOR_REGION_BYTES, REAL_BLOCK_4K
  <2> QED BY <1>2, <2>2, <2>3, <2>4
<1>6. CASE \E t \in Placed : r.what = t
  <2>1. PICK t \in Placed : r.what = t
    BY <1>6
  <2>2. CASE \E u \in Slot : q.what = <<"head", u>>
    BY <2>1, <2>2, RegionParts, BlocksAtEnds, PlacesInMiddle DEF Disjoint, ANCHOR_REGION_BYTES
  <2>3. CASE \E u \in Slot : q.what = <<"tail", u>>
    BY <2>1, <2>3, RegionParts, BlocksAtEnds, PlacesInMiddle
       DEF Disjoint, ANCHOR_REGION_BYTES, REAL_BLOCK_4K
  <2>4. CASE \E u \in Placed : q.what = u
    BY <2>1, <2>4, RegionParts, PlacesApart DEF Disjoint
  <2> QED BY <1>2, <2>2, <2>3, <2>4
<1> QED BY <1>2, <1>4, <1>5, <1>6

(* tests/anchors.rs:166: a device that has grown, by any amount, has its   *)
(* new tail mirror where nothing of the format lies but the old mirror.    *)
THEOREM GrowthSparesStructures ==
  ASSUME NEW old \in Nat, Formattable(old), NEW new \in Nat, new > old,
         NEW r \in Region(old), r.what \notin {<<"tail", s>> : s \in Slot}
  PROVE  Disjoint(r, TailRegion(new))
<1>1. old >= 1048576
  BY DEF Formattable, MIN_DEVICE_SIZE
<1>2. CASE \E s \in Slot : r.what = <<"head", s>>
  BY <1>1, <1>2, RegionParts, BlocksAtEnds DEF Disjoint, TailRegion, ANCHOR_REGION_BYTES
<1>3. CASE \E t \in Placed : r.what = t
  BY <1>3, RegionParts, PlacesInMiddle
     DEF Disjoint, TailRegion, ANCHOR_REGION_BYTES, REAL_BLOCK_4K
<1> QED BY <1>2, <1>3, RegionCases DEF Side

(* layout.rs:206: once the device has grown by the 16 KiB of the mirror,   *)
(* every block of the new mirror lies beyond the end of the old device, so *)
(* that only a smaller growth makes a mount read part of an old block at a *)
(* new position.                                                           *)
THEOREM LargeGrowthIsApart ==
  ASSUME NEW old \in Nat, NEW new \in Nat, new >= old + ANCHOR_REGION_BYTES,
         NEW s \in Slot
  PROVE  /\ tail_slot_offset(s, new) >= old
         /\ tail_slot_offset(s, new) + slot_block_size(s) <= new
BY SlotsInRegion DEF tail_slot_offset, ANCHOR_REGION_BYTES

-----------------------------------------------------------------------------
(***************************************************************************)
(* Resize.                                                                 *)
(***************************************************************************)

AllSizes == Sizes \cup {Born}

-----------------------------------------------------------------------------
(* Where the granules lie.                                                 *)
LEMMA Size ==
  ASSUME NEW n \in AllSizes PROVE n \in Nat /\ n >= 32768
BY BornAssumption, SizesAssumption
   DEF AllSizes, Formattable, MIN_DEVICE_SIZE, Openable, ANCHOR_REGION_BYTES

LEMMA CellIndex ==
  ASSUME NEW at \in Int, NEW len \in {2048, 4096}, NEW c \in Cells(at, len)
  PROVE  /\ c \in Int /\ at <= c /\ c < at + len
         /\ (c - at) \div GRANULE \in 0 .. ((len - 1) \div GRANULE)
         /\ c = at + GRANULE * ((c - at) \div GRANULE)
<1>1. (2048 - 1) \div 1024 = 1 /\ (4096 - 1) \div 1024 = 3
  OBVIOUS
<1>2. \A i \in Nat : (1024 * i) \div 1024 = i
  OBVIOUS
<1> DEFINE k == (len - 1) \div GRANULE
<1>3. (len = 2048 /\ k = 1) \/ (len = 4096 /\ k = 3)
  <2>1. CASE len = 2048
    <3>1. k = (2048 - 1) \div 1024  BY <2>1 DEF GRANULE
    <3> QED  BY <1>1, <2>1, <3>1
  <2>2. CASE len = 4096
    <3>1. k = (4096 - 1) \div 1024  BY <2>2 DEF GRANULE
    <3> QED  BY <1>1, <2>2, <3>1
  <2> QED  BY <2>1, <2>2
<1>4. Cells(at, len) = {at + 1024 * i : i \in 0 .. k}
  BY DEF Cells, GRANULE
<1> HIDE DEF k
<1>5. PICK i \in 0 .. k : c = at + 1024 * i
  BY <1>4
<1>6. i \in Nat /\ c - at = 1024 * i /\ i <= 3 /\ (len = 2048 => i <= 1)
  BY <1>3, <1>5
<1>7. (c - at) \div 1024 = i
  BY <1>2, <1>6
<1>8. (c - at) \div GRANULE \in 0 .. k /\ c = at + GRANULE * ((c - at) \div GRANULE)
  BY <1>5, <1>7 DEF GRANULE
<1>9. c \in Int /\ at <= c /\ c < at + len
  BY <1>3, <1>5, <1>6
<1> QED  BY <1>8, <1>9 DEF k

LEMMA CellsWithin ==
  ASSUME NEW at \in Int, NEW len \in {2048, 4096}
  PROVE  /\ \A c \in Cells(at, len) : c \in Int /\ at <= c /\ c < at + len
         /\ at \in Cells(at, len)
         /\ at + 1024 \in Cells(at, len)
         /\ len = 4096 => at + 2048 \in Cells(at, len)
<1>1. \A c \in Cells(at, len) : c \in Int /\ at <= c /\ c < at + len
  BY CellIndex
<1>2. (2048 - 1) \div 1024 = 1 /\ (4096 - 1) \div 1024 = 3
  OBVIOUS
<1>3. Cells(at, len) = {at + 1024 * i : i \in 0 .. ((len - 1) \div 1024)}
  BY DEF Cells, GRANULE
<1>4. CASE len = 2048
  <2>1. Cells(at, len) = {at + 1024 * i : i \in 0 .. 1}  BY <1>2, <1>3, <1>4
  <2>2. at = at + 1024 * 0 /\ at + 1024 = at + 1024 * 1 /\ 0 \in 0 .. 1 /\ 1 \in 0 .. 1
    OBVIOUS
  <2> QED  BY <1>1, <1>4, <2>1, <2>2
<1>5. CASE len = 4096
  <2>1. Cells(at, len) = {at + 1024 * i : i \in 0 .. 3}  BY <1>2, <1>3, <1>5
  <2>2. /\ at = at + 1024 * 0 /\ at + 1024 = at + 1024 * 1 /\ at + 2048 = at + 1024 * 2
        /\ 0 \in 0 .. 3 /\ 1 \in 0 .. 3 /\ 2 \in 0 .. 3
    OBVIOUS
  <2> QED  BY <1>1, <2>1, <2>2
<1> QED  BY <1>4, <1>5

LEMMA BlockSize ==
  ASSUME NEW s \in Slot
  PROVE  /\ slot_block_size(s) \in {2048, 4096}
         /\ \/ slot_block_size(s) = 2048 /\ fallback_offset(s) = 1024
            \/ slot_block_size(s) = 4096 /\ fallback_offset(s) = 2048
<1>1. 2048 \div 2 = 1024 /\ 4096 \div 2 = 2048  OBVIOUS
<1> QED  BY <1>1, SlotsInRegion DEF fallback_offset

(* A block lies in the head region or in the tail region of its size.      *)
LEMMA BlockPlace ==
  ASSUME NEW d \in Side, NEW s \in Slot, NEW n \in AllSizes
  PROVE  /\ SlotOffset(d, s, n) = (IF d = "head" THEN 0 ELSE n - 16384) + head_slot_offset(s)
         /\ SlotOffset(d, s, n) \in Nat
         /\ head_slot_offset(s) \in Nat /\ head_slot_offset(s) + slot_block_size(s) <= 16384
         /\ SlotOffset(d, s, n) + slot_block_size(s) <= n
BY Size, SlotsInRegion DEF SlotOffset, tail_slot_offset, ANCHOR_REGION_BYTES, Side

LEMMA BlockCell ==
  ASSUME NEW d \in Side, NEW s \in Slot, NEW n \in AllSizes
  PROVE  /\ BlockCells(d, s, n) \subseteq Cell
         /\ SlotOffset(d, s, n) \in BlockCells(d, s, n)
         /\ SlotOffset(d, s, n) + fallback_offset(s) \in BlockCells(d, s, n)
         /\ \A c \in BlockCells(d, s, n) :
              /\ c \in Nat /\ SlotOffset(d, s, n) <= c
              /\ c < SlotOffset(d, s, n) + slot_block_size(s) /\ c < n
<1> DEFINE o == SlotOffset(d, s, n)
           len == slot_block_size(s)
<1>1. o \in Nat /\ o + len <= n /\ n \in Nat  BY BlockPlace, Size
<1>2. /\ len \in {2048, 4096}
      /\ fallback_offset(s) = 1024 \/ (len = 4096 /\ fallback_offset(s) = 2048)
  BY BlockSize
<1>3. BlockCells(d, s, n) = Cells(o, len)  BY DEF BlockCells
<1>4. BlockCells(d, s, n) \subseteq Cell
  BY DEF Cell, AllSizes
<1> HIDE DEF o, len
<1> DEFINE C == Cells(o, len)
<1>5. /\ \A c \in C : c \in Int /\ o <= c /\ c < o + len
      /\ o \in C /\ o + 1024 \in C /\ (len = 4096 => o + 2048 \in C)
  <2>1. o \in Int  BY <1>1
  <2> QED  BY <1>2, <2>1, CellsWithin
<1> HIDE DEF C
<1>6. \A c \in C : c \in Nat /\ c < n
  BY <1>1, <1>2, <1>5
<1>7. BlockCells(d, s, n) = C  BY <1>3 DEF C
<1> QED  BY <1>2, <1>4, <1>5, <1>6, <1>7 DEF o, len

(* Cells of one block are cells of no other.                               *)
LEMMA BlocksDisjoint ==
  ASSUME TailsApart(Sizes),
         NEW d \in Side, NEW s \in Slot, NEW n \in AllSizes,
         NEW e \in Side, NEW u \in Slot, NEW m \in AllSizes,
         NEW c, c \in BlockCells(d, s, n), c \in BlockCells(e, u, m)
  PROVE  d = e /\ s = u /\ SlotOffset(d, s, n) = SlotOffset(e, u, m)
<1> DEFINE h(x) == head_slot_offset(x)
           l(x) == slot_block_size(x)
           base(x, k) == IF x = "head" THEN 0 ELSE k - 16384
<1>1. /\ c \in Nat /\ n \in Nat /\ n >= 32768 /\ m \in Nat /\ m >= 32768
      /\ base(d, n) + h(s) <= c /\ c < base(d, n) + h(s) + l(s)
      /\ base(e, m) + h(u) <= c /\ c < base(e, m) + h(u) + l(u)
      /\ h(s) \in Nat /\ h(u) \in Nat /\ h(s) + l(s) <= 16384 /\ h(u) + l(u) <= 16384
      /\ SlotOffset(d, s, n) = base(d, n) + h(s) /\ SlotOffset(e, u, m) = base(e, m) + h(u)
  <2>1. c \in Nat /\ SlotOffset(d, s, n) <= c /\ c < SlotOffset(d, s, n) + l(s)
    BY BlockCell
  <2>2. SlotOffset(e, u, m) <= c /\ c < SlotOffset(e, u, m) + l(u)
    BY BlockCell
  <2>3. /\ SlotOffset(d, s, n) = base(d, n) + h(s)
        /\ h(s) \in Nat /\ h(s) + l(s) <= 16384
    BY BlockPlace
  <2>4. /\ SlotOffset(e, u, m) = base(e, m) + h(u)
        /\ h(u) \in Nat /\ h(u) + l(u) <= 16384
    BY BlockPlace
  <2>5. n \in Nat /\ n >= 32768 /\ m \in Nat /\ m >= 32768  BY Size
  <2> HIDE DEF base, h, l
  <2> QED  BY <2>1, <2>2, <2>3, <2>4, <2>5
<1>2. l(s) \in {2048, 4096} /\ l(u) \in {2048, 4096}  BY BlockSize
<1>3. n # m => n <= m - 16384 \/ m <= n - 16384
  <2>1. n # m => Disjoint(TailRegion(n), TailRegion(m))
    BY DEF TailsApart, AllSizes
  <2> QED  BY <1>1, <2>1 DEF Disjoint, TailRegion, ANCHOR_REGION_BYTES
<1>4. (s < u => h(s) + l(s) <= h(u)) /\ (u < s => h(u) + l(u) <= h(s))
  BY SlotsApart
<1>5. s \in Nat /\ u \in Nat  BY DEF Slot, SLOT_COUNT
<1> HIDE DEF h, l
<1>6. base(d, n) = base(e, m) /\ d = e
  <2>1. CASE d = "head" /\ e = "head"  BY <2>1
  <2>2. CASE d = "tail" /\ e = "tail"
    <3>1. n = m  BY <1>1, <1>2, <1>3, <2>2
    <3> QED  BY <2>2, <3>1
  <2>3. CASE d = "head" /\ e = "tail"  BY <1>1, <1>2, <2>3
  <2>4. CASE d = "tail" /\ e = "head"  BY <1>1, <1>2, <2>4
  <2> QED  BY <2>1, <2>2, <2>3, <2>4 DEF Side
<1> HIDE DEF base
<1>7. base(d, n) \in Int
  BY <1>1 DEF base
<1>8. s = u  BY <1>1, <1>2, <1>4, <1>5, <1>6, <1>7
<1> QED  BY <1>1, <1>6, <1>8

-----------------------------------------------------------------------------
(* One side of a report.                                                   *)
SideOf(r, d) == IF d = "head" THEN r.head ELSE r.tail

(* A pointer block is read at its own two granules.                        *)
Fall(d, s, n) == SlotOffset(d, s, n) + fallback_offset(s)

LEMMA PtrAtIs ==
  ASSUME NEW v, NEW d \in Side, NEW s \in Slot, NEW n \in AllSizes
  PROVE  PtrAt(v, d, s, n) = VerifyPtrBlock(v[SlotOffset(d, s, n)], v[Fall(d, s, n)])
<1> DEFINE o == SlotOffset(d, s, n)
           len == slot_block_size(s)
           b == ReadAt(v, o, len, n)
<1>1. /\ o \in Nat /\ o \in Cell /\ o < n
      /\ Fall(d, s, n) \in Cell /\ Fall(d, s, n) < n
  BY BlockPlace, BlockCell DEF Fall
<1>2. /\ (2048 - 1) \div 1024 = 1 /\ (4096 - 1) \div 1024 = 3
      /\ 1024 \div 1024 = 1 /\ 2048 \div 1024 = 2
  OBVIOUS
<1>3. \/ len = 2048 /\ fallback_offset(s) = 1024
      \/ len = 4096 /\ fallback_offset(s) = 2048
  BY BlockSize
<1>4. b = [i \in 0 .. ((len - 1) \div 1024) |->
             LET c == o + 1024 * i IN IF c \in Cell /\ c < n THEN v[c] ELSE Zero]
  BY DEF ReadAt, GRANULE
<1>5. PtrAt(v, d, s, n) = VerifyPtrBlock(b[0], b[fallback_offset(s) \div 1024])
  BY DEF PtrAt, GRANULE
<1>6. Fall(d, s, n) = o + fallback_offset(s)  BY DEF Fall
<1> HIDE DEF o, len, b
<1>7. b[0] = v[o] /\ b[fallback_offset(s) \div 1024] = v[Fall(d, s, n)]
  <2>1. CASE len = 2048 /\ fallback_offset(s) = 1024
    <3>1. b = [i \in 0 .. 1 |-> LET c == o + 1024 * i IN IF c \in Cell /\ c < n THEN v[c] ELSE Zero]
      BY <1>2, <1>4, <2>1
    <3>2. 0 \in 0 .. 1 /\ 1 \in 0 .. 1 /\ o + 1024 * 0 = o /\ o + 1024 * 1 = Fall(d, s, n)
      BY <1>1, <1>6, <2>1
    <3>3. fallback_offset(s) \div 1024 = 1  BY <1>2, <2>1
    <3> QED  BY <1>1, <3>1, <3>2, <3>3
  <2>2. CASE len = 4096 /\ fallback_offset(s) = 2048
    <3>1. b = [i \in 0 .. 3 |-> LET c == o + 1024 * i IN IF c \in Cell /\ c < n THEN v[c] ELSE Zero]
      BY <1>2, <1>4, <2>2
    <3>2. 0 \in 0 .. 3 /\ 2 \in 0 .. 3 /\ o + 1024 * 0 = o /\ o + 1024 * 2 = Fall(d, s, n)
      BY <1>1, <1>6, <2>2
    <3>3. fallback_offset(s) \div 1024 = 2  BY <1>2, <2>2
    <3> QED  BY <1>1, <3>1, <3>2, <3>3
  <2> QED  BY <1>3, <2>1, <2>2
<1> QED  BY <1>5, <1>7 DEF o

(* A block on the device holds the pointers of its own slot or does not    *)
(* verify, whatever size the device has had or has now; so do the reports  *)
(* of it.                                                                  *)
PartsTrue(d, s, a, b) ==
  /\ a.is = "ptr" => a.to = Target(d, s) /\ a.n = CRC32C
  /\ b.is = "ptr" => b.to \in Fallback(d, s) /\ b.n = CRC32C
TrueDisk(v) ==
  \A d \in Side, s \in Slot, n \in AllSizes :
    PartsTrue(d, s, v[SlotOffset(d, s, n)], v[Fall(d, s, n)])

SideTrue(d, s, B) ==
  \A b \in B : b.real = Target(d, s) /\ b.fallback \subseteq Fallback(d, s) /\ b.algo = CRC32C
ReportTrue(s, r) == r.slot = s /\ \A d \in Side : SideTrue(d, s, SideOf(r, d))

LEMMA VerifyTrue ==
  ASSUME NEW d \in Side, NEW s \in Slot, NEW a, NEW b, PartsTrue(d, s, a, b)
  PROVE  SideTrue(d, s, VerifyPtrBlock(a, b))
BY DEF PartsTrue, SideTrue, VerifyPtrBlock

LEMMA BlocksAreTrue ==
  ASSUME NEW v, TrueDisk(v), NEW d \in Side, NEW s \in Slot, NEW n \in AllSizes
  PROVE  SideTrue(d, s, PtrAt(v, d, s, n))
BY PtrAtIs, VerifyTrue DEF TrueDisk

LEMMA ScanIs ==
  ASSUME NEW v, NEW n, NEW s \in Slot
  PROVE  /\ ScanAnchors(v, n)[s].slot = s
         /\ \A d \in Side : SideOf(ScanAnchors(v, n)[s], d) = PtrAt(v, d, s, n)
         /\ ScanAnchors(v, n)[s] = SlotReport(s, PtrAt(v, "head", s, n), PtrAt(v, "tail", s, n))
BY DEF ScanAnchors, SlotReport, SideOf, Side

LEMMA ScanTrue ==
  ASSUME NEW v, TrueDisk(v), NEW s \in Slot, NEW n \in AllSizes
  PROVE  ReportTrue(s, ScanAnchors(v, n)[s])
BY ScanIs, BlocksAreTrue DEF ReportTrue

-----------------------------------------------------------------------------
(* What the rebuild of an end makes of true reports: the very block of the *)
(* format.                                                                 *)
LEMMA Targets ==
  /\ Target("head", 0) = Place(At("superblock"), Born)
  /\ Target("tail", 0) = Place(At("sb_backup"), Born)
  /\ Fallback("head", 0) = {Place(At("sb_backup"), Born)}
  /\ Fallback("tail", 0) = {Place(At("superblock"), Born)}
  /\ \A s \in Slot \ {0} : /\ Target("head", s) = Target("tail", s)
                           /\ Fallback("head", s) = {} /\ Fallback("tail", s) = {}
<1>1. /\ PrimaryTarget("head", 0) = At("superblock") /\ PrimaryTarget("tail", 0) = At("sb_backup")
      /\ FallbackTarget("head", 0) = {At("sb_backup")}
      /\ FallbackTarget("tail", 0) = {At("superblock")}
  BY DEF PrimaryTarget, FallbackTarget, RealOf
<1>2. \A s \in Slot \ {0} : /\ PrimaryTarget("head", s) = PrimaryTarget("tail", s)
                            /\ FallbackTarget("head", s) = {} /\ FallbackTarget("tail", s) = {}
  BY DEF PrimaryTarget, FallbackTarget
<1> QED  BY <1>1, <1>2 DEF Target, Fallback

LEMMA PairTrue ==
  ASSUME NEW r, ReportTrue(0, r)
  PROVE  /\ SbPrimary(r) \subseteq {Place(At("superblock"), Born)}
         /\ SbBackup(r) \subseteq {Place(At("sb_backup"), Born)}
<1> DEFINE x == Place(At("superblock"), Born)
           y == Place(At("sb_backup"), Born)
<1>1. 0 \in Slot /\ "head" \in Side /\ "tail" \in Side  BY DEF Slot, SLOT_COUNT, Side
<1>2. /\ \A b \in r.head : b.real = x /\ b.fallback \subseteq {y}
      /\ \A b \in r.tail : b.real = y /\ b.fallback \subseteq {x}
  BY <1>1, Targets DEF ReportTrue, SideTrue, SideOf
<1> HIDE DEF x, y
<1>3. /\ Reals(r.head) \subseteq {x} /\ Reals(r.tail) \subseteq {y}
      /\ Fallbacks(r.head) \subseteq {y} /\ Fallbacks(r.tail) \subseteq {x}
  BY <1>2 DEF Reals, Fallbacks
<1> QED  BY <1>3 DEF SbPrimary, SbBackup, x, y

LEMMA TrueBlockIs ==
  ASSUME NEW d \in Side, NEW s \in Slot
  PROVE  /\ DOMAIN TrueBlock(d, s) = {1, 2}
         /\ TrueBlock(d, s)[1] = Ptr(Target(d, s), CRC32C)
         /\ s # 0 => TrueBlock(d, s)[2] = Junk
         /\ s = 0 => \E t : Fallback(d, s) = {t} /\ TrueBlock(d, s)[2] = Ptr(t, CRC32C)
<1>1. s # 0 => Fallback(d, s) = {}  BY Targets DEF Side
<1>2. s = 0 => \E t : Fallback(d, s) = {t}  BY Targets DEF Side
<1> QED  BY <1>1, <1>2 DEF TrueBlock, BuildPtrBlock

LEMMA RebuildTrue ==
  ASSUME NEW s \in Slot, NEW r, ReportTrue(s, r), NEW d \in Side, NEW b \in RebuildPtrBlock(r, d)
  PROVE  b = TrueBlock(d, s)
<1>1. r.slot = s /\ SideTrue("head", s, r.head) /\ SideTrue("tail", s, r.tail)
  BY DEF ReportTrue, SideOf, Side
<1>2. CASE s = 0
  <2>1. PICK g \in Chosen(r), x \in SbPrimary(r), y \in SbBackup(r) :
          b = SlotZeroBlock(d, g.algo, x, y)
    BY <1>1, <1>2 DEF RebuildPtrBlock
  <2>2. g.algo = CRC32C  BY <1>1, <2>1 DEF Chosen, SideTrue
  <2>3. x = Place(At("superblock"), Born) /\ y = Place(At("sb_backup"), Born)
    BY <1>2, <2>1, PairTrue
  <2>4. TrueBlock("head", 0) = BuildPtrBlock(CRC32C, x, {y})
    BY <2>3, Targets DEF TrueBlock
  <2>5. TrueBlock("tail", 0) = BuildPtrBlock(CRC32C, y, {x})
    BY <2>3, Targets DEF TrueBlock
  <2> QED  BY <1>2, <2>1, <2>2, <2>4, <2>5 DEF SlotZeroBlock, Side
<1>3. CASE s # 0
  <2>1. PICK g \in Chosen(r) : b = BuildPtrBlock(g.algo, g.real, g.fallback)
    BY <1>1, <1>3 DEF RebuildPtrBlock
  <2>2. PICK e \in Side : SideTrue(e, s, Chosen(r))
    BY <1>1 DEF Chosen, Side
  <2>3. g.algo = CRC32C /\ g.real = Target(e, s) /\ g.fallback \subseteq Fallback(e, s)
    BY <2>1, <2>2 DEF SideTrue
  <2>4. Target(e, s) = Target(d, s) /\ Fallback(e, s) = {} /\ Fallback(d, s) = {}
    BY <1>3, Targets DEF Side
  <2> QED  BY <2>1, <2>3, <2>4 DEF TrueBlock
<1> QED  BY <1>2, <1>3

(* The format.                                                             *)
LEMMA ImageIs ==
  ASSUME NEW d \in Side, NEW s \in Slot, NEW n \in AllSizes, NEW b
  PROVE  /\ DOMAIN BlockImage(d, s, n, b) = BlockCells(d, s, n)
         /\ BlockImage(d, s, n, b)[SlotOffset(d, s, n)] = b[1]
         /\ BlockImage(d, s, n, b)[Fall(d, s, n)] = b[2]
<1>1. /\ SlotOffset(d, s, n) \in BlockCells(d, s, n) /\ Fall(d, s, n) \in BlockCells(d, s, n)
      /\ SlotOffset(d, s, n) \in Nat
  BY BlockCell, BlockPlace DEF Fall
<1>2. SlotOffset(d, s, n) # Fall(d, s, n)
  BY <1>1, BlockSize DEF Fall
<1> QED  BY <1>1, <1>2 DEF BlockImage, Fall

BlockRegion(d, s) ==
  [what |-> <<d, s>>, at |-> SlotOffset(d, s, Born), len |-> slot_block_size(s)]
CopyRegion(t) == [what |-> t, at |-> Place(t, Born), len |-> REAL_BLOCK_4K]

LEMMA BornFacts == Born \in Nat /\ Formattable(Born) /\ Born \in AllSizes /\ Born >= 1048576
BY BornAssumption DEF AllSizes, Formattable, MIN_DEVICE_SIZE

LEMMA KeptPlaced == Kept \subseteq Placed
BY DEF Kept, Placed, Structure

LEMMA CopyCell ==
  ASSUME NEW t \in Kept
  PROVE  /\ Place(t, Born) \in Nat /\ CopyCells(Place(t, Born)) \subseteq Cell
         /\ \A c \in CopyCells(Place(t, Born)) :
              /\ c \in Nat /\ Place(t, Born) <= c /\ c < Place(t, Born) + REAL_BLOCK_4K
              /\ (c - Place(t, Born)) \div GRANULE \in 0 .. ((REAL_BLOCK_4K - 1) \div GRANULE)
<1> DEFINE p == Place(t, Born)
<1>1. p \in Nat  BY BornFacts, KeptPlaced, PlacesInMiddle
<1>2. CopyCells(p) \subseteq Cell
  <2> DEFINE T == {CopyCells(Place(u, Born)) : u \in Kept}
             S == {BlockCells(d, s, n) : d \in Side, s \in Slot, n \in Sizes \cup {Born}}
  <2>1. Cell = (UNION S) \cup (UNION T)  BY DEF Cell
  <2>2. CopyCells(p) \in T  OBVIOUS
  <2> HIDE DEF S, T
  <2> QED  BY <2>1, <2>2
<1> HIDE DEF p
<1>3. ASSUME NEW c \in CopyCells(p)
      PROVE  /\ c \in Nat /\ p <= c /\ c < p + REAL_BLOCK_4K
             /\ (c - p) \div GRANULE \in 0 .. ((REAL_BLOCK_4K - 1) \div GRANULE)
  <2>1. c \in Cells(p, 4096) /\ p \in Int
    BY <1>1 DEF CopyCells, REAL_BLOCK_4K
  <2>2. /\ c \in Int /\ p <= c /\ c < p + 4096
        /\ (c - p) \div GRANULE \in 0 .. ((4096 - 1) \div GRANULE)
    BY <2>1, CellIndex
  <2> QED  BY <1>1, <2>2 DEF REAL_BLOCK_4K
<1> QED  BY <1>1, <1>2, <1>3 DEF p

(* The structure a cell of the format belongs to is one.                   *)
LEMMA OneRegion ==
  ASSUME NEW r \in Region(Born), NEW q \in Region(Born), NEW c \in Nat,
         r.at \in Nat, r.len \in Nat, r.at <= c, c < r.at + r.len,
         q.at \in Nat, q.len \in Nat, q.at <= c, c < q.at + q.len
  PROVE  r.what = q.what
<1>1. r.what # q.what => Disjoint(r, q)  BY BornFacts, RegionsApart
<1> QED  BY <1>1 DEF Disjoint

LEMMA TheirRegions ==
  /\ \A d \in Side, s \in Slot :
       /\ BlockRegion(d, s) \in Region(Born)
       /\ BlockRegion(d, s).at \in Nat /\ BlockRegion(d, s).len \in Nat
       /\ \A c \in BlockCells(d, s, Born) :
            /\ c \in Nat /\ BlockRegion(d, s).at <= c
            /\ c < BlockRegion(d, s).at + BlockRegion(d, s).len
  /\ \A t \in Kept :
       /\ CopyRegion(t) \in Region(Born)
       /\ CopyRegion(t).at \in Nat /\ CopyRegion(t).len \in Nat
       /\ \A c \in CopyCells(Place(t, Born)) :
            c \in Nat /\ CopyRegion(t).at <= c /\ c < CopyRegion(t).at + CopyRegion(t).len
<1>1. ASSUME NEW d \in Side, NEW s \in Slot
      PROVE  /\ BlockRegion(d, s) \in Region(Born)
             /\ BlockRegion(d, s).at \in Nat /\ BlockRegion(d, s).len \in Nat
             /\ \A c \in BlockCells(d, s, Born) :
                  /\ c \in Nat /\ BlockRegion(d, s).at <= c
                  /\ c < BlockRegion(d, s).at + BlockRegion(d, s).len
  <2>1. BlockRegion(d, s) \in Region(Born)  BY DEF BlockRegion, Region
  <2>2. SlotOffset(d, s, Born) \in Nat /\ slot_block_size(s) \in Nat
    BY BornFacts, BlockPlace, BlockSize
  <2> QED  BY <2>1, <2>2, BornFacts, BlockCell DEF BlockRegion
<1>2. ASSUME NEW t \in Kept
      PROVE  /\ CopyRegion(t) \in Region(Born)
             /\ CopyRegion(t).at \in Nat /\ CopyRegion(t).len \in Nat
             /\ \A c \in CopyCells(Place(t, Born)) :
                  c \in Nat /\ CopyRegion(t).at <= c /\ c < CopyRegion(t).at + CopyRegion(t).len
  <2>1. CopyRegion(t) \in Region(Born)  BY KeptPlaced DEF CopyRegion, Region
  <2>2. REAL_BLOCK_4K \in Nat  BY DEF REAL_BLOCK_4K
  <2> QED  BY <2>1, <2>2, CopyCell DEF CopyRegion
<1> QED  BY <1>1, <1>2

Images ==
  {BlockImage(d, s, Born, TrueBlock(d, s)) : d \in Side, s \in Slot}
  \cup {Copy(t, Place(t, Born)) : t \in Kept}

LEMMA OneImage ==
  ASSUME NEW w \in Images, NEW x \in Images, NEW c \in DOMAIN w, c \in DOMAIN x
  PROVE  w = x
<1> DEFINE B(d, s) == BlockImage(d, s, Born, TrueBlock(d, s))
           Y(t) == Copy(t, Place(t, Born))
<1>1. ASSUME NEW y \in Images
      PROVE  \/ \E d \in Side, s \in Slot : y = B(d, s) /\ DOMAIN y = BlockCells(d, s, Born)
             \/ \E t \in Kept : y = Y(t) /\ DOMAIN y = CopyCells(Place(t, Born))
  <2>1. \A d \in Side, s \in Slot : DOMAIN B(d, s) = BlockCells(d, s, Born)
    BY BornFacts, ImageIs
  <2>2. \A t : DOMAIN Y(t) = CopyCells(Place(t, Born))  BY DEF Copy
  <2> QED  BY <2>1, <2>2 DEF Images
<1>2. \A t \in Kept, d \in Side, s \in Slot : t # <<d, s>>
  BY DEF Kept, At, Side
<1> HIDE DEF B, Y
<1>3. CASE \E d \in Side, s \in Slot : w = B(d, s) /\ DOMAIN w = BlockCells(d, s, Born)
  <2>1. PICK d \in Side, s \in Slot : w = B(d, s) /\ DOMAIN w = BlockCells(d, s, Born)
    BY <1>3
  <2>2. CASE \E e \in Side, u \in Slot : x = B(e, u) /\ DOMAIN x = BlockCells(e, u, Born)
    <3>1. PICK e \in Side, u \in Slot : x = B(e, u) /\ DOMAIN x = BlockCells(e, u, Born)
      BY <2>2
    <3>2. BlockRegion(d, s).what = BlockRegion(e, u).what
      BY <2>1, <3>1, TheirRegions, OneRegion
    <3>3. d = e /\ s = u  BY <3>2 DEF BlockRegion
    <3> QED  BY <2>1, <3>1, <3>3
  <2>3. CASE \E t \in Kept : x = Y(t) /\ DOMAIN x = CopyCells(Place(t, Born))
    <3>1. PICK t \in Kept : x = Y(t) /\ DOMAIN x = CopyCells(Place(t, Born))
      BY <2>3
    <3>2. BlockRegion(d, s).what = CopyRegion(t).what
      BY <2>1, <3>1, TheirRegions, OneRegion
    <3> QED  BY <1>2, <3>2 DEF BlockRegion, CopyRegion
  <2> QED  BY <1>1, <2>2, <2>3
<1>4. CASE \E t \in Kept : w = Y(t) /\ DOMAIN w = CopyCells(Place(t, Born))
  <2>1. PICK t \in Kept : w = Y(t) /\ DOMAIN w = CopyCells(Place(t, Born))
    BY <1>4
  <2>2. CASE \E e \in Side, u \in Slot : x = B(e, u) /\ DOMAIN x = BlockCells(e, u, Born)
    <3>1. PICK e \in Side, u \in Slot : x = B(e, u) /\ DOMAIN x = BlockCells(e, u, Born)
      BY <2>2
    <3>2. BlockRegion(e, u).what = CopyRegion(t).what
      BY <2>1, <3>1, TheirRegions, OneRegion
    <3> QED  BY <1>2, <3>2 DEF BlockRegion, CopyRegion
  <2>3. CASE \E u \in Kept : x = Y(u) /\ DOMAIN x = CopyCells(Place(u, Born))
    <3>1. PICK u \in Kept : x = Y(u) /\ DOMAIN x = CopyCells(Place(u, Born))
      BY <2>3
    <3>2. CopyRegion(t).what = CopyRegion(u).what
      BY <2>1, <3>1, TheirRegions, OneRegion
    <3>3. t = u  BY <3>2 DEF CopyRegion
    <3> QED  BY <2>1, <3>1, <3>3
  <2> QED  BY <1>1, <2>2, <2>3
<1> QED  BY <1>1, <1>3, <1>4

(* mkfs_cafs leaves every block and every copy in its place, and nothing   *)
(* anywhere else.                                                          *)
LEMMA FormatIs ==
  ASSUME NEW c \in Cell
  PROVE  /\ \A w \in Images : c \in DOMAIN w => Format[c] = w[c]
         /\ (\A w \in Images : c \notin DOMAIN w) => Format[c] = Zero
<1>1. Format[c] = IF \E w \in Images : c \in DOMAIN w
                  THEN (CHOOSE w \in Images : c \in DOMAIN w)[c] ELSE Zero
  BY DEF Format, Images
<1>2. ASSUME NEW w \in Images, c \in DOMAIN w PROVE Format[c] = w[c]
  <2>1. PICK x \in Images : x = (CHOOSE y \in Images : c \in DOMAIN y) /\ c \in DOMAIN x
    BY <1>2
  <2>2. x = w  BY <1>2, <2>1, OneImage
  <2> QED  BY <1>1, <1>2, <2>1, <2>2
<1> QED  BY <1>1, <1>2

LEMMA FormatBlock ==
  ASSUME NEW d \in Side, NEW s \in Slot, NEW c \in BlockCells(d, s, Born)
  PROVE  Format[c] = BlockImage(d, s, Born, TrueBlock(d, s))[c]
<1>1. c \in Cell  BY BornFacts, BlockCell
<1>2. BlockImage(d, s, Born, TrueBlock(d, s)) \in Images  BY DEF Images
<1> QED  BY <1>1, <1>2, BornFacts, FormatIs, ImageIs

LEMMA FormatCopy ==
  ASSUME NEW t \in Kept, NEW c \in CopyCells(Place(t, Born))
  PROVE  Format[c] = Copy(t, Place(t, Born))[c]
<1>1. c \in Cell  BY CopyCell
<1>2. Copy(t, Place(t, Born)) \in Images  BY DEF Images
<1>3. DOMAIN Copy(t, Place(t, Born)) = CopyCells(Place(t, Born))  BY DEF Copy
<1> QED  BY <1>1, <1>2, <1>3, FormatIs

LEMMA FormatElsewhere ==
  ASSUME NEW c \in Cell,
         \A d \in Side, s \in Slot : c \notin BlockCells(d, s, Born),
         \A t \in Kept : c \notin CopyCells(Place(t, Born))
  PROVE  Format[c] = Zero
<1>1. \A t : DOMAIN Copy(t, Place(t, Born)) = CopyCells(Place(t, Born))  BY DEF Copy
<1>2. \A d \in Side, s \in Slot :
        DOMAIN BlockImage(d, s, Born, TrueBlock(d, s)) = BlockCells(d, s, Born)
  BY BornFacts, ImageIs
<1>3. \A w \in Images : c \notin DOMAIN w
  BY <1>1, <1>2 DEF Images
<1> QED  BY <1>3, FormatIs

-----------------------------------------------------------------------------
(* Every variable has its type.                                            *)
LEMMA TypeInit == Init => ResizeTypeOK
<1> SUFFICES ASSUME Init PROVE ResizeTypeOK
  OBVIOUS
<1>1. DOMAIN disk = Cell  BY DEF Init, Format
<1>2. \A s \in Slot : anchors[s].slot = s  BY DEF Init, NoReports, SlotReport
<1>3. /\ size \in Sizes \cup {Born} /\ pc = "closed" /\ todo = {} /\ repaired = FALSE
      /\ resizes = 0 /\ damage = 0 /\ mishaps = 0
  BY DEF Init
<1>4. todo \subseteq Slot \X Side  BY <1>3
<1>5. resizes \in 0 .. MaxResizes /\ damage \in 0 .. MaxDamage /\ mishaps \in 0 .. MaxMishaps
  BY <1>3, BoundsAssumption
<1> QED  BY <1>1, <1>2, <1>3, <1>4, <1>5 DEF ResizeTypeOK

LEMMA ForgetType == Forget => /\ pc' = "closed" /\ todo' = {} /\ repaired' = FALSE
                              /\ \A s \in Slot : anchors'[s].slot = s
BY DEF Forget, NoReports, SlotReport

LEMMA NextEndType ==
  ASSUME ResizeTypeOK, NEW j \in todo, NextEnd(j), repaired' \in BOOLEAN
  PROVE  /\ todo' \subseteq Slot \X Side /\ pc' \in {"rewrite", "superblock"}
         /\ \A s \in Slot : anchors'[s].slot = s
         /\ UNCHANGED <<size, resizes, damage>>
<1>1. \A s \in Slot : anchors'[s].slot = s
  BY ScanIs DEF NextEnd, ResizeTypeOK
<1> QED  BY <1>1 DEF NextEnd, ResizeTypeOK

LEMMA OneMishap ==
  \A m \in 0 .. MaxMishaps : m < MaxMishaps => m + 1 \in 0 .. MaxMishaps
BY BoundsAssumption

LEMMA TypeNext == ResizeTypeOK /\ [Next]_vars => ResizeTypeOK'
<1> SUFFICES ASSUME ResizeTypeOK, [Next]_vars PROVE ResizeTypeOK'
  OBVIOUS
<1>1. CASE Mount
  <2>1. \A s \in Slot : anchors'[s].slot = s  BY <1>1, ScanIs DEF Mount
  <2> QED  BY <1>1, <2>1 DEF Mount, ResizeTypeOK
<1>2. CASE CheckStart
  <2>1. todo' \subseteq Slot \X Side /\ pc' \in {"superblock", "rewrite"}
    BY <1>2 DEF CheckStart
  <2>2. UNCHANGED <<size, disk, anchors, repaired, resizes, damage, mishaps>>
    BY <1>2 DEF CheckStart
  <2> QED  BY <2>1, <2>2 DEF ResizeTypeOK
<1>3. CASE SuperblockDone \/ RestoreSuperblock
  <2>1. \A W : DOMAIN Written(disk, W) = Cell  BY DEF Written
  <2>2. DOMAIN disk' = Cell /\ pc' = "checked"
        /\ UNCHANGED <<size, anchors, todo, repaired, resizes, damage, mishaps>>
    BY <1>3, <2>1 DEF SuperblockDone, RestoreSuperblock, ResizeTypeOK
  <2> QED  BY <2>2 DEF ResizeTypeOK
<1>4. CASE Close
  BY <1>4, ForgetType DEF Close, ResizeTypeOK
<1>5. CASE Kill
  <2>1. mishaps' \in 0 .. MaxMishaps  BY <1>5, OneMishap DEF Kill, ResizeTypeOK
  <2>2. Forget /\ UNCHANGED <<size, disk, resizes, damage>>  BY <1>5 DEF Kill
  <2>3. todo' \subseteq Slot \X Side /\ repaired' \in BOOLEAN  BY <2>2, ForgetType
  <2> QED  BY <2>1, <2>2, <2>3, ForgetType DEF ResizeTypeOK
<1>6. ASSUME NEW j \in todo, RewriteEnd(j) \/ RewriteEndFails(j) PROVE ResizeTypeOK'
  <2>1. \A W : DOMAIN Written(disk, W) = Cell  BY DEF Written
  <2>2. DOMAIN disk' = Cell
    BY <1>6, <2>1 DEF RewriteEnd, RewriteEndFails
  <2>3. mishaps' \in 0 .. MaxMishaps /\ repaired' \in BOOLEAN /\ NextEnd(j)
    BY <1>6, OneMishap DEF RewriteEnd, RewriteEndFails, ResizeTypeOK
  <2> QED  BY <2>2, <2>3, NextEndType DEF ResizeTypeOK
<1>7. ASSUME NEW n \in Sizes, ChangeSize(n) PROVE ResizeTypeOK'
  BY <1>7, BoundsAssumption DEF ChangeSize, ResizeTypeOK, session
<1>8. ASSUME NEW c \in Cell, Corrupt(c) PROVE ResizeTypeOK'
  BY <1>8, BoundsAssumption DEF Corrupt, ResizeTypeOK, session
<1>9. CASE UNCHANGED vars \/ MountRefused
  BY <1>9 DEF vars, session, MountRefused, ResizeTypeOK
<1> QED  BY <1>1, <1>2, <1>3, <1>4, <1>5, <1>6, <1>7, <1>8, <1>9 DEF Next

(* Every variable keeps its type, at every size of the device and whatever *)
(* a read finds at a position that follows from it.                        *)
THEOREM ResizeTyped == Spec => []ResizeTypeOK
BY TypeInit, TypeNext, PTL DEF Spec

-----------------------------------------------------------------------------
(***************************************************************************)
(* What a session remembers is true, and what is on the device, anywhere a *)
(* block has been or may be, is true.  The two rest on each other: a check *)
(* writes what it remembers, a scan remembers what was written.            *)
(***************************************************************************)
MemoryTrue ==
  /\ \A s \in Slot : ReportTrue(s, anchors[s])
  /\ sbAt.primary \subseteq {Place(At("superblock"), Born)}
  /\ sbAt.backup \subseteq {Place(At("sb_backup"), Born)}
TruthInv == ResizeTypeOK /\ TrueDisk(disk) /\ MemoryTrue

(* From v to w, nothing changes but granules of one block, which become    *)
(* what the format put there or puts there on a device of size n.          *)
Painted(v, w, d, s, n) ==
  \A c \in Cell : \/ w[c] = v[c]
                  \/ /\ c \in BlockCells(d, s, n)
                     /\ w[c] = BlockImage(d, s, n, TrueBlock(d, s))[c]
(* Nothing changes but granules that cannot verify as part of a block.     *)
Spoiled(v, w) == \A c \in Cell : w[c] = v[c] \/ w[c].is # "ptr"

LEMMA TrueParts ==
  ASSUME NEW d \in Side, NEW s \in Slot
  PROVE  /\ TrueBlock(d, s)[1].to = Target(d, s) /\ TrueBlock(d, s)[1].n = CRC32C
         /\ TrueBlock(d, s)[2].is = "ptr" =>
              TrueBlock(d, s)[2].to \in Fallback(d, s) /\ TrueBlock(d, s)[2].n = CRC32C
<1> DEFINE b == TrueBlock(d, s)
<1>1. b[1] = Ptr(Target(d, s), CRC32C)  BY TrueBlockIs
<1>2. b[2] = Junk \/ \E t \in Fallback(d, s) : b[2] = Ptr(t, CRC32C)
  <2>1. CASE s # 0  BY <2>1, TrueBlockIs
  <2>2. CASE s = 0
    <3>1. PICK t : Fallback(d, s) = {t} /\ b[2] = Ptr(t, CRC32C)  BY <2>2, TrueBlockIs
    <3> QED  BY <3>1
  <2> QED  BY <2>1, <2>2
<1> HIDE DEF b
<1>3. b[1].to = Target(d, s) /\ b[1].n = CRC32C  BY <1>1 DEF Ptr
<1>4. b[2].is = "ptr" => b[2].to \in Fallback(d, s) /\ b[2].n = CRC32C
  <2>1. Junk.is # "ptr"  BY DEF Junk
  <2>2. \A t : Ptr(t, CRC32C).to = t /\ Ptr(t, CRC32C).n = CRC32C  BY DEF Ptr
  <2> QED  BY <1>2, <2>1, <2>2
<1> QED  BY <1>3, <1>4 DEF b

LEMMA PaintedTrue ==
  ASSUME TailsApart(Sizes), NEW v, NEW w, NEW d \in Side, NEW s \in Slot, NEW n \in AllSizes,
         TrueDisk(v), Painted(v, w, d, s, n)
  PROVE  TrueDisk(w)
<1> SUFFICES ASSUME NEW e \in Side, NEW u \in Slot, NEW m \in AllSizes
             PROVE  PartsTrue(e, u, w[SlotOffset(e, u, m)], w[Fall(e, u, m)])
  BY DEF TrueDisk
<1> DEFINE o == SlotOffset(e, u, m)
           f == Fall(e, u, m)
           I == BlockImage(d, s, n, TrueBlock(d, s))
<1>1. o \in BlockCells(e, u, m) /\ f \in BlockCells(e, u, m) /\ o \in Cell /\ f \in Cell
  BY BlockCell DEF Fall
<1>2. PartsTrue(e, u, v[o], v[f])  BY DEF TrueDisk
<1>3. w[o] # v[o] => w[o] = TrueBlock(e, u)[1]
  <2> SUFFICES ASSUME w[o] # v[o] PROVE w[o] = TrueBlock(e, u)[1]
    OBVIOUS
  <2>1. o \in BlockCells(d, s, n) /\ w[o] = I[o]  BY <1>1 DEF Painted
  <2>2. d = e /\ s = u /\ SlotOffset(d, s, n) = o  BY <1>1, <2>1, BlocksDisjoint
  <2> QED  BY <2>1, <2>2, ImageIs
<1>4. w[f] # v[f] => w[f] = TrueBlock(e, u)[2]
  <2> SUFFICES ASSUME w[f] # v[f] PROVE w[f] = TrueBlock(e, u)[2]
    OBVIOUS
  <2>1. f \in BlockCells(d, s, n) /\ w[f] = I[f]  BY <1>1 DEF Painted
  <2>2. d = e /\ s = u /\ SlotOffset(d, s, n) = o  BY <1>1, <2>1, BlocksDisjoint
  <2>3. Fall(d, s, n) = f  BY <2>2 DEF Fall
  <2> QED  BY <2>1, <2>2, <2>3, ImageIs
<1> HIDE DEF o, f, I
<1>5. PartsTrue(e, u, w[o], w[f])
  BY <1>2, <1>3, <1>4, TrueParts DEF PartsTrue
<1> QED  BY <1>5 DEF o, f

LEMMA SpoiledTrue ==
  ASSUME NEW v, NEW w, TrueDisk(v), Spoiled(v, w) PROVE TrueDisk(w)
<1> SUFFICES ASSUME NEW e \in Side, NEW u \in Slot, NEW m \in AllSizes
             PROVE  PartsTrue(e, u, w[SlotOffset(e, u, m)], w[Fall(e, u, m)])
  BY DEF TrueDisk
<1>1. SlotOffset(e, u, m) \in Cell /\ Fall(e, u, m) \in Cell
  BY BlockCell DEF Fall
<1>2. PartsTrue(e, u, v[SlotOffset(e, u, m)], v[Fall(e, u, m)])  BY DEF TrueDisk
<1> QED  BY <1>1, <1>2 DEF PartsTrue, Spoiled

(* What check() writes at an end.                                          *)
LEMMA EndWritten ==
  ASSUME TruthInv, NEW j \in todo, NEW W \in EndWrite(j)
  PROVE  /\ j[1] \in Slot /\ j[2] \in Side /\ size \in AllSizes
         /\ W = BlockImage(j[2], j[1], size, TrueBlock(j[2], j[1]))
         /\ DOMAIN W = BlockCells(j[2], j[1], size)
<1>1. j[1] \in Slot /\ j[2] \in Side /\ size \in AllSizes
  BY DEF TruthInv, ResizeTypeOK, AllSizes
<1>2. PICK b \in RebuildPtrBlock(anchors[j[1]], j[2]) : W = BlockImage(j[2], j[1], size, b)
  BY DEF EndWrite
<1>3. b = TrueBlock(j[2], j[1])
  BY <1>1, <1>2, RebuildTrue DEF TruthInv, MemoryTrue
<1> QED  BY <1>1, <1>2, <1>3, ImageIs

LEMMA EndPainted ==
  ASSUME TruthInv, NEW j \in todo, RewriteEnd(j) \/ RewriteEndFails(j)
  PROVE  /\ j[1] \in Slot /\ j[2] \in Side /\ size \in AllSizes
         /\ Painted(disk, disk', j[2], j[1], size)
<1>1. PICK W \in EndWrite(j) :
        \/ disk' = Written(disk, W)
        \/ \E c : disk' = Written(disk, [x \in {y \in DOMAIN W : y < c} |-> W[x]])
  BY DEF RewriteEnd, RewriteEndFails
<1>2. /\ j[1] \in Slot /\ j[2] \in Side /\ size \in AllSizes
      /\ W = BlockImage(j[2], j[1], size, TrueBlock(j[2], j[1]))
      /\ DOMAIN W = BlockCells(j[2], j[1], size)
  BY EndWritten
<1>3. \A c \in Cell : disk'[c] = disk[c] \/ (c \in DOMAIN W /\ disk'[c] = W[c])
  <2>1. CASE disk' = Written(disk, W)  BY <2>1 DEF Written
  <2>2. ASSUME NEW k, disk' = Written(disk, [x \in {y \in DOMAIN W : y < k} |-> W[x]])
        PROVE  \A c \in Cell : disk'[c] = disk[c] \/ (c \in DOMAIN W /\ disk'[c] = W[c])
    <3> DEFINE D == {y \in DOMAIN W : y < k}
               V == [x \in D |-> W[x]]
    <3>1. D \subseteq DOMAIN W  OBVIOUS
    <3> HIDE DEF D
    <3>2. DOMAIN V = D /\ \A x \in D : V[x] = W[x]  OBVIOUS
    <3>3. disk' = Written(disk, V)  BY <2>2 DEF D
    <3> HIDE DEF V
    <3> QED  BY <3>1, <3>2, <3>3 DEF Written
  <2> QED  BY <1>1, <2>1, <2>2
<1> QED  BY <1>2, <1>3 DEF Painted

(* The Superblock that is written back is one.                             *)
LEMMA Restored ==
  ASSUME TruthInv, RestoreSuperblock, NEW c \in Cell
  PROVE  \/ disk'[c] = disk[c]
         \/ /\ c \in CopyCells(Place(At("superblock"), Born))
            /\ disk'[c] = Piece("superblock", (c - Place(At("superblock"), Born)) \div GRANULE)
<1>1. PICK p \in sbAt.primary, b \in sbAt.backup :
        /\ ChecksumOk(ReadAt(disk, b, REAL_BLOCK_4K, size))
        /\ superblock' = ReadAt(disk, b, REAL_BLOCK_4K, size)
        /\ disk' = Written(disk, [x \in CopyCells(p) |-> superblock'[(x - p) \div GRANULE]])
  BY DEF RestoreSuperblock
<1>2. p = Place(At("superblock"), Born)
  BY <1>1 DEF TruthInv, MemoryTrue
<1>3. /\ DOMAIN superblock' = 0 .. ((REAL_BLOCK_4K - 1) \div GRANULE)
      /\ \A i \in DOMAIN superblock' : superblock'[i] = Piece("superblock", i)
  BY <1>1 DEF ChecksumOk, ReadAt
<1>4. \A x \in CopyCells(p) : (x - p) \div GRANULE \in 0 .. ((REAL_BLOCK_4K - 1) \div GRANULE)
  BY <1>2, CopyCell DEF Kept
<1> DEFINE V == [x \in CopyCells(p) |-> superblock'[(x - p) \div GRANULE]]
<1>5. DOMAIN V = CopyCells(p)
      /\ \A x \in CopyCells(p) : V[x] = Piece("superblock", (x - p) \div GRANULE)
  BY <1>3, <1>4
<1>6. disk'[c] = IF c \in DOMAIN V THEN V[c] ELSE disk[c]
  BY <1>1 DEF Written
<1> HIDE DEF V
<1> QED  BY <1>2, <1>5, <1>6

-----------------------------------------------------------------------------
LEMMA PieceIs == \A t, i : Piece(t, i).is = t
BY DEF Piece

LEMMA FormatPtr ==
  ASSUME NEW c \in Cell, Format[c].is = "ptr"
  PROVE  \E d \in Side, s \in Slot :
           /\ c \in BlockCells(d, s, Born)
           /\ Format[c] = BlockImage(d, s, Born, TrueBlock(d, s))[c]
<1>1. ASSUME NEW t \in Kept, c \in CopyCells(Place(t, Born)) PROVE Format[c].is # "ptr"
  <2>1. \A x, i : x \in {"config", "superblock"} => Piece(x, i).is # "ptr"  BY PieceIs
  <2>2. \E x \in {"config", "superblock"} : \E i : Copy(t, Place(t, Born))[c] = Piece(x, i)
    <3>1. CASE t = At("config")  BY <1>1, <3>1 DEF Copy
    <3>2. CASE t # At("config")  BY <1>1, <3>2 DEF Copy
    <3> QED  BY <3>1, <3>2
  <2>3. Format[c] = Copy(t, Place(t, Born))[c]  BY <1>1, FormatCopy
  <2> QED  BY <2>1, <2>2, <2>3
<1>2. \E d \in Side, s \in Slot : c \in BlockCells(d, s, Born)
  <2>1. Zero.is # "ptr"  BY DEF Zero, Junk
  <2> QED  BY <1>1, <2>1, FormatElsewhere
<1> QED  BY <1>2, FormatBlock

LEMMA FormatTrue == ASSUME TailsApart(Sizes) PROVE TrueDisk(Format)
<1> SUFFICES ASSUME NEW e \in Side, NEW u \in Slot, NEW m \in AllSizes
             PROVE  PartsTrue(e, u, Format[SlotOffset(e, u, m)], Format[Fall(e, u, m)])
  BY DEF TrueDisk
<1> DEFINE o == SlotOffset(e, u, m)
           f == Fall(e, u, m)
<1>1. o \in BlockCells(e, u, m) /\ f \in BlockCells(e, u, m) /\ o \in Cell /\ f \in Cell
  BY BlockCell DEF Fall
<1>2. Format[o].is = "ptr" => Format[o] = TrueBlock(e, u)[1]
  <2> SUFFICES ASSUME Format[o].is = "ptr" PROVE Format[o] = TrueBlock(e, u)[1]
    OBVIOUS
  <2>1. PICK d \in Side, s \in Slot :
          o \in BlockCells(d, s, Born) /\ Format[o] = BlockImage(d, s, Born, TrueBlock(d, s))[o]
    BY <1>1, FormatPtr
  <2>2. d = e /\ s = u /\ SlotOffset(d, s, Born) = o  BY <1>1, <2>1, BornFacts, BlocksDisjoint
  <2> QED  BY <2>1, <2>2, BornFacts, ImageIs
<1>3. Format[f].is = "ptr" => Format[f] = TrueBlock(e, u)[2]
  <2> SUFFICES ASSUME Format[f].is = "ptr" PROVE Format[f] = TrueBlock(e, u)[2]
    OBVIOUS
  <2>1. PICK d \in Side, s \in Slot :
          f \in BlockCells(d, s, Born) /\ Format[f] = BlockImage(d, s, Born, TrueBlock(d, s))[f]
    BY <1>1, FormatPtr
  <2>2. d = e /\ s = u /\ SlotOffset(d, s, Born) = o  BY <1>1, <2>1, BornFacts, BlocksDisjoint
  <2>3. Fall(d, s, Born) = f  BY <2>2 DEF Fall
  <2> QED  BY <2>1, <2>2, <2>3, BornFacts, ImageIs
<1> HIDE DEF o, f
<1>4. PartsTrue(e, u, Format[o], Format[f])
  BY <1>2, <1>3, TrueParts DEF PartsTrue
<1> QED  BY <1>4 DEF o, f

LEMMA NothingRemembered == ASSUME anchors = NoReports, sbAt = NoSb PROVE MemoryTrue
BY DEF NoReports, NoSb, SlotReport, MemoryTrue, ReportTrue, SideTrue, SideOf, Side

LEMMA TruthInit == ASSUME TailsApart(Sizes) PROVE Init => TruthInv
<1> SUFFICES ASSUME Init PROVE TruthInv
  OBVIOUS
<1>1. MemoryTrue  BY NothingRemembered DEF Init
<1>2. TrueDisk(disk)  BY FormatTrue DEF Init
<1> QED  BY <1>1, <1>2, TypeInit DEF TruthInv

(* What NextEnd leaves in memory.                                          *)
LEMMA NextEndTrue ==
  ASSUME TruthInv, NEW j, NextEnd(j), TrueDisk(disk') PROVE MemoryTrue'
<1>1. size \in AllSizes  BY DEF TruthInv, ResizeTypeOK, AllSizes
<1>2. \A s \in Slot : ReportTrue(s, ScanAnchors(disk', size)[s])
  BY <1>1, ScanTrue
<1>3. anchors' = ScanAnchors(disk', size) \/ anchors' = anchors
  BY DEF NextEnd
<1>4. \A s \in Slot : ReportTrue(s, anchors'[s])
  BY <1>2, <1>3 DEF TruthInv, MemoryTrue
<1> QED  BY <1>4 DEF NextEnd, TruthInv, MemoryTrue

LEMMA TruthNext ==
  ASSUME TailsApart(Sizes) PROVE TruthInv /\ [Next]_vars => TruthInv'
<1> SUFFICES ASSUME TruthInv, [Next]_vars PROVE TrueDisk(disk') /\ MemoryTrue'
  BY TypeNext DEF TruthInv
<1>0. TrueDisk(disk) /\ MemoryTrue /\ size \in AllSizes
  BY DEF TruthInv, ResizeTypeOK, AllSizes
<1>1. CASE Mount
  <2>1. anchors' = ScanAnchors(disk, size) /\ disk' = disk
        /\ sbAt' = [primary |-> SbPrimary(anchors'[0]), backup |-> SbBackup(anchors'[0])]
    BY <1>1 DEF Mount
  <2>2. \A s \in Slot : ReportTrue(s, anchors'[s])  BY <1>0, <2>1, ScanTrue
  <2>3. 0 \in Slot  BY DEF Slot, SLOT_COUNT
  <2>4. /\ SbPrimary(anchors'[0]) \subseteq {Place(At("superblock"), Born)}
        /\ SbBackup(anchors'[0]) \subseteq {Place(At("sb_backup"), Born)}
    BY <2>2, <2>3, PairTrue
  <2> QED  BY <1>0, <2>1, <2>2, <2>4 DEF MemoryTrue
<1>2. CASE CheckStart \/ SuperblockDone
  BY <1>0, <1>2 DEF CheckStart, SuperblockDone, MemoryTrue
<1>3. CASE RestoreSuperblock
  <2>1. Spoiled(disk, disk')
    <3> SUFFICES ASSUME NEW c \in Cell PROVE disk'[c] = disk[c] \/ disk'[c].is # "ptr"
      BY DEF Spoiled
    <3>1. \A i : Piece("superblock", i).is # "ptr"  BY PieceIs
    <3> QED  BY <1>3, <3>1, Restored
  <2>2. MemoryTrue'  BY <1>0, <1>3 DEF RestoreSuperblock, MemoryTrue
  <2> QED  BY <1>0, <2>1, <2>2, SpoiledTrue
<1>4. CASE Close \/ Kill
  <2>1. anchors' = NoReports /\ sbAt' = NoSb /\ disk' = disk
    BY <1>4 DEF Close, Kill, Forget
  <2>2. MemoryTrue'
    BY <2>1 DEF NoReports, NoSb, SlotReport, MemoryTrue, ReportTrue, SideTrue, SideOf, Side
  <2> QED  BY <1>0, <2>1, <2>2
<1>5. ASSUME NEW j \in todo, RewriteEnd(j) \/ RewriteEndFails(j) PROVE TrueDisk(disk') /\ MemoryTrue'
  <2>1. TrueDisk(disk')  BY <1>0, <1>5, EndPainted, PaintedTrue
  <2>2. NextEnd(j)  BY <1>5 DEF RewriteEnd, RewriteEndFails
  <2> QED  BY <2>1, <2>2, NextEndTrue
<1>6. ASSUME NEW n \in Sizes, ChangeSize(n) PROVE TrueDisk(disk') /\ MemoryTrue'
  <2>1. Spoiled(disk, disk')
    BY <1>6 DEF ChangeSize, Spoiled, Zero, Junk
  <2> QED  BY <1>0, <1>6, <2>1, SpoiledTrue DEF ChangeSize, session, MemoryTrue
<1>7. ASSUME NEW k \in Cell, Corrupt(k) PROVE TrueDisk(disk') /\ MemoryTrue'
  <2>1. Spoiled(disk, disk')
    <3>1. Zero.is # "ptr"  BY DEF Zero, Junk
    <3>2. DOMAIN disk = Cell /\ disk' = [disk EXCEPT ![k] = Zero]
      BY <1>7 DEF Corrupt, TruthInv, ResizeTypeOK
    <3>3. \A c \in Cell : disk'[c] = IF c = k THEN Zero ELSE disk[c]
      BY <3>2
    <3> QED  BY <3>1, <3>3 DEF Spoiled
  <2> QED  BY <1>0, <1>7, <2>1, SpoiledTrue DEF Corrupt, session, MemoryTrue
<1>8. CASE UNCHANGED vars \/ MountRefused
  BY <1>0, <1>8 DEF vars, session, MountRefused, MemoryTrue
<1> QED  BY <1>1, <1>2, <1>3, <1>4, <1>5, <1>6, <1>7, <1>8 DEF Next

LEMMA TruthAlways == ASSUME TailsApart(Sizes) PROVE Spec => []TruthInv
BY TruthInit, TruthNext, PTL DEF Spec

(* A block that verifies at either end of the device as it is now holds    *)
(* the pointers of its own slot, if no two tail mirrors overlap.           *)
THEOREM BlocksStayTrue == ASSUME TailsApart(Sizes) PROVE Spec => []BlocksTrue
<1>1. TruthInv => BlocksTrue
  <2> SUFFICES ASSUME TruthInv, NEW d \in Side, NEW s \in Slot, NEW b \in PtrAt(disk, d, s, size)
               PROVE  b.real = Target(d, s) /\ b.fallback \subseteq Fallback(d, s)
    BY DEF BlocksTrue
  <2>1. SideTrue(d, s, PtrAt(disk, d, s, size))
    BY BlocksAreTrue DEF TruthInv, ResizeTypeOK, AllSizes
  <2> QED  BY <2>1 DEF SideTrue
<1> QED  BY <1>1, TruthAlways, PTL

-----------------------------------------------------------------------------
(* No granule of a structure that is kept lies in a block.                 *)
LEMMA CopyApart ==
  ASSUME Clear(Sizes), NEW t \in Kept, NEW c \in CopyCells(Place(t, Born)),
         NEW d \in Side, NEW s \in Slot, NEW n \in AllSizes
  PROVE  c \notin BlockCells(d, s, n)
<1> SUFFICES ASSUME c \in BlockCells(d, s, n) PROVE FALSE
  OBVIOUS
<1> DEFINE p == Place(t, Born)
<1>1. p \in Nat /\ c \in Nat /\ p <= c /\ c < p + 4096
  BY CopyCell DEF REAL_BLOCK_4K
<1>2. 16384 <= p /\ p + 4096 <= Born - 16384
  BY BornFacts, KeptPlaced, PlacesInMiddle DEF ANCHOR_REGION_BYTES, REAL_BLOCK_4K
<1>3. n \in Sizes => n <= p \/ p + 4096 <= n - 16384
  <2> SUFFICES ASSUME n \in Sizes PROVE n <= p \/ p + 4096 <= n - 16384
    OBVIOUS
  <2>1. Disjoint(TailRegion(n), [at |-> p, len |-> REAL_BLOCK_4K])  BY DEF Clear
  <2>2. n \in Nat  BY Size
  <2> HIDE DEF p
  <2> QED  BY <1>1, <2>1, <2>2 DEF Disjoint, TailRegion, ANCHOR_REGION_BYTES, REAL_BLOCK_4K
<1> HIDE DEF p
<1> DEFINE h == head_slot_offset(s)
           l == slot_block_size(s)
           b == IF d = "head" THEN 0 ELSE n - 16384
<1>4. /\ n \in Nat /\ n >= 32768 /\ h \in Nat /\ h + l <= 16384 /\ l \in {2048, 4096}
      /\ b + h <= c /\ c < b + h + l
  BY Size, BlockPlace, BlockSize, BlockCell
<1>5. n \in Sizes \/ n = Born  BY DEF AllSizes
<1>6. d = "head" => b = 0  OBVIOUS
<1>7. d = "tail" => b = n - 16384  OBVIOUS
<1> HIDE DEF h, l, b
<1>8. CASE b = 0  BY <1>1, <1>2, <1>4, <1>8
<1>9. CASE b = n - 16384
  <2>1. n - 16384 <= c /\ c < n  BY <1>1, <1>4, <1>9
  <2> QED  BY <1>1, <1>2, <1>3, <1>4, <1>5, <2>1
<1> QED  BY <1>6, <1>7, <1>8, <1>9 DEF Side

(* What the format has in the granules of a block.                         *)
LEMMA FormatThere ==
  ASSUME TailsApart(Sizes), Clear(Sizes),
         NEW d \in Side, NEW s \in Slot, NEW n \in AllSizes, NEW c \in BlockCells(d, s, n)
  PROVE  Format[c] = Zero \/ Format[c] = BlockImage(d, s, n, TrueBlock(d, s))[c]
<1>1. c \in Cell  BY BlockCell
<1>2. \A t \in Kept : c \notin CopyCells(Place(t, Born))  BY CopyApart
<1>3. ASSUME NEW e \in Side, NEW u \in Slot, c \in BlockCells(e, u, Born)
      PROVE  Format[c] = BlockImage(d, s, n, TrueBlock(d, s))[c]
  <2>1. e = d /\ u = s /\ SlotOffset(d, s, n) = SlotOffset(d, s, Born)
    BY <1>3, BornFacts, BlocksDisjoint
  <2>2. BlockImage(d, s, n, TrueBlock(d, s)) = BlockImage(d, s, Born, TrueBlock(d, s))
    BY <2>1 DEF BlockImage, BlockCells
  <2>3. Format[c] = BlockImage(e, u, Born, TrueBlock(e, u))[c]  BY <1>3, FormatBlock
  <2> QED  BY <2>1, <2>2, <2>3
<1> QED  BY <1>1, <1>2, <1>3, FormatElsewhere

(* tests/anchors.rs:166: where the format put something, check() never     *)
(* writes anything but just that, at any later size of the device whose    *)
(* tail mirror overlaps no other and none of the structures.               *)
THEOREM RepairsOnlyRestore ==
  ASSUME TailsApart(Sizes), Clear(Sizes) PROVE Spec => RepairsRestore
<1> DEFINE Restores == pc # "closed" =>
                         \A c \in Cell : disk'[c] # disk[c] /\ Format[c] # Zero =>
                                            disk'[c] = Format[c]
<1>1. ASSUME TruthInv, [Next]_vars, pc # "closed", NEW c \in Cell,
             disk'[c] # disk[c], Format[c] # Zero
      PROVE  disk'[c] = Format[c]
  <2>1. CASE RestoreSuperblock
    <3> DEFINE p == Place(At("superblock"), Born)
    <3>1. c \in CopyCells(p) /\ disk'[c] = Piece("superblock", (c - p) \div GRANULE)
      BY <1>1, <2>1, Restored
    <3>2. At("superblock") \in Kept /\ At("superblock") # At("config")
      BY DEF Kept, At
    <3>3. Format[c] = Copy(At("superblock"), p)[c]  BY <3>1, <3>2, FormatCopy
    <3> HIDE DEF p
    <3>4. Copy(At("superblock"), p)[c] = Piece("superblock", (c - p) \div GRANULE)
      BY <3>1, <3>2 DEF Copy
    <3> QED  BY <3>1, <3>3, <3>4
  <2>2. ASSUME NEW j \in todo, RewriteEnd(j) \/ RewriteEndFails(j) PROVE disk'[c] = Format[c]
    <3> DEFINE d == j[2]
               s == j[1]
    <3>1. s \in Slot /\ d \in Side /\ size \in AllSizes /\ Painted(disk, disk', d, s, size)
      BY <1>1, <2>2, EndPainted
    <3> HIDE DEF d, s
    <3>2. c \in BlockCells(d, s, size) /\ disk'[c] = BlockImage(d, s, size, TrueBlock(d, s))[c]
      BY <1>1, <3>1 DEF Painted
    <3> QED  BY <1>1, <3>1, <3>2, FormatThere
  <2>3. CASE Mount \/ MountRefused \/ CheckStart \/ SuperblockDone \/ Close \/ Kill
    BY <1>1, <2>3 DEF Mount, MountRefused, CheckStart, SuperblockDone, Close, Kill, vars
  <2>4. ASSUME NEW n \in Sizes, ChangeSize(n) PROVE FALSE  BY <1>1, <2>4 DEF ChangeSize
  <2>5. ASSUME NEW k \in Cell, Corrupt(k) PROVE FALSE  BY <1>1, <2>5 DEF Corrupt
  <2>6. CASE UNCHANGED vars  BY <1>1, <2>6 DEF vars
  <2> QED  BY <1>1, <2>1, <2>2, <2>3, <2>4, <2>5, <2>6 DEF Next
<1>2. TruthInv /\ [Next]_vars => [Restores]_vars
  BY <1>1
<1> QED  BY <1>2, TruthAlways, PTL DEF Spec, RepairsRestore

-----------------------------------------------------------------------------
(***************************************************************************)
(* How far an undisturbed check() has come.  Of a slot it can recover,     *)
(* every end is complete or yet to be rewritten; the ends of a slot it     *)
(* cannot recover are still what the scan found.                           *)
(***************************************************************************)
Now(d, s) == PtrAt(disk, d, s, size)
Progress ==
  mishaps = 0 =>
    /\ pc = "idle" => \A s \in Slot, d \in Side : SideOf(anchors[s], d) = Now(d, s)
    /\ pc \in {"rewrite", "superblock", "checked"} =>
         \A s \in Slot, d \in Side :
           IF Recoverable(anchors[s])
           THEN <<s, d>> \in todo \/ Complete(s, Now(d, s))
           ELSE <<s, d>> \notin todo /\ SideOf(anchors[s], d) = Now(d, s)
    /\ pc # "rewrite" => todo = {}

MirrorInv == TruthInv /\ Progress

(* A read of a block that was not touched.                                 *)
LEMMA SameRead ==
  ASSUME NEW v, NEW w, NEW d \in Side, NEW s \in Slot, NEW n \in AllSizes,
         \A c \in BlockCells(d, s, n) : w[c] = v[c]
  PROVE  PtrAt(w, d, s, n) = PtrAt(v, d, s, n)
<1>1. SlotOffset(d, s, n) \in BlockCells(d, s, n) /\ Fall(d, s, n) \in BlockCells(d, s, n)
  BY BlockCell DEF Fall
<1> QED  BY <1>1, PtrAtIs

(* A block that is written whole is complete.                              *)
LEMMA WholeIsComplete ==
  ASSUME NEW w, NEW d \in Side, NEW s \in Slot, NEW n \in AllSizes,
         \A c \in BlockCells(d, s, n) : w[c] = BlockImage(d, s, n, TrueBlock(d, s))[c]
  PROVE  Complete(s, PtrAt(w, d, s, n))
<1> DEFINE a == TrueBlock(d, s)[1]
           b == TrueBlock(d, s)[2]
           B == VerifyPtrBlock(a, b)
<1>1. SlotOffset(d, s, n) \in BlockCells(d, s, n) /\ Fall(d, s, n) \in BlockCells(d, s, n)
  BY BlockCell DEF Fall
<1>2. w[SlotOffset(d, s, n)] = a /\ w[Fall(d, s, n)] = b
  BY <1>1, ImageIs
<1>3. PtrAt(w, d, s, n) = B  BY <1>2, PtrAtIs
<1>4. a = Ptr(Target(d, s), CRC32C)  BY TrueBlockIs
<1>5. s = 0 => \E t : b = Ptr(t, CRC32C)  BY TrueBlockIs
<1> HIDE DEF a, b
<1>6. a.is = "ptr" /\ a.n = CRC32C  BY <1>4 DEF Ptr
<1>7. s = 0 => b.is = "ptr" /\ b.n = CRC32C  BY <1>5 DEF Ptr
<1> DEFINE F == {f.to : f \in {x \in {b} : x.is = "ptr" /\ x.n = a.n}}
           k == [real |-> a.to, fallback |-> F, algo |-> a.n]
<1>8. B = {k}
  <2>1. {x \in {a} : x.is = "ptr"} = {a}  BY <1>6
  <2> QED  BY <2>1 DEF VerifyPtrBlock
<1>9. s = 0 => F # {}
  <2>1. s = 0 => b \in {x \in {b} : x.is = "ptr" /\ x.n = a.n}  BY <1>6, <1>7
  <2> QED  BY <2>1
<1>10. k.fallback = F  OBVIOUS
<1> HIDE DEF F, k, B
<1>11. s = 0 => Fallbacks(B) # {}
  <2>1. Fallbacks(B) = k.fallback  BY <1>8 DEF Fallbacks
  <2> QED  BY <1>9, <1>10, <2>1
<1> QED  BY <1>3, <1>8, <1>11 DEF Complete

LEMMA RecoverSame ==
  ASSUME NEW r, NEW q, r.slot = q.slot, \A d \in Side : SideOf(r, d) = SideOf(q, d)
  PROVE  Recoverable(r) <=> Recoverable(q)
<1>1. r.head = q.head /\ r.tail = q.tail
  BY DEF SideOf, Side
<1> QED  BY <1>1 DEF Recoverable, SbBackup, SbPrimary

(* What rewriting the end j does to the blocks of the device as it is.     *)
LEMMA EndRewritten ==
  ASSUME TailsApart(Sizes), TruthInv, NEW j \in todo, RewriteEnd(j)
  PROVE  /\ Complete(j[1], PtrAt(disk', j[2], j[1], size))
         /\ \A s \in Slot, d \in Side : <<s, d>> # j => PtrAt(disk', d, s, size) = Now(d, s)
<1>1. PICK W \in EndWrite(j) : disk' = Written(disk, W)
  BY DEF RewriteEnd
<1>2. /\ j[1] \in Slot /\ j[2] \in Side /\ size \in AllSizes
      /\ W = BlockImage(j[2], j[1], size, TrueBlock(j[2], j[1]))
      /\ DOMAIN W = BlockCells(j[2], j[1], size)
  BY EndWritten
<1>3. j = <<j[1], j[2]>>
  BY DEF TruthInv, ResizeTypeOK
<1>4. \A c \in Cell : disk'[c] = IF c \in DOMAIN W THEN W[c] ELSE disk[c]
  BY <1>1 DEF Written
<1>5. Complete(j[1], PtrAt(disk', j[2], j[1], size))
  <2>1. \A c \in BlockCells(j[2], j[1], size) :
          disk'[c] = BlockImage(j[2], j[1], size, TrueBlock(j[2], j[1]))[c]
    BY <1>2, <1>4, BlockCell
  <2> QED  BY <1>2, <2>1, WholeIsComplete
<1>6. ASSUME NEW s \in Slot, NEW d \in Side, <<s, d>> # j
      PROVE  PtrAt(disk', d, s, size) = Now(d, s)
  <2>1. ASSUME NEW c \in BlockCells(d, s, size) PROVE disk'[c] = disk[c]
    <3>1. c \in Cell  BY <1>2, BlockCell
    <3>2. c \notin BlockCells(j[2], j[1], size)
      BY <1>2, <1>3, <1>6, BlocksDisjoint
    <3> QED  BY <1>2, <1>4, <3>1, <3>2
  <2> QED  BY <1>2, <2>1, SameRead DEF Now
<1> QED  BY <1>5, <1>6

LEMMA RestoreSparesBlocks ==
  ASSUME Clear(Sizes), TruthInv, RestoreSuperblock, NEW s \in Slot, NEW d \in Side
  PROVE  PtrAt(disk', d, s, size) = Now(d, s)
<1>1. size \in AllSizes  BY DEF TruthInv, ResizeTypeOK, AllSizes
<1>2. ASSUME NEW c \in BlockCells(d, s, size) PROVE disk'[c] = disk[c]
  <2>1. c \in Cell  BY <1>1, BlockCell
  <2>2. At("superblock") \in Kept  BY DEF Kept
  <2>3. c \notin CopyCells(Place(At("superblock"), Born))  BY <1>1, <1>2, <2>2, CopyApart
  <2> QED  BY <2>1, <2>3, Restored
<1> QED  BY <1>1, <1>2, SameRead DEF Now

LEMMA ProgressInit == Init => Progress
BY DEF Init, Progress

LEMMA ProgressNext ==
  ASSUME TailsApart(Sizes), Clear(Sizes) PROVE MirrorInv /\ [Next]_vars => Progress'
<1> SUFFICES ASSUME TruthInv, Progress, [Next]_vars, mishaps' = 0 PROVE Progress'
  BY DEF MirrorInv, Progress
<1>0. /\ size \in AllSizes /\ mishaps \in Nat /\ todo \subseteq Slot \X Side
      /\ \A s \in Slot : anchors[s].slot = s
  BY BoundsAssumption DEF TruthInv, ResizeTypeOK, AllSizes
<1>1. CASE Mount
  <2>1. anchors' = ScanAnchors(disk, size) /\ disk' = disk /\ size' = size /\ pc' = "idle"
        /\ todo' = todo /\ mishaps = 0 /\ pc = "closed"
    BY <1>1 DEF Mount
  <2>2. todo = {}  BY <2>1 DEF Progress
  <2>3. \A s \in Slot, d \in Side : SideOf(anchors'[s], d) = Now(d, s)'
    BY <2>1, ScanIs DEF Now
  <2> QED  BY <2>1, <2>2, <2>3 DEF Progress
<1>2. CASE CheckStart
  <2>1. /\ pc = "idle" /\ mishaps = 0 /\ disk' = disk /\ size' = size /\ anchors' = anchors
        /\ todo' = {i \in Slot \X Side : ~Good(anchors[i[1]], i[2]) /\ Recoverable(anchors[i[1]])}
        /\ pc' = IF todo' = {} THEN "superblock" ELSE "rewrite"
    BY <1>2 DEF CheckStart
  <2>2. ASSUME NEW s \in Slot, NEW d \in Side
        PROVE  /\ SideOf(anchors[s], d) = Now(d, s)
               /\ <<s, d>> \in todo' <=> ~Complete(s, Now(d, s)) /\ Recoverable(anchors[s])
    <3>1. SideOf(anchors[s], d) = Now(d, s)  BY <2>1 DEF Progress
    <3>2. Good(anchors[s], d) <=> Complete(s, Now(d, s))
      BY <1>0, <3>1 DEF Good, SideOf
    <3> QED  BY <2>1, <3>1, <3>2
  <2>3. \A s \in Slot, d \in Side : Now(d, s)' = Now(d, s)  BY <2>1 DEF Now
  <2> HIDE DEF Now
  <2> QED  BY <2>1, <2>2, <2>3 DEF Progress
<1>3. CASE SuperblockDone
  <2>1. \A s \in Slot, d \in Side : Now(d, s)' = Now(d, s)  BY <1>3 DEF Now, SuperblockDone
  <2> QED  BY <1>3, <2>1 DEF SuperblockDone, Progress
<1>4. CASE RestoreSuperblock
  <2>1. /\ UNCHANGED <<size, anchors, todo, mishaps>> /\ pc = "superblock" /\ pc' = "checked"
    BY <1>4 DEF RestoreSuperblock
  <2>2. \A s \in Slot, d \in Side : Now(d, s)' = Now(d, s)
    BY <1>4, <2>1, RestoreSparesBlocks DEF Now
  <2> QED  BY <2>1, <2>2 DEF Progress
<1>5. CASE Close
  BY <1>5 DEF Close, Forget, Progress
<1>6. CASE Kill
  BY <1>0, <1>6 DEF Kill
<1>7. ASSUME NEW j \in todo, RewriteEnd(j) PROVE Progress'
  <2>1. /\ pc = "rewrite" /\ mishaps = 0 /\ size' = size /\ repaired' = TRUE
        /\ todo' = todo \ {j}
        /\ pc' = IF todo' = {} THEN "superblock" ELSE "rewrite"
        /\ anchors' = IF todo' = {} /\ repaired' THEN ScanAnchors(disk', size) ELSE anchors
    BY <1>7 DEF RewriteEnd, NextEnd
  <2>2. /\ Complete(j[1], PtrAt(disk', j[2], j[1], size))
        /\ \A s \in Slot, d \in Side : <<s, d>> # j => PtrAt(disk', d, s, size) = Now(d, s)
    BY <1>7, EndRewritten
  <2>3. \A s \in Slot, d \in Side : Now(d, s)' = PtrAt(disk', d, s, size)
    BY <2>1 DEF Now
  <2>4. \A s \in Slot, d \in Side :
          IF Recoverable(anchors[s])
          THEN <<s, d>> \in todo \/ Complete(s, Now(d, s))
          ELSE <<s, d>> \notin todo /\ SideOf(anchors[s], d) = Now(d, s)
    BY <2>1 DEF Progress
  <2>5. ASSUME NEW s \in Slot, NEW d \in Side
        PROVE  IF Recoverable(anchors[s])
               THEN <<s, d>> \in todo' \/ Complete(s, Now(d, s)')
               ELSE <<s, d>> \notin todo' /\ SideOf(anchors[s], d) = Now(d, s)'
    <3>1. CASE <<s, d>> = j
      <4>1. Recoverable(anchors[s])  BY <2>4, <3>1
      <4>2. Complete(s, Now(d, s)')  BY <2>2, <2>3, <3>1
      <4> QED  BY <4>1, <4>2
    <3>2. CASE <<s, d>> # j
      <4>1. Now(d, s)' = Now(d, s)  BY <2>2, <2>3, <3>2
      <4>2. <<s, d>> \in todo' <=> <<s, d>> \in todo  BY <2>1, <3>2
      <4> QED  BY <2>4, <4>1, <4>2
    <3> QED  BY <3>1, <3>2
  <2> HIDE DEF Now
  <2>6. CASE todo' # {}
    BY <2>1, <2>5, <2>6 DEF Progress
  <2>7. CASE todo' = {}
    <3>1. anchors' = ScanAnchors(disk', size) /\ pc' = "superblock"  BY <2>1, <2>7
    <3>2. ASSUME NEW s \in Slot
          PROVE  /\ anchors'[s].slot = s
                 /\ \A d \in Side : SideOf(anchors'[s], d) = Now(d, s)'
      BY <2>3, <3>1, ScanIs
    <3>3. ASSUME NEW s \in Slot, Recoverable(anchors'[s]) PROVE Recoverable(anchors[s])
      <4> SUFFICES ASSUME ~Recoverable(anchors[s]) PROVE FALSE
        OBVIOUS
      <4>1. \A d \in Side : SideOf(anchors[s], d) = SideOf(anchors'[s], d)
        BY <2>5, <3>2
      <4> QED  BY <1>0, <3>2, <3>3, <4>1, RecoverSame
    <3>4. \A s \in Slot, d \in Side :
            IF Recoverable(anchors'[s])
            THEN <<s, d>> \in todo' \/ Complete(s, Now(d, s)')
            ELSE <<s, d>> \notin todo' /\ SideOf(anchors'[s], d) = Now(d, s)'
      BY <2>5, <2>7, <3>2, <3>3
    <3> QED  BY <2>7, <3>1, <3>4 DEF Progress
  <2> QED  BY <2>6, <2>7
<1>8. ASSUME NEW j \in todo, RewriteEndFails(j) PROVE FALSE
  BY <1>0, <1>8 DEF RewriteEndFails
<1>9. ASSUME NEW n \in Sizes, ChangeSize(n) PROVE Progress'
  BY <1>9 DEF ChangeSize, session, Progress
<1>10. ASSUME NEW k \in Cell, Corrupt(k) PROVE Progress'
  BY <1>10 DEF Corrupt, session, Progress
<1>11. CASE UNCHANGED vars \/ MountRefused
  BY <1>11 DEF vars, session, MountRefused, Progress, Now
<1> QED  BY <1>1, <1>2, <1>3, <1>4, <1>5, <1>6, <1>7, <1>8, <1>9, <1>10, <1>11 DEF Next

(* tests/anchors.rs:155, "check rebuilds it at the new end": a check() that*)
(* is not disturbed leaves a full mirror of every slot it could recover at *)
(* the end the device has now.                                             *)
THEOREM MirrorIsRebuilt ==
  ASSUME TailsApart(Sizes), Clear(Sizes) PROVE Spec => []MirrorRebuilt
<1>1. Init => MirrorInv  BY TruthInit, ProgressInit DEF MirrorInv
<1>2. MirrorInv /\ [Next]_vars => MirrorInv'
  BY TruthNext, ProgressNext DEF MirrorInv
<1>3. MirrorInv => MirrorRebuilt
  BY DEF MirrorInv, Progress, MirrorRebuilt, Now
<1> QED  BY <1>1, <1>2, <1>3, PTL DEF Spec

===============================================================================
