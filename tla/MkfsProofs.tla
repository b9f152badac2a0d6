------------------------------ MODULE MkfsProofs ------------------------------
(***************************************************************************)
(* Proofs about mkfs_cafs and its guards, for every set of slots and every *)
(* number of failures, interruptions and things other programs do.         *)
(***************************************************************************)
EXTENDS Safety, SequenceTheorems, TLAPS

F == Formatted(CRC32C)

-----------------------------------------------------------------------------
(* The plan, step by step.                                                 *)
LEMMA Tuples ==
  ASSUME NEW X, NEW a \in X, NEW b \in X, NEW c \in X, NEW d \in X
  PROVE  /\ <<a>> \in Seq(X) /\ Len(<<a>>) = 1
         /\ <<a, b, c, d>> \in Seq(X) /\ Len(<<a, b, c, d>>) = 4
OBVIOUS

LEMMA Mirrors ==
  ASSUME NEW X, NEW d, \A s \in 0..5 : Block(d, s) \in X
  PROVE  Mirror(d) \in Seq(X) /\ Len(Mirror(d)) = 6
<1>1. \A i \in 1..6 : i - 1 \in 0..5  OBVIOUS
<1>2. \A i \in 1..6 : Block(d, i - 1) \in X  BY <1>1
<1>3. Mirror(d) \in [1..6 -> X]  BY <1>2 DEF Mirror
<1> HIDE DEF Mirror
<1>4. Mirror(d) \in UNION {[1..n -> X] : n \in Nat}  BY <1>3, 6 \in Nat, Zenon
<1>5. Mirror(d) \in Seq(X)  BY ONLY <1>4, SeqDef, Zenon
<1>6. DOMAIN Mirror(d) = 1..Len(Mirror(d)) /\ Len(Mirror(d)) \in Nat
  BY ONLY <1>5, LenProperties, Zenon
<1>7. 1..Len(Mirror(d)) = 1..6  BY <1>3, <1>6
<1>8. Len(Mirror(d)) = 6  BY <1>6, <1>7
<1> QED  BY <1>5, <1>8

LEMMA PlanFacts ==
  /\ Len(Plan) = 19 /\ DOMAIN Plan = 1..19
  /\ \A i \in 1..4 : Plan[i] = Structures[i]
  /\ \A i \in 6..11 : Plan[i] = Block("tail", i - 6)
  /\ \A i \in 13..18 : Plan[i] = Block("head", i - 13)
  /\ Plan[5] = SYNC /\ Plan[12] = SYNC /\ Plan[19] = SYNC
<1> DEFINE X  == Region \cup {SYNC} \cup {Block(d, s) : d \in Side, s \in 0..5}
           B  == <<SYNC>>
           T  == Mirror("tail")
           H  == Mirror("head")
           P2 == Structures \o B
           P3 == P2 \o T
           P4 == P3 \o B
           P5 == P4 \o H
           P6 == P5 \o B
<1>1. /\ SYNC \in X /\ At("superblock") \in X /\ At("function_table") \in X
      /\ At("smart") \in X /\ At("sb_backup") \in X
  BY DEF Region, SbRegion, TableRegion
<1>2. \A s \in 0..5 : Block("tail", s) \in X /\ Block("head", s) \in X
  BY DEF Side
<1>3. Plan = P6  BY DEF Plan
<1>4. \A i \in 1..6 : T[i] = Block("tail", i - 1) /\ H[i] = Block("head", i - 1)
  BY DEF Mirror
<1> HIDE DEF X
<1>5. Structures \in Seq(X) /\ Len(Structures) = 4
  BY <1>1, Tuples DEF Structures
<1>6. B \in Seq(X) /\ Len(B) = 1 /\ B[1] = SYNC
  BY <1>1, Tuples
<1>7. T \in Seq(X) /\ Len(T) = 6 /\ H \in Seq(X) /\ Len(H) = 6
  BY <1>2, Mirrors
<1> HIDE DEF B, T, H, P2, P3, P4, P5, P6
<1>8. /\ P2 \in Seq(X) /\ Len(P2) = 5
      /\ \A i \in 1..5 : P2[i] = IF i <= 4 THEN Structures[i] ELSE B[i - 4]
  <2>1. /\ P2 \in Seq(X) /\ Len(P2) = Len(Structures) + Len(B)
        /\ \A i \in 1..(Len(Structures) + Len(B)) :
             P2[i] = IF i <= Len(Structures) THEN Structures[i] ELSE B[i - Len(Structures)]
    BY <1>5, <1>6, ConcatProperties, Zenon DEF P2
  <2> QED  BY <1>5, <1>6, <2>1
<1>9. /\ P3 \in Seq(X) /\ Len(P3) = 11
      /\ \A i \in 1..11 : P3[i] = IF i <= 5 THEN P2[i] ELSE T[i - 5]
  <2>1. /\ P3 \in Seq(X) /\ Len(P3) = Len(P2) + Len(T)
        /\ \A i \in 1..(Len(P2) + Len(T)) :
             P3[i] = IF i <= Len(P2) THEN P2[i] ELSE T[i - Len(P2)]
    BY <1>7, <1>8, ConcatProperties, Zenon DEF P3
  <2> QED  BY <1>7, <1>8, <2>1
<1>10. /\ P4 \in Seq(X) /\ Len(P4) = 12
      /\ \A i \in 1..12 : P4[i] = IF i <= 11 THEN P3[i] ELSE B[i - 11]
  <2>1. /\ P4 \in Seq(X) /\ Len(P4) = Len(P3) + Len(B)
        /\ \A i \in 1..(Len(P3) + Len(B)) :
             P4[i] = IF i <= Len(P3) THEN P3[i] ELSE B[i - Len(P3)]
    BY <1>6, <1>9, ConcatProperties, Zenon DEF P4
  <2> QED  BY <1>6, <1>9, <2>1
<1>11. /\ P5 \in Seq(X) /\ Len(P5) = 18
      /\ \A i \in 1..18 : P5[i] = IF i <= 12 THEN P4[i] ELSE H[i - 12]
  <2>1. /\ P5 \in Seq(X) /\ Len(P5) = Len(P4) + Len(H)
        /\ \A i \in 1..(Len(P4) + Len(H)) :
             P5[i] = IF i <= Len(P4) THEN P4[i] ELSE H[i - Len(P4)]
    BY <1>7, <1>10, ConcatProperties, Zenon DEF P5
  <2> QED  BY <1>7, <1>10, <2>1
<1>12. /\ P6 \in Seq(X) /\ Len(P6) = 19
      /\ \A i \in 1..19 : P6[i] = IF i <= 18 THEN P5[i] ELSE B[i - 18]
  <2>1. /\ P6 \in Seq(X) /\ Len(P6) = Len(P5) + Len(B)
        /\ \A i \in 1..(Len(P5) + Len(B)) :
             P6[i] = IF i <= Len(P5) THEN P5[i] ELSE B[i - Len(P5)]
    BY <1>6, <1>11, ConcatProperties, Zenon DEF P6
  <2> QED  BY <1>6, <1>11, <2>1
<1>13. Len(Plan) = 19 /\ DOMAIN Plan = 1..19
  <2>1. DOMAIN P6 = 1..Len(P6)  BY ONLY <1>12, LenProperties, Zenon
  <2> QED  BY <1>3, <1>12, <2>1
<1>14. \A i \in 1..4 : Plan[i] = Structures[i]
  <2> SUFFICES ASSUME NEW i \in 1..4 PROVE Plan[i] = Structures[i]
    OBVIOUS
  <2>1. Plan[i] = P4[i]  BY <1>3, <1>11, <1>12
  <2>2. P4[i] = P2[i]  BY <1>9, <1>10
  <2> QED  BY <1>8, <2>1, <2>2
<1>15. \A i \in 6..11 : Plan[i] = Block("tail", i - 6)
  <2> SUFFICES ASSUME NEW i \in 6..11 PROVE Plan[i] = Block("tail", i - 6)
    OBVIOUS
  <2>1. Plan[i] = P4[i]  BY <1>3, <1>11, <1>12
  <2>2. P4[i] = P3[i]  BY <1>10
  <2>3. P3[i] = T[i - 5]  BY <1>9
  <2>4. i - 5 \in 1..6 /\ (i - 5) - 1 = i - 6  OBVIOUS
  <2>5. T[i - 5] = Block("tail", (i - 5) - 1)  BY <1>4, <2>4
  <2> QED  BY <2>1, <2>2, <2>3, <2>4, <2>5
<1>16. \A i \in 13..18 : Plan[i] = Block("head", i - 13)
  <2> SUFFICES ASSUME NEW i \in 13..18 PROVE Plan[i] = Block("head", i - 13)
    OBVIOUS
  <2>1. Plan[i] = P5[i]  BY <1>3, <1>12
  <2>2. P5[i] = H[i - 12]  BY <1>11
  <2>3. i - 12 \in 1..6 /\ (i - 12) - 1 = i - 13  OBVIOUS
  <2>4. H[i - 12] = Block("head", (i - 12) - 1)  BY <1>4, <2>3
  <2> QED  BY <2>1, <2>2, <2>3, <2>4
<1>17. Plan[5] = SYNC /\ Plan[12] = SYNC /\ Plan[19] = SYNC
  <2>1. P2[5] = B[5 - 4] /\ P4[12] = B[12 - 11] /\ P6[19] = B[19 - 18]
    BY <1>8, <1>10, <1>12
  <2>2. P6[5] = P2[5] /\ P6[12] = P4[12]
    BY <1>9, <1>10, <1>11, <1>12
  <2> QED  BY <1>3, <1>6, <2>1, <2>2
<1> QED  BY <1>13, <1>14, <1>15, <1>16, <1>17

(* The barriers stand at 5, 12 and 19, everything else is a write of one   *)
(* of the model's regions or of a slot it has no cells for, and every cell *)
(* is written once.                                                        *)
LEMMA PlanSyncs == \A i \in 1..19 : Plan[i] = SYNC <=> i \in {5, 12, 19}
<1>1. \A i \in 1..4 : Structures[i] # SYNC
  BY DEF Structures, At, SYNC
<1>2. \A d \in Side : \A s : Block(d, s) # SYNC
  BY DEF Side, Block, SYNC
<1>3. \A i \in 1..4 : Plan[i] # SYNC  BY <1>1, PlanFacts
<1>4. \A i \in 6..11 : Plan[i] # SYNC  BY <1>2, PlanFacts DEF Side
<1>5. \A i \in 13..18 : Plan[i] # SYNC  BY <1>2, PlanFacts DEF Side
<1>6. \A i \in 1..19 : i \in 1..4 \/ i \in 6..11 \/ i \in 13..18 \/ i \in {5, 12, 19}
  OBVIOUS
<1> QED  BY <1>3, <1>4, <1>5, <1>6, PlanFacts

LEMMA PlanGroups ==
  \A i \in 1..19 : Plan[i] # SYNC =>
    Group(Plan[i]) = IF i < 5 THEN 1 ELSE IF i < 12 THEN 2 ELSE 3
<1>1. \A i \in 1..4 : Group(Structures[i]) = 1
  BY DEF Structures, Group, SbRegion, TableRegion
<1>2. \A s : Group(Block("tail", s)) = 2 /\ Group(Block("head", s)) = 3
  BY DEF Group, Block, SbRegion, TableRegion, At
<1>3. \A i \in 1..4 : Group(Plan[i]) = 1  BY <1>1, PlanFacts
<1>4. \A i \in 6..11 : Group(Plan[i]) = 2  BY <1>2, PlanFacts
<1>5. \A i \in 13..18 : Group(Plan[i]) = 3  BY <1>2, PlanFacts
<1> QED  BY <1>3, <1>4, <1>5, PlanSyncs

LEMMA PlanCovers ==
  \A c \in Cell : \E i \in 1..19 : Plan[i] # SYNC /\ Plan[i] = c[1] /\ c \in Parts(Plan[i])
<1>1. \A c \in Cell : c[1] \in Region /\ c \in Parts(c[1])
  BY DEF Cell, PtrCell, SbCell, TableCell, Region, Parts
<1>2. \A r \in SbRegion \cup TableRegion : \E i \in 1..4 : Structures[i] = r
  <2>1. /\ Structures[1] = At("superblock") /\ Structures[2] = At("function_table")
        /\ Structures[3] = At("smart") /\ Structures[4] = At("sb_backup")
    BY DEF Structures
  <2> QED  BY <2>1 DEF SbRegion, TableRegion
<1>3. \A r \in PtrRegion : \E i \in 6..11 \cup 13..18 : Plan[i] = r
  <2> SUFFICES ASSUME NEW d \in Side, NEW s \in Slots
               PROVE  \E i \in 6..11 \cup 13..18 : Plan[i] = Block(d, s)
    BY DEF PtrRegion
  <2>1. s \in 0..5  BY SlotsAssumption
  <2>2. CASE d = "tail"
    <3>1. s + 6 \in 6..11 /\ (s + 6) - 6 = s  BY <2>1
    <3> QED  BY <2>2, <3>1, PlanFacts
  <2>3. CASE d = "head"
    <3>1. s + 13 \in 13..18 /\ (s + 13) - 13 = s  BY <2>1
    <3> QED  BY <2>3, <3>1, PlanFacts
  <2> QED  BY <2>2, <2>3 DEF Side
<1>4. \A i \in 1..4 \cup 6..11 \cup 13..18 : i \in 1..19 /\ Plan[i] # SYNC
  BY PlanSyncs
<1>5. \A r \in Region : \E i \in 1..19 : Plan[i] # SYNC /\ Plan[i] = r
  <2>1. \A r \in SbRegion \cup TableRegion : \E i \in 1..4 : Plan[i] = r
    BY <1>2, PlanFacts
  <2> QED  BY <1>3, <1>4, <2>1 DEF Region
<1> QED  BY <1>1, <1>5

-----------------------------------------------------------------------------
(* What a format lays down and what it may find.                           *)
HeadPtr == <<Block("head", 0), 1>>
TailPtr == <<Block("tail", 0), 1>>
TailFb  == <<Block("tail", 0), 2>>

LEMMA PtrCells ==
  /\ HeadPtr \in PtrCell /\ TailPtr \in PtrCell /\ TailFb \in PtrCell
  /\ PtrCell \subseteq Cell
  /\ \A c \in PtrCell : c[1] \notin SbRegion \cup TableRegion
BY SlotsAssumption
DEF HeadPtr, TailPtr, TailFb, PtrCell, PtrRegion, Side, Cell, Block, SbRegion,
    TableRegion, At

LEMMA SbCells ==
  /\ \A r \in SbRegion, p \in {1, 2} : <<r, p>> \in SbCell /\ <<r, p>> \in Cell
  /\ \A r \in TableRegion : <<r, 2>> \notin Cell
<1>1. \A r \in SbRegion, p \in {1, 2} : <<r, p>> \in SbCell /\ <<r, p>> \in Cell
  BY DEF SbCell, Cell
<1>2. \A r \in TableRegion : r \notin PtrRegion /\ r \notin SbRegion
  BY DEF TableRegion, PtrRegion, SbRegion, Side, Block, At
<1>3. \A r \in TableRegion : <<r, 2>> \notin Cell
  BY <1>2 DEF Cell, PtrCell, SbCell, TableCell
<1> QED  BY <1>1, <1>3

LEMMA FormattedFacts ==
  /\ F \in [Cell -> Content]
  /\ F[HeadPtr] = Ptr(At("superblock"), CRC32C)
  /\ F[TailPtr] = Ptr(At("sb_backup"), CRC32C)
  /\ F[TailFb] = Ptr(At("superblock"), CRC32C)
  /\ \A r \in SbRegion, p \in {1, 2} : F[<<r, p>>] = Superblock
<1>1. \A d \in Side : \A s : PrimaryTarget(d, s) \in Structure
                          /\ FallbackTarget(d, s) \subseteq Structure
  BY DEF PrimaryTarget, FallbackTarget, RealOf, Structure
<1>2. \A t \in Structure \cup {Null, Beyond} : Ptr(t, CRC32C) \in Content
  BY DEF Ptr, Content, CRC32C
<1>3. Junk \in Content /\ Superblock \in Content /\ SmartTable(0) \in Content
      /\ FunctionTable(At("smart")) \in Content
  BY DEF Junk, Superblock, SmartTable, FunctionTable, Content, Structure
<1>4. \A y : (CHOOSE t \in {y} : TRUE) = y  OBVIOUS
<1>5. \A T : T # {} => (CHOOSE t \in T : TRUE) \in T  OBVIOUS
<1>6. \A t \in Structure, T \in SUBSET Structure, p \in {1, 2} :
        BuildPtrBlock(CRC32C, t, T)[p] \in Content
  BY <1>2, <1>3, <1>5 DEF BuildPtrBlock
<1>7. \A c \in PtrCell : /\ c[1][1] \in Side /\ c[2] \in {1, 2}
                         /\ F[c] = BuildPtrBlock(CRC32C, PrimaryTarget(c[1][1], c[1][2]),
                                     FallbackTarget(c[1][1], c[1][2]))[c[2]]
  BY PtrCells DEF F, Formatted, PtrCell, PtrRegion, Block
<1>8. \A c \in PtrCell : F[c] \in Content
  BY <1>1, <1>6, <1>7
<1>9. \A c \in Cell : c \notin PtrCell => F[c] \in Content
  BY <1>3 DEF F, Formatted
<1>10. F \in [Cell -> Content]
  <2>1. DOMAIN F = Cell /\ F = [c \in Cell |-> F[c]]  BY DEF F, Formatted
  <2>2. \A c \in Cell : F[c] \in Content  BY <1>8, <1>9
  <2> QED  BY <2>1, <2>2
<1>11. \A t, y, p : BuildPtrBlock(CRC32C, t, {y})[1] = Ptr(t, CRC32C)
                    /\ BuildPtrBlock(CRC32C, t, {y})[2] = Ptr(y, CRC32C)
  BY <1>4 DEF BuildPtrBlock
<1>12. /\ PrimaryTarget("head", 0) = At("superblock")
       /\ PrimaryTarget("tail", 0) = At("sb_backup")
       /\ FallbackTarget("head", 0) = {At("sb_backup")}
       /\ FallbackTarget("tail", 0) = {At("superblock")}
  BY DEF PrimaryTarget, FallbackTarget, RealOf
<1>13. F[HeadPtr] = Ptr(At("superblock"), CRC32C)
  <2>1. HeadPtr[1][1] = "head" /\ HeadPtr[1][2] = 0 /\ HeadPtr[2] = 1
    BY DEF HeadPtr, Block
  <2>2. F[HeadPtr] = BuildPtrBlock(CRC32C, PrimaryTarget(HeadPtr[1][1], HeadPtr[1][2]),
                               FallbackTarget(HeadPtr[1][1], HeadPtr[1][2]))[HeadPtr[2]]
    BY <1>7, PtrCells
  <2>3. F[HeadPtr] = BuildPtrBlock(CRC32C, PrimaryTarget("head", 0), FallbackTarget("head", 0))[1]
    BY <2>1, <2>2, Zenon
  <2> QED  BY <1>11, <1>12, <2>3
<1>14. F[TailPtr] = BuildPtrBlock(CRC32C, At("sb_backup"), {At("superblock")})[1]
       /\ F[TailFb] = BuildPtrBlock(CRC32C, At("sb_backup"), {At("superblock")})[2]
  <2>1. /\ TailPtr[1][1] = "tail" /\ TailPtr[1][2] = 0 /\ TailPtr[2] = 1
        /\ TailFb[1][1] = "tail" /\ TailFb[1][2] = 0 /\ TailFb[2] = 2
    BY DEF TailPtr, TailFb, Block
  <2>2. \A c \in {TailPtr, TailFb} :
          F[c] = BuildPtrBlock(CRC32C, PrimaryTarget(c[1][1], c[1][2]),
                               FallbackTarget(c[1][1], c[1][2]))[c[2]]
    BY <1>7, PtrCells
  <2>3. F[TailPtr] = BuildPtrBlock(CRC32C, PrimaryTarget("tail", 0), FallbackTarget("tail", 0))[1]
    BY <2>1, <2>2, Zenon
  <2>4. F[TailFb] = BuildPtrBlock(CRC32C, PrimaryTarget("tail", 0), FallbackTarget("tail", 0))[2]
    BY <2>1, <2>2, Zenon
  <2> QED  BY <1>12, <2>3, <2>4
<1>15. F[TailPtr] = Ptr(At("sb_backup"), CRC32C) /\ F[TailFb] = Ptr(At("superblock"), CRC32C)
  BY <1>11, <1>14
<1>16. \A r \in SbRegion, p \in {1, 2} : F[<<r, p>>] = Superblock
  <2>1. \A r \in SbRegion, p \in {1, 2} : <<r, p>> \notin PtrCell
    BY PtrCells
  <2> QED  BY <2>1, SbCells DEF F, Formatted
<1> QED  BY <1>10, <1>13, <1>15, <1>16

(* The pointers an image may hold where a volume keeps those to its primary*)
(* Superblock: the only ones mount() follows.                              *)
ToPrimary(x) == x.is = "ptr" => x.to = At("superblock")
Leads(v) == ToPrimary(v[HeadPtr]) /\ ToPrimary(v[TailFb])
Stranded(v) == Mounts(v) /\ ~Sound(v)

(* Whether mount() gets as far as a Superblock, and whether check() finds  *)
(* a copy to go by, in terms of what lies in the blocks of slot 0.         *)
LEMMA Verified ==
  ASSUME NEW a, NEW b
  PROVE  /\ VerifyPtrBlock(a, b) = {} <=> a.is # "ptr"
         /\ \A x \in VerifyPtrBlock(a, b) : x.real = a.to
         /\ \A x \in VerifyPtrBlock(a, b) : x.fallback \subseteq {b.to} /\
              (x.fallback # {} => b.is = "ptr")
<1> DEFINE g(p) == [real |-> p.to,
                    fallback |-> {f.to : f \in {x \in {b} : x.is = "ptr" /\ x.n = p.n}},
                    algo |-> p.n]
           A    == {x \in {a} : x.is = "ptr"}
<1>1. VerifyPtrBlock(a, b) = {g(p) : p \in A}
  BY DEF VerifyPtrBlock
<1>2. A = {} <=> a.is # "ptr"
  OBVIOUS
<1>3. \A p \in A : g(p).real = a.to /\ g(p).fallback \subseteq {b.to}
                   /\ (g(p).fallback # {} => b.is = "ptr")
  OBVIOUS
<1> HIDE DEF g, A
<1> QED  BY <1>1, <1>2, <1>3

LEMMA MountsByHead ==
  ASSUME NEW v, Leads(v), v[HeadPtr].is = "ptr"
  PROVE  SbPrimary(Report(v)) = {At("superblock")}
<1>1. \A b \in PtrAt(v, "head", 0) : b.real = At("superblock")
  BY Verified DEF PtrAt, Leads, ToPrimary, HeadPtr
<1>2. PtrAt(v, "head", 0) # {}
  BY Verified DEF PtrAt, HeadPtr
<1> DEFINE h == PtrAt(v, "head", 0)
<1>3. Report(v).head = h
  BY DEF Report, SlotReport
<1> HIDE DEF h
<1>4. Reals(h) = {At("superblock")}
  BY <1>1, <1>2 DEF Reals, h
<1> QED  BY <1>2, <1>3, <1>4 DEF SbPrimary, h

LEMMA MountsByTail ==
  ASSUME NEW v, Leads(v), v[HeadPtr].is # "ptr", Mounts(v)
  PROVE  /\ SbPrimary(Report(v)) = {At("superblock")}
         /\ SbBackup(Report(v)) = {v[TailPtr].to}
<1>1. PtrAt(v, "head", 0) = {}
  BY Verified DEF PtrAt, HeadPtr
<1> DEFINE h == PtrAt(v, "head", 0)
           t == PtrAt(v, "tail", 0)
<1>2. Report(v).head = h /\ Report(v).tail = t
  BY DEF Report, SlotReport
<1>3. \A b \in t : b.real = v[TailPtr].to /\ b.fallback \subseteq {At("superblock")}
  BY Verified DEF PtrAt, Leads, ToPrimary, TailPtr, TailFb
<1> HIDE DEF h, t
<1>4. SbPrimary(Report(v)) = Fallbacks(t)
  BY <1>1, <1>2 DEF SbPrimary, h
<1>5. Fallbacks(t) # {}
  BY <1>4 DEF Mounts
<1>6. Fallbacks(t) = {At("superblock")}
  BY <1>3, <1>5 DEF Fallbacks
<1>7. Reals(t) = {v[TailPtr].to}
  BY <1>3, <1>5 DEF Reals, Fallbacks
<1>8. Fallbacks(h) = {}
  BY <1>1 DEF Fallbacks, h
<1>9. SbBackup(Report(v)) = Reals(t)
  BY <1>2, <1>4, <1>5, <1>8 DEF SbBackup
<1> QED  BY <1>4, <1>6, <1>7, <1>9

LEMMA SuperblockSounds ==
  ASSUME NEW v, Leads(v), ChecksumOk(ReadReal(v, At("superblock")))
  PROVE  ~Stranded(v)
<1>1. CASE v[HeadPtr].is = "ptr"
  BY <1>1, MountsByHead DEF Stranded, Sound
<1>2. CASE v[HeadPtr].is # "ptr"
  BY <1>2, MountsByTail DEF Stranded, Sound
<1> QED  BY <1>1, <1>2

LEMMA NoPtrNoMount ==
  ASSUME NEW v, v[HeadPtr].is # "ptr", v[TailPtr].is # "ptr"
  PROVE  ~Stranded(v)
<1>1. PtrAt(v, "head", 0) = {} /\ PtrAt(v, "tail", 0) = {}
  BY Verified DEF PtrAt, HeadPtr, TailPtr
<1>2. SbPrimary(Report(v)) = {}
  BY <1>1 DEF SbPrimary, Report, SlotReport, Fallbacks
<1> QED  BY <1>2 DEF Stranded, Mounts

(* Whatever the tool may find on the target mounts only if a copy of the   *)
(* Superblock it leads to verifies.                                        *)
LEMMA FoundTypes == \A v \in Found : v \in [Cell -> Content]
<1>1. Zero \in Content /\ Noise \in Content /\ SwapMark \in Content
  BY DEF Zero, Noise, SwapMark, Junk, Content, Structure
<1>2. Ptr(Beyond, CRC32C) \in Content /\ SmartTable(1) \in Content
  BY DEF Ptr, SmartTable, Content, CRC32C
<1>3. F \in [Cell -> Content]  BY FormattedFacts
<1>4. Used \in [Cell -> Content]
  BY <1>2, <1>3 DEF Used, F
<1> HIDE DEF F
<1>5. Cleared \in [Cell -> Content]
  BY <1>1, <1>4 DEF Cleared
<1>6. OtherSize \in [Cell -> Content]
  <2> DEFINE o(c) == IF ~FrontCell(c) THEN Noise
                     ELSE IF c = <<Block("head", 0), 2>> THEN Ptr(Beyond, CRC32C)
                     ELSE Used[c]
  <2>1. OtherSize = [c \in Cell |-> o(c)]  BY DEF OtherSize
  <2>2. \A c \in Cell : o(c) \in Content  BY <1>1, <1>2, <1>4
  <2> HIDE DEF o
  <2> QED  BY <2>1, <2>2
<1>7. Blank \in [Cell -> Content] /\ Foreign \in [Cell -> Content]
      /\ Swap \in [Cell -> Content]
  BY <1>1 DEF Blank, Foreign, Swap
<1> QED  BY <1>4, <1>5, <1>6, <1>7 DEF Found

LEMMA FoundSound ==
  ASSUME NEW v \in Found PROVE Leads(v) /\ ~Stranded(v)
<1> DEFINE sb(p) == <<At("superblock"), p>>
           bk(p) == <<At("sb_backup"), p>>
<1>1. /\ HeadPtr \in Cell /\ TailPtr \in Cell /\ TailFb \in Cell
      /\ \A p \in {1, 2} : sb(p) \in Cell /\ bk(p) \in Cell
  BY PtrCells, SbCells DEF SbRegion
<1>2. \A c \in Cell : c[1] # At("smart") => Used[c] = F[c]
  BY DEF Used, F
<1>3. /\ HeadPtr[1] # At("smart") /\ TailPtr[1] # At("smart") /\ TailFb[1] # At("smart")
      /\ \A p \in {1, 2} : sb(p)[1] # At("smart") /\ bk(p)[1] # At("smart")
  BY DEF HeadPtr, TailPtr, TailFb, Block, At
<1>4. /\ FrontCell(HeadPtr) /\ ~FrontCell(TailPtr) /\ ~FrontCell(TailFb)
      /\ \A p \in {1, 2} : FrontCell(sb(p)) /\ ~FrontCell(bk(p))
  BY DEF FrontCell, HeadPtr, TailPtr, TailFb, Block, At, TableRegion
<1>5. HeadPtr # <<Block("head", 0), 2>> /\ \A p \in {1, 2} : sb(p) # <<Block("head", 0), 2>>
  BY DEF HeadPtr, Block, At
<1>6. /\ Used[HeadPtr] = Ptr(At("superblock"), CRC32C)
      /\ Used[TailPtr] = Ptr(At("sb_backup"), CRC32C)
      /\ Used[TailFb] = Ptr(At("superblock"), CRC32C)
      /\ \A p \in {1, 2} : Used[sb(p)] = Superblock /\ Used[bk(p)] = Superblock
  BY <1>1, <1>2, <1>3, FormattedFacts DEF SbRegion
<1>7. ASSUME v \in {Blank, Foreign, Swap}
      PROVE  v[HeadPtr].is # "ptr" /\ v[TailPtr].is # "ptr" /\ v[TailFb].is # "ptr"
  <2>1. Zero.is # "ptr" /\ Noise.is # "ptr" /\ SwapMark.is # "ptr"
    BY DEF Zero, Noise, SwapMark, Junk
  <2>2. \A c \in Cell : v[c] \in {Zero, Noise, SwapMark}
    BY <1>7 DEF Blank, Foreign, Swap
  <2> QED  BY <1>1, <2>1, <2>2
<1>8. CASE v \in {Blank, Foreign, Swap}
  BY <1>7, <1>8, NoPtrNoMount DEF Leads, ToPrimary
<1>9. ASSUME Leads(v), \A p \in {1, 2} : v[sb(p)] = Superblock
      PROVE  ~Stranded(v)
  <2>1. ChecksumOk(ReadReal(v, At("superblock")))
    BY <1>1, <1>9 DEF ChecksumOk, ReadReal, Superblock
  <2> QED  BY <1>9, <2>1, SuperblockSounds
<1>10. CASE v = Used
  <2>1. Leads(v)  BY <1>6, <1>10 DEF Leads, ToPrimary, Ptr
  <2> QED  BY <1>6, <1>9, <1>10, <2>1
<1>11. CASE v = OtherSize
  <2>1. /\ v[HeadPtr] = Used[HeadPtr] /\ v[TailFb] = Noise
        /\ \A p \in {1, 2} : v[sb(p)] = Superblock
    BY <1>1, <1>4, <1>5, <1>6, <1>11 DEF OtherSize
  <2>2. Leads(v)  BY <1>6, <2>1 DEF Leads, ToPrimary, Ptr, Noise, Junk
  <2> QED  BY <1>9, <2>1, <2>2
<1>12. CASE v = Cleared
  <2>1. /\ v[HeadPtr] = Zero /\ v[TailPtr] = Used[TailPtr] /\ v[TailFb] = Used[TailFb]
        /\ \A p \in {1, 2} : v[bk(p)] = Superblock
    BY <1>1, <1>4, <1>6, <1>12 DEF Cleared
  <2>2. Leads(v) /\ v[HeadPtr].is # "ptr" /\ v[TailPtr].to = At("sb_backup")
    BY <1>6, <2>1 DEF Leads, ToPrimary, Ptr, Zero, Junk
  <2>3. ChecksumOk(ReadReal(v, At("sb_backup")))
    BY <1>1, <2>1 DEF ChecksumOk, ReadReal, Superblock
  <2> QED  BY <2>2, <2>3, MountsByTail DEF Stranded, Sound
<1> QED  BY <1>8, <1>10, <1>11, <1>12 DEF Found

-----------------------------------------------------------------------------
(***************************************************************************)
(* The inductive invariant.  On the side of the device: what the steps of  *)
(* the plan done so far have laid down, and what no image a power loss may *)
(* leave shows.  On the side of the guards: what the probes passed so far  *)
(* still say of the device, unless others have changed it since.           *)
(***************************************************************************)
Barrier(i) == IF i <= 5 THEN 5 ELSE IF i <= 12 THEN 12 ELSE 19
Laid(i)    ==
  \A c \in Parts(Plan[i]) \cap Cell :
     vis[c] = F[c] /\ (Barrier(i) < at => surv[c] = {F[c]})
PlanInv    ==
  BarriersHeld /\ at # 0 =>
     \A i \in 1..19 : i < at /\ Plan[i] # SYNC => Laid(i)

Image(v)   == \A c \in Cell : v[c] \in surv[c]
LeadInv    == \A x \in surv[HeadPtr] \cup surv[TailFb] : ToPrimary(x)
ImageInv   == BarriersHeld => \A v : Image(v) => ~Stranded(v)

ProbeInv   ==
  /\ probe \in 0..6
  /\ probe # 0 => at = 0 /\ target # "file"
  /\ probe > 1 /\ ~altered => parts = "none"
  /\ probe > 5 /\ ~altered => Signature(vis) \in OVERWRITABLE

IInv ==
  /\ MkfsTypeOK /\ M!VisibleMaySurvive
  /\ PlanInv /\ LeadInv /\ ImageInv /\ FormattedIsDurable
  /\ ProbeInv /\ NeverWhileUsed

DeviceInv == M!MediumTypeOK /\ M!VisibleMaySurvive /\ LeadInv

-----------------------------------------------------------------------------
(* Steps of the device.  A write of mkfs_cafs, whole or cut short, puts    *)
(* what the format wants into some of the cells of one region.             *)
Lays(W, r) == DOMAIN W \subseteq Parts(r) \cap Cell /\ \A c \in DOMAIN W : W[c] = F[c]

LEMMA WholeWrite ==
  ASSUME NEW r, M!WriteCells(FormatWrite(r))
  PROVE  \E W : M!WriteCells(W) /\ Lays(W, r) /\ DOMAIN W = Parts(r) \cap Cell
<1> DEFINE W == FormatWrite(r)
<1>1. Lays(W, r) /\ DOMAIN W = Parts(r) \cap Cell
  BY DEF Lays, FormatWrite, F
<1> HIDE DEF W
<1> QED  BY <1>1 DEF W

LEMMA CutWrite ==
  ASSUME NEW r, NEW D, M!WriteFails(FormatWrite(r), D)
  PROVE  \E W : M!WriteCells(W) /\ Lays(W, r)
<1> DEFINE G == FormatWrite(r)
           W == [c \in DOMAIN G \cap D |-> G[c]]
<1>1. DOMAIN G = Parts(r) \cap Cell /\ \A c \in DOMAIN G : G[c] = F[c]
  BY DEF FormatWrite, F
<1> HIDE DEF G
<1>2. Lays(W, r)
  BY <1>1 DEF Lays
<1>3. M!WriteCells(W)
  BY DEF M!WriteFails, G
<1> HIDE DEF W
<1> QED  BY <1>2, <1>3

LEMMA LaysDevice ==
  ASSUME DeviceInv, NEW W, NEW r, M!WriteCells(W), Lays(W, r)
  PROVE  DeviceInv'
<1>1. \A c \in Cell : /\ vis'[c] = IF c \in DOMAIN W THEN F[c] ELSE vis[c]
                      /\ surv'[c] = IF c \in DOMAIN W THEN surv[c] \cup {F[c]} ELSE surv[c]
  BY DEF M!WriteCells, Lays
<1>2. \A c \in Cell : F[c] \in Content  BY FormattedFacts
<1>3. M!MediumTypeOK'
  <2>1. vis' = [c \in Cell |-> vis'[c]] /\ surv' = [c \in Cell |-> surv'[c]]
    BY DEF M!WriteCells
  <2>2. \A c \in Cell : vis'[c] \in Content /\ surv'[c] \in SUBSET Content
    BY <1>1, <1>2 DEF DeviceInv, M!MediumTypeOK
  <2> QED  BY <2>1, <2>2 DEF M!MediumTypeOK
<1>4. M!VisibleMaySurvive'
  BY <1>1 DEF DeviceInv, M!VisibleMaySurvive
<1>5. ToPrimary(F[HeadPtr]) /\ ToPrimary(F[TailFb])
  BY FormattedFacts DEF ToPrimary, Ptr
<1>6. LeadInv'
  BY <1>1, <1>5, PtrCells DEF DeviceInv, LeadInv
<1> QED  BY <1>3, <1>4, <1>6 DEF DeviceInv

(* A barrier and a power cut leave one of the images there were.           *)
Narrowed ==
  \A c \in Cell : vis'[c] \in surv[c] /\ surv'[c] = {vis'[c]}

LEMMA SyncNarrows == ASSUME DeviceInv, M!Sync PROVE Narrowed /\ vis' = vis
BY DEF DeviceInv, M!VisibleMaySurvive, M!Sync, Narrowed

LEMMA PowerCutNarrows ==
  ASSUME DeviceInv, PowerCut
  PROVE  Narrowed /\ surv' = [c \in Cell |-> {vis'[c]}] /\ DOMAIN vis' = Cell
         /\ vis' = [c \in Cell |-> vis'[c]]
<1> DEFINE A == SbCell \cup TableCell
           B == {c \in PtrCell : c[1][1] = "tail"}
           C == {c \in PtrCell : c[1][1] = "head"}
<1>1. PICK f \in M!Images(A), g \in M!Images(B), h \in M!Images(C) :
        /\ vis' = [c \in Cell |-> CASE c \in DOMAIN f -> f[c] [] c \in DOMAIN g -> g[c]
                                    [] c \in DOMAIN h -> h[c] [] OTHER -> vis[c]]
        /\ surv' = [c \in Cell |-> {vis'[c]}]
  BY DEF PowerCut
<1> HIDE DEF A, B, C
<1>2. /\ \A c \in DOMAIN f : f[c] \in surv[c]
      /\ \A c \in DOMAIN g : g[c] \in surv[c]
      /\ \A c \in DOMAIN h : h[c] \in surv[c]
  BY DEF M!Images
<1>3. \A c \in Cell : vis'[c] \in surv[c]
  BY <1>1, <1>2 DEF DeviceInv, M!VisibleMaySurvive
<1>4. vis' = [c \in Cell |-> vis'[c]]
  BY <1>1
<1> QED  BY <1>1, <1>3, <1>4 DEF Narrowed

LEMMA NarrowedDevice ==
  ASSUME DeviceInv, Narrowed, DOMAIN vis' = Cell, vis' = [c \in Cell |-> vis'[c]],
         surv' = [c \in Cell |-> {vis'[c]}]
  PROVE  DeviceInv'
<1>1. \A c \in Cell : vis'[c] \in Content
  BY DEF DeviceInv, M!MediumTypeOK, Narrowed
<1>2. M!MediumTypeOK'
  BY <1>1 DEF M!MediumTypeOK
<1>3. M!VisibleMaySurvive'
  BY DEF Narrowed, M!VisibleMaySurvive
<1>4. LeadInv'
  BY PtrCells DEF Narrowed, DeviceInv, LeadInv
<1> QED  BY <1>2, <1>3, <1>4 DEF DeviceInv

(* The whole device is replaced by something the tool may find.            *)
Replaced(v) == vis' = v /\ surv' = [c \in Cell |-> {v[c]}]

LEMMA ReplacedDevice ==
  ASSUME NEW v \in Found, Replaced(v) PROVE DeviceInv'
<1>1. v \in [Cell -> Content] /\ Leads(v)
  BY FoundTypes, FoundSound
<1>2. M!MediumTypeOK' /\ M!VisibleMaySurvive'
  BY <1>1 DEF M!MediumTypeOK, M!VisibleMaySurvive, Replaced
<1>3. LeadInv'
  BY <1>1, PtrCells DEF LeadInv, Leads, Replaced
<1> QED  BY <1>2, <1>3 DEF DeviceInv

-----------------------------------------------------------------------------
(* What every image shows, from step to step.                              *)
LEMMA SameReport ==
  ASSUME NEW u, NEW v, \A c \in PtrCell : u[c] = v[c]
  PROVE  Report(u) = Report(v)
<1>1. \A d \in Side, p \in {1, 2} : <<Block(d, 0), p>> \in PtrCell
  BY SlotsAssumption DEF PtrCell, PtrRegion
<1>2. PtrAt(u, "head", 0) = PtrAt(v, "head", 0) /\ PtrAt(u, "tail", 0) = PtrAt(v, "tail", 0)
  BY <1>1 DEF PtrAt, Side
<1> QED  BY <1>2 DEF Report

LEMMA SameImage ==
  ASSUME NEW u, NEW v, \A c \in Cell : u[c] = v[c], ~Stranded(v)
  PROVE  ~Stranded(u)
<1>1. Report(u) = Report(v)
  BY SameReport, PtrCells
<1>2. \A b : ReadReal(u, b) = ReadReal(v, b)
  BY DEF ReadReal
<1> QED  BY <1>1, <1>2 DEF Stranded, Mounts, Sound

LEMMA ReplacedImages ==
  ASSUME NEW v \in Found, Replaced(v) PROVE ImageInv'
<1> SUFFICES ASSUME NEW u, (Image(u))' PROVE ~Stranded(u)
  BY DEF ImageInv, Stranded
<1>1. \A c \in Cell : u[c] = v[c]
  BY DEF Image, Replaced
<1> QED  BY <1>1, SameImage, FoundSound

LEMMA NarrowedImages ==
  ASSUME ImageInv, Narrowed, BarriersHeld' => BarriersHeld PROVE ImageInv'
<1> SUFFICES ASSUME BarriersHeld, NEW u, (Image(u))' PROVE ~Stranded(u)
  BY DEF ImageInv
<1>1. Image(u)
  BY DEF Image, Narrowed
<1> QED  BY <1>1 DEF ImageInv

(* Laying down a structure: an image with it is as good as the same image  *)
(* with what was there before.                                             *)
LEMMA StructureImages ==
  ASSUME DeviceInv, ImageInv, NEW W, NEW r \in SbRegion \cup TableRegion,
         M!WriteCells(W), Lays(W, r), BarriersHeld' => BarriersHeld
  PROVE  ImageInv'
<1> SUFFICES ASSUME BarriersHeld, NEW u, (Image(u))', Stranded(u) PROVE FALSE
  BY DEF ImageInv
<1> DEFINE v == [c \in Cell |-> IF u[c] \in surv[c] THEN u[c] ELSE vis[c]]
<1>1. \A c \in Cell : surv'[c] = IF c \in DOMAIN W THEN surv[c] \cup {F[c]} ELSE surv[c]
  BY DEF M!WriteCells, Lays
<1>2. Image(v)
  BY <1>1 DEF Image, DeviceInv, M!VisibleMaySurvive
<1>3. \A c \in Cell : u[c] = v[c] \/ (c \in DOMAIN W /\ u[c] = F[c])
  BY <1>1 DEF Image
<1>4. Report(u) = Report(v)
  <2>1. \A c \in DOMAIN W : c \notin PtrCell
    BY PtrCells DEF Lays, Parts
  <2>2. \A c \in PtrCell : u[c] = v[c]  BY <1>3, <2>1, PtrCells
  <2> HIDE DEF v
  <2> QED  BY <2>2, SameReport
<1> HIDE DEF v
<1>5. Sound(v)
  BY <1>2, <1>4 DEF ImageInv, Stranded, Mounts
<1>6. PICK b \in SbPrimary(Report(v)) \cup SbBackup(Report(v)) : ChecksumOk(ReadReal(v, b))
  BY <1>5 DEF Sound
<1>7. \A p \in {1, 2} : <<b, p>> \in Cell /\ v[<<b, p>>].is = "superblock"
  BY <1>6 DEF ChecksumOk, ReadReal, Junk
<1>8. ASSUME NEW p \in {1, 2} PROVE u[<<b, p>>].is = "superblock"
  <2>1. CASE u[<<b, p>>] = v[<<b, p>>]
    BY <1>7, <2>1
  <2>2. CASE <<b, p>> \in DOMAIN W /\ u[<<b, p>>] = F[<<b, p>>]
    <3>1. b = r  BY <2>2 DEF Lays, Parts
    <3>2. b \in SbRegion  BY <1>7, <3>1, SbCells
    <3>3. F[<<b, p>>] = Superblock  BY <3>2, FormattedFacts
    <3>4. Superblock.is = "superblock"  BY DEF Superblock
    <3> QED  BY <2>2, <3>3, <3>4
  <2> QED  BY <1>3, <1>7, <2>1, <2>2
<1>9. ChecksumOk(ReadReal(u, b))
  BY <1>7, <1>8 DEF ChecksumOk, ReadReal
<1> QED  BY <1>4, <1>6, <1>9 DEF Stranded, Sound

(* Laying down a pointer block, once the Superblock has become durable.    *)
LEMMA BlockImages ==
  ASSUME DeviceInv, ImageInv, NEW W, NEW r, M!WriteCells(W), Lays(W, r),
         BarriersHeld' => \A p \in {1, 2} : surv[<<At("superblock"), p>>] = {Superblock}
  PROVE  ImageInv'
<1> SUFFICES ASSUME BarriersHeld', NEW u, (Image(u))' PROVE ~Stranded(u)
  BY DEF ImageInv
<1>1. LeadInv'  BY LaysDevice DEF DeviceInv
<1>2. Leads(u)
  BY <1>1, PtrCells DEF LeadInv, Leads, Image
<1>3. \A p \in {1, 2} : <<At("superblock"), p>> \in Cell
      /\ F[<<At("superblock"), p>>] = Superblock
  BY SbCells, FormattedFacts DEF SbRegion
<1>4. \A p \in {1, 2} : u[<<At("superblock"), p>>] = Superblock
  BY <1>3 DEF M!WriteCells, Lays, Image
<1>5. ChecksumOk(ReadReal(u, At("superblock")))
  BY <1>3, <1>4 DEF ChecksumOk, ReadReal, Superblock
<1> QED  BY <1>2, <1>5, SuperblockSounds

-----------------------------------------------------------------------------
(* What the plan has achieved when its next step is at.                    *)
LEMMA SuperblockDown ==
  ASSUME PlanInv, BarriersHeld, at \in 1..20, at > 5
  PROVE  \A p \in {1, 2} : surv[<<At("superblock"), p>>] = {Superblock}
<1>1. Plan[1] = At("superblock")  BY PlanFacts DEF Structures
<1>2. Plan[1] # SYNC  BY PlanSyncs
<1>3. Laid(1)  BY <1>2 DEF PlanInv
<1>4. Barrier(1) = 5  BY DEF Barrier
<1>5. \A p \in {1, 2} : /\ <<At("superblock"), p>> \in Parts(At("superblock")) \cap Cell
                        /\ F[<<At("superblock"), p>>] = Superblock
  BY SbCells, FormattedFacts DEF SbRegion, Parts
<1> QED  BY <1>1, <1>3, <1>4, <1>5 DEF Laid

LEMMA BarrierFacts ==
  \A i \in 1..19 : Barrier(i) \in {5, 12, 19} /\ i <= Barrier(i)
BY DEF Barrier

LEMMA AllDown ==
  ASSUME PlanInv, BarriersHeld, at = 20
  PROVE  \A c \in Cell : surv[c] = {F[c]}
<1> SUFFICES ASSUME NEW c \in Cell PROVE surv[c] = {F[c]}
  OBVIOUS
<1>1. PICK i \in 1..19 : Plan[i] # SYNC /\ c \in Parts(Plan[i])
  BY PlanCovers
<1>2. Laid(i)  BY <1>1 DEF PlanInv
<1> QED  BY <1>1, <1>2, BarrierFacts DEF Laid

(* The next write is one of a structure, or comes after the first barrier. *)
LEMMA NextWrite ==
  ASSUME at \in DOMAIN Plan, Plan[at] # SYNC
  PROVE  at \in 1..19 /\ (Plan[at] \in SbRegion \cup TableRegion \/ at > 5)
<1>1. at \in 1..19 /\ at \notin {5, 12, 19}
  BY PlanFacts, PlanSyncs
<1>2. \A i \in 1..4 : Plan[i] \in SbRegion \cup TableRegion
  <2>1. /\ Structures[1] \in SbRegion /\ Structures[2] \in TableRegion
        /\ Structures[3] \in TableRegion /\ Structures[4] \in SbRegion
    BY DEF Structures, SbRegion, TableRegion
  <2> QED  BY <2>1, PlanFacts
<1> QED  BY <1>1, <1>2

LEMMA LaysImages ==
  ASSUME IInv, NEW W, at \in DOMAIN Plan, Plan[at] # SYNC,
         M!WriteCells(W), Lays(W, Plan[at]), syncErrors' = syncErrors
  PROVE  DeviceInv' /\ ImageInv'
<1>1. DeviceInv /\ ImageInv /\ PlanInv
  BY DEF IInv, MkfsTypeOK, DeviceInv
<1>2. DeviceInv'
  BY <1>1, LaysDevice
<1>3. CASE Plan[at] \in SbRegion \cup TableRegion
  BY <1>1, <1>2, <1>3, StructureImages DEF BarriersHeld
<1>4. CASE at > 5
  <2>1. at \in 1..20  BY NextWrite
  <2>2. BarriersHeld' => \A p \in {1, 2} : surv[<<At("superblock"), p>>] = {Superblock}
    BY <1>1, <1>4, <2>1, SuperblockDown DEF BarriersHeld
  <2> QED  BY <1>1, <1>2, <2>2, BlockImages
<1> QED  BY <1>3, <1>4, NextWrite

LEMMA LaysFormatted ==
  ASSUME FormattedIsDurable, NEW W, NEW r, M!WriteCells(W), Lays(W, r),
         syncErrors' = syncErrors, verdict' = "formatted" => verdict = "formatted"
  PROVE  FormattedIsDurable'
<1> SUFFICES ASSUME verdict = "formatted", BarriersHeld, NEW c \in Cell
             PROVE  surv'[c] = {F[c]}
  BY DEF FormattedIsDurable, BarriersHeld, F
<1>1. surv[c] = {F[c]}
  BY DEF FormattedIsDurable, F
<1> QED  BY <1>1 DEF M!WriteCells, Lays

LEMMA LaysPlan ==
  ASSUME IInv, NEW W, WriteNext, M!WriteCells(W), Lays(W, Plan[at]),
         DOMAIN W = Parts(Plan[at]) \cap Cell
  PROVE  PlanInv'
<1> SUFFICES ASSUME BarriersHeld, NEW i \in 1..19, i < at + 1, Plan[i] # SYNC
             PROVE  Laid(i)'
  BY DEF PlanInv, WriteNext, BarriersHeld
<1>1. at \in 1..19 /\ Plan[at] # SYNC
  BY NextWrite DEF WriteNext
<1>2. \A b \in {5, 12, 19} : b < at + 1 => b < at
  BY <1>1, PlanSyncs
<1>3. \A c \in Cell : /\ vis'[c] = IF c \in DOMAIN W THEN F[c] ELSE vis[c]
                      /\ surv'[c] = IF c \in DOMAIN W THEN surv[c] \cup {F[c]} ELSE surv[c]
  BY DEF M!WriteCells, Lays
<1>4. CASE i = at
  <2>1. ~(Barrier(i) < at)  BY <1>4, <1>1, BarrierFacts
  <2>2. ~(Barrier(i) < at + 1)  BY <1>2, <2>1, BarrierFacts
  <2> QED  BY <1>3, <1>4, <2>2 DEF Laid, WriteNext
<1>5. CASE i < at
  <2>1. Laid(i)  BY <1>1, <1>5 DEF IInv, PlanInv
  <2>2. Barrier(i) < at + 1 => Barrier(i) < at  BY <1>2, BarrierFacts
  <2> QED  BY <1>3, <2>1, <2>2 DEF Laid, WriteNext
<1> QED  BY <1>1, <1>4, <1>5

-----------------------------------------------------------------------------
(* One lemma for every action.                                             *)
Idle == probe = 0 /\ UNCHANGED <<machine, probe>>

LEMMA IdleProbe == ASSUME ProbeInv, Idle PROVE ProbeInv'
BY DEF ProbeInv, Idle, machine

Books ==
  /\ target \in {"file", "partition", "disk"} /\ at \in 0..20
  /\ verdict \in {"none", "formatted", "died", "refused"}
  /\ syncErrors \in 0..SyncErrors /\ mishaps \in 0..MaxMishaps

LEMMA TypeParts == MkfsTypeOK <=> M!MediumTypeOK /\ Books
BY PlanFacts DEF MkfsTypeOK, Books

LEMMA TypeNext == ASSUME DeviceInv', Books' PROVE MkfsTypeOK'
<1>1. (MkfsTypeOK <=> M!MediumTypeOK /\ Books)'
  BY TypeParts, PTL
<1> QED  BY <1>1 DEF DeviceInv

LEMMA FoundBlank == Blank \in Found /\ Foreign \in Found
BY DEF Found

LEMMA TruncateReplaces == ASSUME Truncate PROVE Replaced(Blank)
BY DEF Truncate, Replaced

LEMMA StartFileStep == ASSUME IInv, Idle, StartFile PROVE IInv'
<1>1. DeviceInv' /\ ImageInv'
  BY FoundBlank, TruncateReplaces, ReplacedDevice, ReplacedImages DEF StartFile
<1>2. MkfsTypeOK'
  BY <1>1, TypeParts, TypeNext DEF IInv, StartFile, Books
<1>3. PlanInv'  BY DEF PlanInv, StartFile
<1>4. FormattedIsDurable'  BY DEF FormattedIsDurable, StartFile
<1>5. ProbeInv' /\ NeverWhileUsed'
  BY IdleProbe DEF IInv, NeverWhileUsed, StartFile
<1> QED  BY <1>1, <1>2, <1>3, <1>4, <1>5 DEF IInv, DeviceInv

LEMMA TooSmallStep == ASSUME IInv, Idle, TooSmall PROVE IInv'
<1>1. DeviceInv' /\ ImageInv'
  BY FoundBlank, TruncateReplaces, ReplacedDevice, ReplacedImages DEF TooSmall
<1>2. MkfsTypeOK'
  BY <1>1, MkfsBoundsAssumption, TypeParts, TypeNext DEF IInv, TooSmall, Books
<1>3. PlanInv'  BY DEF PlanInv, TooSmall
<1>4. FormattedIsDurable'  BY DEF FormattedIsDurable, TooSmall
<1>5. ProbeInv' /\ NeverWhileUsed'
  BY IdleProbe DEF IInv, NeverWhileUsed, TooSmall
<1> QED  BY <1>1, <1>2, <1>3, <1>4, <1>5 DEF IInv, DeviceInv

LEMMA WriteNextStep == ASSUME IInv, Idle, WriteNext PROVE IInv'
<1>1. PICK W : /\ M!WriteCells(W) /\ Lays(W, Plan[at])
               /\ DOMAIN W = Parts(Plan[at]) \cap Cell
  BY WholeWrite DEF WriteNext
<1>2. DeviceInv' /\ ImageInv'
  BY <1>1, LaysImages DEF WriteNext
<1>3. PlanInv'  BY <1>1, LaysPlan
<1>4. FormattedIsDurable'
  BY <1>1, LaysFormatted DEF IInv, WriteNext
<1>5. at \in 1..19  BY NextWrite DEF WriteNext
<1>6. MkfsTypeOK'
  BY <1>2, <1>5, TypeParts, TypeNext DEF IInv, WriteNext, Books
<1>7. ProbeInv' /\ NeverWhileUsed'
  BY <1>5, IdleProbe DEF IInv, NeverWhileUsed, WriteNext, Claimable, Idle, machine
<1> QED  BY <1>2, <1>3, <1>4, <1>6, <1>7 DEF IInv, DeviceInv

LEMMA WriteFailsStep == ASSUME IInv, Idle, WriteFails PROVE IInv'
<1>1. PICK k \in 0..2 : M!WriteFails(FormatWrite(Plan[at]), Region \X (1..k))
  BY DEF WriteFails
<1>2. PICK W : M!WriteCells(W) /\ Lays(W, Plan[at])
  BY <1>1, CutWrite
<1>3. DeviceInv' /\ ImageInv'
  BY <1>2, LaysImages DEF WriteFails
<1>4. PlanInv'  BY DEF PlanInv, WriteFails
<1>5. FormattedIsDurable'
  BY DEF FormattedIsDurable, WriteFails
<1>6. MkfsTypeOK'
  BY <1>3, MkfsBoundsAssumption, TypeParts, TypeNext DEF IInv, WriteFails, Books
<1>7. ProbeInv' /\ NeverWhileUsed'
  BY IdleProbe DEF IInv, NeverWhileUsed, WriteFails
<1> QED  BY <1>3, <1>4, <1>5, <1>6, <1>7 DEF IInv, DeviceInv

(* A barrier that holds makes durable what the plan has laid down, and one *)
(* that fails ends what is promised.                                       *)
LEMMA SyncNextStep == ASSUME IInv, Idle, SyncNext PROVE IInv'
<1>1. at \in 1..19 /\ Plan[at] = SYNC  BY PlanFacts DEF SyncNext
<1>2. ProbeInv' /\ NeverWhileUsed'
  BY <1>1, IdleProbe DEF IInv, NeverWhileUsed, SyncNext, Claimable, Idle, machine
<1>3. CASE M!Sync /\ UNCHANGED <<syncErrors, mishaps>>
  <2>1. DeviceInv  BY DEF IInv, MkfsTypeOK, DeviceInv
  <2>2. Narrowed /\ vis' = vis  BY <1>3, <2>1, SyncNarrows
  <2>3. DOMAIN vis' = Cell /\ vis' = [c \in Cell |-> vis'[c]]
        /\ surv' = [c \in Cell |-> {vis'[c]}]
    BY <1>3, <2>1 DEF DeviceInv, M!MediumTypeOK, M!Sync
  <2>4. DeviceInv'  BY <2>1, <2>2, <2>3, NarrowedDevice
  <2>5. ImageInv'  BY <1>3, <2>2, NarrowedImages DEF IInv, BarriersHeld
  <2>6. PlanInv'
    <3> SUFFICES ASSUME BarriersHeld, NEW i \in 1..19, i < at + 1, Plan[i] # SYNC
                 PROVE  Laid(i)'
      BY <1>3 DEF PlanInv, SyncNext, BarriersHeld
    <3>1. Laid(i)
      BY <1>1 DEF IInv, PlanInv
    <3> QED  BY <2>2, <2>3, <3>1 DEF Laid
  <2>7. FormattedIsDurable'
    <3> SUFFICES ASSUME verdict = "formatted", BarriersHeld, NEW c \in Cell
                 PROVE  surv'[c] = {F[c]}
      BY <1>3 DEF FormattedIsDurable, BarriersHeld, SyncNext, F
    <3>1. surv[c] = {F[c]}  BY DEF IInv, FormattedIsDurable, F
    <3> QED  BY <2>2, <3>1 DEF Narrowed
  <2>8. MkfsTypeOK'
    BY <1>1, <1>3, <2>4, TypeParts, TypeNext DEF IInv, SyncNext, Books
  <2> QED  BY <1>2, <2>4, <2>5, <2>6, <2>7, <2>8 DEF IInv, DeviceInv
<1>4. CASE /\ syncErrors < SyncErrors /\ syncErrors' = syncErrors + 1
           /\ mishaps < MaxMishaps /\ mishaps' = mishaps + 1 /\ M!SyncFails
  <2>1. vis' = vis /\ surv' = surv  BY <1>4 DEF M!SyncFails, M!medium
  <2>2. syncErrors \in Nat  BY DEF IInv, MkfsTypeOK
  <2>3. ~BarriersHeld'  BY <1>4, <2>2 DEF BarriersHeld
  <2>4. PlanInv' /\ ImageInv' /\ FormattedIsDurable'
    BY <2>3 DEF PlanInv, ImageInv, FormattedIsDurable
  <2>5. M!MediumTypeOK' /\ M!VisibleMaySurvive' /\ LeadInv'
    BY <2>1 DEF IInv, MkfsTypeOK, M!MediumTypeOK, M!VisibleMaySurvive, LeadInv
  <2>6. MkfsTypeOK'
    BY <1>1, <1>4, <2>5, MkfsBoundsAssumption, TypeParts, TypeNext DEF IInv, SyncNext, Books, DeviceInv
  <2> QED  BY <1>2, <2>4, <2>5, <2>6 DEF IInv
<1> QED  BY <1>3, <1>4 DEF SyncNext

LEMMA DoneStep == ASSUME IInv, Idle, Done PROVE IInv'
<1>1. at = 20  BY PlanFacts DEF Done
<1>2. vis' = vis /\ surv' = surv /\ at' = 0 /\ syncErrors' = syncErrors
  BY DEF Done
<1>3. DeviceInv' /\ ImageInv' /\ PlanInv'
  BY <1>2 DEF IInv, MkfsTypeOK, DeviceInv, M!MediumTypeOK, M!VisibleMaySurvive,
              LeadInv, ImageInv, Image, PlanInv, BarriersHeld
<1>4. FormattedIsDurable'
  BY <1>1, <1>2, AllDown DEF IInv, FormattedIsDurable, BarriersHeld, F
<1>5. MkfsTypeOK'
  BY <1>3, TypeParts, TypeNext DEF IInv, Done, Books
<1>6. ProbeInv' /\ NeverWhileUsed'
  BY <1>2, IdleProbe DEF IInv, NeverWhileUsed
<1> QED  BY <1>3, <1>4, <1>5, <1>6 DEF IInv, DeviceInv

(* Steps that leave the contents of the device alone.                      *)
LEMMA DeviceKept ==
  ASSUME IInv, UNCHANGED <<vis, surv, syncErrors>>, at' = 0 \/ at' = at \/ at' = 1,
         verdict' = "formatted" => verdict = "formatted"
  PROVE  DeviceInv' /\ ImageInv' /\ PlanInv' /\ FormattedIsDurable'
<1>1. DeviceInv' /\ ImageInv' /\ FormattedIsDurable'
  BY DEF IInv, MkfsTypeOK, DeviceInv, M!MediumTypeOK, M!VisibleMaySurvive,
         LeadInv, ImageInv, Image, FormattedIsDurable, BarriersHeld
<1>2. PlanInv'
  <2>1. CASE at' = 0  BY <2>1 DEF PlanInv
  <2>2. CASE at' = 1  BY <2>2 DEF PlanInv
  <2>3. CASE at' = at
    BY <2>3 DEF IInv, PlanInv, Laid, BarriersHeld
  <2> QED  BY <2>1, <2>2, <2>3
<1> QED  BY <1>1, <1>2

LEMMA KillStep == ASSUME IInv, Kill, UNCHANGED <<machine, probe>> PROVE IInv'
<1>1. DeviceInv' /\ ImageInv' /\ PlanInv' /\ FormattedIsDurable'
  BY DeviceKept DEF Kill
<1>2. MkfsTypeOK'
  BY <1>1, MkfsBoundsAssumption, TypeParts, TypeNext DEF IInv, Kill, Books
<1>3. ProbeInv' /\ NeverWhileUsed'
  BY DEF IInv, Kill, ProbeInv, NeverWhileUsed, machine
<1> QED  BY <1>1, <1>2, <1>3 DEF IInv, DeviceInv

(* The guards, and the rest of the machine.                                *)
LEMMA ProbeOrder == DOMAIN Probes = 1..5 /\ Len(Probes) = 5
                    /\ Probes[1] = "partitions" /\ Probes[5] = "signature"
BY DEF Probes

LEMMA CheckTargetStep == ASSUME IInv, CheckTarget PROVE IInv'
<1>1. DeviceInv' /\ ImageInv' /\ PlanInv' /\ FormattedIsDurable'
  BY DeviceKept DEF CheckTarget
<1>2. MkfsTypeOK'
  BY <1>1, TypeParts, TypeNext DEF IInv, CheckTarget, Books
<1>3. ProbeInv' /\ NeverWhileUsed'
  BY DEF IInv, CheckTarget, ProbeInv, NeverWhileUsed, Claimable
<1> QED  BY <1>1, <1>2, <1>3 DEF IInv, DeviceInv

LEMMA ProbePassesStep == ASSUME IInv, ProbePasses PROVE IInv'
<1>1. DeviceInv' /\ ImageInv' /\ PlanInv' /\ FormattedIsDurable'
  BY DeviceKept DEF ProbePasses, vars
<1>2. MkfsTypeOK'
  BY <1>1, TypeParts, TypeNext DEF IInv, ProbePasses, Books, vars
<1>3. probe \in 1..5 /\ probe' = probe + 1 /\ ~Alarms(Probes[probe])
  BY ProbeOrder DEF ProbePasses
<1>4. probe = 1 => parts = "none"
  BY <1>3, ProbeOrder DEF Alarms
<1>5. probe = 5 => Signature(vis) \in OVERWRITABLE
  BY <1>3, ProbeOrder DEF Alarms
<1>6. vis' = vis /\ at' = at /\ target' = target /\ parts' = parts /\ altered' = altered
      /\ user' = user
  BY DEF ProbePasses, vars, machine
<1>7. Signature(vis)' = Signature(vis)
  BY <1>6 DEF Signature
<1>8. ProbeInv'
  BY <1>3, <1>4, <1>5, <1>6, <1>7 DEF IInv, ProbeInv, OVERWRITABLE
<1>9. NeverWhileUsed'
  BY <1>6 DEF IInv, NeverWhileUsed, Claimable
<1> QED  BY <1>1, <1>2, <1>8, <1>9 DEF IInv, DeviceInv

LEMMA RefuseStep == ASSUME IInv, probe # 0, Refuse PROVE IInv'
<1>1. DeviceInv' /\ ImageInv' /\ PlanInv' /\ FormattedIsDurable'
  BY DeviceKept DEF Refuse
<1>2. MkfsTypeOK'
  BY <1>1, TypeParts, TypeNext DEF IInv, Refuse, Books
<1>3. ProbeInv' /\ NeverWhileUsed'
  BY DEF IInv, Refuse, ProbeInv, NeverWhileUsed, Claimable, machine
<1> QED  BY <1>1, <1>2, <1>3 DEF IInv, DeviceInv

LEMMA OpenExclusiveStep == ASSUME IInv, OpenExclusive PROVE IInv'
<1>1. DeviceInv' /\ ImageInv' /\ PlanInv' /\ FormattedIsDurable'
  BY DeviceKept DEF OpenExclusive, StartDevice
<1>2. MkfsTypeOK'
  BY <1>1, TypeParts, TypeNext DEF IInv, OpenExclusive, StartDevice, Books
<1>3. ProbeInv' /\ NeverWhileUsed'
  BY DEF OpenExclusive, ProbeInv, NeverWhileUsed, Claimable, machine
<1> QED  BY <1>1, <1>2, <1>3 DEF IInv, DeviceInv

(* The steps of others that change no content.                             *)
LEMMA OthersStep ==
  ASSUME IInv, Other, UNCHANGED <<vars, probe>>,
         \/ parts' = parts /\ altered' = altered
         \/ parts' = "unused" /\ altered' = TRUE
         \/ parts = "unused" /\ altered' = altered
  PROVE  IInv'
<1>1. DeviceInv' /\ ImageInv' /\ PlanInv' /\ FormattedIsDurable'
  BY DeviceKept DEF vars
<1>2. MkfsTypeOK'
  BY <1>1, TypeParts, TypeNext DEF IInv, Books, vars
<1>3. vis' = vis /\ at' = at /\ at = 0 /\ target' = target /\ probe' = probe
  BY DEF vars, Other
<1>4. (Signature(vis) \in OVERWRITABLE)' <=> Signature(vis) \in OVERWRITABLE
  BY <1>3 DEF Signature, OVERWRITABLE
<1>5. ProbeInv'
  <2>1. probe > 1 /\ ~altered' => parts' = "none"
    BY DEF IInv, ProbeInv
  <2>2. probe > 5 /\ ~altered' => Signature(vis) \in OVERWRITABLE
    BY DEF IInv, ProbeInv
  <2> QED  BY <1>3, <1>4, <2>1, <2>2 DEF IInv, ProbeInv
<1>6. NeverWhileUsed'
  BY <1>3 DEF NeverWhileUsed
<1> QED  BY <1>1, <1>2, <1>5, <1>6 DEF IInv, DeviceInv

LEMMA FormatForeignStep == ASSUME IInv, FormatForeign PROVE IInv'
<1>1. Replaced(Foreign)  BY DEF FormatForeign, Replaced
<1>2. DeviceInv' /\ ImageInv'
  BY <1>1, FoundBlank, ReplacedDevice, ReplacedImages
<1>3. MkfsTypeOK'
  BY <1>2, TypeParts, TypeNext DEF IInv, FormatForeign, Books
<1>4. PlanInv' /\ FormattedIsDurable' /\ NeverWhileUsed'
  BY DEF PlanInv, FormattedIsDurable, NeverWhileUsed, FormatForeign, Other
<1>5. ProbeInv'
  BY DEF IInv, ProbeInv, FormatForeign
<1> QED  BY <1>2, <1>3, <1>4, <1>5 DEF IInv, DeviceInv

LEMMA PowerLossStep == ASSUME IInv, PowerLossAll PROVE IInv'
<1>1. DeviceInv  BY DEF IInv, MkfsTypeOK, DeviceInv
<1>2. Narrowed /\ surv' = [c \in Cell |-> {vis'[c]}] /\ DOMAIN vis' = Cell
      /\ vis' = [c \in Cell |-> vis'[c]]
  BY <1>1, PowerCutNarrows DEF PowerLossAll, PowerLoss
<1>3. DeviceInv'  BY <1>1, <1>2, NarrowedDevice
<1>4. ImageInv'
  BY <1>2, NarrowedImages DEF IInv, PowerLossAll, PowerLoss, BarriersHeld
<1>5. PlanInv' /\ NeverWhileUsed' /\ ProbeInv'
  BY DEF PlanInv, NeverWhileUsed, ProbeInv, PowerLossAll, PowerLoss
<1>6. FormattedIsDurable'
  <2> SUFFICES ASSUME verdict = "formatted", BarriersHeld, NEW c \in Cell
               PROVE  surv'[c] = {F[c]}
    BY DEF FormattedIsDurable, BarriersHeld, PowerLossAll, PowerLoss, F
  <2>1. surv[c] = {F[c]}  BY DEF IInv, FormattedIsDurable, F
  <2> QED  BY <1>2, <2>1 DEF Narrowed
<1>7. MkfsTypeOK'
  BY <1>3, MkfsBoundsAssumption, TypeParts, TypeNext
  DEF IInv, PowerLossAll, PowerLoss, Books
<1> QED  BY <1>3, <1>4, <1>5, <1>6, <1>7 DEF IInv, DeviceInv

-----------------------------------------------------------------------------
LEMMA InitIInv == SafetyInit => IInv
<1> SUFFICES ASSUME SafetyInit PROVE IInv
  OBVIOUS
<1>1. PICK v \in Found : vis = v /\ surv = [c \in Cell |-> {v[c]}]
  BY DEF SafetyInit, Init, M!Settled
<1>2. v \in [Cell -> Content] /\ Leads(v) /\ ~Stranded(v)
  BY FoundTypes, FoundSound
<1>3. M!MediumTypeOK /\ M!VisibleMaySurvive
  BY <1>1, <1>2 DEF M!MediumTypeOK, M!VisibleMaySurvive
<1>4. LeadInv
  BY <1>1, <1>2, PtrCells DEF LeadInv, Leads
<1>5. ImageInv
  <2> SUFFICES ASSUME NEW u, Image(u) PROVE ~Stranded(u)
    BY DEF ImageInv
  <2>1. \A c \in Cell : u[c] = v[c]  BY <1>1 DEF Image
  <2> QED  BY <1>2, <2>1, SameImage
<1>6. MkfsTypeOK
  BY <1>3, MkfsBoundsAssumption, TypeParts DEF SafetyInit, Init, Books
<1>7. PlanInv /\ FormattedIsDurable /\ NeverWhileUsed /\ ProbeInv
  BY DEF SafetyInit, Init, PlanInv, FormattedIsDurable, NeverWhileUsed, ProbeInv
<1> QED  BY <1>3, <1>4, <1>5, <1>6, <1>7 DEF IInv

LEMMA StutterIInv == ASSUME IInv, UNCHANGED allvars PROVE IInv'
<1>1. DeviceInv' /\ ImageInv' /\ PlanInv' /\ FormattedIsDurable'
  BY DeviceKept DEF allvars, vars
<1>2. MkfsTypeOK'
  BY <1>1, TypeParts, TypeNext DEF IInv, Books, allvars, vars
<1>3. Signature(vis)' = Signature(vis)
  BY DEF Signature, allvars, vars
<1>4. ProbeInv' /\ NeverWhileUsed'
  BY <1>3 DEF IInv, ProbeInv, NeverWhileUsed, Claimable, OVERWRITABLE, allvars, vars, machine
<1> QED  BY <1>1, <1>2, <1>4 DEF IInv, DeviceInv

LEMMA NextIInv == IInv /\ [SafetyNext]_allvars => IInv'
<1> SUFFICES ASSUME IInv, [SafetyNext]_allvars PROVE IInv'
  OBVIOUS
<1>1. CASE probe = 0 /\ FormatStep /\ UNCHANGED <<machine, probe>>
  BY <1>1, StartFileStep, TooSmallStep, WriteNextStep, WriteFailsStep, SyncNextStep,
     DoneStep DEF FormatStep, Idle
<1>2. CASE Kill /\ UNCHANGED <<machine, probe>>  BY <1>2, KillStep
<1>3. CASE CheckTarget  BY <1>3, CheckTargetStep
<1>4. CASE ProbePasses  BY <1>4, ProbePassesStep
<1>5. CASE ProbeAlarms
  BY <1>5, ProbeOrder, RefuseStep DEF ProbeAlarms
<1>6. CASE OpenExclusive  BY <1>6, OpenExclusiveStep
<1>7. CASE OpenRefused  BY <1>7, ProbeOrder, RefuseStep DEF OpenRefused
<1>8. CASE \E u \in {"mount", "swap", "holder", "session"} : Claim(u)
  BY <1>8, OthersStep DEF Claim
<1>9. CASE Release  BY <1>9, OthersStep DEF Release
<1>10. CASE FormatForeign  BY <1>10, FormatForeignStep
<1>11. CASE Partition  BY <1>11, OthersStep DEF Partition
<1>12. CASE MountPartition  BY <1>12, OthersStep DEF MountPartition
<1>13. CASE PowerLossAll  BY <1>13, PowerLossStep
<1>14. CASE UNCHANGED allvars  BY <1>14, StutterIInv
<1> QED  BY <1>1, <1>2, <1>3, <1>4, <1>5, <1>6, <1>7, <1>8, <1>9, <1>10, <1>11,
            <1>12, <1>13, <1>14 DEF SafetyNext

LEMMA Always == Spec => []IInv
BY InitIInv, NextIInv, PTL DEF Spec

-----------------------------------------------------------------------------
(***************************************************************************)
(* What users of mkfs_cafs rely on.                                        *)
(***************************************************************************)

(* Every variable of the format keeps its type.                            *)
THEOREM MkfsTyped == Spec => []MkfsTypeOK
BY Always, PTL DEF IInv

(* A volume reported as formatted, while no barrier has failed, holds what *)
(* the engine expects in every cell, in every future a power loss can      *)
(* bring about.                                                            *)
THEOREM FormatDurable == Spec => []FormattedIsDurable
BY Always, PTL DEF IInv

(* What mkfs_cafs is writing to is claimed by nobody else and has no       *)
(* mounted partition, whenever it writes.                                  *)
THEOREM NeverUsed == Spec => []NeverWhileUsed
BY Always, PTL DEF IInv

(* NeverStranded speaks of the images a power loss may leave.              *)
LEMMA IInvNotStranded == IInv => NeverStranded
<1> SUFFICES ASSUME IInv, BarriersHeld, NEW f \in M!Images(Vital)
             PROVE  ~Stranded(M!Overlay(f))
  BY DEF NeverStranded, Stranded
<1>1. \A c \in DOMAIN f : f[c] \in surv[c]
  BY DEF M!Images
<1>2. Image(M!Overlay(f))
  BY <1>1 DEF Image, M!Overlay, IInv, M!VisibleMaySurvive
<1> QED  BY <1>2 DEF IInv, ImageInv

(* However a format is cut short, while no barrier has failed, what is left*)
(* either does not mount or leads to a copy of the Superblock that verifies*)
(* (mkfs_cafs.rs:181-182).                                                 *)
THEOREM NotStranded == Spec => []NeverStranded
BY Always, IInvNotStranded, PTL

(* While a cell of one group is written, those before it are in place.     *)
LEMMA WritingInOrder ==
  ASSUME IInv, Writing, BarriersHeld, NEW c \in Cell, Group(c[1]) < Group(Plan[at])
  PROVE  surv[c] = {F[c]}
<1>1. at \in 1..19 /\ Plan[at] # SYNC
  BY NextWrite DEF Writing
<1>2. PICK i \in 1..19 : Plan[i] # SYNC /\ Plan[i] = c[1] /\ c \in Parts(Plan[i])
  BY PlanCovers
<1>3. Group(Plan[i]) < Group(Plan[at])
  BY <1>2
<1>4. Barrier(i) < at
  BY <1>1, <1>2, <1>3, PlanGroups, PlanSyncs DEF Barrier
<1>5. Laid(i)
  BY <1>1, <1>2, <1>4, BarrierFacts DEF IInv, PlanInv
<1> QED  BY <1>2, <1>4, <1>5 DEF Laid

(* The structures, the tail mirror and the head are written in this order, *)
(* and a group starts only when those before it are durable                *)
(* (mkfs_cafs.rs:183-210).                                                 *)
THEOREM CommitsInOrder == Spec => CommitOrder
<1>1. IInv => (Writing /\ vis' # vis /\ BarriersHeld =>
        \A c \in Cell : Group(c[1]) < Group(Plan[at]) => surv[c] = {Formatted(CRC32C)[c]})
  BY WritingInOrder DEF F
<1>2. IInv => [Writing /\ vis' # vis /\ BarriersHeld =>
        \A c \in Cell : Group(c[1]) < Group(Plan[at]) => surv[c] = {Formatted(CRC32C)[c]}]_vars
  BY <1>1
<1> QED  BY <1>2, Always, PTL DEF CommitOrder

(* What holds of a step that opens the device.                             *)
ExpendableStep ==
  at = 0 /\ at' = 1 /\ target # "file" /\ ~altered =>
    Signature(vis) \in OVERWRITABLE /\ parts = "none"

LEMMA OpensExpendable == ASSUME IInv, [SafetyNext]_allvars PROVE ExpendableStep
<1> SUFFICES ASSUME at = 0, at' = 1, target # "file", ~altered
             PROVE  Signature(vis) \in OVERWRITABLE /\ parts = "none"
  BY DEF ExpendableStep
<1>1. ASSUME FormatStep PROVE FALSE
  BY <1>1, PlanFacts DEF FormatStep, StartFile, TooSmall, WriteNext, WriteFails,
     SyncNext, Done
<1>2. OpenExclusive
  BY <1>1 DEF SafetyNext, Kill, CheckTarget, ProbePasses, ProbeAlarms, Refuse,
     OpenRefused, Claim, Release, FormatForeign, Partition, MountPartition,
     PowerLossAll, PowerLoss, vars, allvars
<1>3. probe = 6
  BY <1>2, ProbeOrder DEF OpenExclusive
<1> QED  BY <1>3 DEF IInv, ProbeInv

(* What a format destroys was expendable when its guards looked at it,     *)
(* unless others have put something there since (safety.rs:96-200).        *)
THEOREM ExpendableOnly == Spec => OnlyExpendable
<1>1. IInv /\ [SafetyNext]_allvars => [ExpendableStep]_allvars
  BY OpensExpendable
<1>2. Spec => [][ExpendableStep]_allvars
  BY <1>1, Always, PTL DEF Spec
<1> QED  BY <1>2 DEF OnlyExpendable, ExpendableStep

(* No step of a format takes the head pointer of slot 0 from the device.   *)
LEMMA StaysCafs ==
  ASSUME IInv, [SafetyNext]_allvars, at # 0, SurelyCafs
  PROVE  SurelyCafs'
<1>1. HeadPtr \in Cell /\ F[HeadPtr].is = "ptr"
  BY PtrCells, FormattedFacts DEF Ptr
<1>2. DeviceInv  BY DEF IInv, MkfsTypeOK, DeviceInv
<1>3. \A x \in surv[HeadPtr] : x.is = "ptr"
  BY DEF SurelyCafs, HeadPtr
<1>4. SUFFICES surv'[HeadPtr] \subseteq surv[HeadPtr] \cup {F[HeadPtr]}
  BY <1>1, <1>3 DEF SurelyCafs, HeadPtr
<1>5. ASSUME NEW W, NEW r, M!WriteCells(W), Lays(W, r)
      PROVE  surv'[HeadPtr] \subseteq surv[HeadPtr] \cup {F[HeadPtr]}
  BY <1>1, <1>5 DEF M!WriteCells, Lays
<1>6. ASSUME Narrowed PROVE surv'[HeadPtr] \subseteq surv[HeadPtr]
  BY <1>1, <1>6 DEF Narrowed
<1>7. CASE WriteNext
  BY <1>5, <1>7, WholeWrite DEF WriteNext
<1>8. CASE WriteFails
  BY <1>5, <1>8, CutWrite DEF WriteFails
<1>9. CASE SyncNext
  BY <1>2, <1>6, <1>9, SyncNarrows DEF SyncNext, M!SyncFails, M!medium
<1>10. CASE PowerLossAll
  BY <1>2, <1>6, <1>10, PowerCutNarrows DEF PowerLossAll, PowerLoss
<1>11. CASE surv' = surv  BY <1>11
<1> QED
  BY <1>7, <1>8, <1>9, <1>10, <1>11
  DEF SafetyNext, FormatStep, StartFile, TooSmall, Done, Kill, CheckTarget, ProbePasses,
      ProbeAlarms, Refuse, OpenExclusive, StartDevice, OpenRefused, Claim, Release,
      FormatForeign, Partition, MountPartition, Other, vars, allvars

(* A device that is surely taken for CAFS stays so, however its format is  *)
(* cut short: the retry is not refused (safety.rs:176).                    *)
THEOREM StillAccepted == Spec => AcceptedAgain
<1>1. IInv /\ [SafetyNext]_allvars => [at # 0 /\ SurelyCafs => SurelyCafs']_allvars
  BY StaysCafs
<1> QED  BY <1>1, Always, PTL DEF Spec, AcceptedAgain

=============================================================================
