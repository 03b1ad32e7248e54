------------------------------ MODULE NcaProofs ------------------------------
(***************************************************************************)
(* A built archive reads back as what was placed in it, verifies from its  *)
(* header alone and gives writer and reader the same counters; an accepted *)
(* archive hides no section.  All of it for every digest, every size of    *)
(* the units that nests like the format's, and every set of sections.      *)
(***************************************************************************)
EXTENDS Nca, LayoutLemmas

(***************************************************************************)
(* Padding and hash tables                                                 *)
(***************************************************************************)
LEMMA PadWholePads ==
  ASSUME NEW bytes \in Seq(Byte), NEW unit \in Nat \ {0}
  PROVE  /\ PadWhole(bytes, unit) \in Seq(Byte)
         /\ LiesAt(PadWhole(bytes, unit), 0, bytes)
         /\ Len(PadWhole(bytes, unit)) % unit = 0
         /\ Len(bytes) =< Len(PadWhole(bytes, unit))
<1>. DEFINE n == unit - (Len(bytes) % unit)
            z == Zeros(n)
<1>1. Len(bytes) \in Nat
  BY LenProperties
<1>2. /\ Len(bytes) \div unit \in Nat /\ Len(bytes) % unit \in 0..(unit - 1)
      /\ Len(bytes) = unit * (Len(bytes) \div unit) + (Len(bytes) % unit)
  BY <1>1, DivMod, Zenon
<1>3. n \in Nat
  BY <1>2
<1>. HIDE DEF n
<1>4. z \in Seq(Byte) /\ Len(z) = n
  BY <1>3 DEF Zeros, Byte
<1>. HIDE DEF z
<1>5. PadWhole(bytes, unit) = bytes \o z
  BY DEF PadWhole, n, z
<1>6. /\ bytes \o z \in Seq(Byte) /\ Len(bytes \o z) = Len(bytes) + Len(z)
      /\ LiesAt(bytes \o z, 0, bytes)
  BY <1>4, LiesAppended
<1>7. (Len(bytes) + n) % unit = 0
  <2>. DEFINE q == (Len(bytes) \div unit) + 1
  <2>1. Len(bytes) + n = q * unit + 0 /\ q \in Nat /\ 0 \in 0..(unit - 1)
    BY <1>1, <1>2 DEF n
  <2>. HIDE DEF q
  <2>. QED
    BY <2>1, DivModUnique
<1>. QED
  BY <1>1, <1>3, <1>4, <1>5, <1>6, <1>7

LEMMA PadToMediaUnitPads ==
  ASSUME NEW bytes \in Seq(Byte)
  PROVE  /\ PadToMediaUnit(bytes) \in Seq(Byte)
         /\ LiesAt(PadToMediaUnit(bytes), 0, bytes)
         /\ Len(PadToMediaUnit(bytes)) % MEDIA = 0
         /\ Len(bytes) =< Len(PadToMediaUnit(bytes))
<1>1. MEDIA \in Nat \ {0}
  BY NcaUnits
<1>2. CASE Len(bytes) % MEDIA = 0
  BY <1>2, LiesWhole, LenProperties DEF PadToMediaUnit
<1>3. CASE Len(bytes) % MEDIA # 0
  BY <1>1, <1>3, PadWholePads DEF PadToMediaUnit
<1>. QED
  BY <1>2, <1>3

\* The chunks' digests are HASH_SIZE bytes each.
Digests(bytes, size) == \A k \in 1..BlockCount(bytes, size) : Hash(Chunk(bytes, size, k)) \in [1..HASH_SIZE -> Byte]

LEMMA BlockCountNat ==
  ASSUME NEW bytes \in Seq(Byte), NEW size \in Nat \ {0}
  PROVE  BlockCount(bytes, size) \in Nat
<1>1. Len(bytes) + size - 1 \in Nat
  BY LenProperties
<1>. QED
  BY <1>1, DivMod DEF BlockCount

\* A table holds the digest of every chunk, at its place.
LEMMA HashBlocksHold ==
  ASSUME NEW bytes \in Seq(Byte), NEW size \in Nat \ {0}, Digests(bytes, size)
  PROVE  /\ HashBlocks(bytes, size) \in Seq(Byte)
         /\ \A k \in 1..BlockCount(bytes, size) :
              /\ Hash(Chunk(bytes, size, k)) \in Seq(Byte) /\ Len(Hash(Chunk(bytes, size, k))) = HASH_SIZE
              /\ LiesAt(HashBlocks(bytes, size), (k - 1) * HASH_SIZE, Hash(Chunk(bytes, size, k)))
<1>. DEFINE H == HASH_SIZE
            count == BlockCount(bytes, size)
            digest == [k \in 1..count |-> Hash(Chunk(bytes, size, k))]
            table == HashBlocks(bytes, size)
<1>1. H \in Nat \ {0} /\ count \in Nat
  BY NcaUnits, BlockCountNat
<1>2. digest \in [1..count -> [1..H -> Byte]]
  BY DEF Digests
<1>3. table = [j \in 1..(count * H) |-> digest[((j - 1) \div H) + 1][((j - 1) % H) + 1]]
  BY DEF HashBlocks
<1>. HIDE DEF H, count, digest, table
<1>4. \A q, r : q \in 0..(count - 1) /\ r \in 0..(H - 1)
                 => /\ q * H + r + 1 \in 1..(count * H)
                    /\ (q * H + r) \div H = q /\ (q * H + r) % H = r
  <2>. SUFFICES ASSUME NEW q \in 0..(count - 1), NEW r \in 0..(H - 1)
                PROVE  /\ q * H + r + 1 \in 1..(count * H)
                       /\ (q * H + r) \div H = q /\ (q * H + r) % H = r
    OBVIOUS
  <2>1. (q * H + r) \div H = q /\ (q * H + r) % H = r
    BY <1>1, DivModUnique
  <2>2. q + 1 =< count /\ (q + 1) * H =< count * H /\ (q + 1) * H = q * H + H
    BY <1>1
  <2>. QED
    BY <1>1, <2>1, <2>2
<1>5. \A j \in 1..(count * H) : ((j - 1) \div H) + 1 \in 1..count /\ ((j - 1) % H) + 1 \in 1..H
  <2>. SUFFICES ASSUME NEW j \in 1..(count * H)
                PROVE  ((j - 1) \div H) + 1 \in 1..count /\ ((j - 1) % H) + 1 \in 1..H
    OBVIOUS
  <2>. DEFINE q == (j - 1) \div H
              r == (j - 1) % H
  <2>1. j - 1 \in Nat /\ count * H \in Nat
    BY <1>1
  <2>2. q \in Nat /\ r \in 0..(H - 1) /\ j - 1 = H * q + r
    BY <1>1, <2>1, DivMod
  <2>. HIDE DEF q, r
  <2>3. H * q < H * count
    BY <1>1, <2>1, <2>2
  <2>4. q < count
    BY <1>1, <2>2, <2>3
  <2>. QED
    BY <1>1, <2>2, <2>4 DEF q, r
<1>6. table \in [1..(count * H) -> Byte] /\ count * H \in Nat
  BY <1>1, <1>2, <1>3, <1>5
<1>7. table \in Seq(Byte) /\ Len(table) = count * H
  BY <1>6
<1>8. ASSUME NEW k \in 1..count
      PROVE  /\ digest[k] \in Seq(Byte) /\ Len(digest[k]) = H
             /\ LiesAt(table, (k - 1) * H, digest[k])
  <2>1. digest[k] \in Seq(Byte) /\ Len(digest[k]) = H
    BY <1>1, <1>2
  <2>2. ASSUME NEW i \in 1..H PROVE table[(k - 1) * H + i] = digest[k][i]
    <3>1. k - 1 \in 0..(count - 1) /\ i - 1 \in 0..(H - 1)
      BY <1>1
    <3>2. (k - 1) * H \in Nat
      BY <1>1
    <3>. DEFINE p == (k - 1) * H + (i - 1)
    <3>3. p + 1 \in 1..(count * H) /\ p \div H = k - 1 /\ p % H = i - 1
      BY <1>4, <3>1, Zenon
    <3>4. p + 1 = (k - 1) * H + i /\ (p + 1) - 1 = p
      BY <1>1, <3>1, <3>2
    <3>. HIDE DEF p
    <3>5. table[p + 1] = digest[(k - 1) + 1][(i - 1) + 1]
      BY <1>3, <3>3, <3>4
    <3>. QED
      BY <1>1, <3>4, <3>5
  <2>3. (k - 1) * H \in Nat /\ (k - 1) * H + H =< count * H
    BY <1>1
  <2>. QED
    BY <1>7, <2>1, <2>2, <2>3 DEF LiesAt
<1>. QED
  BY <1>7, <1>8 DEF H, count, digest, table

\* What starts with the digests of some bytes covers them.
LEMMA CoversHashed ==
  ASSUME NEW bytes \in Seq(Byte), NEW size \in Nat \ {0}, Digests(bytes, size),
         NEW table \in Seq(Byte), LiesAt(table, 0, HashBlocks(bytes, size))
  PROVE  Covers(table, bytes, size)
<1>. SUFFICES ASSUME NEW k \in 1..BlockCount(bytes, size)
              PROVE  SubSeq(table, (k - 1) * HASH_SIZE + 1, k * HASH_SIZE) = Hash(Chunk(bytes, size, k))
  BY DEF Covers
<1>. DEFINE h == Hash(Chunk(bytes, size, k))
            m == (k - 1) * HASH_SIZE
<1>1. /\ HashBlocks(bytes, size) \in Seq(Byte) /\ h \in Seq(Byte) /\ Len(h) = HASH_SIZE
      /\ LiesAt(HashBlocks(bytes, size), m, h)
  BY HashBlocksHold
<1>. HIDE DEF h
<1>2. LiesAt(table, m, h)
  BY <1>1, LiesInPrefix, Zenon
<1>3. SubSeq(table, m + 1, m + Len(h)) = h
  BY <1>1, <1>2, SliceIs, Zenon
<1>4. m + HASH_SIZE = k * HASH_SIZE
  <2>1. BlockCount(bytes, size) \in Nat /\ HASH_SIZE \in Nat
    BY BlockCountNat, NcaUnits
  <2>. QED
    BY <2>1
<1>. HIDE DEF m
<1>5. SubSeq(table, m + 1, k * HASH_SIZE) = h
  BY <1>1, <1>3, <1>4
<1>. QED
  BY <1>5 DEF m, h

(***************************************************************************)
(* A Pfs0 section                                                          *)
(***************************************************************************)
LEMMA PartitionLaid ==
  ASSUME NEW archive \in Seq(Byte), NEW block \in Nat \ {0}, Digests(archive, block)
  PROVE  LET laid == Partition(archive, block)
             sb == laid.superblock
             table == HashBlocks(archive, block)
         IN  /\ laid.data \in Seq(Byte) /\ table \in Seq(Byte)
             /\ LiesAt(laid.data, 0, table) /\ sb.hash_table_offset = 0 /\ sb.hash_table_size = Len(table)
             /\ LiesAt(laid.data, sb.pfs0_offset, archive) /\ sb.pfs0_size = Len(archive)
             /\ sb.master_hash = Hash(table) /\ sb.block_size = block
<1>. DEFINE table == HashBlocks(archive, block)
            padded == PadWhole(table, MEDIA)
<1>1. table \in Seq(Byte) /\ MEDIA \in Nat \ {0}
  BY HashBlocksHold, NcaUnits
<1>. HIDE DEF table
<1>2. padded \in Seq(Byte) /\ LiesAt(padded, 0, table)
  BY <1>1, PadWholePads
<1>. HIDE DEF padded
<1>3. /\ padded \o archive \in Seq(Byte) /\ LiesAt(padded \o archive, 0, padded)
      /\ LiesAt(padded \o archive, Len(padded), archive)
  BY <1>2, LiesAppended, Zenon
<1>4. LiesAt(padded \o archive, 0, table)
  BY <1>1, <1>2, <1>3, LiesInPrefix, Zenon
<1>. DEFINE laid == Partition(archive, block)
<1>5. /\ laid.data = padded \o archive
      /\ laid.superblock.hash_table_offset = 0 /\ laid.superblock.hash_table_size = Len(table)
      /\ laid.superblock.pfs0_offset = Len(padded) /\ laid.superblock.pfs0_size = Len(archive)
      /\ laid.superblock.master_hash = Hash(table) /\ laid.superblock.block_size = block
  BY DEF Partition, padded, table
<1>. HIDE DEF laid
<1>. QED
  BY <1>1, <1>3, <1>4, <1>5 DEF laid, table

(***************************************************************************)
(* A RomFs section                                                         *)
(***************************************************************************)
LEMMA HashLevelCovers ==
  ASSUME NEW level \in Seq(Byte), Digests(level, IVFC_BLOCK)
  PROVE  hash_level(level) \in Seq(Byte) /\ LiesAt(hash_level(level), 0, HashBlocks(level, IVFC_BLOCK))
<1>1. IVFC_BLOCK \in Nat \ {0}
  BY NcaUnits
<1>2. HashBlocks(level, IVFC_BLOCK) \in Seq(Byte)
  BY <1>1, HashBlocksHold
<1>. QED
  BY <1>1, <1>2, PadWholePads DEF hash_level

LEMMA LevelsAre ==
  ASSUME NEW romfs
  PROVE  /\ IvfcLevels(romfs)[5] = romfs
         /\ \A l \in 0..4 : IvfcLevels(romfs)[l] = hash_level(IvfcLevels(romfs)[l + 1])
<1>. DEFINE v == IvfcLevels(romfs)
<1>1. /\ v[5] = romfs /\ v[4] = hash_level(v[5]) /\ v[3] = hash_level(v[4])
      /\ v[2] = hash_level(v[3]) /\ v[1] = hash_level(v[2]) /\ v[0] = hash_level(v[1])
  BY DEF IvfcLevels, IVFC_MAX_LEVELS
<1>. HIDE DEF v
<1>2. ASSUME NEW l \in 0..4 PROVE v[l] = hash_level(v[l + 1])
  <2>1. l = 0 \/ l = 1 \/ l = 2 \/ l = 3 \/ l = 4
    OBVIOUS
  <2>. QED
    BY <1>1, <2>1
<1>. QED
  BY <1>1, <1>2 DEF v

\* Six levels one after the other, each at the sum of the lengths before it.
LEMMA SixParts ==
  ASSUME NEW S, NEW v,
         v[0] \in Seq(S), v[1] \in Seq(S), v[2] \in Seq(S), v[3] \in Seq(S), v[4] \in Seq(S), v[5] \in Seq(S)
  PROVE  LET data == v[0] \o v[1] \o v[2] \o v[3] \o v[4] \o v[5]
         IN  /\ data \in Seq(S)
             /\ LiesAt(data, 0, v[0])
             /\ LiesAt(data, Len(v[0]), v[1])
             /\ LiesAt(data, Len(v[0]) + Len(v[1]), v[2])
             /\ LiesAt(data, Len(v[0]) + Len(v[1]) + Len(v[2]), v[3])
             /\ LiesAt(data, Len(v[0]) + Len(v[1]) + Len(v[2]) + Len(v[3]), v[4])
             /\ LiesAt(data, Len(v[0]) + Len(v[1]) + Len(v[2]) + Len(v[3]) + Len(v[4]), v[5])
<1>. DEFINE a0 == v[0]
            a1 == v[1]
            a2 == v[2]
            a3 == v[3]
            a4 == v[4]
            a5 == v[5]
<1>0. a0 \in Seq(S) /\ a1 \in Seq(S) /\ a2 \in Seq(S) /\ a3 \in Seq(S) /\ a4 \in Seq(S) /\ a5 \in Seq(S)
  OBVIOUS
<1>. HIDE DEF a0, a1, a2, a3, a4, a5
<1>. DEFINE p1 == a0 \o a1
            p2 == p1 \o a2
            p3 == p2 \o a3
            p4 == p3 \o a4
            p5 == p4 \o a5
<1>1. p1 \in Seq(S) /\ Len(p1) = Len(a0) + Len(a1) /\ LiesAt(p1, 0, a0) /\ LiesAt(p1, Len(a0), a1)
  BY <1>0, LiesAppended, Zenon
<1>. HIDE DEF p1
<1>2. p2 \in Seq(S) /\ Len(p2) = Len(p1) + Len(a2) /\ LiesAt(p2, 0, p1) /\ LiesAt(p2, Len(p1), a2)
  BY <1>0, <1>1, LiesAppended, Zenon
<1>. HIDE DEF p2
<1>3. p3 \in Seq(S) /\ Len(p3) = Len(p2) + Len(a3) /\ LiesAt(p3, 0, p2) /\ LiesAt(p3, Len(p2), a3)
  BY <1>0, <1>2, LiesAppended, Zenon
<1>. HIDE DEF p3
<1>4. p4 \in Seq(S) /\ Len(p4) = Len(p3) + Len(a4) /\ LiesAt(p4, 0, p3) /\ LiesAt(p4, Len(p3), a4)
  BY <1>0, <1>3, LiesAppended, Zenon
<1>. HIDE DEF p4
<1>5. p5 \in Seq(S) /\ LiesAt(p5, 0, p4) /\ LiesAt(p5, Len(p4), a5)
  BY <1>0, <1>4, LiesAppended, Zenon
<1>. HIDE DEF p5
<1>6. LiesAt(p5, 0, p3) /\ LiesAt(p5, Len(p3), a4)
  BY <1>0, <1>3, <1>4, <1>5, LiesInPrefix, Zenon
<1>7. LiesAt(p5, 0, p2) /\ LiesAt(p5, Len(p2), a3)
  BY <1>0, <1>2, <1>3, <1>5, <1>6, LiesInPrefix, Zenon
<1>8. LiesAt(p5, 0, p1) /\ LiesAt(p5, Len(p1), a2)
  BY <1>0, <1>1, <1>2, <1>5, <1>7, LiesInPrefix, Zenon
<1>9. LiesAt(p5, 0, a0) /\ LiesAt(p5, Len(a0), a1)
  BY <1>0, <1>1, <1>5, <1>8, LiesInPrefix, Zenon
<1>10. /\ Len(p2) = Len(a0) + Len(a1) + Len(a2)
       /\ Len(p3) = Len(a0) + Len(a1) + Len(a2) + Len(a3)
       /\ Len(p4) = Len(a0) + Len(a1) + Len(a2) + Len(a3) + Len(a4)
  BY <1>0, <1>1, <1>2, <1>3, <1>4
<1>11. /\ LiesAt(p5, Len(a0) + Len(a1), a2)
       /\ LiesAt(p5, Len(a0) + Len(a1) + Len(a2), a3)
       /\ LiesAt(p5, Len(a0) + Len(a1) + Len(a2) + Len(a3), a4)
       /\ LiesAt(p5, Len(a0) + Len(a1) + Len(a2) + Len(a3) + Len(a4), a5)
  BY <1>1, <1>5, <1>6, <1>7, <1>8, <1>10
<1>. QED
  BY <1>5, <1>9, <1>11 DEF p1, p2, p3, p4, p5, a0, a1, a2, a3, a4, a5

LEMMA LevelDigests ==
  ASSUME NEW s \in Settings.section, s.kind = "RomFs", NEW l \in 1..5
  PROVE  Digests(IvfcLevels(s.bytes)[l], IVFC_BLOCK)
<1>. SUFFICES ASSUME NEW k \in 1..BlockCount(IvfcLevels(s.bytes)[l], IVFC_BLOCK)
              PROVE  Hash(Chunk(IvfcLevels(s.bytes)[l], IVFC_BLOCK, k)) \in [1..HASH_SIZE -> Byte]
  BY Zenon DEF Digests
<1>1. l \in 1..(IVFC_MAX_LEVELS - 1)
  BY DEF IVFC_MAX_LEVELS
<1>2. Chunk(IvfcLevels(s.bytes)[l], IVFC_BLOCK, k) \in Digested(s)
  <2>. DEFINE Of(j) == {Chunk(IvfcLevels(s.bytes)[j], IVFC_BLOCK, i) : i \in 1..BlockCount(IvfcLevels(s.bytes)[j], IVFC_BLOCK)}
  <2>1. Chunk(IvfcLevels(s.bytes)[l], IVFC_BLOCK, k) \in Of(l)
    OBVIOUS
  <2>2. Digested(s) = UNION {Of(j) : j \in 1..(IVFC_MAX_LEVELS - 1)}
    BY DEF Digested
  <2>. HIDE DEF Of
  <2>. QED
    BY <1>1, <2>1, <2>2, Zenon
<1>. QED
  BY <1>2, DigestBytes, Zenon

LEMMA LevelsCover ==
  ASSUME NEW s \in Settings.section, s.kind = "RomFs"
  PROVE  /\ \A l \in 0..5 : IvfcLevels(s.bytes)[l] \in Seq(Byte)
         /\ \A l \in 1..5 : Covers(IvfcLevels(s.bytes)[l - 1], IvfcLevels(s.bytes)[l], IVFC_BLOCK)
<1>. DEFINE v == IvfcLevels(s.bytes)
<1>1. v[5] \in Seq(Byte)
  BY LevelsAre, SectionsSupplied
<1>2. \A l \in 1..5 : Digests(v[l], IVFC_BLOCK)
  BY LevelDigests
<1>3. \A l \in 0..4 : v[l] = hash_level(v[l + 1])
  BY LevelsAre, Zenon
<1>. HIDE DEF v
<1>4. ASSUME NEW l \in 0..4, v[l + 1] \in Seq(Byte)
      PROVE  v[l] \in Seq(Byte) /\ LiesAt(v[l], 0, HashBlocks(v[l + 1], IVFC_BLOCK))
  <2>1. l + 1 \in 1..5
    OBVIOUS
  <2>. QED
    BY <1>2, <1>3, <1>4, <2>1, HashLevelCovers, Zenon
<1>5. v[4] \in Seq(Byte)
  BY <1>1, <1>4
<1>6. v[3] \in Seq(Byte)
  BY <1>4, <1>5
<1>7. v[2] \in Seq(Byte)
  BY <1>4, <1>6
<1>8. v[1] \in Seq(Byte)
  BY <1>4, <1>7
<1>9. v[0] \in Seq(Byte)
  BY <1>4, <1>8
<1>10. ASSUME NEW l \in 0..5 PROVE v[l] \in Seq(Byte)
  <2>1. l = 0 \/ l = 1 \/ l = 2 \/ l = 3 \/ l = 4 \/ l = 5
    OBVIOUS
  <2>. QED
    BY <1>1, <1>5, <1>6, <1>7, <1>8, <1>9, <2>1
<1>11. ASSUME NEW l \in 1..5 PROVE Covers(v[l - 1], v[l], IVFC_BLOCK)
  <2>1. l - 1 \in 0..4 /\ (l - 1) + 1 = l /\ l \in 0..5 /\ l - 1 \in 0..5
    OBVIOUS
  <2>2. LiesAt(v[l - 1], 0, HashBlocks(v[l], IVFC_BLOCK))
    BY <1>4, <1>10, <2>1, SMTT(60)
  <2>3. IVFC_BLOCK \in Nat \ {0}
    BY NcaUnits
  <2>. QED
    BY <1>2, <1>10, <2>1, <2>2, <2>3, CoversHashed, Zenon
<1>. QED
  BY <1>10, <1>11 DEF v

\* The levels lie where the superblock says, the image last.
LEMMA IvfcLaid ==
  ASSUME NEW s \in Settings.section, s.kind = "RomFs"
  PROVE  LET laid == Ivfc(s.bytes)
             sb == laid.superblock
             v == IvfcLevels(s.bytes)
         IN  /\ laid.data \in Seq(Byte) /\ sb.level_count = 7 /\ sb.master_hash = Hash(v[0])
             /\ \A l \in 0..5 : /\ LiesAt(laid.data, sb.levels[l].logical_offset, v[l])
                               /\ sb.levels[l].hash_data_size = Len(v[l])
<1>. DEFINE v == IvfcLevels(s.bytes)
            laid == Ivfc(s.bytes)
            data == v[0] \o v[1] \o v[2] \o v[3] \o v[4] \o v[5]
<1>1. /\ laid.data = data /\ laid.superblock.level_count = 7 /\ laid.superblock.master_hash = Hash(v[0])
      /\ laid.superblock.levels = [l \in 0..5 |-> [logical_offset |-> LevelOffset(v, l), hash_data_size |-> Len(v[l])]]
  <2>1. IVFC_MAX_LEVELS - 1 = 5 /\ IVFC_MAX_LEVELS + 1 = 7
    BY DEF IVFC_MAX_LEVELS
  <2>2. laid = [data       |-> data,
                superblock |-> [level_count |-> IVFC_MAX_LEVELS + 1,
                                levels      |-> [l \in 0..(IVFC_MAX_LEVELS - 1) |->
                                                   [logical_offset |-> LevelOffset(v, l), hash_data_size |-> Len(v[l])]],
                                master_hash |-> Hash(v[0])]]
    BY Zenon DEF Ivfc
  <2>. HIDE DEF v, laid, data
  <2>. QED
    BY <2>1, <2>2
<1>2. /\ v[0] \in Seq(Byte) /\ v[1] \in Seq(Byte) /\ v[2] \in Seq(Byte)
      /\ v[3] \in Seq(Byte) /\ v[4] \in Seq(Byte) /\ v[5] \in Seq(Byte)
  <2>1. \A l \in 0..5 : v[l] \in Seq(Byte)
    BY LevelsCover, Zenon
  <2>. HIDE DEF v
  <2>. QED
    BY <2>1
<1>. HIDE DEF v, laid
<1>3. /\ data \in Seq(Byte)
      /\ LiesAt(data, 0, v[0])
      /\ LiesAt(data, Len(v[0]), v[1])
      /\ LiesAt(data, Len(v[0]) + Len(v[1]), v[2])
      /\ LiesAt(data, Len(v[0]) + Len(v[1]) + Len(v[2]), v[3])
      /\ LiesAt(data, Len(v[0]) + Len(v[1]) + Len(v[2]) + Len(v[3]), v[4])
      /\ LiesAt(data, Len(v[0]) + Len(v[1]) + Len(v[2]) + Len(v[3]) + Len(v[4]), v[5])
  BY <1>2, SixParts, Zenon
<1>. HIDE DEF data
<1>4. /\ Len(v[0]) \in Nat /\ Len(v[1]) \in Nat /\ Len(v[2]) \in Nat
      /\ Len(v[3]) \in Nat /\ Len(v[4]) \in Nat /\ Len(v[5]) \in Nat
  BY <1>2, LenProperties
<1>5. /\ LevelOffset(v, 0) = 0 /\ LevelOffset(v, 1) = Len(v[0])
      /\ LevelOffset(v, 2) = Len(v[0]) + Len(v[1])
      /\ LevelOffset(v, 3) = Len(v[0]) + Len(v[1]) + Len(v[2])
      /\ LevelOffset(v, 4) = Len(v[0]) + Len(v[1]) + Len(v[2]) + Len(v[3])
      /\ LevelOffset(v, 5) = Len(v[0]) + Len(v[1]) + Len(v[2]) + Len(v[3]) + Len(v[4])
  BY <1>4 DEF LevelOffset, LevelBefore
<1>6. ASSUME NEW l \in 0..5 PROVE LiesAt(data, LevelOffset(v, l), v[l])
  <2>1. l = 0 \/ l = 1 \/ l = 2 \/ l = 3 \/ l = 4 \/ l = 5
    OBVIOUS
  <2>. QED
    BY <1>3, <1>5, <2>1
<1>7. ASSUME NEW l \in 0..5
      PROVE  /\ laid.superblock.levels[l].logical_offset = LevelOffset(v, l)
             /\ laid.superblock.levels[l].hash_data_size = Len(v[l])
  BY <1>1
<1>. QED
  BY <1>1, <1>3, <1>6, <1>7 DEF v, laid

(***************************************************************************)
(* What lay_out_section writes, and where a reader finds the contents      *)
(***************************************************************************)
\* A section that can be laid out: not one whose block size is zero.
Placeable(s) == s \in Settings.section /\ ~(s.kind = "Pfs0" /\ s.block = 0)

LEMMA SectionDigests ==
  ASSUME NEW s, Placeable(s), s.kind # "RomFs"
  PROVE  s.bytes \in Seq(Byte) /\ s.block \in Nat \ {0} /\ Digests(s.bytes, s.block)
<1>1. s \in Settings.section /\ s.kind = "Pfs0" /\ s.block # 0
  BY SectionsSupplied DEF Placeable
<1>2. s.bytes \in Seq(Byte) /\ s.block \in Nat
  BY <1>1, SectionsSupplied
<1>3. ASSUME NEW k \in 1..BlockCount(s.bytes, s.block)
      PROVE  Hash(Chunk(s.bytes, s.block, k)) \in [1..HASH_SIZE -> Byte]
  <2>1. Chunk(s.bytes, s.block, k) \in Digested(s)
    BY <1>1, Zenon DEF Digested
  <2>. QED
    BY <1>1, <2>1, DigestBytes, Zenon
<1>. QED
  BY <1>1, <1>2, <1>3 DEF Digests

\* data() of the section: the superblock's offset and size select the contents.
LEMMA SectionLaid ==
  ASSUME NEW s, Placeable(s)
  PROVE  LET laid == LaidOut(s)
             fs == FsHeader(s, laid)
         IN  /\ laid.data \in Seq(Byte) /\ s.bytes \in Seq(Byte)
             /\ fs.superblock = laid.superblock
             /\ fs.hash_type \in HashTypes /\ fs.crypt_type \in {1, 3} /\ fs.section_ctr = 0
             /\ (fs.hash_type = 3) <=> (s.kind = "RomFs")
             /\ ~LevelInvalid(fs)
             /\ LiesAt(laid.data, DataOffset(fs), s.bytes)
             /\ DataSize(fs) = Len(s.bytes)
<1>. DEFINE laid == LaidOut(s)
            fs == FsHeader(s, laid)
<1>1. /\ fs.superblock = laid.superblock /\ fs.section_ctr = 0
      /\ fs.hash_type = IF s.kind = "RomFs" THEN 3 ELSE 2
      /\ fs.crypt_type \in {1, 3}
  BY DEF FsHeader
<1>2. s \in Settings.section /\ s.bytes \in Seq(Byte)
  BY SectionsSupplied, SMTT(60) DEF Placeable
<1>3. CASE s.kind = "RomFs"
  <2>1. laid = Ivfc(s.bytes)
    BY <1>3 DEF LaidOut
  <2>. HIDE DEF laid, fs
  <2>2. /\ laid.data \in Seq(Byte) /\ laid.superblock.level_count = 7
        /\ \A l \in 0..5 : /\ LiesAt(laid.data, laid.superblock.levels[l].logical_offset, IvfcLevels(s.bytes)[l])
                          /\ laid.superblock.levels[l].hash_data_size = Len(IvfcLevels(s.bytes)[l])
    BY <1>2, <1>3, <2>1, IvfcLaid
  <2>3. IvfcLevels(s.bytes)[5] = s.bytes
    BY LevelsAre
  <2>4. fs.hash_type = 3 /\ fs.superblock = laid.superblock
    BY <1>1, <1>3
  <2>5. /\ DataOffset(fs) = laid.superblock.levels[5].logical_offset
        /\ DataSize(fs) = laid.superblock.levels[5].hash_data_size
        /\ ~LevelInvalid(fs)
    <3>1. fs.superblock.level_count = 7 /\ fs.superblock.level_count - 2 = 5 /\ fs.hash_type # 2
      BY <2>2, <2>4
    <3>2. ~LevelInvalid(fs)
      BY <3>1 DEF LevelInvalid, IVFC_MAX_LEVELS
    <3>. QED
      BY <2>4, <3>1, <3>2 DEF DataOffset, DataSize
  <2>6. LiesAt(laid.data, DataOffset(fs), s.bytes) /\ DataSize(fs) = Len(s.bytes)
    BY <2>2, <2>3, <2>5, SMTT(60)
  <2>. QED
    BY <1>1, <1>2, <1>3, <2>2, <2>4, <2>5, <2>6 DEF laid, fs, HashTypes
<1>4. CASE s.kind # "RomFs"
  <2>1. laid = Partition(s.bytes, s.block)
    BY <1>4 DEF LaidOut
  <2>2. s.block \in Nat \ {0} /\ Digests(s.bytes, s.block)
    BY <1>4, SectionDigests
  <2>. HIDE DEF laid, fs
  <2>3. /\ laid.data \in Seq(Byte)
        /\ LiesAt(laid.data, laid.superblock.pfs0_offset, s.bytes) /\ laid.superblock.pfs0_size = Len(s.bytes)
    BY <1>2, <2>1, <2>2, PartitionLaid
  <2>4. fs.hash_type = 2 /\ fs.superblock = laid.superblock
    BY <1>1, <1>4
  <2>5. /\ DataOffset(fs) = laid.superblock.pfs0_offset /\ DataSize(fs) = laid.superblock.pfs0_size
        /\ ~LevelInvalid(fs)
    BY <2>4 DEF DataOffset, DataSize, LevelInvalid
  <2>6. LiesAt(laid.data, DataOffset(fs), s.bytes) /\ DataSize(fs) = Len(s.bytes)
    BY <2>3, <2>5
  <2>. QED
    BY <1>1, <1>2, <1>4, <2>3, <2>4, <2>5, <2>6 DEF laid, fs, HashTypes
<1>. QED
  BY <1>3, <1>4

(***************************************************************************)
(* The body                                                                *)
(***************************************************************************)
LEMMA GrownKeeps ==
  ASSUME NEW body \in Seq(Byte), Len(body) % MEDIA = 0, NEW laid, NEW i,
         i \in DOMAIN laid => laid[i].data \in Seq(Byte)
  PROVE  LET grown == Grown(body, laid, i)
         IN  /\ grown \in Seq(Byte) /\ Len(grown) % MEDIA = 0
             /\ LiesAt(grown, 0, body) /\ Len(body) =< Len(grown)
             /\ i \in DOMAIN laid =>
                  LiesAt(grown, Len(body), laid[i].data) /\ Len(body) + Len(laid[i].data) =< Len(grown)
<1>. DEFINE grown == Grown(body, laid, i)
<1>1. CASE i \notin DOMAIN laid
  <2>1. grown = body
    BY <1>1 DEF Grown
  <2>. QED
    BY <1>1, <2>1, LiesWhole, LenProperties
<1>2. CASE i \in DOMAIN laid
  <2>. DEFINE d == laid[i].data
              joined == body \o d
  <2>1. d \in Seq(Byte) /\ grown = PadToMediaUnit(joined)
    BY <1>2 DEF Grown
  <2>. HIDE DEF d, grown
  <2>2. /\ joined \in Seq(Byte) /\ Len(joined) = Len(body) + Len(d)
        /\ LiesAt(joined, 0, body) /\ LiesAt(joined, Len(body), d)
    BY <2>1, LiesAppended, Zenon
  <2>. HIDE DEF joined
  <2>3. /\ grown \in Seq(Byte) /\ LiesAt(grown, 0, joined)
        /\ Len(grown) % MEDIA = 0 /\ Len(joined) =< Len(grown)
    BY <2>1, <2>2, PadToMediaUnitPads
  <2>4. LiesAt(grown, 0, body) /\ LiesAt(grown, Len(body), d)
    BY <2>1, <2>2, <2>3, LiesInPrefix, Zenon
  <2>5. Len(body) =< Len(grown) /\ Len(body) + Len(d) =< Len(grown)
    BY <2>1, <2>2, <2>3, LenProperties
  <2>. QED
    BY <2>3, <2>4, <2>5 DEF d, grown
<1>. QED
  BY <1>1, <1>2

LEMMA BodiesAre ==
  ASSUME NEW laid
  PROVE  /\ Bodies(laid)[0] = <<>>
         /\ Bodies(laid)[1] = Grown(Bodies(laid)[0], laid, 0)
         /\ Bodies(laid)[2] = Grown(Bodies(laid)[1], laid, 1)
         /\ Bodies(laid)[3] = Grown(Bodies(laid)[2], laid, 2)
         /\ Bodies(laid)[4] = Grown(Bodies(laid)[3], laid, 3)
  BY DEF Bodies

\* Every section keeps its place while the later ones are appended.
LEMMA BodiesGrow ==
  ASSUME NEW laid, \A i \in DOMAIN laid : laid[i].data \in Seq(Byte)
  PROVE  LET B == Bodies(laid)
         IN  /\ \A n \in 0..4 : B[n] \in Seq(Byte) /\ Len(B[n]) % MEDIA = 0 /\ Len(B[n]) =< Len(B[4])
             /\ \A n \in 0..3 :
                  /\ Len(B[n]) =< Len(B[n + 1])
                  /\ n \in DOMAIN laid =>
                       LiesAt(B[4], Len(B[n]), laid[n].data) /\ Len(B[n]) + Len(laid[n].data) =< Len(B[n + 1])
<1>. DEFINE B == Bodies(laid)
            Aligned(n) == B[n] \in Seq(Byte) /\ Len(B[n]) % MEDIA = 0
            Step(n) == /\ LiesAt(B[n + 1], 0, B[n]) /\ Len(B[n]) =< Len(B[n + 1])
                       /\ n \in DOMAIN laid =>
                            LiesAt(B[n + 1], Len(B[n]), laid[n].data) /\ Len(B[n]) + Len(laid[n].data) =< Len(B[n + 1])
<1>1. /\ B[0] = <<>> /\ B[1] = Grown(B[0], laid, 0) /\ B[2] = Grown(B[1], laid, 1)
      /\ B[3] = Grown(B[2], laid, 2) /\ B[4] = Grown(B[3], laid, 3)
  BY BodiesAre
<1>. HIDE DEF B
<1>2. Aligned(0)
  <2>1. MEDIA \in Nat \ {0} /\ <<>> \in Seq(Byte) /\ Len(<<>>) = 0
    BY NcaUnits
  <2>2. 0 % MEDIA = 0
    BY <2>1
  <2>. QED
    BY <1>1, <2>1, <2>2
<1>3. ASSUME NEW n \in 0..3, Aligned(n), B[n + 1] = Grown(B[n], laid, n)
      PROVE  Aligned(n + 1) /\ Step(n)
  BY <1>3, GrownKeeps
<1>. HIDE DEF Aligned, Step
<1>4. Aligned(1) /\ Step(0)
  <2>1. B[0 + 1] = Grown(B[0], laid, 0) /\ 0 + 1 = 1
    BY <1>1
  <2>2. Aligned(0 + 1) /\ Step(0)
    BY <1>2, <1>3, <2>1
  <2>. QED
    BY <2>1, <2>2
<1>5. Aligned(2) /\ Step(1)
  <2>1. B[1 + 1] = Grown(B[1], laid, 1) /\ 1 + 1 = 2
    BY <1>1
  <2>2. Aligned(1 + 1) /\ Step(1)
    BY <1>3, <1>4, <2>1
  <2>. QED
    BY <2>1, <2>2
<1>6. Aligned(3) /\ Step(2)
  <2>1. B[2 + 1] = Grown(B[2], laid, 2) /\ 2 + 1 = 3
    BY <1>1
  <2>2. Aligned(2 + 1) /\ Step(2)
    BY <1>3, <1>5, <2>1
  <2>. QED
    BY <2>1, <2>2
<1>7. Aligned(4) /\ Step(3)
  <2>1. B[3 + 1] = Grown(B[3], laid, 3) /\ 3 + 1 = 4
    BY <1>1
  <2>2. Aligned(3 + 1) /\ Step(3)
    BY <1>3, <1>6, <2>1
  <2>. QED
    BY <2>1, <2>2
<1>8. \A n \in 0..4 : B[n] \in Seq(Byte) /\ Len(B[n]) % MEDIA = 0 /\ Len(B[n]) \in Nat
  <2>. SUFFICES ASSUME NEW n \in 0..4 PROVE Aligned(n)
    BY LenProperties DEF Aligned
  <2>1. n = 0 \/ n = 1 \/ n = 2 \/ n = 3 \/ n = 4
    OBVIOUS
  <2>. QED
    BY <1>2, <1>4, <1>5, <1>6, <1>7, <2>1
<1>9. /\ LiesAt(B[1], 0, B[0]) /\ LiesAt(B[2], 0, B[1]) /\ LiesAt(B[3], 0, B[2]) /\ LiesAt(B[4], 0, B[3])
      /\ Len(B[0]) =< Len(B[1]) /\ Len(B[1]) =< Len(B[2]) /\ Len(B[2]) =< Len(B[3]) /\ Len(B[3]) =< Len(B[4])
  BY <1>4, <1>5, <1>6, <1>7 DEF Step
<1>10. LiesAt(B[4], 0, B[1]) /\ LiesAt(B[4], 0, B[2]) /\ LiesAt(B[4], 0, B[3]) /\ LiesAt(B[4], 0, B[4])
  <2>1. B[1] \in Seq(Byte) /\ B[2] \in Seq(Byte) /\ B[3] \in Seq(Byte) /\ B[4] \in Seq(Byte)
    BY <1>8
  <2>2. LiesAt(B[4], 0, B[4])
    BY <2>1, LiesWhole
  <2>3. LiesAt(B[4], 0, B[2])
    BY <1>9, <2>1, LiesInPrefix
  <2>4. LiesAt(B[4], 0, B[1])
    BY <1>9, <2>1, <2>3, LiesInPrefix
  <2>. QED
    BY <1>9, <2>2, <2>3, <2>4
<1>11. ASSUME NEW n \in 0..3 PROVE Step(n) /\ LiesAt(B[4], 0, B[n + 1])
  <2>1. n = 0 \/ n = 1 \/ n = 2 \/ n = 3
    OBVIOUS
  <2>. QED
    BY <1>4, <1>5, <1>6, <1>7, <1>10, <2>1
<1>12. ASSUME NEW n \in 0..3, n \in DOMAIN laid
       PROVE  LiesAt(B[4], Len(B[n]), laid[n].data)
  <2>1. LiesAt(B[n + 1], Len(B[n]), laid[n].data) /\ LiesAt(B[4], 0, B[n + 1])
    BY <1>11, <1>12 DEF Step
  <2>2. B[n + 1] \in Seq(Byte) /\ B[4] \in Seq(Byte) /\ laid[n].data \in Seq(Byte)
    BY <1>8, <1>12
  <2>. QED
    BY <2>1, <2>2, LiesInPrefix
<1>13. ASSUME NEW n \in 0..4 PROVE Len(B[n]) =< Len(B[4])
  <2>1. n = 0 \/ n = 1 \/ n = 2 \/ n = 3 \/ n = 4
    OBVIOUS
  <2>2. Len(B[0]) \in Nat /\ Len(B[1]) \in Nat /\ Len(B[2]) \in Nat /\ Len(B[3]) \in Nat /\ Len(B[4]) \in Nat
    BY <1>8
  <2>3. Len(B[0]) =< Len(B[1]) /\ Len(B[1]) =< Len(B[2]) /\ Len(B[2]) =< Len(B[3]) /\ Len(B[3]) =< Len(B[4])
    BY <1>9
  <2>4. /\ Len(B[3]) =< Len(B[4]) /\ Len(B[2]) =< Len(B[4]) /\ Len(B[1]) =< Len(B[4])
        /\ Len(B[0]) =< Len(B[4]) /\ Len(B[4]) =< Len(B[4])
    <3>. DEFINE L(k) == Len(B[k])
    <3>1. /\ L(0) \in Nat /\ L(1) \in Nat /\ L(2) \in Nat /\ L(3) \in Nat /\ L(4) \in Nat
          /\ L(0) =< L(1) /\ L(1) =< L(2) /\ L(2) =< L(3) /\ L(3) =< L(4)
      BY <2>2, <2>3
    <3>. HIDE DEF L
    <3>2. L(3) =< L(4) /\ L(2) =< L(4) /\ L(1) =< L(4) /\ L(0) =< L(4) /\ L(4) =< L(4)
      BY ONLY <3>1
    <3>. QED
      BY <3>2 DEF L
  <2>. QED
    BY <2>1, <2>4
<1>14. \A n \in 0..3 :
         /\ Len(B[n]) =< Len(B[n + 1])
         /\ n \in DOMAIN laid => Len(B[n]) + Len(laid[n].data) =< Len(B[n + 1])
  BY <1>11 DEF Step
<1>. QED
  BY <1>8, <1>12, <1>13, <1>14 DEF B

(***************************************************************************)
(* The inductive invariant                                                 *)
(***************************************************************************)
Builders ==
  [content_type   : ContentTypes,
   sdk_version    : Settings.sdk_version \union {0},
   key_generation : 1..MAX_KEY_GENERATION,
   key_area       : [Slots -> Settings.key \union {0}],
   sections       : [Slots -> Settings.section \union {None}]]

\* Every section could be laid out, and its units counted in a u32.
Sealable == \A i \in Slots : ~ZeroBlock(i) /\ ~TooLarge(i)

\* What build returned is what the builder, unchanged since, describes.
ImageCurrent == phase = "built" => Sealable /\ image = ImageOf(Laid, Bodies(Laid))

\* The buffer being read is the image, or came from outside; a failed builder
\* leaves nothing to read.
ReadsKnown ==
  /\ rpc \in {"none", "ready", "done"}
  /\ rpc # "none" => phase \in {"set", "built"} /\ IF phase = "built" THEN nca = image ELSE nca \in Ncas

\* Only an accepted buffer is asked for sections.
ReadsAccepted == rpc = "ready" => HeaderError(nca) = "none"

ResultOfCall ==
  CASE rpc = "none"  -> result = NoResult
    [] rpc = "ready" -> result = NoResult \/ \E i \in Slots : result = SectionOf(i)
    [] rpc = "done"  -> \/ result = [status |-> "asserted"]
                        \/ phase # "built" /\ result = Err(HeaderError(nca))

IInv == b \in Builders /\ ImageCurrent /\ ReadsKnown /\ ReadsAccepted /\ ResultOfCall

(***************************************************************************)
(* What build writes                                                       *)
(***************************************************************************)
LEMMA LaidBytes ==
  ASSUME b \in Builders, Sealable
  PROVE  /\ DOMAIN Laid = {i \in Slots : b.sections[i] # None}
         /\ \A i \in DOMAIN Laid : /\ Placeable(b.sections[i])
                                  /\ Laid[i] = LaidOut(b.sections[i])
                                  /\ Laid[i].data \in Seq(Byte)
<1>1. DOMAIN Laid = {i \in Slots : b.sections[i] # None}
  BY DEF Laid, Sealable
<1>2. ASSUME NEW i \in DOMAIN Laid
      PROVE  Placeable(b.sections[i]) /\ Laid[i] = LaidOut(b.sections[i])
  <2>1. i \in Slots /\ b.sections[i] # None /\ ~ZeroBlock(i)
    BY <1>1 DEF Sealable
  <2>2. b.sections[i] \in Settings.section
    BY <2>1 DEF Builders
  <2>3. Placeable(b.sections[i])
    BY <2>1, <2>2 DEF Placeable, ZeroBlock
  <2>4. Laid[i] = LaidOut(b.sections[i])
    BY <2>1 DEF Laid
  <2>. QED
    BY <2>3, <2>4
<1>3. ASSUME NEW i \in DOMAIN Laid PROVE Laid[i].data \in Seq(Byte)
  BY <1>2, SectionLaid
<1>. QED
  BY <1>1, <1>2, <1>3

\* An offset on a unit boundary is recorded exactly.
LEMMA MediaOffsetExact ==
  ASSUME NEW bytes \in Seq(Byte), Len(bytes) % MEDIA = 0
  PROVE  MediaOffset(bytes) \in Nat /\ MediaOffset(bytes) * MEDIA = HEADER + Len(bytes)
<1>. DEFINE n == Len(bytes)
            h == HEADER \div MEDIA
            q == n \div MEDIA
<1>1. n \in Nat /\ HEADER \in Nat /\ MEDIA \in Nat \ {0} /\ HEADER % MEDIA = 0
  BY NcaUnits, LenProperties
<1>2. h \in Nat /\ HEADER = MEDIA * h + (HEADER % MEDIA)
  BY <1>1, DivMod
<1>3. q \in Nat /\ n = MEDIA * q + (n % MEDIA)
  BY <1>1, DivMod
<1>. HIDE DEF h, q
<1>4. HEADER + n = (h + q) * MEDIA + 0 /\ h + q \in Nat /\ 0 \in 0..(MEDIA - 1)
  <2>1. HEADER = MEDIA * h /\ n = MEDIA * q
    BY <1>1, <1>2, <1>3
  <2>2. (h + q) * MEDIA = MEDIA * h + MEDIA * q
    BY ONLY <1>1, <1>2, <1>3
  <2>. QED
    BY ONLY <1>1, <1>2, <1>3, <2>1, <2>2
<1>5. ((h + q) * MEDIA + 0) \div MEDIA = h + q
  BY <1>1, <1>4, DivModUnique
<1>6. MediaOffset(bytes) = h + q
  BY <1>4, <1>5 DEF MediaOffset
<1>. QED
  BY <1>1, <1>4, <1>6

\* The header of a built archive, slot by slot.
LEMMA ImageFields ==
  ASSUME NEW laid, NEW B
  PROVE  LET img == ImageOf(laid, B)
         IN  /\ img.len = HEADER + Len(B[4]) /\ img.body = B[4]
             /\ img.magic = NCA3_MAGIC /\ img.content_type = b.content_type
             /\ img.crypto_type = SplitKeyGeneration(b.key_generation)[1]
             /\ img.crypto_type2 = SplitKeyGeneration(b.key_generation)[2]
             /\ \A i \in Slots :
                  IF b.sections[i] = None
                  THEN /\ img.section_entries[i].start = 0 /\ img.section_entries[i].end = 0
                       /\ img.fs_headers[i] = NoFsHeader
                  ELSE /\ img.section_entries[i].start = MediaOffset(B[i])
                       /\ img.section_entries[i].end = MediaOffset(B[i + 1])
                       /\ img.fs_headers[i] = FsHeader(b.sections[i], laid[i])
                       /\ img.section_hashes[i] = HashHeader(img.fs_headers[i])
  BY DEF ImageOf

\* Where build puts the section of a slot, and what its entry says.
LEMMA BuiltSection ==
  ASSUME b \in Builders, Sealable, NEW i \in Slots, b.sections[i] # None
  PROVE  LET img == ImageOf(Laid, Bodies(Laid))
             B == Bodies(Laid)
             s == b.sections[i]
         IN  /\ Placeable(s) /\ B[4] \in Seq(Byte)
             /\ img.fs_headers[i] = FsHeader(s, LaidOut(s))
             /\ Len(B[i]) \in Nat /\ Len(B[i + 1]) \in Nat /\ Len(B[4]) \in Nat
             /\ img.section_entries[i].start \in Nat /\ img.section_entries[i].end \in Nat
             /\ StartOf(img, i) = HEADER + Len(B[i])
             /\ EndOf(img, i) = HEADER + Len(B[i + 1])
             /\ EndOf(img, i) =< U64_MAX
             /\ Len(B[i]) + Len(LaidOut(s).data) =< Len(B[i + 1]) /\ Len(B[i + 1]) =< Len(B[4])
             /\ LiesAt(B[4], Len(B[i]), LaidOut(s).data)
<1>. DEFINE B == Bodies(Laid)
            img == ImageOf(Laid, B)
            s == b.sections[i]
<1>1. i \in DOMAIN Laid /\ Placeable(s) /\ Laid[i] = LaidOut(s)
  BY LaidBytes
<1>2. /\ \A n \in 0..4 : B[n] \in Seq(Byte) /\ Len(B[n]) % MEDIA = 0 /\ Len(B[n]) =< Len(B[4])
      /\ LiesAt(B[4], Len(B[i]), Laid[i].data) /\ Len(B[i]) + Len(Laid[i].data) =< Len(B[i + 1])
  <2>1. i \in 0..3
    BY DEF Slots
  <2>. QED
    BY <1>1, <2>1, LaidBytes, BodiesGrow
<1>3. ~TooLarge(i)
  BY DEF Sealable
<1>4. /\ img.section_entries[i].start = MediaOffset(B[i])
      /\ img.section_entries[i].end = MediaOffset(B[i + 1])
      /\ img.fs_headers[i] = FsHeader(s, Laid[i])
  BY ImageFields
<1>. HIDE DEF img
<1>5. ~(MediaOffset(B[i + 1]) >= U32)
  BY <1>1, <1>3 DEF TooLarge
<1>. HIDE DEF B
<1>6. i \in 0..4 /\ i + 1 \in 0..4
  BY DEF Slots
<1>7. /\ B[i] \in Seq(Byte) /\ B[i + 1] \in Seq(Byte) /\ B[4] \in Seq(Byte)
      /\ Len(B[i]) % MEDIA = 0 /\ Len(B[i + 1]) % MEDIA = 0
      /\ Len(B[i]) \in Nat /\ Len(B[i + 1]) \in Nat /\ Len(B[4]) \in Nat /\ Len(B[i + 1]) =< Len(B[4])
  BY <1>2, <1>6, LenProperties, SMTT(60)
<1>8. /\ MediaOffset(B[i]) \in Nat /\ MediaOffset(B[i]) * MEDIA = HEADER + Len(B[i])
      /\ MediaOffset(B[i + 1]) \in Nat /\ MediaOffset(B[i + 1]) * MEDIA = HEADER + Len(B[i + 1])
  BY <1>7, MediaOffsetExact
<1>9. MediaOffset(B[i + 1]) * MEDIA =< U64_MAX
  <2>. DEFINE m == MediaOffset(B[i + 1])
  <2>1. m \in Nat /\ m < U32 /\ U32 \in Nat /\ MEDIA \in Nat /\ U64_MAX \in Nat /\ U32 * MEDIA =< U64_MAX
    BY <1>5, <1>8, NcaUnits
  <2>. HIDE DEF m
  <2>2. m * MEDIA =< U32 * MEDIA
    BY <2>1
  <2>3. m * MEDIA =< U64_MAX
    BY <2>1, <2>2
  <2>. QED
    BY <2>3 DEF m
<1>10. StartOf(img, i) = HEADER + Len(B[i]) /\ EndOf(img, i) = HEADER + Len(B[i + 1]) /\ EndOf(img, i) =< U64_MAX
  BY <1>4, <1>8, <1>9 DEF StartOf, EndOf
<1>. QED
  BY <1>1, <1>2, <1>4, <1>7, <1>8, <1>10 DEF B, img

\* The contents lie inside the section, which fits a u64.
LEMMA BuiltData ==
  ASSUME b \in Builders, Sealable, NEW i \in Slots, b.sections[i] # None
  PROVE  LET img == ImageOf(Laid, Bodies(Laid))
             fs == img.fs_headers[i]
         IN  /\ DataOffset(fs) \in Nat /\ DataSize(fs) \in Nat
             /\ DataOffset(fs) + DataSize(fs) =< EndOf(img, i) - StartOf(img, i)
             /\ EndOf(img, i) - StartOf(img, i) =< U64_MAX
             /\ fs.hash_type \in HashTypes /\ fs.crypt_type \in {1, 3} /\ ~LevelInvalid(fs)
<1>. DEFINE B == Bodies(Laid)
            img == ImageOf(Laid, B)
            s == b.sections[i]
            data == LaidOut(s).data
            fs == img.fs_headers[i]
<1>1. /\ Placeable(s) /\ fs = FsHeader(s, LaidOut(s))
      /\ Len(B[i]) \in Nat /\ Len(B[i + 1]) \in Nat
      /\ StartOf(img, i) = HEADER + Len(B[i]) /\ EndOf(img, i) = HEADER + Len(B[i + 1])
      /\ EndOf(img, i) =< U64_MAX
      /\ Len(B[i]) + Len(data) =< Len(B[i + 1])
  BY BuiltSection
<1>. HIDE DEF fs, img, B
<1>2. /\ data \in Seq(Byte) /\ s.bytes \in Seq(Byte)
      /\ fs.hash_type \in HashTypes /\ fs.crypt_type \in {1, 3} /\ ~LevelInvalid(fs)
      /\ LiesAt(data, DataOffset(fs), s.bytes) /\ DataSize(fs) = Len(s.bytes)
  BY <1>1, SectionLaid
<1>3. DataOffset(fs) \in Nat /\ DataSize(fs) \in Nat /\ DataOffset(fs) + DataSize(fs) =< Len(data)
  BY <1>2, LenProperties DEF LiesAt
<1>4. Len(data) \in Nat /\ HEADER \in Nat /\ U64_MAX \in Nat
  BY <1>2, LenProperties, NcaUnits
<1>. HIDE DEF data, s
<1>5. /\ DataOffset(fs) + DataSize(fs) =< EndOf(img, i) - StartOf(img, i)
      /\ EndOf(img, i) - StartOf(img, i) =< U64_MAX
  <2>. DEFINE x == Len(B[i])
              y == Len(B[i + 1])
              d == Len(data)
              o == DataOffset(fs)
              z == DataSize(fs)
  <2>1. /\ x \in Nat /\ y \in Nat /\ d \in Nat /\ o \in Nat /\ z \in Nat /\ HEADER \in Nat /\ U64_MAX \in Nat
        /\ x + d =< y /\ o + z =< d /\ HEADER + y =< U64_MAX
    BY <1>1, <1>3, <1>4
  <2>2. EndOf(img, i) = HEADER + y /\ StartOf(img, i) = HEADER + x
    BY <1>1
  <2>. HIDE DEF x, y, d, o, z
  <2>3. o + z =< (HEADER + y) - (HEADER + x) /\ (HEADER + y) - (HEADER + x) =< U64_MAX
    BY <2>1
  <2>. QED
    BY <2>2, <2>3 DEF o, z
<1>. QED
  BY <1>2, <1>3, <1>5 DEF fs, img, B

\* The reader accepts whatever build returns.
LEMMA BuiltAccepted ==
  ASSUME b \in Builders, Sealable
  PROVE  HeaderError(ImageOf(Laid, Bodies(Laid))) = "none"
<1>. DEFINE B == Bodies(Laid)
            img == ImageOf(Laid, B)
<1>1. /\ img.len = HEADER + Len(B[4]) /\ img.magic = NCA3_MAGIC /\ img.content_type \in ContentTypes
  BY ImageFields DEF Builders
<1>2. B[4] \in Seq(Byte)
  <2>1. 4 \in 0..4
    OBVIOUS
  <2>. QED
    BY <2>1, LaidBytes, BodiesGrow
<1>3. ~(img.len < HEADER)
  <2>1. Len(B[4]) \in Nat /\ HEADER \in Nat
    BY <1>2, LenProperties, NcaUnits
  <2>. QED
    BY <1>1, <2>1
<1>4. ASSUME NEW i \in Slots PROVE SectionError(img, i) = "none"
  <2>1. CASE b.sections[i] = None
    <3>1. img.section_entries[i].end = 0
      BY <2>1, ImageFields
    <3>2. EndOf(img, i) = 0
      BY <3>1, NcaUnits DEF EndOf
    <3>. QED
      BY <3>2 DEF SectionError, Absent
  <2>2. CASE b.sections[i] # None
    <3>. DEFINE fs == img.fs_headers[i]
    <3>1. /\ StartOf(img, i) = HEADER + Len(B[i]) /\ EndOf(img, i) = HEADER + Len(B[i + 1])
          /\ Len(B[i]) \in Nat /\ Len(B[i + 1]) \in Nat /\ Len(B[4]) \in Nat
          /\ Len(B[i + 1]) =< Len(B[4])
      BY <2>2, BuiltSection
    <3>2. /\ DataOffset(fs) \in Nat /\ DataSize(fs) \in Nat
          /\ DataOffset(fs) + DataSize(fs) =< EndOf(img, i) - StartOf(img, i)
          /\ EndOf(img, i) - StartOf(img, i) =< U64_MAX
          /\ fs.hash_type \in HashTypes /\ fs.crypt_type \in {1, 3} /\ ~LevelInvalid(fs)
      BY <2>2, BuiltData
    <3>. HIDE DEF img, B
    <3>3. HEADER \in Nat /\ HEADER > 0 /\ U64_MAX \in Nat
      BY NcaUnits
    <3>4. ~(EndOf(img, i) = 0) /\ EndOf(img, i) \in Nat /\ StartOf(img, i) \in Nat
      BY <3>1, <3>3
    <3>5. RangeError(img, i) = "none"
      <4>1. StartOf(img, i) =< EndOf(img, i)
        BY <3>2, <3>4
      <4>2. EndOf(img, i) =< img.len
        BY <1>1, <3>1, <3>3
      <4>3. HEADER =< StartOf(img, i)
        BY <3>1, <3>3
      <4>. QED
        BY <1>1, <3>1, <3>3, <3>4, <4>1, <4>2, <4>3, SMTT(60) DEF RangeError
    <3>6. DataError(fs, EndOf(img, i) - StartOf(img, i)) = "none"
      BY <3>2, <3>3, <3>4 DEF DataError
    <3>7. fs.crypt_type \in CryptTypes
      BY <3>2 DEF CryptTypes
    <3>. QED
      BY <3>2, <3>4, <3>5, <3>6, <3>7 DEF SectionError, Absent
  <2>. QED
    BY <2>1, <2>2
<1>5. SectionError(img, 0) = "none" /\ SectionError(img, 1) = "none"
      /\ SectionError(img, 2) = "none" /\ SectionError(img, 3) = "none"
  BY <1>4 DEF Slots
<1>. HIDE DEF img
<1>6. HeaderError(img) = "none"
  BY <1>1, <1>3, <1>5 DEF HeaderError
<1>. QED
  BY <1>6 DEF img

\* section(i) of a built archive: nothing where nothing was placed, and elsewhere
\* the contents, without the hashes in front of them and the padding behind.
LEMMA BuiltAnswer ==
  ASSUME b \in Builders, Sealable, nca = ImageOf(Laid, Bodies(Laid)), NEW i \in Slots
  PROVE  IF b.sections[i] = None
         THEN SectionOf(i) = [status |-> "absent", index |-> i]
         ELSE SectionOf(i) = View(i) /\ View(i).data = b.sections[i].bytes
<1>1. CASE b.sections[i] = None
  <2>1. nca.section_entries[i].end = 0
    BY <1>1, ImageFields
  <2>2. Absent(nca, i)
    BY <2>1, NcaUnits DEF Absent, EndOf
  <2>. QED
    BY <1>1, <2>2 DEF SectionOf
<1>2. CASE b.sections[i] # None
  <2>. DEFINE B == Bodies(Laid)
              s == b.sections[i]
              data == LaidOut(s).data
              fs == nca.fs_headers[i]
  <2>1. /\ Placeable(s) /\ B[4] \in Seq(Byte) /\ fs = FsHeader(s, LaidOut(s))
        /\ Len(B[i]) \in Nat /\ Len(B[i + 1]) \in Nat /\ Len(B[4]) \in Nat
        /\ StartOf(nca, i) = HEADER + Len(B[i]) /\ EndOf(nca, i) = HEADER + Len(B[i + 1])
        /\ Len(B[i + 1]) =< Len(B[4])
        /\ LiesAt(B[4], Len(B[i]), data)
    BY <1>2, BuiltSection
  <2>2. /\ data \in Seq(Byte) /\ s.bytes \in Seq(Byte)
        /\ LiesAt(data, DataOffset(fs), s.bytes) /\ DataSize(fs) = Len(s.bytes)
    BY <2>1, SectionLaid
  <2>3. nca.body = B[4]
    BY ImageFields
  <2>4. SectionError(nca, i) = "none" /\ ~Absent(nca, i)
    <3>1. HeaderError(nca) = "none"
      BY BuiltAccepted
    <3>2. i = 0 \/ i = 1 \/ i = 2 \/ i = 3
      BY DEF Slots
    <3>3. SectionError(nca, i) = "none"
      BY <3>1, <3>2 DEF HeaderError
    <3>4. ~Absent(nca, i)
      BY <2>1, NcaUnits DEF Absent
    <3>. QED
      BY <3>3, <3>4
  <2>5. SectionOf(i) = View(i)
    BY <2>4 DEF SectionOf, SectionError
  <2>. HIDE DEF B, s, data, fs
  <2>6. LiesAt(B[4], Len(B[i]) + DataOffset(fs), s.bytes)
    BY <2>1, <2>2, LiesTransitive
  <2>. DEFINE m == Len(B[i]) + DataOffset(fs)
  <2>7. SubSeq(B[4], m + 1, m + Len(s.bytes)) = s.bytes
    BY <2>1, <2>2, <2>6, SliceIs
  <2>8. View(i).data = BytesOf(StartOf(nca, i) + DataOffset(fs), StartOf(nca, i) + DataOffset(fs) + DataSize(fs))
    BY DEF View, fs
  <2>9. /\ (StartOf(nca, i) + DataOffset(fs)) - HEADER + 1 = m + 1
        /\ (StartOf(nca, i) + DataOffset(fs) + DataSize(fs)) - HEADER = m + Len(s.bytes)
    <3>1. DataOffset(fs) \in Nat /\ Len(s.bytes) \in Nat /\ HEADER \in Nat
      BY <2>2, LenProperties, NcaUnits DEF LiesAt
    <3>. QED
      BY <2>1, <2>2, <3>1, SMTT(60)
  <2>. HIDE DEF m
  <2>10. View(i).data = s.bytes
    BY <2>3, <2>7, <2>8, <2>9 DEF BytesOf
  <2>. QED
    BY <1>2, <2>5, <2>10 DEF s
<1>. QED
  BY <1>1, <1>2

(***************************************************************************)
(* The invariant is inductive                                              *)
(***************************************************************************)
LEMMA InitIInv == Init => IInv
<1>. SUFFICES ASSUME Init PROVE IInv
  OBVIOUS
<1>1. b \in Builders
  BY ContentTypesSupplied DEF Init, BInit, Builders, MAX_KEY_GENERATION
<1>2. ImageCurrent /\ ReadsKnown /\ ReadsAccepted /\ ResultOfCall
  BY DEF Init, BInit, RInit, ImageCurrent, ReadsKnown, ReadsAccepted, ResultOfCall
<1>. QED
  BY <1>1, <1>2 DEF IInv

\* What build checks and writes depends on the builder alone.
LEMMA SameBuilder ==
  ASSUME b' = b
  PROVE  /\ Sealable' <=> Sealable
         /\ ImageOf(Laid, Bodies(Laid))' = ImageOf(Laid, Bodies(Laid))
<1>1. Laid' = Laid
  BY DEF Laid, ZeroBlock
<1>2. Sealable' <=> Sealable
  BY <1>1 DEF Sealable, ZeroBlock, TooLarge
<1>3. ImageOf(Laid, Bodies(Laid))' = ImageOf(Laid, Bodies(Laid))
  BY <1>1 DEF ImageOf
<1>. QED
  BY <1>2, <1>3

LEMMA SameSection ==
  ASSUME nca' = nca, NEW i \in Slots
  PROVE  SectionOf(i)' = SectionOf(i)
  BY DEF SectionOf, View, BytesOf

\* The reader's half of a step that leaves the reader alone.
LEMMA ReaderAlone ==
  ASSUME IInv, rpc = "none", UNCHANGED rVars
  PROVE  ReadsKnown' /\ ReadsAccepted' /\ ResultOfCall'
<1>1. rpc' = "none" /\ result' = NoResult
  BY DEF rVars, IInv, ResultOfCall
<1>. QED
  BY <1>1 DEF ReadsKnown, ReadsAccepted, ResultOfCall

\* The builder's half of a step that leaves the builder alone.
LEMMA BuilderAlone ==
  ASSUME IInv, UNCHANGED bVars
  PROVE  (b \in Builders)' /\ ImageCurrent' /\ phase' = phase /\ image' = image
<1>1. phase' = phase /\ b' = b /\ image' = image
  BY DEF bVars
<1>. QED
  BY <1>1, SameBuilder DEF IInv, ImageCurrent

\* A setter accepts a builder that is still well formed, or refuses.
LEMMA CallKeeps ==
  ASSUME IInv, rpc = "none", UNCHANGED rVars,
         (b' \in Builders /\ phase' = "set") \/ (b' = b /\ phase' # "built")
  PROVE  IInv'
<1>1. (b \in Builders)' /\ ImageCurrent'
  BY DEF IInv, ImageCurrent
<1>. QED
  BY <1>1, ReaderAlone DEF IInv

LEMMA SettersKeep ==
  ASSUME IInv, rpc = "none", UNCHANGED rVars, BNext, ~Build
  PROVE  IInv'
<1>1. b \in Builders
  BY DEF IInv
<1>2. CASE \E v \in Settings.sdk_version : SdkVersion(v)
  <2>1. PICK v \in Settings.sdk_version : SdkVersion(v)
    BY <1>2
  <2>2. b' \in Builders /\ phase' = "set"
    BY <1>1, <2>1 DEF SdkVersion, Calling, Accept, Builders
  <2>. QED
    BY <2>2, CallKeeps
<1>3. CASE \E v \in Settings.key_generation : SetKeyGeneration(v)
  <2>1. PICK v \in Settings.key_generation : SetKeyGeneration(v)
    BY <1>3
  <2>2. CASE KeyGenerationError(v) = "none"
    <3>1. v \in 1..MAX_KEY_GENERATION
      BY <2>2 DEF KeyGenerationError, MAX_KEY_GENERATION
    <3>2. b' \in Builders /\ phase' = "set"
      BY <1>1, <2>1, <2>2, <3>1 DEF SetKeyGeneration, Calling, Accept, Builders
    <3>. QED
      BY <3>2, CallKeeps
  <2>3. CASE KeyGenerationError(v) # "none"
    <3>1. b' = b /\ phase' # "built"
      BY <2>1, <2>3 DEF SetKeyGeneration, Refuse, KeyGenerationError
    <3>. QED
      BY <3>1, CallKeeps
  <2>. QED
    BY <2>2, <2>3
<1>4. CASE \E i \in Settings.index, v \in Settings.key : KeyAreaKey(i, v)
  <2>1. PICK i \in Settings.index, v \in Settings.key : KeyAreaKey(i, v)
    BY <1>4
  <2>2. (b' \in Builders /\ phase' = "set") \/ (b' = b /\ phase' # "built")
    BY <1>1, <2>1 DEF KeyAreaKey, Calling, Accept, Refuse, Builders
  <2>. QED
    BY <2>2, CallKeeps
<1>5. CASE \E i \in Settings.index, v \in Settings.section : AddSection(i, v)
  <2>1. PICK i \in Settings.index, v \in Settings.section : AddSection(i, v)
    BY <1>5
  <2>2. (b' \in Builders /\ phase' = "set") \/ (b' = b /\ phase' # "built")
    BY <1>1, <2>1 DEF AddSection, Calling, Accept, Refuse, Builders
  <2>. QED
    BY <2>2, CallKeeps
<1>. QED
  BY <1>2, <1>3, <1>4, <1>5 DEF BNext

LEMMA BuildKeeps ==
  ASSUME IInv, rpc = "none", UNCHANGED rVars, Build
  PROVE  IInv'
<1>1. b' = b
  BY DEF Build
<1>2. (b \in Builders)'
  BY <1>1 DEF IInv
<1>3. phase' = "built" => Sealable /\ image' = ImageOf(Laid, Bodies(Laid))
  BY DEF Build, Sealable
<1>4. ImageCurrent'
  BY <1>1, <1>3, SameBuilder DEF ImageCurrent
<1>. QED
  BY <1>2, <1>4, ReaderAlone DEF IInv

LEMMA TryFromBytesKeeps ==
  ASSUME IInv, UNCHANGED bVars, NEW n, TryFromBytes(n),
         phase \in {"set", "built"}, IF phase = "built" THEN n = image ELSE n \in Ncas
  PROVE  IInv'
<1>1. (b \in Builders)' /\ ImageCurrent' /\ phase' = phase /\ image' = image
  BY BuilderAlone
<1>2. phase = "built" => HeaderError(n) = "none"
  BY BuiltAccepted DEF IInv, ImageCurrent
<1>3. ReadsKnown' /\ ReadsAccepted'
  BY <1>1, <1>2 DEF TryFromBytes, ReadsKnown, ReadsAccepted
<1>4. ResultOfCall'
  <2>1. result = NoResult
    BY DEF TryFromBytes, IInv, ResultOfCall
  <2>2. CASE HeaderError(n) = "none"
    BY <2>1, <2>2 DEF TryFromBytes, ResultOfCall
  <2>3. CASE HeaderError(n) # "none"
    BY <1>1, <1>2, <2>3 DEF TryFromBytes, ResultOfCall
  <2>. QED
    BY <2>2, <2>3
<1>. QED
  BY <1>1, <1>3, <1>4 DEF IInv

LEMMA SectionKeeps ==
  ASSUME IInv, UNCHANGED bVars, NEW i \in 0..SECTION_COUNT, Section(i)
  PROVE  IInv'
<1>1. (b \in Builders)' /\ ImageCurrent' /\ phase' = phase /\ image' = image
  BY BuilderAlone
<1>2. nca' = nca /\ rpc = "ready"
  BY DEF Section
<1>3. ReadsKnown' /\ ReadsAccepted'
  BY <1>1, <1>2 DEF Section, IInv, ReadsKnown, ReadsAccepted
<1>4. ResultOfCall'
  <2>1. CASE i >= SECTION_COUNT
    BY <2>1 DEF Section, ResultOfCall
  <2>2. CASE ~(i >= SECTION_COUNT)
    <3>1. i \in Slots
      BY <2>2 DEF Slots, SECTION_COUNT
    <3>2. rpc' = "ready" /\ result' = SectionOf(i)
      BY <1>2, <2>2 DEF Section
    <3>3. result' = SectionOf(i)'
      BY <1>2, <3>1, <3>2, SameSection
    <3>. QED
      BY <3>1, <3>2, <3>3, Zenon DEF ResultOfCall
  <2>. QED
    BY <2>1, <2>2
<1>. QED
  BY <1>1, <1>3, <1>4 DEF IInv

LEMMA StutterKeeps ==
  ASSUME IInv, UNCHANGED vars
  PROVE  IInv'
<1>1. UNCHANGED bVars /\ rpc' = rpc /\ nca' = nca /\ result' = result
  BY DEF vars, rVars
<1>2. (b \in Builders)' /\ ImageCurrent' /\ phase' = phase /\ image' = image
  BY <1>1, BuilderAlone
<1>3. ReadsKnown' /\ ReadsAccepted'
  BY <1>1, <1>2 DEF IInv, ReadsKnown, ReadsAccepted
<1>4. \A i \in Slots : SectionOf(i)' = SectionOf(i)
  BY <1>1, SameSection
<1>5. ResultOfCall'
  BY <1>1, <1>2, <1>4 DEF IInv, ResultOfCall
<1>. QED
  BY <1>2, <1>3, <1>5 DEF IInv

LEMMA NextIInv == IInv /\ [Next]_vars => IInv'
<1>. SUFFICES ASSUME IInv, [Next]_vars PROVE IInv'
  OBVIOUS
<1>1. CASE rpc = "none" /\ BNext /\ UNCHANGED rVars
  BY <1>1, SettersKeep, BuildKeeps
<1>2. CASE phase = "built" /\ TryFromBytes(image) /\ UNCHANGED bVars
  BY <1>2, TryFromBytesKeeps
<1>3. CASE phase = "set" /\ calls = 0 /\ ForeignNca /\ UNCHANGED bVars
  BY <1>3, TryFromBytesKeeps DEF ForeignNca
<1>4. CASE RNext /\ UNCHANGED bVars
  BY <1>4, SectionKeeps DEF RNext
<1>5. CASE UNCHANGED vars
  BY <1>5, StutterKeeps
<1>. QED
  BY <1>1, <1>2, <1>3, <1>4, <1>5 DEF Next, Finished

\* The invariant the theorems rest on.
THEOREM NcaInvariant == Spec => []IInv
  BY InitIInv, NextIInv, PTL DEF Spec

(***************************************************************************)
(* An accepted archive hides nothing                                       *)
(***************************************************************************)
\* What the reader computes with is unsigned, whoever made the buffer.
LEMMA ReadFields ==
  ASSUME IInv, rpc = "ready", NEW i \in Slots, ~Absent(nca, i), ~LevelInvalid(nca.fs_headers[i]),
         nca.fs_headers[i].hash_type \in HashTypes
  PROVE  /\ nca.len \in Nat /\ StartOf(nca, i) \in Nat /\ EndOf(nca, i) \in Nat
         /\ DataOffset(nca.fs_headers[i]) \in Nat /\ DataSize(nca.fs_headers[i]) \in Nat
<1>1. CASE phase = "built"
  <2>1. b \in Builders /\ Sealable /\ nca = ImageOf(Laid, Bodies(Laid))
    BY <1>1 DEF IInv, ImageCurrent, ReadsKnown
  <2>2. b.sections[i] # None
    <3>. SUFFICES ASSUME b.sections[i] = None PROVE FALSE
      OBVIOUS
    <3>1. nca.section_entries[i].end = 0
      BY <2>1, ImageFields
    <3>. QED
      BY <3>1, NcaUnits DEF Absent, EndOf
  <2>3. /\ Len(Bodies(Laid)[i]) \in Nat /\ Len(Bodies(Laid)[i + 1]) \in Nat /\ Len(Bodies(Laid)[4]) \in Nat
        /\ StartOf(nca, i) = HEADER + Len(Bodies(Laid)[i]) /\ EndOf(nca, i) = HEADER + Len(Bodies(Laid)[i + 1])
    BY <2>1, <2>2, BuiltSection
  <2>4. DataOffset(nca.fs_headers[i]) \in Nat /\ DataSize(nca.fs_headers[i]) \in Nat
    BY <2>1, <2>2, BuiltData
  <2>5. nca.len = HEADER + Len(Bodies(Laid)[4])
    BY <2>1, ImageFields
  <2>6. HEADER \in Nat
    BY NcaUnits
  <2>. QED
    BY <2>3, <2>4, <2>5, <2>6, SMTT(60)
<1>2. CASE phase # "built"
  <2>. DEFINE fs == nca.fs_headers[i]
  <2>1. HeaderFields(nca)
    BY <1>2, ForeignFields DEF IInv, ReadsKnown
  <2>2. /\ nca.len \in Nat /\ nca.section_entries[i].start \in Nat /\ nca.section_entries[i].end \in Nat
        /\ fs.hash_type = 2 => fs.superblock.pfs0_offset \in Nat /\ fs.superblock.pfs0_size \in Nat
        /\ fs.hash_type = 3 =>
             /\ fs.superblock.level_count \in Nat
             /\ \A l \in 0..(IVFC_MAX_LEVELS - 1) : /\ fs.superblock.levels[l].logical_offset \in Nat
                                                   /\ fs.superblock.levels[l].hash_data_size \in Nat
    BY <2>1 DEF HeaderFields
  <2>3. StartOf(nca, i) \in Nat /\ EndOf(nca, i) \in Nat
    BY <2>2, NcaUnits DEF StartOf, EndOf
  <2>. HIDE DEF fs
  <2>4. ASSUME fs.hash_type = 2 PROVE DataOffset(fs) \in Nat /\ DataSize(fs) \in Nat
    BY <2>2, <2>4 DEF DataOffset, DataSize
  <2>5. ASSUME fs.hash_type = 3 PROVE DataOffset(fs) \in Nat /\ DataSize(fs) \in Nat
    <3>1. ~LevelInvalid(fs)
      BY DEF fs
    <3>2. fs.superblock.level_count - 2 \in 0..(IVFC_MAX_LEVELS - 1)
      BY <2>2, <2>5, <3>1 DEF LevelInvalid, IVFC_MAX_LEVELS
    <3>. QED
      BY <2>2, <2>5, <3>2 DEF DataOffset, DataSize
  <2>6. fs.hash_type = 2 \/ fs.hash_type = 3
    BY DEF fs, HashTypes
  <2>. QED
    BY <2>2, <2>3, <2>4, <2>5, <2>6 DEF fs
<1>. QED
  BY <1>1, <1>2

\* Having accepted the buffer, section() repeats checks that pass.
LEMMA AcceptedSection ==
  ASSUME IInv, rpc = "ready", NEW i \in Slots
  PROVE  /\ SectionError(nca, i) = "none"
         /\ Absent(nca, i) => SectionOf(i) = [status |-> "absent", index |-> i]
         /\ ~Absent(nca, i) => SectionOf(i) = View(i)
<1>1. HeaderError(nca) = "none"
  BY DEF IInv, ReadsAccepted
<1>2. i = 0 \/ i = 1 \/ i = 2 \/ i = 3
  BY DEF Slots
<1>3. SectionError(nca, i) = "none"
  BY <1>1, <1>2 DEF HeaderError
<1>4. ~Absent(nca, i) => SectionOf(i) = View(i)
  BY <1>3 DEF SectionError, SectionOf
<1>5. Absent(nca, i) => SectionOf(i) = [status |-> "absent", index |-> i]
  BY DEF SectionOf
<1>. QED
  BY <1>3, <1>4, <1>5

\* For every buffer accepted, built here or not: section() is silent only about
\* unused slots, and what it returns is in bounds and says how it is encrypted.
THEOREM NcaNothingMasked == Spec => []NothingMasked
<1>1. IInv => NothingMasked
  <2>. SUFFICES ASSUME IInv PROVE NothingMasked
    OBVIOUS
  <2>1. CASE rpc = "ready" /\ \E i \in Slots : result = SectionOf(i)
    <3>1. PICK i \in Slots : result = SectionOf(i)
      BY <2>1
    <3>2. CASE Absent(nca, i)
      <4>1. result.status = "absent" /\ result.index = i
        BY <2>1, <3>1, <3>2, AcceptedSection
      <4>. QED
        BY <3>2, <4>1 DEF NothingMasked
    <3>3. CASE ~Absent(nca, i)
      <4>. DEFINE fs == nca.fs_headers[i]
      <4>1. SectionError(nca, i) = "none" /\ result = View(i)
        BY <2>1, <3>1, <3>3, AcceptedSection
      <4>2. /\ RangeError(nca, i) = "none" /\ fs.crypt_type \in CryptTypes /\ fs.hash_type \in HashTypes
            /\ DataError(fs, EndOf(nca, i) - StartOf(nca, i)) = "none"
        BY <3>3, <4>1 DEF SectionError
      <4>3. ~LevelInvalid(fs)
        BY <4>2 DEF DataError
      <4>4. /\ nca.len \in Nat /\ StartOf(nca, i) \in Nat /\ EndOf(nca, i) \in Nat
            /\ DataOffset(fs) \in Nat /\ DataSize(fs) \in Nat
        BY <2>1, <3>3, <4>2, <4>3, ReadFields
      <4>5. /\ result.status = "ok" /\ result.index = i /\ result.first = StartOf(nca, i)
            /\ result.last = EndOf(nca, i) /\ result.encryption = fs.crypt_type
        BY <4>1, <4>2 DEF View, Encryption
      <4>. HIDE DEF fs
      <4>6. HEADER \in Nat /\ U64_MAX \in Nat
        BY NcaUnits
      <4>7. HEADER =< StartOf(nca, i) /\ StartOf(nca, i) =< EndOf(nca, i) /\ EndOf(nca, i) =< nca.len
        BY <4>2, <4>4, <4>6 DEF RangeError
      <4>8. DataOffset(fs) + DataSize(fs) =< EndOf(nca, i) - StartOf(nca, i)
        BY <4>2, <4>3, <4>4, <4>6 DEF DataError
      <4>. QED
        BY <4>5, <4>7, <4>8 DEF NothingMasked, fs
    <3>. QED
      BY <3>2, <3>3
  <2>2. CASE result = NoResult \/ result = [status |-> "asserted"] \/ result = Err(HeaderError(nca))
    BY <2>2 DEF NothingMasked, NoResult, Err
  <2>. QED
    BY <2>1, <2>2 DEF IInv, ReadsKnown, ResultOfCall
<1>. QED
  BY <1>1, NcaInvariant, PTL

(***************************************************************************)
(* The key generation                                                      *)
(***************************************************************************)
LEMMA SplitRejoins ==
  ASSUME NEW g \in 1..MAX_KEY_GENERATION
  PROVE  Max({SplitKeyGeneration(g)[1], SplitKeyGeneration(g)[2], 1}) = g
<1>1. g \in Nat /\ g >= 1
  BY DEF MAX_KEY_GENERATION
<1>. DEFINE S == {SplitKeyGeneration(g)[1], SplitKeyGeneration(g)[2], 1}
<1>2. g \in S /\ \A y \in S : y \in Nat /\ g >= y
  <2>1. CASE g = 1
    BY <2>1 DEF SplitKeyGeneration
  <2>2. CASE g = 2
    BY <2>2 DEF SplitKeyGeneration
  <2>3. CASE g # 1 /\ g # 2
    <3>1. SplitKeyGeneration(g) = <<2, g>>
      BY <2>3 DEF SplitKeyGeneration
    <3>. QED
      BY <1>1, <2>3, <3>1
  <2>. QED
    BY <2>1, <2>2, <2>3
<1>. HIDE DEF S
<1>3. \A x \in S : (\A y \in S : x >= y) => x = g
  BY <1>1, <1>2
<1>4. Max(S) = g
  BY <1>2, <1>3 DEF Max
<1>. QED
  BY <1>4 DEF S

\* Every generation the builder takes is recovered from its two fields.
THEOREM NcaKeyGenerationRejoins == Spec => []KeyGenerationRejoins
<1>1. IInv => KeyGenerationRejoins
  <2>. SUFFICES ASSUME IInv, phase = "built", rpc = "ready" PROVE KeyGeneration = b.key_generation
    BY DEF KeyGenerationRejoins
  <2>1. nca = ImageOf(Laid, Bodies(Laid)) /\ b.key_generation \in 1..MAX_KEY_GENERATION
    BY DEF IInv, ImageCurrent, ReadsKnown, Builders
  <2>2. /\ nca.crypto_type = SplitKeyGeneration(b.key_generation)[1]
        /\ nca.crypto_type2 = SplitKeyGeneration(b.key_generation)[2]
    BY <2>1, ImageFields
  <2>. QED
    BY <2>1, <2>2, SplitRejoins DEF KeyGeneration
<1>. QED
  BY <1>1, NcaInvariant, PTL

(***************************************************************************)
(* Verification from the header                                            *)
(***************************************************************************)
\* A span the superblock describes, found through the section entry.
LEMMA SpanIs ==
  ASSUME b \in Builders, Sealable, image = ImageOf(Laid, Bodies(Laid)), NEW i \in Slots, b.sections[i] # None,
         NEW part \in Seq(Byte), NEW offset, LiesAt(LaidOut(b.sections[i]).data, offset, part)
  PROVE  Span(i, offset, Len(part)) = part
<1>. DEFINE B == Bodies(Laid)
            data == LaidOut(b.sections[i]).data
<1>1. /\ Placeable(b.sections[i]) /\ B[4] \in Seq(Byte) /\ Len(B[i]) \in Nat
      /\ StartOf(image, i) = HEADER + Len(B[i]) /\ LiesAt(B[4], Len(B[i]), data)
  BY BuiltSection
<1>2. data \in Seq(Byte)
  BY <1>1, SectionLaid
<1>3. image.body = B[4]
  BY ImageFields
<1>4. LiesAt(data, offset, part) /\ offset \in Nat
  BY DEF LiesAt
<1>. HIDE DEF B, data
<1>. DEFINE m == Len(B[i]) + offset
<1>5. LiesAt(B[4], m, part)
  BY <1>1, <1>2, <1>4, LiesTransitive
<1>6. SubSeq(B[4], m + 1, m + Len(part)) = part
  BY <1>1, <1>5, SliceIs
<1>7. image.section_entries[i].start * MEDIA - HEADER + offset = m
  <2>1. HEADER \in Nat
    BY NcaUnits
  <2>. QED
    BY <1>1, <1>4, <2>1 DEF StartOf
<1>. HIDE DEF m
<1>. QED
  BY <1>3, <1>6, <1>7 DEF Span

\* A Pfs0 section: the master hash, the table, the archive.
LEMMA PartitionVerifies ==
  ASSUME b \in Builders, Sealable, image = ImageOf(Laid, Bodies(Laid)), NEW i \in Slots, b.sections[i] # None,
         image.fs_headers[i].hash_type = 2
  PROVE  LET sb == image.fs_headers[i].superblock
             table == Span(i, sb.hash_table_offset, sb.hash_table_size)
         IN  /\ sb.master_hash = Hash(table)
             /\ Covers(table, Span(i, sb.pfs0_offset, sb.pfs0_size), sb.block_size)
<1>. DEFINE s == b.sections[i]
            laid == LaidOut(s)
            sb == image.fs_headers[i].superblock
            table == HashBlocks(s.bytes, s.block)
<1>1. Placeable(s) /\ image.fs_headers[i] = FsHeader(s, laid)
  BY BuiltSection
<1>2. s.kind # "RomFs" /\ sb = laid.superblock
  BY <1>1, SectionLaid
<1>3. s.bytes \in Seq(Byte) /\ s.block \in Nat \ {0} /\ Digests(s.bytes, s.block)
  BY <1>1, <1>2, SectionDigests
<1>4. laid = Partition(s.bytes, s.block)
  BY <1>2, SMTT(60) DEF LaidOut
<1>5. /\ table \in Seq(Byte)
      /\ LiesAt(laid.data, 0, table) /\ sb.hash_table_offset = 0 /\ sb.hash_table_size = Len(table)
      /\ LiesAt(laid.data, sb.pfs0_offset, s.bytes) /\ sb.pfs0_size = Len(s.bytes)
      /\ sb.master_hash = Hash(table) /\ sb.block_size = s.block
  <2>. DEFINE p == Partition(s.bytes, s.block)
  <2>1. /\ table \in Seq(Byte)
        /\ LiesAt(p.data, 0, table) /\ p.superblock.hash_table_offset = 0 /\ p.superblock.hash_table_size = Len(table)
        /\ LiesAt(p.data, p.superblock.pfs0_offset, s.bytes) /\ p.superblock.pfs0_size = Len(s.bytes)
        /\ p.superblock.master_hash = Hash(table) /\ p.superblock.block_size = s.block
    <3>. HIDE DEF s
    <3>. QED
      BY <1>3, PartitionLaid
  <2>. QED
    BY ONLY <1>2, <1>4, <2>1
<1>. HIDE DEF table, sb
<1>6. Span(i, 0, Len(table)) = table
  BY <1>5, SpanIs
<1>7. Span(i, sb.pfs0_offset, Len(s.bytes)) = s.bytes
  BY <1>3, <1>5, SpanIs
<1>8. LiesAt(table, 0, table)
  BY <1>5, LiesWhole
<1>9. Covers(table, s.bytes, s.block)
  BY <1>3, <1>5, <1>8, CoversHashed, SMTT(60) DEF table
<1>. HIDE DEF s
<1>. QED
  BY <1>5, <1>6, <1>7, <1>9 DEF sb

\* A RomFs section: the master hash, five levels of digests, the image.
LEMMA TreeVerifies ==
  ASSUME b \in Builders, Sealable, image = ImageOf(Laid, Bodies(Laid)), NEW i \in Slots, b.sections[i] # None,
         image.fs_headers[i].hash_type = 3
  PROVE  LET sb == image.fs_headers[i].superblock
             level == [l \in 0..(sb.level_count - 2) |->
                         Span(i, sb.levels[l].logical_offset, sb.levels[l].hash_data_size)]
         IN  /\ sb.master_hash = Hash(level[0])
             /\ \A l \in 1..(sb.level_count - 2) : Covers(level[l - 1], level[l], IVFC_BLOCK)
<1>. DEFINE s == b.sections[i]
            laid == LaidOut(s)
            sb == image.fs_headers[i].superblock
            v == IvfcLevels(s.bytes)
            level == [l \in 0..(sb.level_count - 2) |->
                        Span(i, sb.levels[l].logical_offset, sb.levels[l].hash_data_size)]
<1>1. Placeable(s) /\ image.fs_headers[i] = FsHeader(s, laid)
  BY BuiltSection
<1>2. s.kind = "RomFs" /\ sb = laid.superblock /\ s \in Settings.section
  BY <1>1, SectionLaid DEF Placeable
<1>3. laid = Ivfc(s.bytes)
  BY <1>2 DEF LaidOut
<1>4. /\ sb.level_count = 7 /\ sb.master_hash = Hash(v[0])
      /\ \A l \in 0..5 : /\ LiesAt(laid.data, sb.levels[l].logical_offset, v[l])
                        /\ sb.levels[l].hash_data_size = Len(v[l])
  BY <1>2, <1>3, IvfcLaid, ZenonT(60)
<1>5. /\ \A l \in 0..5 : v[l] \in Seq(Byte)
      /\ \A l \in 1..5 : Covers(v[l - 1], v[l], IVFC_BLOCK)
  BY <1>2, LevelsCover
<1>. HIDE DEF sb, v
<1>6. sb.level_count - 2 = 5
  BY <1>4
<1>7. ASSUME NEW l \in 0..5 PROVE level[l] = v[l]
  <2>1. Span(i, sb.levels[l].logical_offset, Len(v[l])) = v[l]
    BY <1>4, <1>5, SpanIs
  <2>. QED
    BY <1>4, <1>6, <2>1
<1>. HIDE DEF level
<1>8. ASSUME NEW l \in 1..5 PROVE Covers(level[l - 1], level[l], IVFC_BLOCK)
  <2>1. l \in 0..5 /\ l - 1 \in 0..5
    OBVIOUS
  <2>2. level[l] = v[l] /\ level[l - 1] = v[l - 1]
    BY <1>7, <2>1
  <2>. QED
    BY <1>5, <2>2
<1>9. sb.master_hash = Hash(level[0])
  <2>1. level[0] = v[0]
    BY <1>7, SMTT(60)
  <2>. QED
    BY <1>4, <2>1
<1>. QED
  BY <1>6, <1>8, <1>9 DEF sb, level

\* A built archive can be verified from its header down to the last block.
THEOREM NcaSectionsVerify == Spec => []SectionsVerify
<1>1. IInv => SectionsVerify
  <2>. SUFFICES ASSUME IInv, phase = "built" PROVE SectionsVerify
    BY DEF SectionsVerify
  <2>1. b \in Builders /\ Sealable /\ image = ImageOf(Laid, Bodies(Laid))
    BY DEF IInv, ImageCurrent
  <2>2. ASSUME NEW i \in Slots, b.sections[i] # None
        PROVE  image.section_hashes[i] = HashHeader(image.fs_headers[i])
    BY <2>1, <2>2, ImageFields
  <2>. QED
    BY <2>1, <2>2, PartitionVerifies, TreeVerifies, ZenonT(60) DEF SectionsVerify
<1>. QED
  BY <1>1, NcaInvariant, PTL

(***************************************************************************)
(* Counters                                                                *)
(***************************************************************************)
\* The AES block of the file at which the body before slot n ends.
BlockAt(n) == MediaOffset(Bodies(Laid)[n]) * (MEDIA \div AES_BLOCK)

\* Sections start and end on AES blocks, in the order of their slots.
LEMMA BlocksExact ==
  ASSUME b \in Builders, Sealable
  PROVE  /\ \A n \in 0..4 : /\ BlockAt(n) \in Nat
                           /\ HEADER + Len(Bodies(Laid)[n]) = BlockAt(n) * AES_BLOCK
         /\ \A i, j \in Slots : i < j => BlockAt(i + 1) =< BlockAt(j)
<1>. DEFINE B == Bodies(Laid)
            q == MEDIA \div AES_BLOCK
<1>1. /\ \A n \in 0..4 : B[n] \in Seq(Byte) /\ Len(B[n]) % MEDIA = 0
      /\ \A n \in 0..3 : Len(B[n]) =< Len(B[n + 1])
  BY LaidBytes, BodiesGrow
<1>2. q \in Nat /\ MEDIA = AES_BLOCK * q /\ AES_BLOCK \in Nat \ {0}
  <2>1. MEDIA \in Nat /\ AES_BLOCK \in Nat \ {0} /\ MEDIA % AES_BLOCK = 0
    BY NcaUnits
  <2>2. q \in Nat /\ MEDIA = AES_BLOCK * q + (MEDIA % AES_BLOCK)
    BY <2>1, DivMod
  <2>. HIDE DEF q
  <2>3. AES_BLOCK * q \in Nat
    BY <2>1, <2>2
  <2>. QED
    BY <2>1, <2>2, <2>3
<1>3. \A n : BlockAt(n) = MediaOffset(B[n]) * q
  BY DEF BlockAt
<1>. HIDE DEF B, q
<1>4. ASSUME NEW n \in 0..4
      PROVE  BlockAt(n) \in Nat /\ HEADER + Len(B[n]) = BlockAt(n) * AES_BLOCK /\ Len(B[n]) \in Nat
  <2>. DEFINE u == MediaOffset(B[n])
  <2>1. u \in Nat /\ u * MEDIA = HEADER + Len(B[n]) /\ Len(B[n]) \in Nat
    BY <1>1, MediaOffsetExact, LenProperties
  <2>2. BlockAt(n) = u * q
    BY <1>3
  <2>. HIDE DEF u
  <2>3. u * q \in Nat /\ (u * q) * AES_BLOCK = u * (AES_BLOCK * q)
    BY <1>2, <2>1
  <2>. QED
    BY <1>2, <2>1, <2>2, <2>3
<1>5. ASSUME NEW i \in Slots, NEW j \in Slots, i < j
      PROVE  BlockAt(i + 1) =< BlockAt(j)
  <2>1. Len(B[i + 1]) =< Len(B[j])
    <3>1. /\ Len(B[0]) =< Len(B[0 + 1]) /\ Len(B[1]) =< Len(B[1 + 1]) /\ Len(B[2]) =< Len(B[2 + 1])
      BY <1>1
    <3>2. Len(B[0]) \in Nat /\ Len(B[1]) \in Nat /\ Len(B[2]) \in Nat /\ Len(B[3]) \in Nat
      BY <1>4
    <3>3. i \in 0..3 /\ j \in 0..3
      BY DEF Slots
    <3>4. (j = i + 1) \/ (i = 0 /\ j = 2) \/ (i = 0 /\ j = 3) \/ (i = 1 /\ j = 3)
      BY <1>5, <3>3
    <3>5. Len(B[0]) =< Len(B[1]) /\ Len(B[1]) =< Len(B[2]) /\ Len(B[2]) =< Len(B[3])
      BY <3>1
    <3>6. CASE j = i + 1
      <4>1. j \in 0..4
        BY <3>3
      <4>2. Len(B[j]) \in Nat
        BY <1>4, <4>1
      <4>. QED
        BY <3>6, <4>2
    <3>7. CASE i = 0 /\ j = 2
      BY <3>5, <3>7
    <3>8. CASE i = 0 /\ j = 3
      BY <3>2, <3>5, <3>8
    <3>9. CASE i = 1 /\ j = 3
      BY <3>5, <3>9
    <3>. QED
      BY <3>4, <3>6, <3>7, <3>8, <3>9
  <2>. DEFINE x == BlockAt(i + 1)
              y == BlockAt(j)
  <2>2. i + 1 \in 0..4 /\ j \in 0..4
    BY DEF Slots
  <2>3. /\ x \in Nat /\ HEADER + Len(B[i + 1]) = x * AES_BLOCK /\ Len(B[i + 1]) \in Nat
        /\ y \in Nat /\ HEADER + Len(B[j]) = y * AES_BLOCK /\ Len(B[j]) \in Nat
    BY <1>4, <2>2
  <2>4. HEADER \in Nat
    BY NcaUnits
  <2>. HIDE DEF x, y
  <2>5. x * AES_BLOCK =< y * AES_BLOCK
    BY <2>1, <2>3, <2>4
  <2>6. x =< y
    BY <1>2, <2>3, <2>5
  <2>. QED
    BY <2>6 DEF x, y
<1>. QED
  BY <1>4, <1>5 DEF B

CtrOf(i) ==
  [index   |-> i,
   first   |-> image.section_entries[i].start * MEDIA - HEADER,
   last    |-> image.section_entries[i].end * MEDIA - HEADER,
   counter |-> SectionCounter(image.fs_headers[i].section_ctr, image.section_entries[i].start * MEDIA)]

\* The keystream blocks a section consumes are those of the file it occupies.
LEMMA KeystreamOf ==
  ASSUME b \in Builders, Sealable, image = ImageOf(Laid, Bodies(Laid)), NEW i \in Slots,
         image.fs_headers[i].crypt_type = 3
  PROVE  /\ CtrOf(i).counter[2] = BlockAt(i)
         /\ (CtrOf(i).last - CtrOf(i).first) \div AES_BLOCK = BlockAt(i + 1) - BlockAt(i)
<1>. DEFINE B == Bodies(Laid)
            c == CtrOf(i)
            x == BlockAt(i)
            y == BlockAt(i + 1)
<1>1. b.sections[i] # None
  BY ImageFields DEF NoFsHeader
<1>2. /\ Len(B[i]) \in Nat /\ Len(B[i + 1]) \in Nat
      /\ StartOf(image, i) = HEADER + Len(B[i]) /\ EndOf(image, i) = HEADER + Len(B[i + 1])
      /\ Len(B[i]) =< Len(B[i + 1])
  <2>1. i \in 0..3
    BY DEF Slots
  <2>. QED
    BY <1>1, <2>1, BuiltSection, LaidBytes, BodiesGrow
<1>3. /\ x \in Nat /\ HEADER + Len(B[i]) = x * AES_BLOCK
      /\ y \in Nat /\ HEADER + Len(B[i + 1]) = y * AES_BLOCK
  <2>1. i \in 0..4 /\ i + 1 \in 0..4
    BY DEF Slots
  <2>. QED
    BY <2>1, BlocksExact
<1>4. /\ c.first = StartOf(image, i) - HEADER /\ c.last = EndOf(image, i) - HEADER
      /\ c.counter[2] = StartOf(image, i) \div AES_BLOCK
  BY DEF CtrOf, SectionCounter, StartOf, EndOf
<1>. HIDE DEF B, c, x, y
<1>5. HEADER \in Nat /\ AES_BLOCK \in Nat \ {0}
  BY NcaUnits
<1>6. c.counter[2] = x
  <2>1. (x * AES_BLOCK + 0) \div AES_BLOCK = x
    BY <1>3, <1>5, DivModUnique
  <2>2. x * AES_BLOCK + 0 = x * AES_BLOCK
    BY <1>3, <1>5
  <2>. QED
    BY <1>2, <1>3, <1>4, <2>1, <2>2
<1>7. (c.last - c.first) \div AES_BLOCK = y - x
  <2>1. x * AES_BLOCK =< y * AES_BLOCK
    BY <1>2, <1>3, <1>5, SMTT(60)
  <2>2. x =< y
    BY <1>3, <1>5, <2>1
  <2>3. y - x \in Nat /\ (y - x) * AES_BLOCK = y * AES_BLOCK - x * AES_BLOCK
    BY <1>3, <1>5, <2>2
  <2>4. c.last - c.first = (y - x) * AES_BLOCK + 0
    <3>. DEFINE e == y * AES_BLOCK
                f == x * AES_BLOCK
    <3>1. e \in Nat /\ f \in Nat
      BY <1>3, <1>5
    <3>2. (y - x) * AES_BLOCK = e - f /\ StartOf(image, i) = f /\ EndOf(image, i) = e
      BY <1>2, <1>3, <2>3
    <3>. HIDE DEF e, f
    <3>3. (e - HEADER) - (f - HEADER) = (e - f) + 0
      BY <1>5, <3>1
    <3>. QED
      BY <1>4, <3>2, <3>3
  <2>. DEFINE d == y - x
  <2>5. d \in Nat
    BY <2>3
  <2>. HIDE DEF d
  <2>6. (d * AES_BLOCK + 0) \div AES_BLOCK = d
    BY <1>5, <2>5, DivModUnique
  <2>. QED
    BY <2>4, <2>6 DEF d
<1>. QED
  BY <1>6, <1>7 DEF c, x, y

\* Sections in different slots consume different blocks.
LEMMA KeystreamsApart ==
  ASSUME b \in Builders, Sealable, image = ImageOf(Laid, Bodies(Laid)), NEW i \in Slots, NEW j \in Slots, i < j,
         image.fs_headers[i].crypt_type = 3, image.fs_headers[j].crypt_type = 3,
         NEW k \in 0..((CtrOf(i).last - CtrOf(i).first) \div AES_BLOCK - 1),
         NEW m \in 0..((CtrOf(j).last - CtrOf(j).first) \div AES_BLOCK - 1)
  PROVE  CtrOf(i).counter[2] + k # CtrOf(j).counter[2] + m
<1>1. i \in 0..4 /\ i + 1 \in 0..4 /\ j \in 0..4 /\ j + 1 \in 0..4
  BY DEF Slots
<1>2. /\ BlockAt(i) \in Nat /\ BlockAt(i + 1) \in Nat /\ BlockAt(j) \in Nat /\ BlockAt(j + 1) \in Nat
      /\ BlockAt(i + 1) =< BlockAt(j)
  BY <1>1, BlocksExact
<1>3. /\ CtrOf(i).counter[2] = BlockAt(i) /\ (CtrOf(i).last - CtrOf(i).first) \div AES_BLOCK = BlockAt(i + 1) - BlockAt(i)
      /\ CtrOf(j).counter[2] = BlockAt(j) /\ (CtrOf(j).last - CtrOf(j).first) \div AES_BLOCK = BlockAt(j + 1) - BlockAt(j)
  BY KeystreamOf
<1>4. k \in Int /\ k =< BlockAt(i + 1) - BlockAt(i) - 1 /\ m \in Nat
  BY <1>2, <1>3
<1>. QED
  BY <1>2, <1>3, <1>4

\* Writer and reader derive the same ranges and counters, and no two sections are
\* encrypted with the same block of keystream.
THEOREM NcaCountersAgree == Spec => []CountersAgree
<1>1. IInv => CountersAgree
  <2>. SUFFICES ASSUME IInv, phase = "built" PROVE CountersAgree
    BY DEF CountersAgree
  <2>1. b \in Builders /\ Sealable /\ image = ImageOf(Laid, Bodies(Laid))
    BY DEF IInv, ImageCurrent
  <2>2. CtrSections = {CtrOf(i) : i \in {j \in Slots : image.fs_headers[j].crypt_type = 3}}
    BY DEF CtrSections, CtrOf
  <2>3. ASSUME result.status = "ok"
        PROVE  \/ result.counter = "none" /\ \A c \in CtrSections : c.index # result.index
               \/ [index |-> result.index, first |-> result.first - HEADER, last |-> result.last - HEADER,
                   counter |-> result.counter] \in CtrSections
    <3>1. rpc = "ready" /\ nca = image /\ \E i \in Slots : result = SectionOf(i)
      <4>1. result # NoResult /\ result # [status |-> "asserted"]
        BY <2>3 DEF NoResult
      <4>2. rpc = "ready" /\ \E i \in Slots : result = SectionOf(i)
        BY <4>1 DEF IInv, ReadsKnown, ResultOfCall
      <4>. QED
        BY <4>2 DEF IInv, ReadsKnown
    <3>2. PICK i \in Slots : result = SectionOf(i)
      BY <3>1
    <3>3. result = View(i)
      <4>1. ~Absent(nca, i)
        BY <2>3, <3>1, <3>2, AcceptedSection
      <4>. QED
        BY <3>1, <3>2, <4>1, AcceptedSection
    <3>4. /\ result.index = i /\ result.first = image.section_entries[i].start * MEDIA
          /\ result.last = image.section_entries[i].end * MEDIA
          /\ result.counter = Counter(image.fs_headers[i], image.section_entries[i].start * MEDIA)
      BY <3>1, <3>3 DEF View, StartOf, EndOf
    <3>5. CASE image.fs_headers[i].crypt_type = 3
      <4>1. result.counter = SectionCounter(image.fs_headers[i].section_ctr, image.section_entries[i].start * MEDIA)
        BY <3>4, <3>5 DEF Counter, Encryption, SectionCounter, CryptTypes
      <4>2. [index |-> result.index, first |-> result.first - HEADER, last |-> result.last - HEADER,
             counter |-> result.counter] = CtrOf(i)
        BY <3>4, <4>1 DEF CtrOf
      <4>. QED
        BY <2>2, <3>5, <4>2
    <3>6. CASE image.fs_headers[i].crypt_type # 3
      <4>1. result.counter = "none"
        BY <3>4, <3>6 DEF Counter, Encryption, CryptTypes
      <4>2. \A c \in CtrSections : c.index # result.index
        BY <2>2, <3>4, <3>6 DEF CtrOf
      <4>. QED
        BY <4>1, <4>2
    <3>. QED
      BY <3>5, <3>6
  <2>4. ASSUME NEW c \in CtrSections, NEW d \in CtrSections, c # d
        PROVE  {c.counter[2] + k : k \in 0..((c.last - c.first) \div AES_BLOCK - 1)}
                 \intersect {d.counter[2] + k : k \in 0..((d.last - d.first) \div AES_BLOCK - 1)} = {}
    <3>1. PICK i \in Slots : image.fs_headers[i].crypt_type = 3 /\ c = CtrOf(i)
      BY <2>2
    <3>2. PICK j \in Slots : image.fs_headers[j].crypt_type = 3 /\ d = CtrOf(j)
      BY <2>2
    <3>3. i < j \/ j < i
      <4>1. i # j
        BY <2>4, <3>1, <3>2
      <4>. QED
        BY <4>1 DEF Slots
    <3>4. ASSUME NEW k \in 0..((c.last - c.first) \div AES_BLOCK - 1),
                 NEW m \in 0..((d.last - d.first) \div AES_BLOCK - 1)
          PROVE  c.counter[2] + k # d.counter[2] + m
      <4>1. CASE i < j
        BY <2>1, <3>1, <3>2, <4>1, KeystreamsApart
      <4>2. CASE j < i
        BY <2>1, <3>1, <3>2, <4>2, KeystreamsApart
      <4>. QED
        BY <3>3, <4>1, <4>2
    <3>. QED
      BY <3>4
  <2>. QED
    BY <2>3, <2>4 DEF CountersAgree
<1>. QED
  BY <1>1, NcaInvariant, PTL

(***************************************************************************)
(* The archive implements the abstract container                           *)
(***************************************************************************)
AnswerOf ==
  IF result.status = "ok" THEN <<result.index, result.data>>
  ELSE IF result.status = "absent" THEN <<result.index, None>>
  ELSE IF result.status = "asserted" THEN <<"aside">>
  ELSE <<result.status>>

\* A step that changes nothing a caller can see.
LEMMA Invisible ==
  ASSUME b'.sections = b.sections, phase' = phase, result' = result, rpc' = rpc \/ phase # "set"
  PROVE  UNCHANGED Abstract!cVars
  BY DEF Abstract!cVars, Kept

LEMMA InitMaps == Init => Abstract!Init
  BY DEF Init, BInit, RInit, Abstract!Init, Kept, NoResult

\* A refused call and a failing build end the builder.
LEMMA FailMaps ==
  ASSUME phase = "set", rpc = "none", UNCHANGED rVars, b' = b, phase' \notin {"set", "built"}
  PROVE  Abstract!Next
<1>1. Abstract!Fail
  BY DEF Abstract!Fail, Kept, rVars
<1>. QED
  BY <1>1 DEF Abstract!Next

LEMMA SettersMap ==
  ASSUME IInv, rpc = "none", UNCHANGED rVars, BNext, ~Build
  PROVE  [Abstract!Next]_(Abstract!cVars)
<1>0. rpc' = rpc /\ result' = result /\ b \in Builders
  BY DEF rVars, IInv
<1>1. CASE \E v \in Settings.sdk_version : SdkVersion(v)
  <2>1. b'.sections = b.sections /\ phase' = phase
    BY <1>0, <1>1 DEF SdkVersion, Calling, Accept, Builders
  <2>. QED
    BY <1>0, <2>1, Invisible
<1>2. CASE \E v \in Settings.key_generation : SetKeyGeneration(v)
  <2>1. PICK v \in Settings.key_generation : SetKeyGeneration(v)
    BY <1>2
  <2>2. CASE KeyGenerationError(v) = "none"
    <3>1. b'.sections = b.sections /\ phase' = phase
      BY <1>0, <2>1, <2>2 DEF SetKeyGeneration, Calling, Accept, Builders
    <3>. QED
      BY <1>0, <3>1, Invisible
  <2>3. CASE KeyGenerationError(v) # "none"
    <3>1. phase = "set" /\ b' = b /\ phase' \notin {"set", "built"}
      BY <2>1, <2>3 DEF SetKeyGeneration, Calling, Refuse, KeyGenerationError
    <3>. QED
      BY <3>1, FailMaps
  <2>. QED
    BY <2>2, <2>3
<1>3. CASE \E i \in Settings.index, v \in Settings.key : KeyAreaKey(i, v)
  <2>1. PICK i \in Settings.index, v \in Settings.key : KeyAreaKey(i, v)
    BY <1>3
  <2>2. CASE i \in Slots
    <3>1. b'.sections = b.sections /\ phase' = phase
      BY <1>0, <2>1, <2>2 DEF KeyAreaKey, Calling, Accept, Builders
    <3>. QED
      BY <1>0, <3>1, Invisible
  <2>3. CASE i \notin Slots
    <3>1. phase = "set" /\ b' = b /\ phase' \notin {"set", "built"}
      BY <2>1, <2>3 DEF KeyAreaKey, Calling, Refuse
    <3>. QED
      BY <3>1, FailMaps
  <2>. QED
    BY <2>2, <2>3
<1>4. CASE \E i \in Settings.index, v \in Settings.section : AddSection(i, v)
  <2>1. PICK i \in Settings.index, v \in Settings.section : AddSection(i, v)
    BY <1>4
  <2>2. CASE i \in Slots /\ b.sections[i] = None
    <3>1. /\ phase = "set" /\ phase' = "set" /\ DOMAIN b'.sections = Slots
          /\ \A j \in Slots \ {i} : b'.sections[j] = b.sections[j]
      BY <1>0, <2>1, <2>2 DEF AddSection, Calling, Accept, Builders
    <3>2. DOMAIN Kept' = Slots /\ \A j \in Slots \ {i} : Kept'[j] = Kept[j]
      BY <3>1 DEF Kept
    <3>3. Abstract!Put(i)
      BY <1>0, <3>1, <3>2 DEF Abstract!Put
    <3>. QED
      BY <2>2, <3>3 DEF Abstract!Next
  <2>3. CASE ~(i \in Slots /\ b.sections[i] = None)
    <3>1. phase = "set" /\ b' = b /\ phase' \notin {"set", "built"}
      BY <2>1, <2>3 DEF AddSection, Calling, Refuse
    <3>. QED
      BY <3>1, FailMaps
  <2>. QED
    BY <2>2, <2>3
<1>. QED
  BY <1>1, <1>2, <1>3, <1>4 DEF BNext

LEMMA BuildMaps ==
  ASSUME rpc = "none", UNCHANGED rVars, Build
  PROVE  Abstract!Next
<1>1. phase = "set" /\ b' = b /\ phase' \in {"built", "TooLarge", "panic"}
  BY DEF Build
<1>2. CASE phase' = "built"
  <2>1. Abstract!Seal
    BY <1>1, <1>2 DEF Abstract!Seal, Kept, rVars
  <2>. QED
    BY <2>1 DEF Abstract!Next
<1>3. CASE phase' # "built"
  BY <1>1, <1>3, FailMaps
<1>. QED
  BY <1>2, <1>3

\* An archive read back: section(i) answers with what was put at i.
LEMMA SectionMaps ==
  ASSUME IInv, UNCHANGED bVars, NEW i \in 0..SECTION_COUNT, Section(i)
  PROVE  Abstract!Next
<1>1. phase' = phase /\ b' = b /\ rpc = "ready" /\ nca' = nca /\ rpc' \in {"ready", "done"}
  BY DEF bVars, Section
<1>2. CASE phase = "built"
  <2>1. CASE i >= SECTION_COUNT
    <3>1. result' = [status |-> "asserted"]
      BY <2>1 DEF Section
    <3>2. Abstract!Aside
      BY <1>1, <1>2, <3>1 DEF Abstract!Aside, Kept
    <3>. QED
      BY <3>2 DEF Abstract!Next
  <2>2. CASE ~(i >= SECTION_COUNT)
    <3>1. i \in Slots /\ result' = SectionOf(i)
      BY <2>2 DEF Section, Slots, SECTION_COUNT
    <3>2. b \in Builders /\ Sealable /\ nca = ImageOf(Laid, Bodies(Laid))
      BY <1>1, <1>2 DEF IInv, ImageCurrent, ReadsKnown
    <3>3. AnswerOf' = <<i, Kept[i]>>
      <4>1. CASE b.sections[i] = None
        <5>1. result' = [status |-> "absent", index |-> i]
          BY <3>1, <3>2, <4>1, BuiltAnswer
        <5>2. Kept[i] = None
          BY <3>1, <4>1 DEF Kept
        <5>. QED
          BY <5>1, <5>2 DEF AnswerOf
      <4>2. CASE b.sections[i] # None
        <5>1. result' = View(i) /\ View(i).data = b.sections[i].bytes
          BY <3>1, <3>2, <4>2, BuiltAnswer
        <5>2. View(i).status = "ok" /\ View(i).index = i
          BY DEF View
        <5>3. Kept[i] = b.sections[i].bytes
          BY <3>1, <4>2 DEF Kept
        <5>. QED
          BY <5>1, <5>2, <5>3 DEF AnswerOf
      <4>. QED
        BY <4>1, <4>2
    <3>4. Abstract!Get(i)
      BY <1>1, <1>2, <3>3 DEF Abstract!Get, Kept, AnswerOf
    <3>. QED
      BY <3>1, <3>4 DEF Abstract!Next
  <2>. QED
    BY <2>1, <2>2
<1>3. CASE phase # "built"
  <2>1. phase = "set"
    BY <1>1, <1>3 DEF IInv, ReadsKnown
  <2>2. Abstract!GetAny
    BY <1>1, <2>1 DEF Abstract!GetAny, Kept
  <2>. QED
    BY <2>2 DEF Abstract!Next
<1>. QED
  BY <1>2, <1>3

LEMMA StepMaps == IInv /\ [Next]_vars => [Abstract!Next]_(Abstract!cVars)
<1>. SUFFICES ASSUME IInv, [Next]_vars PROVE [Abstract!Next]_(Abstract!cVars)
  OBVIOUS
<1>1. CASE rpc = "none" /\ BNext /\ UNCHANGED rVars
  BY <1>1, SettersMap, BuildMaps
<1>2. CASE phase = "built" /\ TryFromBytes(image) /\ UNCHANGED bVars
  <2>1. HeaderError(image) = "none"
    BY <1>2, BuiltAccepted DEF IInv, ImageCurrent
  <2>2. b' = b /\ phase' = phase /\ result' = result
    BY <1>2, <2>1 DEF TryFromBytes, bVars
  <2>. QED
    BY <1>2, <2>2, Invisible
<1>3. CASE phase = "set" /\ calls = 0 /\ ForeignNca /\ UNCHANGED bVars
  <2>1. rpc = "none" /\ rpc' # "none" /\ b' = b /\ phase' = phase
    BY <1>3 DEF ForeignNca, TryFromBytes, bVars
  <2>2. Abstract!Open
    BY <1>3, <2>1 DEF Abstract!Open, Kept
  <2>. QED
    BY <2>2 DEF Abstract!Next
<1>4. CASE RNext /\ UNCHANGED bVars
  BY <1>4, SectionMaps DEF RNext
<1>5. CASE UNCHANGED vars
  BY <1>5, Invisible DEF vars, bVars, rVars
<1>. QED
  BY <1>1, <1>2, <1>3, <1>4, <1>5 DEF Next, Finished

\* Every behaviour of builder and reader is one of the abstract container's.
THEOREM NcaImplementsContainer == Spec => ImplementsContainer
  BY InitMaps, StepMaps, NcaInvariant, PTL DEF Spec, ImplementsContainer, Abstract!Spec
=============================================================================
