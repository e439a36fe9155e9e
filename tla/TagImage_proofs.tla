--------------------------- MODULE TagImage_proofs --------------------------
(***************************************************************************)
(* What the operators of TagImage do to an image, for every CRC.  The two  *)
(* results the sessions rest on are OverwriteAllMatches and                *)
(* OverwriteAllFrame; UpgradedImage, at the end, bounds the fields.        *)
(***************************************************************************)
EXTENDS TagImage, TLAPS

\* A function on the cells, whatever its values.
OnCells(img) == img = [c \in Cells |-> img[c]]

-----------------------------------------------------------------------------
(* Cells.                                                                   *)

\* The offsets of an area are different, and far from the ends of the image.
LEMMA Offsets ==
  /\ AreaOffsets = {0, 3, 9, 10, 12, 14, 16, 48, 90, 140}
  /\ \A a \in Areas : AreaBase(a) \in {128, 576}
  /\ AreaBase(0) = 128
  /\ AreaBase(1) = 576
  BY DEF AreaOffsets, UserFields, Areas, AreaBase, XP, Money, Sequence, Crc3, Crc2, Crc1,
         Skill, Trailer, HeroPoints, Challenges

\* No two fields share a cell.
LEMMA CellsApart ==
  ASSUME NEW a \in Areas, NEW b \in Areas, NEW f \in AreaOffsets, NEW g \in AreaOffsets
  PROVE  /\ AreaBase(a) + f \in Cells
         /\ AreaBase(a) + f \notin {Serial, Crc0}
         /\ AreaBase(a) + f = AreaBase(b) + g <=> a = b /\ f = g
  <1>1. AreaBase(a) + f \in Cells
    BY DEF Cells
  <1>2. /\ a \in {0, 1} /\ b \in {0, 1}
        /\ AreaBase(a) = (IF a = 0 THEN 128 ELSE 576)
        /\ AreaBase(b) = (IF b = 0 THEN 128 ELSE 576)
    BY DEF Areas, AreaBase
  <1>3. f \in 0..140 /\ g \in 0..140
    BY Offsets
  <1>4. AreaBase(a) + f \notin {Serial, Crc0}
    BY <1>2, <1>3 DEF Serial, Crc0
  <1>5. AreaBase(a) + f = AreaBase(b) + g <=> a = b /\ f = g
    BY <1>2, <1>3
  <1> QED BY <1>1, <1>4, <1>5

\* What the four checksums cover.
LEMMA CoveredFields ==
  /\ Covered(0) = {Serial}
  /\ Covered(1) = {XP, Money, Sequence, Crc3, Crc2, Crc1}
  /\ Covered(2) = {Skill}
  /\ Covered(3) = {HeroPoints, Challenges}
  <1>1. Covered(0) = {Serial}
    BY DEF Covered
  <1>2. Covered(1) = {XP, Money, Sequence, Crc3, Crc2, Crc1}
    BY Offsets DEF Covered, BlockSize, XP, Money, Sequence, Crc3, Crc2, Crc1
  <1>3. DataBlocks(2) = {1, 2, 4} /\ DataBlocks(3) = {5, 6, 8}
    BY DEF DataBlocks, IsAccessControlBlock
  <1>4. /\ BlockOf(0) = 0 /\ BlockOf(3) = 0 /\ BlockOf(9) = 0 /\ BlockOf(10) = 0
        /\ BlockOf(12) = 0 /\ BlockOf(14) = 0 /\ BlockOf(16) = 1 /\ BlockOf(48) = 3
        /\ BlockOf(90) = 5 /\ BlockOf(140) = 8
    BY DEF BlockOf, BlockSize
  <1>5. /\ Covered(2) = {o \in AreaOffsets : BlockOf(o) \in DataBlocks(2)}
        /\ Covered(3) = {o \in AreaOffsets : BlockOf(o) \in DataBlocks(3)}
    BY DEF Covered
  <1>6. Covered(2) = {Skill}
    BY <1>3, <1>4, <1>5, Offsets DEF Skill
  <1>7. Covered(3) = {HeroPoints, Challenges}
    BY <1>3, <1>4, <1>5, Offsets DEF HeroPoints, Challenges
  <1> QED BY <1>1, <1>2, <1>6, <1>7

-----------------------------------------------------------------------------
(* One checksum stored, one sequence number moved.                          *)

\* Where checksum t of area a is stored.
Location(t, a) == Start(t, a) + ChecksumOffset(t)

\* One place for type 0, one in each header for each other type.
LEMMA Locations ==
  ASSUME NEW a \in Areas
  PROVE  /\ Location(0, a) = Crc0
         /\ Location(1, a) = AreaBase(a) + Crc1
         /\ Location(2, a) = AreaBase(a) + Crc2
         /\ Location(3, a) = AreaBase(a) + Crc3
  BY DEF Location, Start, ChecksumOffset, Crc0

LEMMA LocationsAreCells ==
  ASSUME NEW t \in Types, NEW a \in Areas
  PROVE  Location(t, a) \in Cells
  <1>1. Crc0 \in Cells
    BY DEF Cells
  <1>2. {Crc1, Crc2, Crc3} \subseteq AreaOffsets
    BY DEF AreaOffsets
  <1>3. t \in {0, 1, 2, 3}
    BY DEF Types
  <1> QED BY <1>1, <1>2, <1>3, Locations, CellsApart

\* A store changes one cell.
LEMMA StoredCell ==
  ASSUME NEW img, OnCells(img), NEW t \in Types, NEW a \in Areas
  PROVE  /\ OnCells(Stored(img, t, a))
         /\ \A c \in Cells : Stored(img, t, a)[c] =
              IF c = Location(t, a) THEN ComputeChecksum(img, t, a) ELSE img[c]
  BY LocationsAreCells DEF Stored, Location, OnCells

\* So does moving a sequence number.
LEMMA BumpedCell ==
  ASSUME NEW img, OnCells(img), NEW a \in Areas
  PROVE  /\ OnCells(BumpSequence(img, a))
         /\ \A c \in Cells : BumpSequence(img, a)[c] =
              IF c = AreaBase(a) + Sequence THEN (img[c] + 1) % 256 ELSE img[c]
  <1>1. AreaBase(a) + Sequence \in Cells
    BY CellsApart DEF AreaOffsets
  <1> QED BY <1>1 DEF BumpSequence, OnCells

\* The cells Overwrite(img, t, a) may change.
Touched(t, a) ==
  {Location(t, a)} \cup (IF t = 1 THEN {AreaBase(a) + Sequence} ELSE {})

\* It changes no other.
LEMMA OverwriteFrame ==
  ASSUME NEW img, OnCells(img), NEW t \in Types, NEW a \in Areas
  PROVE  /\ OnCells(Overwrite(img, t, a))
         /\ \A c \in Cells \ Touched(t, a) : Overwrite(img, t, a)[c] = img[c]
  <1>1. CASE t = 1
    <2>1. Overwrite(img, t, a) = Stored(BumpSequence(img, a), t, a)
      BY <1>1 DEF Overwrite
    <2> QED BY <1>1, <2>1, BumpedCell, StoredCell DEF Touched
  <1>2. CASE t # 1
    <2>1. Overwrite(img, t, a) = Stored(img, t, a)
      BY <1>2 DEF Overwrite
    <2> QED BY <1>2, <2>1, StoredCell DEF Touched
  <1> QED BY <1>1, <1>2

-----------------------------------------------------------------------------
(* Checksums.                                                               *)

\* Two images that agree where a checksum looks have the same content for it.
LEMMA SameContent ==
  ASSUME NEW img, NEW new, NEW t \in Types, NEW a \in Areas,
         \A o \in Covered(t) : (t = 1 /\ o = Crc1) \/ new[Start(t, a) + o] = img[Start(t, a) + o]
  PROVE  ComputeChecksum(new, t, a) = ComputeChecksum(img, t, a)
  <1>1. Content(new, t, a) = Content(img, t, a)
    BY DEF Content
  <1> QED BY <1>1 DEF ComputeChecksum

\* The cells a checksum looks at, but for itself.
Seen(t, a) == {Start(t, a) + o : o \in {x \in Covered(t) : ~(t = 1 /\ x = Crc1)}}

\* The fields behind each checksum.
LEMMA SeenFields ==
  ASSUME NEW a \in Areas
  PROVE  /\ Seen(0, a) = {Serial}
         /\ Seen(1, a) = {AreaBase(a) + f : f \in {XP, Money, Sequence, Crc3, Crc2}}
         /\ Seen(2, a) = {AreaBase(a) + Skill}
         /\ Seen(3, a) = {AreaBase(a) + f : f \in {HeroPoints, Challenges}}
  <1>1. Seen(0, a) = {Serial}
    BY CoveredFields DEF Seen, Start, Serial
  <1>2. {x \in Covered(1) : ~(1 = 1 /\ x = Crc1)} = {XP, Money, Sequence, Crc3, Crc2}
    BY CoveredFields DEF XP, Money, Sequence, Crc3, Crc2, Crc1
  <1>3. Seen(1, a) = {AreaBase(a) + f : f \in {XP, Money, Sequence, Crc3, Crc2}}
    BY <1>2 DEF Seen, Start
  <1>4. Seen(2, a) = {AreaBase(a) + Skill}
    BY CoveredFields DEF Seen, Start
  <1>5. Seen(3, a) = {AreaBase(a) + f : f \in {HeroPoints, Challenges}}
    BY CoveredFields DEF Seen, Start
  <1> QED BY <1>1, <1>3, <1>4, <1>5

\* What Overwrite stores matches.
LEMMA OverwriteMatches ==
  ASSUME NEW img, OnCells(img), NEW t \in Types, NEW a \in Areas
  PROVE  Matches(Overwrite(img, t, a), t, a)
  <1> DEFINE base == IF t = 1 THEN BumpSequence(img, a) ELSE img
             new  == Stored(base, t, a)
  <1>1. OnCells(base)
    BY BumpedCell
  <1>2. Overwrite(img, t, a) = new
    BY DEF Overwrite
  <1>3. new[Location(t, a)] = ComputeChecksum(base, t, a)
    BY <1>1, StoredCell, LocationsAreCells
  <1>4. \A c \in Seen(t, a) : c \in Cells /\ c # Location(t, a)
    <2>1. t \in {0, 1, 2, 3}
      BY DEF Types
    <2>2. {XP, Money, Sequence, Crc1, Crc2, Crc3, Skill, HeroPoints, Challenges} \subseteq AreaOffsets
      BY DEF AreaOffsets, UserFields
    <2>3. CASE t = 0
      BY <2>3, SeenFields, Locations DEF Cells, Serial, Crc0
    <2>4. CASE t = 1
      BY <2>4, <2>2, SeenFields, Locations, CellsApart DEF XP, Money, Sequence, Crc3, Crc2, Crc1
    <2>5. CASE t = 2
      BY <2>5, <2>2, SeenFields, Locations, CellsApart DEF Skill, Crc2
    <2>6. CASE t = 3
      BY <2>6, <2>2, SeenFields, Locations, CellsApart DEF HeroPoints, Challenges, Crc3
    <2> QED BY <2>1, <2>3, <2>4, <2>5, <2>6
  <1>5. \A c \in Seen(t, a) : new[c] = base[c]
    BY <1>1, <1>4, StoredCell
  <1>6. \A o \in Covered(t) : (t = 1 /\ o = Crc1) \/ new[Start(t, a) + o] = base[Start(t, a) + o]
    BY <1>5 DEF Seen
  <1>7. ComputeChecksum(new, t, a) = ComputeChecksum(base, t, a)
    BY <1>6, SameContent
  <1> QED BY <1>2, <1>3, <1>7 DEF Matches, Location

\* A checksum that matched still does after another one was overwritten, unless
\* it is the type 1 checksum of the same area and the other one is in the header.
LEMMA OverwriteKeeps ==
  ASSUME NEW img, OnCells(img), NEW t \in Types, NEW a \in Areas,
         NEW u \in Types, NEW b \in Areas, Matches(img, u, b),
         u = 0 => t # 0,
         a = b => t # u,
         a = b /\ u = 1 => t = 0
  PROVE  Matches(Overwrite(img, t, a), u, b)
  <1> DEFINE new == Overwrite(img, t, a)
  <1>1. {XP, Money, Sequence, Crc1, Crc2, Crc3, Skill, HeroPoints, Challenges} \subseteq AreaOffsets
    BY DEF AreaOffsets, UserFields
  <1>2. t \in {0, 1, 2, 3} /\ u \in {0, 1, 2, 3}
    BY DEF Types
  <1>3. Touched(t, a) = CASE t = 0 -> {Crc0}
                          [] t = 1 -> {AreaBase(a) + Crc1, AreaBase(a) + Sequence}
                          [] t = 2 -> {AreaBase(a) + Crc2}
                          [] t = 3 -> {AreaBase(a) + Crc3}
    BY <1>2, Locations DEF Touched
  <1>4. Location(u, b) \in Cells \ Touched(t, a)
    <2>1. CASE u = 0
      BY <2>1, <1>1, <1>2, <1>3, Locations, LocationsAreCells, CellsApart
    <2>2. CASE u # 0 /\ t = 0
      BY <2>2, <1>1, <1>2, <1>3, Locations, LocationsAreCells, CellsApart
    <2>3. CASE u # 0 /\ t # 0
      BY <2>3, <1>1, <1>2, <1>3, Locations, LocationsAreCells, CellsApart
         DEF Sequence, Crc1, Crc2, Crc3
    <2> QED BY <2>1, <2>2, <2>3
  <1>5. Seen(u, b) \subseteq Cells \ Touched(t, a)
    <2>1. CASE u = 0
      <3>1. Serial \in Cells /\ Serial # Crc0
        BY DEF Cells, Serial, Crc0
      <3> QED BY <2>1, <3>1, <1>1, <1>2, <1>3, SeenFields, CellsApart
    <2>2. CASE u = 1
      BY <2>2, <1>1, <1>2, <1>3, SeenFields, CellsApart
         DEF XP, Money, Sequence, Crc3, Crc2, Crc1
    <2>3. CASE u = 2
      BY <2>3, <1>1, <1>2, <1>3, SeenFields, CellsApart DEF Skill, Sequence, Crc3, Crc2, Crc1
    <2>4. CASE u = 3
      BY <2>4, <1>1, <1>2, <1>3, SeenFields, CellsApart
         DEF HeroPoints, Challenges, Sequence, Crc3, Crc2, Crc1
    <2> QED BY <1>2, <2>1, <2>2, <2>3, <2>4
  <1>6. new[Location(u, b)] = img[Location(u, b)]
    BY <1>4, OverwriteFrame
  <1>7. \A c \in Seen(u, b) : new[c] = img[c]
    BY <1>5, OverwriteFrame
  <1>8. ComputeChecksum(new, u, b) = ComputeChecksum(img, u, b)
    BY <1>7, SameContent DEF Seen
  <1> QED BY <1>6, <1>8 DEF Matches, Location

-----------------------------------------------------------------------------
(* A whole area, and both.                                                  *)

\* The type 0 checksum belongs to no area.
LEMMA SharedChecksum ==
  ASSUME NEW img, NEW a \in Areas, NEW b \in Areas
  PROVE  Matches(img, 0, a) <=> Matches(img, 0, b)
  BY DEF Matches, ComputeChecksum, Content, Start

\* After types 3, 2, 1 and 0, in that order, all four of the area match: type 1
\* looks at what types 3 and 2 stored, and nothing looks at what type 0 stores.
LEMMA OverwriteAreaMatches ==
  ASSUME NEW img, OnCells(img), NEW a \in Areas
  PROVE  /\ OnCells(OverwriteArea(img, a))
         /\ ValidateArea(OverwriteArea(img, a), a)
  <1> DEFINE i3 == Overwrite(img, 3, a)
             i2 == Overwrite(i3, 2, a)
             i1 == Overwrite(i2, 1, a)
             i0 == Overwrite(i1, 0, a)
  <1>1. Types = {0, 1, 2, 3}
    BY DEF Types
  <1>2. OnCells(i3) /\ Matches(i3, 3, a)
    BY <1>1, OverwriteFrame, OverwriteMatches
  <1> HIDE DEF i3
  <1>3. OnCells(i2) /\ Matches(i2, 2, a) /\ Matches(i2, 3, a)
    BY <1>1, <1>2, OverwriteFrame, OverwriteMatches, OverwriteKeeps
  <1> HIDE DEF i2
  <1>4. OnCells(i1) /\ Matches(i1, 1, a) /\ Matches(i1, 2, a) /\ Matches(i1, 3, a)
    BY <1>1, <1>3, OverwriteFrame, OverwriteMatches, OverwriteKeeps
  <1> HIDE DEF i1
  <1>5. /\ OnCells(i0)
        /\ Matches(i0, 0, a) /\ Matches(i0, 1, a) /\ Matches(i0, 2, a) /\ Matches(i0, 3, a)
    BY <1>1, <1>4, OverwriteFrame, OverwriteMatches, OverwriteKeeps
  <1> HIDE DEF i0
  <1>6. OverwriteArea(img, a) = i0
    BY DEF OverwriteArea, i0, i1, i2, i3
  <1> QED BY <1>1, <1>5, <1>6 DEF ValidateArea

\* The checksums of the other area survive.
LEMMA OverwriteAreaKeeps ==
  ASSUME NEW img, OnCells(img), NEW a \in Areas, NEW b \in Areas, a # b,
         ValidateArea(img, b)
  PROVE  ValidateArea(OverwriteArea(img, a), b)
  <1> DEFINE Others(i) == OnCells(i) /\ \A u \in {1, 2, 3} : Matches(i, u, b)
  <1>1. Types = {0, 1, 2, 3}
    BY DEF Types
  <1>2. ASSUME NEW i, Others(i), NEW t \in Types
        PROVE  Others(Overwrite(i, t, a))
    <2>1. OnCells(i) /\ OnCells(Overwrite(i, t, a))
      BY <1>2, OverwriteFrame
    <2>2. ASSUME NEW u \in {1, 2, 3}
          PROVE  Matches(Overwrite(i, t, a), u, b)
      <3>1. u \in Types /\ u # 0 /\ Matches(i, u, b)
        BY <1>1, <1>2
      <3> QED BY <2>1, <3>1, OverwriteKeeps
    <2> QED BY <2>1, <2>2
  <1>3. Others(img)
    BY <1>1 DEF ValidateArea
  <1> HIDE DEF Others
  <1>4. Others(OverwriteArea(img, a))
    <2>1. Others(Overwrite(img, 3, a))
      BY <1>1, <1>2, <1>3
    <2>2. Others(Overwrite(Overwrite(img, 3, a), 2, a))
      BY <1>1, <1>2, <2>1
    <2>3. Others(Overwrite(Overwrite(Overwrite(img, 3, a), 2, a), 1, a))
      BY <1>1, <1>2, <2>2
    <2> QED BY <1>1, <1>2, <2>3 DEF OverwriteArea
  <1>5. Matches(OverwriteArea(img, a), 0, b)
    BY <1>1, OverwriteAreaMatches, SharedChecksum DEF ValidateArea
  <1> QED BY <1>1, <1>4, <1>5 DEF Others, ValidateArea

\* The cells that overwriting the checksums of area a may change.
Rewritten(a) == {Crc0} \cup {AreaBase(a) + f : f \in {Sequence, Crc1, Crc2, Crc3}}

\* It changes no other, and moves one sequence number, once.
LEMMA OverwriteAreaFrame ==
  ASSUME NEW img, OnCells(img), NEW a \in Areas
  PROVE  /\ \A c \in Cells \ Rewritten(a) : OverwriteArea(img, a)[c] = img[c]
         /\ Field(OverwriteArea(img, a), a, Sequence) = (Field(img, a, Sequence) + 1) % 256
  <1> DEFINE i3 == Overwrite(img, 3, a)
             i2 == Overwrite(i3, 2, a)
             i1 == Overwrite(i2, 1, a)
             i0 == Overwrite(i1, 0, a)
             seq == AreaBase(a) + Sequence
  <1>1. Types = {0, 1, 2, 3}
    BY DEF Types
  <1>2. /\ seq \in Cells
        /\ seq \notin Touched(0, a) \cup Touched(2, a) \cup Touched(3, a)
        /\ seq # Location(1, a)
    <2>1. {Sequence, Crc1, Crc2, Crc3} \subseteq AreaOffsets
      BY DEF AreaOffsets
    <2>2. Touched(0, a) = {Crc0} /\ Touched(2, a) = {AreaBase(a) + Crc2}
          /\ Touched(3, a) = {AreaBase(a) + Crc3}
      BY Locations DEF Touched
    <2> QED BY <2>1, <2>2, Locations, CellsApart DEF Sequence, Crc1, Crc2, Crc3
  <1>3. \A t \in Types : Touched(t, a) \subseteq Rewritten(a)
    BY <1>1, Locations DEF Touched, Rewritten
  <1>4. OnCells(i3) /\ i3[seq] = img[seq] /\ \A c \in Cells \ Rewritten(a) : i3[c] = img[c]
    BY <1>1, <1>2, <1>3, OverwriteFrame
  <1>5. OnCells(i2) /\ i2[seq] = img[seq] /\ \A c \in Cells \ Rewritten(a) : i2[c] = img[c]
    <2> HIDE DEF i3
    <2> QED BY <1>1, <1>2, <1>3, <1>4, OverwriteFrame
  <1>6. /\ OnCells(i1)
        /\ i1[seq] = (img[seq] + 1) % 256
        /\ \A c \in Cells \ Rewritten(a) : i1[c] = img[c]
    <2> HIDE DEF i3, i2
    <2>1. i1 = Stored(BumpSequence(i2, a), 1, a)
      BY DEF Overwrite
    <2>2. OnCells(BumpSequence(i2, a)) /\ BumpSequence(i2, a)[seq] = (img[seq] + 1) % 256
      BY <1>2, <1>5, BumpedCell
    <2>3. i1[seq] = BumpSequence(i2, a)[seq]
      <3> DEFINE bumped == BumpSequence(i2, a)
      <3> HIDE DEF bumped, i1, seq
      <3>1. 1 \in Types
        BY <1>1
      <3>2. OnCells(bumped) /\ i1 = Stored(bumped, 1, a)
        BY <2>1, <2>2 DEF bumped
      <3>3. i1[seq] = bumped[seq]
        BY <1>2, <3>1, <3>2, StoredCell
      <3> QED BY <3>3 DEF bumped
    <2> QED BY <1>1, <1>3, <1>5, <2>2, <2>3, OverwriteFrame
  <1>7. i0[seq] = (img[seq] + 1) % 256 /\ \A c \in Cells \ Rewritten(a) : i0[c] = img[c]
    <2> HIDE DEF i3, i2, i1
    <2> QED BY <1>1, <1>2, <1>3, <1>6, OverwriteFrame
  <1> QED BY <1>7 DEF OverwriteArea, Field

-----------------------------------------------------------------------------
(* Skylander::computeChecksum, whole.                                       *)

\* Every checksum test passes after it, on any image and for any CRC.
THEOREM OverwriteAllMatches ==
  ASSUME NEW img, OnCells(img)
  PROVE  OnCells(OverwriteAll(img)) /\ ValidateAll(OverwriteAll(img))
  <1> DEFINE half == OverwriteArea(img, 0)
             all  == OverwriteArea(half, 1)
  <1>1. Areas = {0, 1}
    BY DEF Areas
  <1>2. OnCells(half) /\ ValidateArea(half, 0)
    BY <1>1, OverwriteAreaMatches
  <1> HIDE DEF half
  <1>3. OnCells(all) /\ ValidateArea(all, 1) /\ ValidateArea(all, 0)
    BY <1>1, <1>2, OverwriteAreaMatches, OverwriteAreaKeeps
  <1>4. OverwriteAll(img) = all
    BY DEF OverwriteAll, half
  <1> QED BY <1>1, <1>3, <1>4 DEF ValidateAll

\* It writes checksums, and moves the sequence number of each area once.
THEOREM OverwriteAllFrame ==
  ASSUME NEW img, OnCells(img)
  PROVE  /\ \A c \in Cells \ (Rewritten(0) \cup Rewritten(1)) : OverwriteAll(img)[c] = img[c]
         /\ \A a \in Areas :
              Field(OverwriteAll(img), a, Sequence) = (Field(img, a, Sequence) + 1) % 256
  <1> DEFINE half == OverwriteArea(img, 0)
             all  == OverwriteArea(half, 1)
             seq(a) == AreaBase(a) + Sequence
  <1>1. Areas = {0, 1}
    BY DEF Areas
  <1>2. /\ OnCells(half)
        /\ \A c \in Cells \ Rewritten(0) : half[c] = img[c]
        /\ half[seq(0)] = (img[seq(0)] + 1) % 256
    BY <1>1, OverwriteAreaMatches, OverwriteAreaFrame DEF Field
  <1>3. /\ \A c \in Cells \ Rewritten(1) : all[c] = half[c]
        /\ all[seq(1)] = (half[seq(1)] + 1) % 256
    <2> HIDE DEF half
    <2> QED BY <1>1, <1>2, OverwriteAreaFrame DEF Field
  <1>4. /\ seq(0) \in Cells \ Rewritten(1)
        /\ seq(1) \in Cells \ Rewritten(0)
    <2>1. {Sequence, Crc1, Crc2, Crc3} \subseteq AreaOffsets
      BY DEF AreaOffsets
    <2> QED BY <1>1, <2>1, CellsApart DEF Rewritten
  <1>5. OverwriteAll(img) = all
    BY DEF OverwriteAll
  <1> HIDE DEF all, half
  <1>6. \A c \in Cells \ (Rewritten(0) \cup Rewritten(1)) : all[c] = img[c]
    BY <1>2, <1>3
  <1>7. all[seq(0)] = (img[seq(0)] + 1) % 256 /\ all[seq(1)] = (img[seq(1)] + 1) % 256
    BY <1>2, <1>3, <1>4
  <1> QED BY <1>1, <1>5, <1>6, <1>7 DEF Field

-----------------------------------------------------------------------------
(* The setters.                                                             *)

\* All there is to know about the sizes of the fields.
LEMMA Sizes ==
  /\ WordSize \in Nat /\ WordSize > 2 /\ WordSize % 4 = 0
  /\ XPSize \in Nat /\ XPSize > 0
  <1>1. WordSize \in Nat /\ WordSize > 2 /\ WordSize % 4 = 0
    BY SMT DEF WordSize
  <1>2. XPSize \in Nat /\ XPSize > 0
    BY <1>1, SMT DEF XPSize
  <1> QED BY <1>1, <1>2

\* A sequence number is a byte.
LEMMA SequenceBounds ==
  ASSUME NEW img, IsImage(img), NEW a \in Areas
  PROVE  /\ Field(img, a, Sequence) \in Int
         /\ 0 <= Field(img, a, Sequence) /\ Field(img, a, Sequence) <= 255
  <1> DEFINE s == Field(img, a, Sequence)
             bytes == 0..255
  <1>1. s \in bytes
    BY DEF IsImage
  <1>2. \A x \in bytes : x \in Int /\ 0 <= x /\ x <= 255
    OBVIOUS
  <1> HIDE DEF s, bytes
  <1>3. s \in Int /\ 0 <= s /\ s <= 255
    BY <1>1, <1>2
  <1> QED BY <1>3 DEF s

\* Which setter is whose.
LEMMA SetFieldCases ==
  ASSUME NEW old, NEW o
  PROVE  /\ SetField(Money, old, o)      = SetMoney(old, o.money)
         /\ SetField(XP, old, o)         = SetXP(old, o.xp)
         /\ SetField(HeroPoints, old, o) = SetHeroPoints(old, o.hp)
         /\ SetField(Challenges, old, o) = SetChallenges(old, o.challenges)
         /\ SetField(Skill, old, o)      = SetSkillRight(SetSkillLeft(old, o.left), o.right)
  BY DEF SetField, XP, Money, Skill, HeroPoints, Challenges

\* What the setters leave in each field fits the field.
LEMMA SetterRanges ==
  ASSUME NEW o, IsOption(o)
  PROVE  /\ \A old \in 0..(WordSize - 1) :
              /\ SetField(Money, old, o) \in 0..(WordSize - 1)
              /\ SetField(HeroPoints, old, o) \in 0..(WordSize - 1)
              /\ SetField(Skill, old, o) \in 0..(WordSize - 1)
         /\ \A old \in 0..(XPSize - 1) : SetField(XP, old, o) \in 0..(XPSize - 1)
         /\ \A old \in Nat : SetField(Challenges, old, o) \in Nat
  <1>1. \A n \in Nat : Word(n) \in 0..(WordSize - 1)
    BY Sizes DEF Word
  <1>2. ASSUME NEW s \in 0..(WordSize - 1)
        PROVE  WithoutPathBit(s) \in 0..(WordSize - 1) /\ WithoutPathBit(s) + 2 \in 0..(WordSize - 1)
    <2>1. s \in Nat /\ s < WordSize
      BY <1>2, Sizes
    <2> DEFINE d == s \div 2
    <2>2. d \in Nat /\ 2 * d <= s /\ s <= 2 * d + 1
      BY <2>1, SMT
    <2>3. WithoutPathBit(s) = s - 2 * (d % 2)
      BY DEF WithoutPathBit
    <2> HIDE DEF d
    <2>4. CASE d % 2 = 1
      <3>1. d >= 1
        BY <2>2, <2>4, SMT
      <3> QED BY <2>1, <2>2, <2>3, <2>4, <3>1, Sizes
    <2>5. CASE d % 2 = 0
      <3>1. PICK e \in Nat : d = 2 * e
        <4>1. d \div 2 \in Nat /\ d = 2 * (d \div 2)
          BY <2>2, <2>5, SMT
        <4> QED BY <4>1
      <3>2. PICK q \in Nat : WordSize = 4 * q
        <4>1. WordSize \div 4 \in Nat /\ WordSize = 4 * (WordSize \div 4)
          BY Sizes, SMT
        <4> QED BY <4>1
      <3>3. 4 * e <= s /\ s <= 4 * e + 1
        BY <2>1, <2>2, <3>1, SMT
      <3>4. e < q
        BY <2>1, <3>2, <3>3, SMT
      <3>5. s + 2 < WordSize
        BY <2>1, <3>2, <3>3, <3>4, SMT
      <3> QED BY <2>1, <2>3, <2>5, <3>5, Sizes
    <2>6. d % 2 = 0 \/ d % 2 = 1
      BY <2>2, SMT
    <2> QED BY <2>4, <2>5, <2>6
  <1>3. ASSUME NEW s \in 0..(WordSize - 1), NEW w \in Nat
        PROVE  SkillPoints(s, w) \in 0..(WordSize - 1)
    BY <1>1, <1>3 DEF SkillPoints
  <1>4. /\ o.money \in Nat /\ o.xp \in Nat /\ o.hp \in Nat /\ o.challenges \in Nat
        /\ o.left \in Nat \cup {NotGiven} /\ o.right \in Nat \cup {NotGiven}
    BY DEF IsOption
  <1>5. ASSUME NEW old \in 0..(WordSize - 1)
        PROVE  SetField(Skill, old, o) \in 0..(WordSize - 1)
    <2>1. ASSUME NEW s \in 0..(WordSize - 1)
          PROVE  SetSkillLeft(s, o.left) \in 0..(WordSize - 1)
      BY <1>2, <1>3, <1>4, <2>1 DEF SetSkillLeft
    <2>2. ASSUME NEW s \in 0..(WordSize - 1)
          PROVE  SetSkillRight(s, o.right) \in 0..(WordSize - 1)
      BY <1>2, <1>3, <1>4, <2>2 DEF SetSkillRight
    <2> QED BY <1>5, <2>1, <2>2, SetFieldCases
  <1>6. ASSUME NEW old \in 0..(WordSize - 1)
        PROVE  /\ SetField(Money, old, o) \in 0..(WordSize - 1)
               /\ SetField(HeroPoints, old, o) \in 0..(WordSize - 1)
    BY <1>1, <1>4, <1>6, SetFieldCases DEF SetMoney, SetHeroPoints
  <1>7. ASSUME NEW old \in 0..(XPSize - 1)
        PROVE  SetField(XP, old, o) \in 0..(XPSize - 1)
    BY <1>4, <1>7, Sizes, SetFieldCases DEF SetXP
  <1>8. ASSUME NEW old \in Nat
        PROVE  SetField(Challenges, old, o) \in Nat
    BY <1>4, <1>8, SetFieldCases DEF SetChallenges
  <1> QED BY <1>5, <1>6, <1>7, <1>8, SMTT(30)

\* The five fields of the current area, and nothing else.
LEMMA EditedFields ==
  ASSUME NEW img, OnCells(img), NEW a \in Areas, NEW o
  PROVE  /\ OnCells(Edited(img, a, o))
         /\ \A c \in Cells : (\A f \in UserFields : c # AreaBase(a) + f) =>
              Edited(img, a, o)[c] = img[c]
         /\ \A f \in UserFields :
              Field(Edited(img, a, o), a, f) = SetField(f, Field(img, a, f), o)
  <1> DEFINE new == Edited(img, a, o)
  <1>1. UserFields = {0, 3, 16, 90, 140} /\ UserFields \subseteq AreaOffsets
    BY DEF AreaOffsets, UserFields, XP, Money, Skill, HeroPoints, Challenges
  <1>2. \A f \in UserFields : AreaBase(a) + f \in Cells
    BY <1>1, CellsApart
  <1>3. OnCells(new)
    BY DEF OnCells, Edited
  <1>4. ASSUME NEW c \in Cells, \A f \in UserFields : c # AreaBase(a) + f
        PROVE  new[c] = img[c]
    <2>1. c \in Int /\ AreaBase(a) \in Int
      BY <1>1, Offsets DEF Cells, Serial, Crc0, AreaBase
    <2>2. c - AreaBase(a) \notin UserFields
      BY <1>1, <1>4, <2>1
    <2> QED BY <2>2 DEF Edited
  <1>5. ASSUME NEW f \in UserFields
        PROVE  Field(new, a, f) = SetField(f, Field(img, a, f), o)
    <2>1. (AreaBase(a) + f) - AreaBase(a) = f
      BY <1>1, Offsets
    <2> QED BY <1>2, <2>1 DEF Edited, Field
  <1> QED BY <1>3, <1>4, <1>5

\* An edited image is an image.
LEMMA EditedImage ==
  ASSUME NEW img, IsImage(img), NEW a \in Areas, NEW o, IsOption(o)
  PROVE  IsImage(Edited(img, a, o))
  <1> DEFINE new == Edited(img, a, o)
  <1>1. OnCells(img)
    BY DEF IsImage, OnCells
  <1>2. UserFields = {XP, Money, Skill, HeroPoints, Challenges}
    BY DEF UserFields
  <1>3. OnCells(new)
    BY <1>1, EditedFields
  <1>4. ASSUME NEW b \in Areas
        PROVE  /\ Field(new, b, Sequence) \in 0..255
               /\ Field(new, b, Money) \in 0..(WordSize - 1)
               /\ Field(new, b, HeroPoints) \in 0..(WordSize - 1)
               /\ Field(new, b, Skill) \in 0..(WordSize - 1)
               /\ Field(new, b, XP) \in 0..(XPSize - 1)
               /\ Field(new, b, Challenges) \in Nat
    <2>1. /\ Field(img, b, Sequence) \in 0..255
          /\ Field(img, b, Money) \in 0..(WordSize - 1)
          /\ Field(img, b, HeroPoints) \in 0..(WordSize - 1)
          /\ Field(img, b, Skill) \in 0..(WordSize - 1)
          /\ Field(img, b, XP) \in 0..(XPSize - 1)
          /\ Field(img, b, Challenges) \in Nat
      BY DEF IsImage
    <2>2. ASSUME NEW f \in AreaOffsets, b # a \/ f \notin UserFields
          PROVE  Field(new, b, f) = Field(img, b, f)
      <3>1. UserFields \subseteq AreaOffsets
        BY DEF AreaOffsets
      <3>2. AreaBase(b) + f \in Cells
        BY CellsApart
      <3>3. \A g \in UserFields : AreaBase(b) + f # AreaBase(a) + g
        BY <2>2, <3>1, CellsApart
      <3> QED BY <1>1, <3>2, <3>3, EditedFields DEF Field
    <2>3. {Sequence, Money, HeroPoints, Skill, XP, Challenges} \subseteq AreaOffsets
      BY <1>2 DEF AreaOffsets
    <2>4. Sequence \notin UserFields
      BY <1>2 DEF XP, Money, Skill, HeroPoints, Challenges, Sequence
    <2>5. Field(new, b, Sequence) \in 0..255
      BY <2>1, <2>2, <2>3, <2>4
    <2>6. CASE b # a
      BY <2>1, <2>2, <2>3, <2>5, <2>6
    <2>7. CASE b = a
      <3>1. \A f \in UserFields : Field(new, a, f) = SetField(f, Field(img, a, f), o)
        BY <1>1, EditedFields
      <3>2. /\ Field(new, a, Money) = SetField(Money, Field(img, a, Money), o)
            /\ Field(new, a, HeroPoints) = SetField(HeroPoints, Field(img, a, HeroPoints), o)
            /\ Field(new, a, Skill) = SetField(Skill, Field(img, a, Skill), o)
            /\ Field(new, a, XP) = SetField(XP, Field(img, a, XP), o)
            /\ Field(new, a, Challenges) = SetField(Challenges, Field(img, a, Challenges), o)
        BY <1>2, <3>1
      <3> HIDE DEF new
      <3>3. /\ Field(new, a, Money) \in 0..(WordSize - 1)
            /\ Field(new, a, HeroPoints) \in 0..(WordSize - 1)
            /\ Field(new, a, Skill) \in 0..(WordSize - 1)
        BY <2>1, <2>7, <3>2, SetterRanges
      <3>4. Field(new, a, XP) \in 0..(XPSize - 1) /\ Field(new, a, Challenges) \in Nat
        BY <2>1, <2>7, <3>2, SetterRanges
      <3> QED BY <2>5, <2>7, <3>3, <3>4
    <2> QED BY <2>6, <2>7
  <1> QED BY <1>3, <1>4 DEF IsImage, OnCells

-----------------------------------------------------------------------------
(* The whole upgrade.                                                       *)

\* computeChecksum keeps an image an image.
LEMMA OverwriteAllImage ==
  ASSUME NEW img, IsImage(img)
  PROVE  IsImage(OverwriteAll(img))
  <1> DEFINE new == OverwriteAll(img)
  <1>1. OnCells(img)
    BY DEF IsImage, OnCells
  <1>2. OnCells(new)
    BY <1>1, OverwriteAllMatches
  <1>3. ASSUME NEW a \in Areas
        PROVE  Field(new, a, Sequence) \in 0..255
    <2>1. Field(img, a, Sequence) \in 0..255
      BY DEF IsImage
    <2>2. Field(new, a, Sequence) = (Field(img, a, Sequence) + 1) % 256
      BY <1>1, OverwriteAllFrame
    <2> QED BY <2>1, <2>2
  <1>4. ASSUME NEW a \in Areas, NEW f \in UserFields
        PROVE  Field(new, a, f) = Field(img, a, f)
    <2>1. f \in AreaOffsets /\ f \notin {Sequence, Crc1, Crc2, Crc3}
      BY DEF AreaOffsets, UserFields, XP, Money, Skill, HeroPoints, Challenges,
             Sequence, Crc1, Crc2, Crc3
    <2>2. /\ AreaBase(a) + f \in Cells
          /\ AreaBase(a) + f \notin Rewritten(0) \cup Rewritten(1)
      <3>1. {Sequence, Crc1, Crc2, Crc3} \subseteq AreaOffsets /\ 0 \in Areas /\ 1 \in Areas
        BY DEF AreaOffsets, Areas
      <3> QED BY <2>1, <3>1, CellsApart DEF Rewritten
    <2> QED BY <1>1, <2>2, OverwriteAllFrame DEF Field
  <1>5. {Money, HeroPoints, Skill, XP, Challenges} \subseteq UserFields
    BY DEF UserFields
  <1> HIDE DEF new
  <1>6. ASSUME NEW a \in Areas
        PROVE  /\ Field(new, a, Money) \in 0..(WordSize - 1)
               /\ Field(new, a, HeroPoints) \in 0..(WordSize - 1)
               /\ Field(new, a, Skill) \in 0..(WordSize - 1)
               /\ Field(new, a, XP) \in 0..(XPSize - 1)
               /\ Field(new, a, Challenges) \in Nat
    BY <1>4, <1>5 DEF IsImage
  <1> QED BY <1>2, <1>3, <1>6 DEF IsImage, OnCells, new

\* What main() makes of an image is an image.
LEMMA UpgradedImage ==
  ASSUME NEW img, IsImage(img), NEW a \in Areas, NEW o, IsOption(o)
  PROVE  IsImage(Upgraded(img, a, o))
  BY EditedImage, OverwriteAllImage DEF Upgraded
=============================================================================
