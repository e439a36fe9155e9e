------------------------------ MODULE TagImage ------------------------------
(***************************************************************************)
(* The 1024-byte image of a figure, as class Skylander (skylander.cpp),    *)
(* class Checksum (checksum.cpp) and class Crypt (crypt.cpp) see it.       *)
(*                                                                         *)
(* An image is a function from Cells to values.  A cell is the address, in *)
(* the real image, of the first byte of a field the program edits or       *)
(* checks; a field of several bytes is one cell.  Addresses are the code's *)
(* own, so which checksum covers which field is computed here the way the  *)
(* code computes it, from block numbers and lengths.                       *)
(***************************************************************************)
EXTENDS Integers

CONSTANT Crc(_)      \* the CRC of the bytes a checksum covers, any function

BlockSize == 16
Blocks == 0..63
Areas == {0, 1}

\* Sector trailers: never encrypted, never checksummed.
IsAccessControlBlock(b) == b % 4 = 3

\* First byte of data area a: blocks 0x08 and 0x24.
AreaBase(a) == IF a = 0 THEN 128 ELSE 576

-----------------------------------------------------------------------------
(* Offsets of the fields inside an area, from the first byte of its header. *)

XP         == 0
Money      == 3
Sequence   == 9
Crc3       == 10
Crc2       == 12
Crc1       == 14
Skill      == 16          \* block + 1
Trailer    == 48          \* block + 3, the sector trailer inside the area
HeroPoints == 90          \* block + 5, offset 0x0A
Challenges == 140         \* block + 8, offset 0x0C

UserFields  == {XP, Money, Skill, HeroPoints, Challenges}
AreaOffsets == UserFields \cup {Sequence, Crc3, Crc2, Crc1, Trailer}

Serial == 0               \* block 0: the toy's serial number
Crc0   == 30              \* block 1, offset 0x0E: checksum of sector 0

Cells == {Serial, Crc0} \cup {AreaBase(a) + o : a \in Areas, o \in AreaOffsets}

Field(img, a, f) == img[AreaBase(a) + f]
BlockOf(c) == c \div BlockSize

\* Skylander::setAreaFromSequence: the area with the higher sequence number,
\* area 0 when they are equal.
AreaFromSequence(img) == IF Field(img, 0, Sequence) < Field(img, 1, Sequence) THEN 1 ELSE 0

-----------------------------------------------------------------------------
(* Checksums.                                                               *)

Types == 0..3

ChecksumOffset(t) == CASE t = 0 -> Crc0
                       [] t = 1 -> Crc1
                       [] t = 2 -> Crc2
                       [] t = 3 -> Crc3

\* Where a checksum of type t starts counting: type 0 has no data area.
Start(t, a) == IF t = 0 THEN 0 ELSE AreaBase(a)

\* Slip: type 3 stops one block early.
DataBlocksShort(t) == {b \in (IF t = 2 THEN 1..4 ELSE 5..7) : ~IsAccessControlBlock(b)}

\* The blocks, counted from the header, that types 2 and 3 run over.  The test
\* for a sector trailer is made on that relative number, as in the code.
DataBlocks(t) == {b \in (IF t = 2 THEN 1..4 ELSE 5..8) : ~IsAccessControlBlock(b)}

\* The offsets a checksum of type t covers, from its start.
Covered(t) ==
  CASE t = 0 -> {Serial}
    [] t = 1 -> {o \in AreaOffsets : o < BlockSize}
    [] t \in {2, 3} -> {o \in AreaOffsets : BlockOf(o) \in DataBlocks(t)}

\* The type 1 checksum lies inside the header it covers, and counts itself as 5.
Content(img, t, a) ==
  [o \in Covered(t) |-> IF t = 1 /\ o = Crc1 THEN 5 ELSE img[Start(t, a) + o]]

ComputeChecksum(img, t, a) == Crc(Content(img, t, a))

\* Checksum::validateChecksum without overwrite: does the stored one match?
Matches(img, t, a) == img[Start(t, a) + ChecksumOffset(t)] = ComputeChecksum(img, t, a)

ValidateArea(img, a) == \A t \in Types : Matches(img, t, a)

ValidateAll(img) == \A a \in Areas : ValidateArea(img, a)

\* Slip: a sequence number that stops at 255.
BumpSaturating(img, a) == [img EXCEPT ![AreaBase(a) + Sequence] = IF @ = 255 THEN @ ELSE @ + 1]

\* The sequence number is an unsigned char: it wraps.
BumpSequence(img, a) == [img EXCEPT ![AreaBase(a) + Sequence] = (@ + 1) % 256]

Stored(img, t, a) ==
  [img EXCEPT ![Start(t, a) + ChecksumOffset(t)] = ComputeChecksum(img, t, a)]

\* Slip: only area 0 gets a new sequence number.
OverwriteBumpsOne(img, t, a) ==
  Stored(IF t = 1 /\ a = 0 THEN BumpSequence(img, a) ELSE img, t, a)

\* Checksum::validateChecksum with overwrite: the sequence number of the area
\* moves just before its type 1 checksum is taken.
Overwrite(img, t, a) == Stored(IF t = 1 THEN BumpSequence(img, a) ELSE img, t, a)

\* Slip: the types in ascending order.
OverwriteAreaAscending(img, a) ==
  Overwrite(Overwrite(Overwrite(Overwrite(img, 0, a), 1, a), 2, a), 3, a)

\* Checksum::ValidateAllChecksums with overwrite: types 3, 2, 1, 0, area by area.
OverwriteArea(img, a) ==
  Overwrite(Overwrite(Overwrite(Overwrite(img, 3, a), 2, a), 1, a), 0, a)

OverwriteAll(img) == OverwriteArea(OverwriteArea(img, 0), 1)

-----------------------------------------------------------------------------
(* Setters, with the test main() makes before it calls each of them: a value *)
(* of 0 means the option was not given, and for the two skill options the    *)
(* option itself is remembered (NotGiven) and 0 keeps the stored skill.      *)

NotGiven == -1
WordSize == 256 * 256
XPSize   == 256 * WordSize     \* XP has three bytes
Word(v)  == v % WordSize

\* Slip: the option is stored without the test that it was given.
SetMoneyAlways(old, v) == Word(v)

SetMoney(old, v)      == IF v = 0 THEN old ELSE Word(v)
SetHeroPoints(old, v) == IF v = 0 THEN old ELSE Word(v)
SetChallenges(old, v) == IF v = 0 THEN old ELSE v

\* Slip: the value is not compared with what three bytes hold.
SetXPUnchecked(old, v) == IF v = 0 THEN old ELSE v

\* setXP ignores a value that does not fit.
SetXP(old, v) == IF v = 0 \/ v >= XPSize THEN old ELSE v

\* skill & 0xFFFD
WithoutPathBit(s) == s - 2 * ((s \div 2) % 2)

\* The points a skill option asks for: 0, after truncation, keeps the old ones.
SkillPoints(old, v) == IF Word(v) = 0 THEN old ELSE Word(v)

SetSkillLeft(old, v) ==
  IF v = NotGiven THEN old ELSE WithoutPathBit(SkillPoints(old, v))

SetSkillRight(old, v) ==
  IF v = NotGiven THEN old ELSE WithoutPathBit(SkillPoints(old, v)) + 2

\* Skylander::getPath
Path(skill) == IF skill % 2 = 0 THEN "none"
               ELSE IF (skill \div 2) % 2 = 0 THEN "left" ELSE "right"

\* What the setter of field f leaves in it.  Every setter reads and writes its
\* own field; the two of Skill, the last, run in main()'s order, left before right.
SetField(f, old, o) ==
  CASE f = Money      -> SetMoney(old, o.money)
    [] f = XP         -> SetXP(old, o.xp)
    [] f = HeroPoints -> SetHeroPoints(old, o.hp)
    [] f = Challenges -> SetChallenges(old, o.challenges)
    [] OTHER          -> SetSkillRight(SetSkillLeft(old, o.left), o.right)

\* The setters main() calls under "if (upgrade)", on area a.
Edited(img, a, o) ==
  [c \in Cells |-> LET f == c - AreaBase(a)
                   IN  IF f \in UserFields THEN SetField(f, img[c], o) ELSE img[c]]

\* The whole upgrade: the setters, then Skylander::computeChecksum.
Upgraded(img, a, o) == OverwriteAll(Edited(img, a, o))

-----------------------------------------------------------------------------
\* What 1024 bytes of memory can hold, field by field.
IsImage(img) ==
  /\ img = [c \in Cells |-> img[c]]
  /\ \A a \in Areas : /\ Field(img, a, Sequence) \in 0..255
                      /\ Field(img, a, Money) \in 0..(WordSize - 1)
                      /\ Field(img, a, HeroPoints) \in 0..(WordSize - 1)
                      /\ Field(img, a, Skill) \in 0..(WordSize - 1)
                      /\ Field(img, a, XP) \in 0..(XPSize - 1)
                      /\ Field(img, a, Challenges) \in Nat

(* money, xp, hp, challenges: the unsigned values given, 0 when the option   *)
(* is absent; left, right: NotGiven or the value; upgrade: some upgrade      *)
(* option, or -c, was given.                                                 *)
IsOption(o) ==
  /\ o.upgrade \in BOOLEAN
  /\ o.money \in Nat
  /\ o.xp \in Nat
  /\ o.hp \in Nat
  /\ o.challenges \in Nat
  /\ o.left \in Nat \cup {NotGiven}
  /\ o.right \in Nat \cup {NotGiven}
=============================================================================
