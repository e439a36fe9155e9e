---------------------------- MODULE Editor_proofs ---------------------------
(***************************************************************************)
(* What holds of every session with a portal, for every CRC, every set of  *)
(* command lines, file names, initial files and initial figures, and       *)
(* whatever a block yields that is decrypted with the wrong key.           *)
(***************************************************************************)
EXTENDS Editor, TagImage_proofs, FiniteSetTheorems, WellFoundedInduction

-----------------------------------------------------------------------------
(* Blocks.                                                                  *)

\* Where the cells are: blocks 0 and 1, and the blocks of the two areas.
LEMMA CellBlocks ==
  /\ BlockOf(Serial) = 0 /\ BlockOf(Crc0) = 1
  /\ \A f \in AreaOffsets : BlockOf(AreaBase(0) + f) \in {8, 9, 11, 13, 16}
  /\ \A f \in AreaOffsets : BlockOf(AreaBase(1) + f) \in {36, 37, 39, 41, 44}
  /\ \A a \in Areas : \A f \in AreaOffsets \ {Trailer} :
       ~IsAccessControlBlock(BlockOf(AreaBase(a) + f))
  <1>1. BlockOf(Serial) = 0 /\ BlockOf(Crc0) = 1
    BY DEF BlockOf, BlockSize, Serial, Crc0
  <1>2. /\ BlockOf(128 + 0) = 8 /\ BlockOf(128 + 3) = 8 /\ BlockOf(128 + 9) = 8
        /\ BlockOf(128 + 10) = 8 /\ BlockOf(128 + 12) = 8 /\ BlockOf(128 + 14) = 8
        /\ BlockOf(128 + 16) = 9 /\ BlockOf(128 + 48) = 11
        /\ BlockOf(128 + 90) = 13 /\ BlockOf(128 + 140) = 16
    BY DEF BlockOf, BlockSize
  <1>3. /\ BlockOf(576 + 0) = 36 /\ BlockOf(576 + 3) = 36 /\ BlockOf(576 + 9) = 36
        /\ BlockOf(576 + 10) = 36 /\ BlockOf(576 + 12) = 36 /\ BlockOf(576 + 14) = 36
        /\ BlockOf(576 + 16) = 37 /\ BlockOf(576 + 48) = 39
        /\ BlockOf(576 + 90) = 41 /\ BlockOf(576 + 140) = 44
    BY DEF BlockOf, BlockSize
  <1>4. \A f \in AreaOffsets : BlockOf(AreaBase(0) + f) \in {8, 9, 11, 13, 16}
    BY <1>2, Offsets
  <1>5. \A f \in AreaOffsets : BlockOf(AreaBase(1) + f) \in {36, 37, 39, 41, 44}
    BY <1>3, Offsets
  <1>6. AreaOffsets \ {Trailer} = {0, 3, 9, 10, 12, 14, 16, 90, 140}
    BY Offsets DEF Trailer
  <1>7. \A f \in AreaOffsets \ {Trailer} :
          /\ BlockOf(AreaBase(0) + f) \in {8, 9, 13, 16}
          /\ BlockOf(AreaBase(1) + f) \in {36, 37, 41, 44}
    BY <1>2, <1>3, <1>6, Offsets
  <1>8. \A b \in {8, 9, 13, 16, 36, 37, 41, 44} : ~IsAccessControlBlock(b)
    BY DEF IsAccessControlBlock
  <1> QED BY <1>1, <1>4, <1>5, <1>7, <1>8 DEF Areas

\* Every cell is the serial number, the checksum of sector 0 or a field of an area.
LEMMA CellKinds ==
  ASSUME NEW c \in Cells
  PROVE  \/ c \in {Serial, Crc0}
         \/ \E a \in Areas, f \in AreaOffsets : c = AreaBase(a) + f
  BY DEF Cells

\* Blocks 0 and 1 hold a cell each, and blocks are numbers.
LEMMA BlockNumbers ==
  /\ TagBlocks \subseteq 0..44
  /\ 0 \in TagBlocks /\ 1 \in TagBlocks
  /\ \A c \in Cells : BlockOf(c) \in TagBlocks
  <1>1. \A c \in Cells : BlockOf(c) \in 0..44
    BY CellBlocks, CellKinds DEF Areas
  <1>2. Serial \in Cells /\ Crc0 \in Cells
    BY DEF Cells
  <1>3. 0 \in TagBlocks /\ 1 \in TagBlocks
    BY <1>2, CellBlocks DEF TagBlocks
  <1> QED BY <1>1, <1>3 DEF TagBlocks

\* Blocks 0 and 1, which make the key, are not encrypted.
LEMMA KeyBlocks == ~ShouldEncryptBlock(0) /\ ~ShouldEncryptBlock(1)
  BY DEF ShouldEncryptBlock

\* A set of blocks has a lowest one.
LEMMA LowestIsLeast ==
  ASSUME NEW S, S \subseteq TagBlocks, S # {}
  PROVE  Lowest(S) \in S /\ \A c \in S : Lowest(S) <= c
  <1>1. S \subseteq Nat
    BY BlockNumbers
  <1>2. PICK x \in S : \A y \in S : ~(<<y, x>> \in OpToRel(<, Nat))
    BY <1>1, NatLessThanWellFounded, WFMin, Zenon
  <1>3. \A y \in S : x <= y
    <2> TAKE y \in S
    <2>1. x \in Nat /\ y \in Nat
      BY <1>1
    <2>2. ~(y < x)
      BY <1>2, <2>1 DEF OpToRel
    <2> QED BY <2>1, <2>2
  <1> QED BY <1>3 DEF Lowest

-----------------------------------------------------------------------------
(* Images and what is stored of them.                                       *)

\* Cells of two images make an image.
LEMMA MixedImage ==
  ASSUME NEW x, IsImage(x), NEW y, IsImage(y), NEW z, OnCells(z),
         \A c \in Cells : z[c] \in {x[c], y[c]}
  PROVE  IsImage(z)
  <1>1. {XP, Money, Skill, HeroPoints, Challenges, Sequence} \subseteq AreaOffsets
    BY DEF AreaOffsets, UserFields
  <1>2. \A a \in Areas : \A f \in AreaOffsets : Field(z, a, f) \in {Field(x, a, f), Field(y, a, f)}
    BY CellsApart DEF Field
  <1>3. ASSUME NEW a \in Areas
        PROVE  /\ Field(z, a, Sequence) \in 0..255
               /\ Field(z, a, Money) \in 0..(WordSize - 1)
               /\ Field(z, a, HeroPoints) \in 0..(WordSize - 1)
               /\ Field(z, a, Skill) \in 0..(WordSize - 1)
               /\ Field(z, a, XP) \in 0..(XPSize - 1)
               /\ Field(z, a, Challenges) \in Nat
    <2>1. Field(z, a, Sequence) \in 0..255
      <3> DEFINE bytes == 0..255
      <3>1. Field(x, a, Sequence) \in bytes /\ Field(y, a, Sequence) \in bytes
        BY DEF IsImage
      <3> HIDE DEF bytes
      <3>2. Field(z, a, Sequence) \in bytes
        BY <1>1, <1>2, <3>1
      <3> QED BY <3>2 DEF bytes
    <2>2. Field(z, a, Money) \in 0..(WordSize - 1)
      BY <1>1, <1>2 DEF IsImage
    <2>3. Field(z, a, HeroPoints) \in 0..(WordSize - 1)
      BY <1>1, <1>2 DEF IsImage
    <2>4. Field(z, a, Skill) \in 0..(WordSize - 1)
      BY <1>1, <1>2 DEF IsImage
    <2>5. Field(z, a, XP) \in 0..(XPSize - 1)
      BY <1>1, <1>2 DEF IsImage
    <2>6. Field(z, a, Challenges) \in Nat
      BY <1>1, <1>2 DEF IsImage
    <2> QED BY <2>1, <2>2, <2>3, <2>4, <2>5, <2>6
  <1> QED BY <1>3 DEF IsImage, OnCells

\* A cell is found in its block.
LEMMA BlockCells ==
  ASSUME NEW img, NEW c \in Cells
  PROVE  Block(img, BlockOf(c))[c] = img[c]
  BY DEF Block

\* Blocks that hold the same cells are the same.
LEMMA SameBlock ==
  ASSUME NEW x, NEW y, NEW b, \A c \in Cells : BlockOf(c) = b => x[c] = y[c]
  PROVE  Block(x, b) = Block(y, b)
  BY DEF Block

\* A stored image, block by block.
LEMMA StoredBlocks ==
  ASSUME NEW s, IsStored(s), NEW b \in TagBlocks
  PROVE  /\ s[b] = [key |-> s[b].key, bytes |-> s[b].bytes]
         /\ s[b].bytes = Block(s[b].bytes, b)
         /\ s[b].bytes = Block(Plaintext(s), b)
  <1> DEFINE t == [x \in TagBlocks |-> [key |-> s[x].key, bytes |-> Block(s[x].bytes, x)]]
  <1>1. s = t
    BY DEF IsStored
  <1>2. t[b] = [key |-> s[b].key, bytes |-> Block(s[b].bytes, b)]
    OBVIOUS
  <1>3. s[b] = [key |-> s[b].key, bytes |-> Block(s[b].bytes, b)]
    BY <1>1, <1>2, Zenon
  <1>4. s[b].bytes = Block(s[b].bytes, b)
    BY <1>3
  <1>5. \A c \in Cells : BlockOf(c) = b => s[b].bytes[c] = Plaintext(s)[c]
    BY DEF Plaintext
  <1>6. Block(s[b].bytes, b) = Block(Plaintext(s), b)
    BY <1>5, SameBlock
  <1> QED BY <1>3, <1>4, <1>6

\* Encrypted or not, what is stored of an image is that image.
LEMMA EncryptedIsStored ==
  ASSUME NEW d, IsImage(d)
  PROVE  /\ IsStored(EncryptBuffer(d)) /\ Plaintext(EncryptBuffer(d)) = d
         /\ IsStored(Unencrypted(d)) /\ Plaintext(Unencrypted(d)) = d
  <1> DEFINE e == EncryptBuffer(d)
             u == Unencrypted(d)
  <1>1. d = [c \in Cells |-> d[c]]
    BY DEF IsImage
  <1>2. \A b : Block(Block(d, b), b) = Block(d, b)
    BY DEF Block
  <1>3. \A b \in TagBlocks : e[b].bytes = Block(d, b) /\ u[b].bytes = Block(d, b)
    BY DEF EncryptBuffer, Unencrypted
  <1>4. /\ e = [b \in TagBlocks |-> [key |-> e[b].key, bytes |-> Block(e[b].bytes, b)]]
        /\ u = [b \in TagBlocks |-> [key |-> u[b].key, bytes |-> Block(u[b].bytes, b)]]
    BY <1>2, <1>3 DEF EncryptBuffer, Unencrypted
  <1> HIDE DEF e, u
  <1>5. \A c \in Cells : e[BlockOf(c)].bytes[c] = d[c] /\ u[BlockOf(c)].bytes[c] = d[c]
    BY <1>3, BlockNumbers, BlockCells
  <1>6. Plaintext(e) = d /\ Plaintext(u) = d
    BY <1>1, <1>5 DEF Plaintext
  <1> QED BY <1>4, <1>6 DEF IsStored, e, u

\* A stored image one block of which is replaced.
LEMMA PatchIsStored ==
  ASSUME NEW s, IsStored(s), NEW t, IsStored(t), NEW b \in TagBlocks
  PROVE  IsStored([s EXCEPT ![b] = t[b]])
  <1> DEFINE p == [s EXCEPT ![b] = t[b]]
  <1>1. s = [x \in TagBlocks |-> [key |-> s[x].key, bytes |-> Block(s[x].bytes, x)]]
    BY DEF IsStored
  <1>2. DOMAIN s = TagBlocks
    BY <1>1
  <1>3. p = [x \in TagBlocks |-> IF x = b THEN t[x] ELSE s[x]]
    BY <1>2
  <1>4. \A x \in TagBlocks : p[x] \in {s[x], t[x]}
    BY <1>3
  <1> HIDE DEF p
  <1>5. ASSUME NEW x \in TagBlocks
        PROVE  p[x] = [key |-> p[x].key, bytes |-> Block(p[x].bytes, x)]
    <2>1. /\ s[x] = [key |-> s[x].key, bytes |-> s[x].bytes] /\ s[x].bytes = Block(s[x].bytes, x)
          /\ t[x] = [key |-> t[x].key, bytes |-> t[x].bytes] /\ t[x].bytes = Block(t[x].bytes, x)
      BY StoredBlocks
    <2>2. CASE p[x] = s[x]
      BY <2>1, <2>2, Zenon
    <2>3. CASE p[x] = t[x]
      BY <2>1, <2>3, Zenon
    <2> QED BY <1>4, <2>2, <2>3
  <1>6. p = [x \in TagBlocks |-> [key |-> p[x].key, bytes |-> Block(p[x].bytes, x)]]
    BY <1>3, <1>5
  <1>7. \A c \in Cells : Plaintext(p)[c] \in {Plaintext(s)[c], Plaintext(t)[c]}
    BY <1>4, BlockNumbers DEF Plaintext
  <1>8. OnCells(Plaintext(p))
    BY DEF OnCells, Plaintext
  <1>9. IsImage(Plaintext(p))
    BY <1>7, <1>8, MixedImage DEF IsStored
  <1> QED BY <1>6, <1>9 DEF IsStored, p

\* What is read is an image, whatever the keys are.
LEMMA ReadingIsImage ==
  ASSUME NEW s, IsStored(s)
  PROVE  IsImage(DecryptBuffer(s)) /\ IsImage(Bytes(s))
  <1>1. IsImage(Garbled) /\ IsImage(Plaintext(s))
    BY ImagesAssumption DEF IsStored
  <1>2. OnCells(DecryptBuffer(s)) /\ OnCells(Bytes(s))
    BY DEF OnCells, DecryptBuffer, Bytes
  <1>3. \A c \in Cells : /\ DecryptBuffer(s)[c] \in {Garbled[c], Plaintext(s)[c]}
                         /\ Bytes(s)[c] \in {Garbled[c], Plaintext(s)[c]}
    BY DEF DecryptBuffer, Bytes, Plaintext
  <1> QED BY <1>1, <1>2, <1>3, MixedImage

\* The key a tag is read with is that of the image that is read.
LEMMA KeysOfTag ==
  ASSUME NEW s, IsStored(s)
  PROVE  Keys(DecryptBuffer(s)) = <<s[0].bytes, s[1].bytes>>
  <1>1. ASSUME NEW b \in {0, 1}
        PROVE  Block(DecryptBuffer(s), b) = s[b].bytes
    <2>1. \A c \in Cells : BlockOf(c) = b => DecryptBuffer(s)[c] = s[b].bytes[c]
      BY <1>1, KeyBlocks DEF DecryptBuffer
    <2>2. Block(DecryptBuffer(s), b) = Block(s[b].bytes, b)
      BY <2>1, SameBlock
    <2> QED BY <1>1, <2>2, BlockNumbers, StoredBlocks
  <1> QED BY <1>1 DEF Keys

\* A block of d, encrypted with the key of s, reads as d.
LEMMA BlockReads ==
  ASSUME NEW s, IsStored(s), NEW d, Keys(d) = Keys(DecryptBuffer(s)),
         NEW b \in TagBlocks, s[b] = EncryptBuffer(d)[b]
  PROVE  \A c \in Cells : BlockOf(c) = b => DecryptBuffer(s)[c] = d[c]
  <1> TAKE c \in Cells
  <1> SUFFICES ASSUME BlockOf(c) = b
               PROVE  DecryptBuffer(s)[c] = d[c]
    OBVIOUS
  <1>1. s[b].key = (IF ShouldEncryptBlock(b) THEN Keys(d) ELSE Plain) /\ s[b].bytes = Block(d, b)
    BY DEF EncryptBuffer
  <1>2. Keys(d) = <<s[0].bytes, s[1].bytes>>
    BY KeysOfTag
  <1>3. s[b].bytes[c] = d[c]
    BY <1>1, BlockCells
  <1> QED BY <1>1, <1>2, <1>3 DEF DecryptBuffer

\* Writing a block of d to a tag with the same key changes what is read in that block
\* only, and not the key.
LEMMA PatchReads ==
  ASSUME NEW s, IsStored(s), NEW d, IsImage(d), Keys(d) = Keys(DecryptBuffer(s)),
         NEW b \in TagBlocks
  PROVE  LET p == [s EXCEPT ![b] = EncryptBuffer(d)[b]]
         IN  /\ IsStored(p)
             /\ Keys(DecryptBuffer(p)) = Keys(DecryptBuffer(s))
             /\ \A c \in Cells : DecryptBuffer(p)[c] =
                  IF BlockOf(c) = b THEN d[c] ELSE DecryptBuffer(s)[c]
  <1> DEFINE e == EncryptBuffer(d)
             p == [s EXCEPT ![b] = e[b]]
  <1>1. IsStored(e)
    BY EncryptedIsStored
  <1>2. IsStored(p)
    BY <1>1, PatchIsStored
  <1>3. DOMAIN s = TagBlocks
    BY DEF IsStored
  <1>4. \A x \in TagBlocks : p[x] = IF x = b THEN e[x] ELSE s[x]
    BY <1>3
  <1>5. \A x \in TagBlocks : e[x].bytes = Block(d, x)
    BY DEF EncryptBuffer
  <1>6. Block(d, 0) = s[0].bytes /\ Block(d, 1) = s[1].bytes
    BY KeysOfTag DEF Keys
  <1> HIDE DEF p, e
  <1>7. p[0].bytes = s[0].bytes /\ p[1].bytes = s[1].bytes
    BY <1>4, <1>5, <1>6, BlockNumbers
  <1>8. Keys(DecryptBuffer(p)) = Keys(DecryptBuffer(s))
    BY <1>2, <1>7, KeysOfTag
  <1>9. \A c \in Cells : BlockOf(c) = b => DecryptBuffer(p)[c] = d[c]
    BY <1>2, <1>4, <1>8, BlockReads DEF e
  <1>10. \A c \in Cells : BlockOf(c) # b => p[BlockOf(c)] = s[BlockOf(c)]
    BY <1>4, BlockNumbers
  <1>11. \A c \in Cells : BlockOf(c) # b => DecryptBuffer(p)[c] = DecryptBuffer(s)[c]
    BY <1>7, <1>10 DEF DecryptBuffer
  <1> QED BY <1>2, <1>8, <1>9, <1>11 DEF p, e

\* A tag whose blocks are encrypted with its own key, as those of a figure are.
OwnKey(stored) ==
  \A b \in TagBlocks : stored[b].key =
    IF ShouldEncryptBlock(b) THEN <<stored[0].bytes, stored[1].bytes>> ELSE Plain

\* Read and encrypted again, such a tag is the same.
LEMMA OwnKeyReads ==
  ASSUME NEW s, IsStored(s), OwnKey(s)
  PROVE  /\ DecryptBuffer(s) = Plaintext(s)
         /\ EncryptBuffer(DecryptBuffer(s)) = s
  <1> DEFINE d == DecryptBuffer(s)
             e == EncryptBuffer(d)
  <1>1. d = Plaintext(s)
    BY BlockNumbers DEF OwnKey, DecryptBuffer, Plaintext
  <1>2. Keys(d) = <<s[0].bytes, s[1].bytes>>
    BY KeysOfTag
  <1> HIDE DEF d
  <1>3. ASSUME NEW b \in TagBlocks
        PROVE  e[b] = s[b]
    <2>1. e[b] = [key |-> IF ShouldEncryptBlock(b) THEN Keys(d) ELSE Plain, bytes |-> Block(d, b)]
      BY DEF EncryptBuffer
    <2>2. s[b].key = IF ShouldEncryptBlock(b) THEN Keys(d) ELSE Plain
      BY <1>2 DEF OwnKey
    <2>3. s[b].bytes = Block(d, b) /\ s[b] = [key |-> s[b].key, bytes |-> s[b].bytes]
      BY <1>1, StoredBlocks
    <2> QED BY <2>1, <2>2, <2>3
  <1>4. e = [b \in TagBlocks |-> e[b]] /\ s = [b \in TagBlocks |-> s[b]]
    BY DEF EncryptBuffer, IsStored
  <1>5. e = s
    BY <1>3, <1>4
  <1> QED BY <1>1, <1>5 DEF d

\* Writing an image with the same key leaves a tag one.
LEMMA OwnKeyPatch ==
  ASSUME NEW s, IsStored(s), OwnKey(s), NEW d, IsImage(d), Keys(d) = Keys(DecryptBuffer(s)),
         NEW b \in TagBlocks
  PROVE  OwnKey([s EXCEPT ![b] = EncryptBuffer(d)[b]])
  <1> DEFINE e == EncryptBuffer(d)
             p == [s EXCEPT ![b] = e[b]]
  <1>1. DOMAIN s = TagBlocks
    BY DEF IsStored
  <1>2. \A x \in TagBlocks : p[x] = IF x = b THEN e[x] ELSE s[x]
    BY <1>1
  <1>3. \A x \in TagBlocks : /\ e[x].bytes = Block(d, x)
                             /\ e[x].key = IF ShouldEncryptBlock(x) THEN Keys(d) ELSE Plain
    BY DEF EncryptBuffer
  <1>4. Keys(d) = <<s[0].bytes, s[1].bytes>> /\ Block(d, 0) = s[0].bytes /\ Block(d, 1) = s[1].bytes
    BY KeysOfTag DEF Keys
  <1> HIDE DEF p, e
  <1>5. p[0].bytes = s[0].bytes /\ p[1].bytes = s[1].bytes
    BY <1>2, <1>3, <1>4, BlockNumbers
  <1>6. \A x \in TagBlocks : p[x].key = IF ShouldEncryptBlock(x) THEN Keys(d) ELSE Plain
    BY <1>2, <1>3, <1>4 DEF OwnKey
  <1> QED BY <1>4, <1>5, <1>6 DEF OwnKey, p, e

-----------------------------------------------------------------------------
(* Areas.                                                                   *)

\* The cells the checksums of an area look at.
AreaCells(a) == {Serial, Crc0} \cup {AreaBase(a) + f : f \in AreaOffsets \ {Trailer}}

\* Whether an area is whole is a matter of these cells.
LEMMA SameAreaSameChecks ==
  ASSUME NEW x, NEW y, NEW a \in Areas, \A c \in AreaCells(a) : x[c] = y[c],
         ValidateArea(x, a)
  PROVE  ValidateArea(y, a)
  <1>1. {XP, Money, Sequence, Crc1, Crc2, Crc3, Skill, HeroPoints, Challenges}
          \subseteq AreaOffsets \ {Trailer}
    BY DEF AreaOffsets, UserFields, XP, Money, Sequence, Crc1, Crc2, Crc3, Skill,
           HeroPoints, Challenges, Trailer
  <1>2. \A f \in AreaOffsets \ {Trailer} : AreaBase(a) + f \in AreaCells(a)
    BY DEF AreaCells
  <1>3. Serial \in AreaCells(a) /\ Crc0 \in AreaCells(a)
    BY DEF AreaCells
  <1>4. ASSUME NEW t \in Types
        PROVE  Matches(y, t, a)
    <2>1. t \in {0, 1, 2, 3}
      BY DEF Types
    <2>2. Seen(t, a) \subseteq AreaCells(a) /\ Location(t, a) \in AreaCells(a)
      BY <1>1, <1>2, <1>3, <2>1, SeenFields, Locations
    <2>3. \A o \in Covered(t) : (t = 1 /\ o = Crc1) \/ y[Start(t, a) + o] = x[Start(t, a) + o]
      BY <2>2 DEF Seen
    <2>4. ComputeChecksum(y, t, a) = ComputeChecksum(x, t, a)
      BY <2>3, SameContent
    <2>5. Matches(x, t, a)
      BY DEF ValidateArea
    <2> QED BY <2>2, <2>4, <2>5 DEF Matches, Location
  <1> QED BY <1>4 DEF ValidateArea

\* Images with the same key have the same blocks 0 and 1.
LEMMA SameKeysSameBlocks ==
  ASSUME NEW x, NEW y, Keys(x) = Keys(y)
  PROVE  \A c \in Cells : BlockOf(c) \in {0, 1} => x[c] = y[c]
  <1>1. Block(x, 0) = Block(y, 0) /\ Block(x, 1) = Block(y, 1)
    BY DEF Keys
  <1> QED BY <1>1, BlockCells

\* Two images are not one.
LEMMA AtMostOne ==
  ASSUME NEW S, IsFiniteSet(S), Cardinality(S) <= 1, NEW x \in S
  PROVE  S = {x}
  <1> SUFFICES ASSUME NEW y \in S, y # x
               PROVE  FALSE
    OBVIOUS
  <1>1. IsFiniteSet({x}) /\ Cardinality({x}) = 1
    BY FS_Singleton
  <1>2. Cardinality({x} \cup {y}) = 2
    BY <1>1, FS_AddElement, SMTT(30)
  <1>3. {x} \cup {y} \subseteq S
    OBVIOUS
  <1>4. Cardinality({x} \cup {y}) <= Cardinality(S)
    BY <1>3, FS_Subset
  <1>5. Cardinality(S) \in Nat
    BY FS_CardinalityType
  <1> QED BY <1>2, <1>4, <1>5

-----------------------------------------------------------------------------
(* The next block to write.                                                 *)

\* It is one of those that remain; if it is not an access control block, none of
\* those remains and none below it.
LEMMA NextBlockIsFirst ==
  ASSUME Remaining # {}
  PROVE  /\ NextBlock \in Remaining /\ NextBlock \in TagBlocks
         /\ ~IsAccessControlBlock(NextBlock) =>
              \A c \in Remaining : ~IsAccessControlBlock(c) /\ NextBlock <= c
  <1> DEFINE trailers == {b \in Remaining : IsAccessControlBlock(b)}
  <1>1. Remaining \subseteq TagBlocks
    BY DEF Remaining, Changed
  <1>2. trailers \subseteq TagBlocks
    BY <1>1
  <1>3. NextBlock = Lowest(IF trailers # {} THEN trailers ELSE Remaining)
    BY DEF NextBlock
  <1>4. CASE trailers # {}
    <2>1. NextBlock \in trailers
      BY <1>2, <1>3, <1>4, LowestIsLeast
    <2> QED BY <1>1, <2>1
  <1>5. CASE trailers = {}
    <2>1. NextBlock \in Remaining /\ \A c \in Remaining : NextBlock <= c
      BY <1>1, <1>3, <1>5, LowestIsLeast
    <2> QED BY <1>1, <1>5, <2>1
  <1> QED BY <1>4, <1>5

-----------------------------------------------------------------------------
(* Types.                                                                   *)

\* A copy is under way.
Working == phase \in {"read", "upgrade", "save", "fill", "reread", "write", "finish"}

\* What main() does, it does for the command line.
JobInv ==
  /\ phase \in {"idle", "done", "flash", "list"} \/ Working
  /\ phase = "idle" => job = None
  /\ phase # "idle" => job \in Jobs
  /\ phase \in {"flash", "list"} => job.task = phase
  /\ Working => job.task = "copy"
  /\ phase # "idle" /\ job.task = "copy" => Accepted(job)
  /\ phase = "upgrade" => job.opts.upgrade
  /\ phase = "fill" => Saves
  /\ phase \in {"reread", "write"} => job.portalOut

\* Figures hold stored images, and so do files that are not short.
StoreInv ==
  /\ tags = [f \in Figures |-> tags[f]]
  /\ files = [n \in Names |-> files[n]]
  /\ \A f \in Figures : IsStored(tags[f])
  /\ \A n \in Names : files[n] \in {None, Short} \/ IsStored(files[n])

\* There is an image to work on, and the tag's own contents to compare it with.
DataInv ==
  /\ phase \in {"upgrade", "save", "fill", "reread", "write", "finish"} => IsImage(data)
  /\ phase = "write" => IsStored(old)

\* The exception main() ended with, and the history.
RestInv ==
  /\ exit \in 0..11 \cup {22}
  /\ faults \in 0..FaultsCounted
  /\ IsFiniteSet(begun)
  /\ \A img \in begun : img = None \/ IsImage(img)

Inv == JobInv /\ StoreInv /\ DataInv /\ RestInv

\* Inv holds before the first session.
LEMMA InitInv == Init => Inv
  <1> SUFFICES ASSUME Init
               PROVE  Inv
    OBVIOUS
  <1>1. JobInv
    BY DEF Init, JobInv, Working
  <1>2. StoreInv
    BY ImagesAssumption DEF Init, StoreInv
  <1>3. DataInv
    BY DEF Init, DataInv
  <1>4. IsFiniteSet(begun)
    BY FS_EmptySet DEF Init
  <1>5. RestInv
    BY <1>4 DEF Init, RestInv, FaultsCounted
  <1> QED BY <1>1, <1>2, <1>3, <1>5 DEF Inv

\* A step that writes a file.
LEMMA FileStep ==
  ASSUME StoreInv, NEW n, NEW v, v = Short \/ IsStored(v),
         files' = [files EXCEPT ![n] = v], tags' = tags
  PROVE  StoreInv' /\ (n \in Names => files'[n] = v)
  <1>1. files = [x \in Names |-> files[x]]
    BY DEF StoreInv
  <1>2. DOMAIN files = Names
    BY <1>1
  <1>3. files' = [x \in Names |-> IF x = n THEN v ELSE files[x]]
    BY <1>2
  <1>4. \A x \in Names : files'[x] = IF x = n THEN v ELSE files[x]
    BY <1>3
  <1>5. files' = [x \in Names |-> files'[x]]
    BY <1>3, <1>4
  <1>6. \A x \in Names : files'[x] \in {None, Short} \/ IsStored(files'[x])
    BY <1>4 DEF StoreInv
  <1> QED BY <1>4, <1>5, <1>6 DEF StoreInv

\* A step that writes a block to figure 0.
LEMMA TagStep ==
  ASSUME StoreInv, IsImage(data), NEW b \in TagBlocks, UNCHANGED files,
         tags' = [tags EXCEPT ![Target][b] = EncryptBuffer(data)[b]]
  PROVE  /\ StoreInv'
         /\ tags'[Target] = [tags[Target] EXCEPT ![b] = EncryptBuffer(data)[b]]
         /\ \A f \in Figures : f # Target => tags'[f] = tags[f]
  <1> DEFINE e == EncryptBuffer(data)
             p == [tags[Target] EXCEPT ![b] = e[b]]
  <1>1. Target \in Figures
    BY ImagesAssumption DEF Target
  <1>2. tags = [f \in Figures |-> tags[f]]
    BY DEF StoreInv
  <1>3. DOMAIN tags = Figures
    BY <1>2
  <1>4. tags' = [f \in Figures |-> IF f = Target THEN p ELSE tags[f]]
    BY <1>3
  <1>5. IsStored(tags[Target]) /\ IsStored(e)
    BY <1>1, EncryptedIsStored DEF StoreInv
  <1>6. IsStored(p)
    BY <1>5, PatchIsStored
  <1> HIDE DEF p
  <1>7. \A f \in Figures : tags'[f] = IF f = Target THEN p ELSE tags[f]
    BY <1>4
  <1>8. tags' = [f \in Figures |-> tags'[f]]
    BY <1>4, <1>7
  <1>9. \A f \in Figures : IsStored(tags'[f])
    BY <1>6, <1>7 DEF StoreInv
  <1>10. StoreInv'
    BY <1>8, <1>9 DEF StoreInv
  <1> QED BY <1>1, <1>7, <1>10 DEF p

\* The two actions that may write a block, seen together.
LEMMA WriteSteps ==
  ASSUME Inv, WriteBlock \/ WriteBlockFails
  PROVE  /\ phase = "write" /\ Remaining # {} /\ NextBlock \in TagBlocks
         /\ IsImage(data) /\ UNCHANGED <<files, job, begun>>
         /\ \/ tags' = tags
            \/ tags' = [tags EXCEPT ![Target][NextBlock] = EncryptBuffer(data)[NextBlock]]
         /\ StoreInv'
  <1>1. /\ phase = "write" /\ Remaining # {} /\ UNCHANGED <<files, job, begun>>
        /\ tags' = tags \/ tags' = Written
    BY DEF WriteBlock, WriteBlockFails, End, NoFault, session
  <1>2. IsImage(data) /\ StoreInv
    BY <1>1 DEF Inv, DataInv
  <1>3. NextBlock \in TagBlocks
    BY <1>1, NextBlockIsFirst
  <1>4. Written = [tags EXCEPT ![Target][NextBlock] = EncryptBuffer(data)[NextBlock]]
    BY DEF Written
  <1>5. CASE tags' = tags
    <2>1. StoreInv'
      BY <1>1, <1>2, <1>5 DEF StoreInv
    <2> QED BY <1>1, <1>2, <1>3, <1>5, <2>1
  <1>6. CASE tags' = Written
    <2>1. tags' = [tags EXCEPT ![Target][NextBlock] = EncryptBuffer(data)[NextBlock]]
      BY <1>4, <1>6
    <2> QED BY <1>1, <1>2, <1>3, <2>1, TagStep
  <1>7. tags' = tags \/ tags' = Written
    BY <1>1
  <1> QED BY <1>5, <1>6, <1>7, Zenon

\* The number of faults stays below its bound.
LEMMA FaultCounts ==
  ASSUME faults \in 0..FaultsCounted, Fault
  PROVE  faults' \in 0..FaultsCounted
  BY DEF Fault, FaultsCounted

\* Each step of main() is the one its command line asks for.
LEMMA NextJob == JobInv /\ [Next]_vars => JobInv'
  <1> SUFFICES ASSUME JobInv, [Next]_vars
               PROVE  JobInv'
    OBVIOUS
  <1> USE DEF JobInv, Working, Saves
  <1>1. ASSUME NEW j \in Jobs, Begin(j)
        PROVE  JobInv'
    <2>1. job' = j /\ phase' = FirstPhase(j) /\ (j.task = "copy" => Accepted(j))
      BY <1>1 DEF Begin, StartSession
    <2>2. j.task \in {"flash", "list", "copy"}
      BY JobsAssumption DEF IsJob
    <2>3. CASE j.task = "copy"
      BY <2>1, <2>3 DEF FirstPhase
    <2>4. CASE j.task # "copy"
      BY <2>1, <2>2, <2>4 DEF FirstPhase
    <2> QED BY <2>3, <2>4
  <1>2. CASE NoCopy
    BY <1>2 DEF NoCopy, End
  <1>3. CASE InitWithPortal \/ InitWithFile
    BY <1>3 DEF InitWithPortal, InitWithFile, AfterReading
  <1>4. CASE ReadFails
    BY <1>4 DEF ReadFails, End
  <1>5. CASE Upgrade
    BY <1>5 DEF Upgrade
  <1>6. CASE NoFile \/ Truncate
    BY <1>6 DEF NoFile, Truncate, GoTo, AfterSaving
  <1>7. CASE OpenFails \/ FillFails
    BY <1>7 DEF OpenFails, FillFails, End
  <1>8. CASE Fill \/ FlushFails
    BY <1>8 DEF Fill, FlushFails, GoTo, AfterSaving
  <1>9. CASE ReadOld
    BY <1>9 DEF ReadOld
  <1>10. CASE ReadOldFails
    BY <1>10 DEF ReadOldFails, End
  <1>11. CASE WriteBlock
    BY <1>11 DEF WriteBlock, session
  <1>12. CASE WriteBlockFails
    BY <1>12 DEF WriteBlockFails, End
  <1>13. CASE PortalDone
    BY <1>13 DEF PortalDone, GoTo
  <1>14. CASE Success
    BY <1>14 DEF Success, End
  <1>15. CASE Crash
    BY <1>15 DEF Crash
  <1>16. CASE UNCHANGED vars
    BY <1>16 DEF vars, session
  <1> QED BY <1>1, <1>2, <1>3, <1>4, <1>5, <1>6, <1>7, <1>8, <1>9, <1>10, <1>11,
             <1>12, <1>13, <1>14, <1>15, <1>16 DEF Next

\* Each step leaves files and figures whole blocks.
LEMMA NextStore == Inv /\ [Next]_vars => StoreInv'
  <1> SUFFICES ASSUME Inv, [Next]_vars
               PROVE  StoreInv'
    OBVIOUS
  <1>1. StoreInv
    BY DEF Inv
  <1>2. CASE UNCHANGED <<files, tags>>
    BY <1>1, <1>2 DEF StoreInv
  <1>3. CASE Truncate
    <2>1. files' = [files EXCEPT ![Destination] = Short] /\ tags' = tags
      BY <1>3 DEF Truncate
    <2> QED BY <1>1, <2>1, FileStep
  <1>4. CASE Fill
    <2> DEFINE v == IF job.encrypt THEN EncryptBuffer(data) ELSE Unencrypted(data)
    <2>1. files' = [files EXCEPT ![Destination] = v] /\ tags' = tags
      BY <1>4 DEF Fill
    <2>2. IsImage(data)
      BY <1>4 DEF Fill, Inv, DataInv
    <2>3. IsStored(v)
      BY <2>2, EncryptedIsStored
    <2> HIDE DEF v
    <2> QED BY <1>1, <2>1, <2>3, FileStep
  <1>5. CASE WriteBlock \/ WriteBlockFails
    BY <1>5, WriteSteps
  <1>6. (\E j \in Jobs : Begin(j)) => UNCHANGED <<files, tags>>
    BY DEF Begin, StartSession
  <1>7. NoCopy \/ InitWithPortal \/ InitWithFile \/ ReadFails \/ Upgrade
          => UNCHANGED <<files, tags>>
    BY DEF NoCopy, InitWithPortal, InitWithFile, ReadFails, Upgrade
  <1>8. NoFile \/ OpenFails \/ FillFails \/ FlushFails \/ ReadOld \/ ReadOldFails
          => UNCHANGED <<files, tags>>
    BY DEF NoFile, OpenFails, FillFails, FlushFails, ReadOld, ReadOldFails
  <1>9. PortalDone \/ Success \/ Crash \/ UNCHANGED vars => UNCHANGED <<files, tags>>
    BY DEF PortalDone, Success, Crash, vars
  <1> QED BY <1>2, <1>3, <1>4, <1>5, <1>6, <1>7, <1>8, <1>9 DEF Next

\* Each step hands an image to the next.
LEMMA NextData == Inv /\ [Next]_vars => DataInv'
  <1> SUFFICES ASSUME Inv, [Next]_vars
               PROVE  DataInv'
    OBVIOUS
  <1>1. JobInv /\ StoreInv /\ DataInv
    BY DEF Inv
  <1> USE DEF DataInv
  <1>2. ASSUME NEW j \in Jobs, Begin(j)
        PROVE  DataInv'
    <2>1. phase' = FirstPhase(j) /\ j.task \in {"flash", "list", "copy"}
      BY <1>2, JobsAssumption DEF Begin, StartSession, IsJob
    <2> QED BY <2>1 DEF FirstPhase
  <1>3. CASE NoCopy
    BY <1>3 DEF NoCopy, End
  <1>4. CASE InitWithPortal
    <2>1. job.number \in Figures
      BY <1>1, <1>4, JobsAssumption DEF JobInv, InitWithPortal, IsJob
    <2>2. IsImage(DecryptBuffer(tags[job.number]))
      BY <1>1, <2>1, ReadingIsImage DEF StoreInv
    <2>3. data' = DecryptBuffer(tags[job.number]) /\ phase' \in {"upgrade", "save"}
      BY <1>4 DEF InitWithPortal, AfterReading
    <2> QED BY <2>2, <2>3
  <1>5. CASE InitWithFile
    <2> DEFINE f == files[job.input]
    <2>1. job.input \in Names
      BY <1>1, <1>5, JobsAssumption DEF JobInv, InitWithFile, IsJob
    <2>2. f \notin {None, Short}
      BY <1>5 DEF InitWithFile, Opens
    <2>3. IsStored(f)
      BY <1>1, <2>1, <2>2 DEF StoreInv
    <2>4. IsImage(DecryptBuffer(f)) /\ IsImage(Bytes(f))
      BY <2>3, ReadingIsImage
    <2>5. /\ data' = IF job.decrypt THEN DecryptBuffer(f) ELSE Bytes(f)
          /\ phase' \in {"upgrade", "save"}
      BY <1>5 DEF InitWithFile, AfterReading
    <2> QED BY <2>4, <2>5
  <1>6. CASE ReadFails
    BY <1>6 DEF ReadFails, End
  <1>7. CASE Upgrade
    <2>1. IsImage(data) /\ job \in Jobs
      BY <1>1, <1>7 DEF Upgrade, JobInv
    <2>2. IsOption(job.opts) /\ AreaFromSequence(data) \in Areas
      BY <2>1, JobsAssumption DEF IsJob, AreaFromSequence, Areas
    <2>3. data' = Upgraded(data, AreaFromSequence(data), job.opts) /\ phase' = "save"
      BY <1>7 DEF Upgrade
    <2>4. IsImage(data')
      BY <2>1, <2>2, <2>3, UpgradedImage
    <2> QED BY <2>3, <2>4
  <1>8. CASE NoFile \/ Truncate
    BY <1>1, <1>8 DEF NoFile, Truncate, GoTo, AfterSaving
  <1>9. CASE OpenFails \/ FillFails
    BY <1>9 DEF OpenFails, FillFails, End
  <1>10. CASE Fill \/ FlushFails
    BY <1>1, <1>10 DEF Fill, FlushFails, GoTo, AfterSaving
  <1>11. CASE ReadOld
    <2>1. job.number \in Figures
      BY <1>1, <1>11, JobsAssumption DEF JobInv, ReadOld, IsJob
    <2>2. IsStored(tags[job.number])
      BY <1>1, <2>1 DEF StoreInv
    <2> QED BY <1>1, <1>11, <2>2 DEF ReadOld
  <1>12. CASE ReadOldFails
    BY <1>12 DEF ReadOldFails, End
  <1>13. CASE WriteBlock
    BY <1>1, <1>13 DEF WriteBlock, session
  <1>14. CASE WriteBlockFails
    BY <1>14 DEF WriteBlockFails, End
  <1>15. CASE PortalDone
    BY <1>1, <1>15 DEF PortalDone, GoTo
  <1>16. CASE Success
    BY <1>16 DEF Success, End
  <1>17. CASE Crash
    BY <1>17 DEF Crash
  <1>18. CASE UNCHANGED vars
    BY <1>1, <1>18 DEF vars, session
  <1> QED BY <1>2, <1>3, <1>4, <1>5, <1>6, <1>7, <1>8, <1>9, <1>10, <1>11, <1>12,
             <1>13, <1>14, <1>15, <1>16, <1>17, <1>18 DEF Next

\* Exceptions, faults and what was begun.
LEMMA NextRest == Inv /\ [Next]_vars => RestInv'
  <1> SUFFICES ASSUME Inv, [Next]_vars
               PROVE  RestInv'
    OBVIOUS
  <1>1. DataInv /\ RestInv
    BY DEF Inv
  <1>2. PortalErrors \cup {0, 1, 2, 3, 22} \subseteq 0..11 \cup {22}
    BY DEF PortalErrors
  <1>3. exit' = exit \/ exit' \in PortalErrors \cup {0, 1, 2, 3, 22}
    <2>1. (\E j \in Jobs : Begin(j)) \/ NoCopy => exit' \in PortalErrors \cup {0}
      BY DEF Begin, StartSession, NoCopy, End
    <2>2. InitWithPortal \/ InitWithFile \/ Upgrade \/ ReadOld \/ WriteBlock => exit' = exit
      BY DEF InitWithPortal, InitWithFile, Upgrade, ReadOld, WriteBlock, session
    <2>3. ReadFails \/ OpenFails \/ FillFails => exit' \in PortalErrors \cup {1, 2, 3}
      BY DEF ReadFails, OpenFails, FillFails, End
    <2>4. NoFile \/ Truncate \/ Fill \/ FlushFails \/ PortalDone => exit' = exit
      BY DEF NoFile, Truncate, Fill, FlushFails, PortalDone, GoTo
    <2>5. ReadOldFails \/ WriteBlockFails => exit' \in PortalErrors \cup {22}
      BY DEF ReadOldFails, WriteBlockFails, End
    <2>6. Success \/ Crash => exit' = 0
      BY DEF Success, End, Crash
    <2>7. UNCHANGED vars => exit' = exit
      BY DEF vars, session
    <2> QED BY <2>1, <2>2, <2>3, <2>4, <2>5, <2>6, <2>7 DEF Next
  <1>4. exit' \in 0..11 \cup {22}
    BY <1>1, <1>2, <1>3 DEF RestInv
  <1>5. faults' = faults \/ Fault
    BY DEF Next, Begin, StartSession, NoCopy, InitWithPortal, InitWithFile, ReadFails, Upgrade,
           NoFile, Truncate, OpenFails, Fill, FillFails, FlushFails, ReadOld, ReadOldFails,
           WriteBlock, WriteBlockFails, PortalDone, Success, Crash, NoFault, vars
  <1>6. faults' \in 0..FaultsCounted
    BY <1>1, <1>5, FaultCounts DEF RestInv
  <1>7. begun' = begun \/ ReadOld
    BY DEF Next, Begin, StartSession, NoCopy, InitWithPortal, InitWithFile, ReadFails, Upgrade,
           NoFile, Truncate, OpenFails, Fill, FillFails, FlushFails, ReadOld, ReadOldFails,
           WriteBlock, WriteBlockFails, PortalDone, Success, Crash, NoFault, vars
  <1>8. IsFiniteSet(begun') /\ \A img \in begun' : img = None \/ IsImage(img)
    <2>1. CASE begun' = begun
      BY <1>1, <2>1 DEF RestInv
    <2>2. CASE ReadOld
      <3> DEFINE kept == IF ValidateAll(OnTag(Target)) THEN {} ELSE begun
                 new  == IF Keys(data) = Keys(OnTag(Target)) THEN data ELSE None
      <3>1. begun' = kept \cup {new}
        BY <2>2 DEF ReadOld, Beginning
      <3>2. IsFiniteSet(kept) /\ \A img \in kept : img = None \/ IsImage(img)
        BY <1>1, FS_EmptySet DEF RestInv
      <3>3. new = None \/ IsImage(new)
        BY <1>1, <2>2 DEF ReadOld, DataInv
      <3> HIDE DEF kept, new
      <3>4. IsFiniteSet(kept \cup {new})
        BY <3>2, FS_AddElement
      <3> QED BY <3>1, <3>2, <3>3, <3>4
    <2> QED BY <1>7, <2>1, <2>2
  <1> QED BY <1>4, <1>6, <1>8 DEF RestInv

\* Inv holds throughout.
THEOREM Invariance == Spec => []Inv
  <1>1. Init => Inv
    BY InitInv
  <1>2. Inv /\ [Next]_vars => Inv'
    <2>1. Inv /\ [Next]_vars => JobInv'
      BY NextJob DEF Inv
    <2> QED BY <2>1, NextStore, NextData, NextRest DEF Inv
  <1> QED BY <1>1, <1>2, PTL DEF Spec

\* No stored image is taken for no image.
NoneIsNoImage == \A s : IsStored(s) => s # None

\* Past reading there is an image of 1024 bytes to work on, a figure is compared with
\* what was read from it, and no session runs with options main() refuses.
THEOREM EditorTypeCorrect ==
  ASSUME NoneIsNoImage
  PROVE  Spec => []TypeOK
  <1>1. Inv => TypeOK
    <2> SUFFICES ASSUME Inv
                 PROVE  TypeOK
      OBVIOUS
    <2>1. phase = "write" => old # None
      BY DEF Inv, DataInv, NoneIsNoImage
    <2>2. job # None /\ job.task = "copy" => Accepted(job)
      BY DEF Inv, JobInv
    <2>3. Running => job # None
      BY JobsAssumption DEF Inv, JobInv, Running
    <2>4. phase \in {"idle", "flash", "list", "read", "upgrade", "save", "fill", "reread",
                     "write", "finish", "done"}
      BY DEF Inv, JobInv, Working
    <2>5. phase = "fill" => Saves
      BY DEF Inv, JobInv
    <2>6. phase \in {"upgrade", "save", "fill", "reread", "write", "finish"} => IsImage(data)
      BY DEF Inv, DataInv
    <2> QED BY <2>1, <2>2, <2>3, <2>4, <2>5, <2>6 DEF TypeOK, Inv, RestInv
  <1> QED BY <1>1, Invariance, PTL

-----------------------------------------------------------------------------
(* What a session leaves when it says "Success!".                           *)

\* Figures are written under number 0 only: the program compares with the figure -s
\* names and writes to figure 0, so for another one nothing can be promised.
OnlyTarget == \A j \in Jobs : j.portalOut => j.number = Target

\* main() is about to end, or has ended, with "Success!".
Succeeded == phase = "finish" \/ (phase = "done" /\ exit = 0 /\ job.task = "copy")

\* While a figure is written, each block is the old or the new one.
WriteInv ==
  phase = "write" =>
    /\ job.number = Target
    /\ \A b \in TagBlocks : tags[Target][b] \in {old[b], EncryptBuffer(data)[b]}

\* The figure has what was to be written to it.
WrittenInv == Succeeded /\ job.portalOut => tags[job.number] = EncryptBuffer(data)

\* What need not be written is there.
LEMMA NotRemaining ==
  ASSUME WriteInv, phase = "write", NEW b \in TagBlocks, b \notin Remaining
  PROVE  tags[Target][b] = EncryptBuffer(data)[b]
  <1>1. tags[Target][b] \in {old[b], EncryptBuffer(data)[b]}
    BY DEF WriteInv
  <1>2. CASE old[b] = EncryptBuffer(data)[b]
    BY <1>1, <1>2
  <1>3. CASE old[b] # EncryptBuffer(data)[b]
    <2>1. b \in Changed
      BY <1>3 DEF Changed
    <2> QED BY <2>1 DEF Remaining
  <1> QED BY <1>2, <1>3

\* The steps that lead to "Success!".
LEMMA SuccessSteps ==
  ASSUME Inv, [Next]_vars, Succeeded'
  PROVE  /\ UNCHANGED <<job, data, tags>>
         /\ \/ Succeeded /\ UNCHANGED files
            \/ PortalDone
            \/ (NoFile \/ Fill \/ FlushFails) /\ ~job.portalOut
  <1>1. JobInv
    BY DEF Inv
  <1>2. \A j \in Jobs : ~Begin(j)
    <2> SUFFICES ASSUME NEW j \in Jobs, Begin(j)
                 PROVE  FALSE
      OBVIOUS
    <2>1. phase' \in {"flash", "list", "read"}
      BY JobsAssumption DEF Begin, StartSession, FirstPhase, IsJob
    <2> QED BY <2>1 DEF Succeeded
  <1>3. ~NoCopy
    BY <1>1 DEF NoCopy, End, JobInv, Succeeded
  <1>4. ~InitWithPortal /\ ~InitWithFile /\ ~Upgrade /\ ~Truncate /\ ~ReadOld /\ ~Crash
    BY DEF InitWithPortal, InitWithFile, AfterReading, Upgrade, Truncate, GoTo, ReadOld, Crash,
           Succeeded
  <1>5. ~ReadFails /\ ~OpenFails /\ ~FillFails /\ ~ReadOldFails /\ ~WriteBlockFails
    BY DEF ReadFails, OpenFails, FillFails, ReadOldFails, WriteBlockFails, End, PortalErrors,
           Succeeded
  <1>6. ~WriteBlock
    BY DEF WriteBlock, session, Succeeded
  <1>7. CASE NoFile \/ Fill \/ FlushFails
    <2>1. UNCHANGED <<job, data, tags>> /\ phase' = AfterSaving
      BY <1>7 DEF NoFile, Fill, FlushFails, GoTo
    <2>2. ~job.portalOut
      BY <2>1 DEF AfterSaving, Succeeded
    <2> QED BY <1>7, <2>1, <2>2
  <1>8. CASE PortalDone
    BY <1>8 DEF PortalDone, GoTo
  <1>9. CASE Success
    BY <1>9 DEF Success, End, Succeeded
  <1>10. CASE UNCHANGED vars
    BY <1>10 DEF vars, session, Succeeded
  <1> QED BY <1>2, <1>3, <1>4, <1>5, <1>6, <1>7, <1>8, <1>9, <1>10 DEF Next

\* The steps that lead to writing a figure, or go on with it.
LEMMA WritingSteps ==
  ASSUME [Next]_vars, phase' = "write"
  PROVE  ReadOld \/ WriteBlock \/ (phase = "write" /\ UNCHANGED vars)
  <1>1. \A j \in Jobs : ~Begin(j)
    <2> SUFFICES ASSUME NEW j \in Jobs, Begin(j)
                 PROVE  FALSE
      OBVIOUS
    <2>1. phase' \in {"flash", "list", "read"}
      BY JobsAssumption DEF Begin, StartSession, FirstPhase, IsJob
    <2> QED BY <2>1
  <1>2. ~NoCopy /\ ~ReadFails /\ ~OpenFails /\ ~FillFails /\ ~ReadOldFails
        /\ ~WriteBlockFails /\ ~Success /\ ~Crash
    BY DEF NoCopy, ReadFails, OpenFails, FillFails, ReadOldFails, WriteBlockFails, Success, Crash,
           End
  <1>3. ~InitWithPortal /\ ~InitWithFile /\ ~Upgrade
    BY DEF InitWithPortal, InitWithFile, AfterReading, Upgrade
  <1>4. ~NoFile /\ ~Truncate /\ ~Fill /\ ~FlushFails /\ ~PortalDone
    BY DEF NoFile, Truncate, Fill, FlushFails, PortalDone, GoTo, AfterSaving
  <1>5. CASE UNCHANGED vars
    BY <1>5 DEF vars, session
  <1> QED BY <1>1, <1>2, <1>3, <1>4, <1>5 DEF Next

\* A block is written, or all have been.
LEMMA NextWrite ==
  ASSUME OnlyTarget
  PROVE  Inv /\ WriteInv /\ [Next]_vars => WriteInv'
  <1> SUFFICES ASSUME Inv, WriteInv, [Next]_vars, phase' = "write"
               PROVE  /\ job'.number = Target
                      /\ \A b \in TagBlocks :
                           tags'[Target][b] \in {old'[b], EncryptBuffer(data')[b]}
    BY DEF WriteInv
  <1>1. CASE ReadOld
    <2>1. job \in Jobs /\ job.portalOut
      BY <1>1 DEF ReadOld, Inv, JobInv
    <2>2. job.number = Target
      BY <2>1 DEF OnlyTarget
    <2> QED BY <1>1, <2>2 DEF ReadOld
  <1>2. CASE WriteBlock
    <2> DEFINE b0 == NextBlock
               e  == EncryptBuffer(data)
    <2>1. /\ phase = "write" /\ Remaining # {} /\ UNCHANGED <<job, data, old>>
          /\ tags' = [tags EXCEPT ![Target][b0] = e[b0]] /\ UNCHANGED files
      BY <1>2 DEF WriteBlock, Written, session
    <2>2. b0 \in TagBlocks
      BY <2>1, NextBlockIsFirst
    <2>3. IsImage(data) /\ StoreInv
      BY <2>1 DEF Inv, DataInv
    <2> HIDE DEF b0
    <2>4. tags'[Target] = [tags[Target] EXCEPT ![b0] = e[b0]]
      BY <2>1, <2>2, <2>3, TagStep
    <2>5. IsStored(tags[Target])
      BY <2>3, ImagesAssumption DEF StoreInv, Target
    <2>6. DOMAIN tags[Target] = TagBlocks
      BY <2>5 DEF IsStored
    <2> HIDE DEF e
    <2>7. \A b \in TagBlocks : tags'[Target][b] = IF b = b0 THEN e[b0] ELSE tags[Target][b]
      BY <2>4, <2>6
    <2>8. job.number = Target /\ \A b \in TagBlocks : tags[Target][b] \in {old[b], e[b]}
      BY <2>1 DEF WriteInv, e
    <2>9. \A b \in TagBlocks : tags'[Target][b] \in {old[b], e[b]}
      BY <2>7, <2>8
    <2> QED BY <2>1, <2>8, <2>9 DEF e
  <1>3. CASE phase = "write" /\ UNCHANGED vars
    BY <1>3 DEF WriteInv, vars, session
  <1> QED BY <1>1, <1>2, <1>3, WritingSteps

\* "Success!" comes after the last block.
LEMMA NextWritten ==
  Inv /\ WriteInv /\ WrittenInv /\ [Next]_vars => WrittenInv'
  <1> SUFFICES ASSUME Inv, WriteInv, WrittenInv, [Next]_vars, Succeeded', job'.portalOut
               PROVE  tags'[job'.number] = EncryptBuffer(data')
    BY DEF WrittenInv
  <1>1. UNCHANGED <<job, data, tags>> /\ job.portalOut
    BY SuccessSteps
  <1>2. CASE Succeeded
    BY <1>1, <1>2 DEF WrittenInv
  <1>3. CASE PortalDone
    <2> DEFINE e == EncryptBuffer(data)
    <2>1. phase = "write" /\ Remaining = {}
      BY <1>3 DEF PortalDone
    <2>2. job.number = Target
      BY <2>1 DEF WriteInv
    <2>3. \A b \in TagBlocks : tags[Target][b] = e[b]
      BY <2>1, NotRemaining
    <2>4. IsStored(tags[Target])
      BY ImagesAssumption DEF Inv, StoreInv, Target
    <2>5. tags[Target] = [b \in TagBlocks |-> tags[Target][b]] /\ e = [b \in TagBlocks |-> e[b]]
      BY <2>4 DEF IsStored, EncryptBuffer
    <2> HIDE DEF e
    <2>6. tags[Target] = e
      BY <2>3, <2>5
    <2> QED BY <1>1, <2>2, <2>6 DEF e
  <1> QED BY <1>1, <1>2, <1>3, SuccessSteps

\* WriteInv and WrittenInv hold throughout.
LEMMA Writing ==
  ASSUME OnlyTarget
  PROVE  Spec => [](Inv /\ WriteInv /\ WrittenInv)
  <1>1. Init => WriteInv /\ WrittenInv
    BY DEF Init, WriteInv, WrittenInv, Succeeded
  <1>2. Inv /\ WriteInv /\ WrittenInv /\ [Next]_vars => WriteInv' /\ WrittenInv'
    BY NextWrite, NextWritten
  <1> QED BY <1>1, <1>2, Invariance, PTL DEF Spec

\* When main() says "Success!" after -P, every block of the figure is that of the
\* image, whatever was on it before: what was read to compare with is what is still
\* there, or the new block.
THEOREM SuccessesAreWritten ==
  ASSUME OnlyTarget
  PROVE  Spec => []SuccessMeansWritten
  <1>1. WrittenInv => SuccessMeansWritten
    BY DEF WrittenInv, Succeeded, SuccessMeansWritten
  <1> QED BY <1>1, Writing, PTL

\* No other block of a figure is written while an access control block differs from
\* the new one: writeSkylanderToPortal makes a pass for those first.
THEOREM AccessControlGoesFirst ==
  ASSUME OnlyTarget
  PROVE  Spec => AccessControlFirst
  <1> DEFINE First ==
               (\E b \in TagBlocks : tags'[Target][b] # tags[Target][b] /\ ~IsAccessControlBlock(b))
                 => \A c \in TagBlocks :
                      IsAccessControlBlock(c) => tags[Target][c] = EncryptBuffer(data)[c]
  <1>1. Inv /\ WriteInv /\ [Next]_vars => [First]_vars
    <2> SUFFICES ASSUME Inv, WriteInv, [Next]_vars,
                        NEW b \in TagBlocks, tags'[Target][b] # tags[Target][b],
                        ~IsAccessControlBlock(b), NEW c \in TagBlocks, IsAccessControlBlock(c)
                 PROVE  tags[Target][c] = EncryptBuffer(data)[c]
      OBVIOUS
    <2>1. WriteBlock \/ WriteBlockFails
      BY DEF Next, Begin, StartSession, NoCopy, InitWithPortal, InitWithFile, ReadFails, Upgrade,
             NoFile, Truncate, OpenFails, Fill, FillFails, FlushFails, ReadOld, ReadOldFails,
             PortalDone, Success, Crash, vars
    <2>2. /\ phase = "write" /\ Remaining # {} /\ NextBlock \in TagBlocks /\ IsImage(data)
          /\ UNCHANGED files
          /\ tags' = [tags EXCEPT ![Target][NextBlock] = EncryptBuffer(data)[NextBlock]]
      BY <2>1, WriteSteps
    <2>3. StoreInv
      BY DEF Inv
    <2>4. tags'[Target] = [tags[Target] EXCEPT ![NextBlock] = EncryptBuffer(data)[NextBlock]]
      BY <2>2, <2>3, TagStep
    <2>5. b = NextBlock
      BY <2>4
    <2>6. c \notin Remaining
      BY <2>2, <2>5, NextBlockIsFirst
    <2> QED BY <2>2, <2>6, NotRemaining
  <1>2. [][First]_vars <=> AccessControlFirst
    BY PTL DEF AccessControlFirst
  <1> QED BY <1>1, <1>2, Writing, PTL DEF Spec

-----------------------------------------------------------------------------
(* Keys of the figure, and of what is written to it.                        *)

\* What is being written has been noted.
BegunInv == phase = "write" => data \in begun \/ None \in begun

\* Unless the image of another figure was begun, everything begun has the key of the
\* figure.
KeysInv == None \notin begun => \A img \in begun : Keys(img) = Keys(OnTag(Target))

\* begun changes, and the tag is read, in one action only.
LEMMA BegunSteps ==
  ASSUME Inv, [Next]_vars
  PROVE  \/ ReadOld
         \/ /\ begun' = begun
            /\ WriteBlock \/ WriteBlockFails \/ tags' = tags
  BY DEF Next, Begin, StartSession, NoCopy, InitWithPortal, InitWithFile, ReadFails, Upgrade,
         NoFile, Truncate, OpenFails, Fill, FillFails, FlushFails, ReadOld, ReadOldFails,
         WriteBlock, WriteBlockFails, PortalDone, Success, Crash, NoFault, vars

\* What ReadOld notes.
LEMMA ReadOldBegins ==
  ASSUME Inv, ReadOld
  PROVE  /\ UNCHANGED <<tags, data>> /\ IsImage(data)
         /\ \E new \in {data, None} :
              /\ new = data \/ Keys(data) # Keys(OnTag(Target))
              /\ new = None \/ Keys(data) = Keys(OnTag(Target))
              /\ IF ValidateAll(OnTag(Target)) THEN begun' = {new} ELSE begun' = begun \cup {new}
  <1> DEFINE new == IF Keys(data) = Keys(OnTag(Target)) THEN data ELSE None
  <1>1. UNCHANGED <<tags, data>> /\ IsImage(data)
    BY DEF ReadOld, Inv, DataInv
  <1>2. begun' = (IF ValidateAll(OnTag(Target)) THEN {} ELSE begun) \cup {new}
    BY DEF ReadOld, Beginning
  <1>3. /\ new \in {data, None}
        /\ new = data \/ Keys(data) # Keys(OnTag(Target))
        /\ new = None \/ Keys(data) = Keys(OnTag(Target))
    OBVIOUS
  <1> HIDE DEF new
  <1> QED BY <1>1, <1>2, <1>3

\* What a block write does to what is read from figure 0, if the image that is
\* written has its key.
LEMMA WriteReads ==
  ASSUME Inv, WriteBlock \/ WriteBlockFails, Keys(data) = Keys(OnTag(Target))
  PROVE  /\ Keys(OnTag(Target)') = Keys(OnTag(Target))
         /\ \/ tags' = tags
            \/ /\ \A c \in Cells : OnTag(Target)'[c] =
                    IF BlockOf(c) = NextBlock THEN data[c] ELSE OnTag(Target)[c]
               /\ \A f \in Figures : OwnKey(tags[f]) => OwnKey(tags'[f])
  <1>1. /\ phase = "write" /\ Remaining # {} /\ NextBlock \in TagBlocks
        /\ IsImage(data) /\ UNCHANGED files
        /\ \/ tags' = tags
           \/ tags' = [tags EXCEPT ![Target][NextBlock] = EncryptBuffer(data)[NextBlock]]
    BY WriteSteps
  <1>2. OnTag(Target)' = DecryptBuffer(tags'[Target]) /\ OnTag(Target) = DecryptBuffer(tags[Target])
    BY DEF OnTag
  <1>3. CASE tags' = tags
    BY <1>2, <1>3
  <1>4. CASE tags' = [tags EXCEPT ![Target][NextBlock] = EncryptBuffer(data)[NextBlock]]
    <2>1. StoreInv
      BY DEF Inv
    <2> DEFINE p == [tags[Target] EXCEPT ![NextBlock] = EncryptBuffer(data)[NextBlock]]
    <2>2. /\ tags'[Target] = p
          /\ \A f \in Figures : f # Target => tags'[f] = tags[f]
      BY <1>1, <1>4, <2>1, TagStep
    <2>3. IsStored(tags[Target])
      BY <2>1, ImagesAssumption DEF StoreInv, Target
    <2>4. /\ Keys(DecryptBuffer(p)) = Keys(DecryptBuffer(tags[Target]))
          /\ \A c \in Cells : DecryptBuffer(p)[c] =
               IF BlockOf(c) = NextBlock THEN data[c] ELSE DecryptBuffer(tags[Target])[c]
      BY <1>1, <1>2, <2>3, PatchReads
    <2>5. OwnKey(tags[Target]) => OwnKey(p)
      BY <1>1, <1>2, <2>3, OwnKeyPatch
    <2> HIDE DEF p
    <2>6. \A f \in Figures : OwnKey(tags[f]) => OwnKey(tags'[f])
      BY <2>2, <2>5
    <2> QED BY <1>2, <2>2, <2>4, <2>6
  <1> QED BY <1>1, <1>3, <1>4

\* ReadOld notes what is about to be written.
LEMMA NextBegun == Inv /\ BegunInv /\ [Next]_vars => BegunInv'
  <1> SUFFICES ASSUME Inv, BegunInv, [Next]_vars, phase' = "write"
               PROVE  data' \in begun' \/ None \in begun'
    BY DEF BegunInv
  <1>1. CASE ReadOld
    BY <1>1, ReadOldBegins
  <1>2. CASE WriteBlock
    BY <1>2 DEF WriteBlock, session, NoFault, BegunInv
  <1>3. CASE phase = "write" /\ UNCHANGED vars
    BY <1>3 DEF vars, session, BegunInv
  <1> QED BY <1>1, <1>2, <1>3, WritingSteps

\* No block that is written changes the key of the figure.
LEMMA NextKeys == Inv /\ BegunInv /\ KeysInv /\ [Next]_vars => KeysInv'
  <1> SUFFICES ASSUME Inv, BegunInv, KeysInv, [Next]_vars, None \notin begun', NEW img \in begun'
               PROVE  Keys(img) = Keys(OnTag(Target)')
    BY DEF KeysInv, Keys
  <1>1. CASE ReadOld
    <2>1. OnTag(Target)' = OnTag(Target)
      BY <1>1, ReadOldBegins DEF OnTag
    <2>2. img = data \/ (None \notin begun /\ img \in begun)
      BY <1>1, ReadOldBegins
    <2>3. Keys(data) = Keys(OnTag(Target))
      BY <1>1, ReadOldBegins
    <2> QED BY <2>1, <2>2, <2>3 DEF KeysInv
  <1>2. CASE begun' = begun /\ (WriteBlock \/ WriteBlockFails)
    <2>1. data \in begun
      BY <1>2, WriteSteps DEF BegunInv
    <2>2. Keys(data) = Keys(OnTag(Target)) /\ Keys(img) = Keys(OnTag(Target))
      BY <1>2, <2>1 DEF KeysInv
    <2> QED BY <1>2, <2>2, WriteReads
  <1>3. CASE begun' = begun /\ tags' = tags
    BY <1>3 DEF KeysInv, OnTag
  <1> QED BY <1>1, <1>2, <1>3, BegunSteps

\* BegunInv and KeysInv hold throughout.
LEMMA KeysHold == Spec => [](Inv /\ BegunInv /\ KeysInv)
  <1>1. Init => BegunInv /\ KeysInv
    BY DEF Init, BegunInv, KeysInv
  <1> QED BY <1>1, NextBegun, NextKeys, Invariance, PTL DEF Spec

-----------------------------------------------------------------------------
(* A write that is cut off.                                                 *)

\* The sessions start with a figure whose two areas are whole.
WholeAtFirst == \A t \in InitialTags : ValidateAll(DecryptBuffer(t[Target]))

\* Without a write, the figure is as it was.
WholeInv == begun = {} => ValidateAll(OnTag(Target))

\* As long as one image is written, area 1 is still whole or area 0 is that image's.
CutInv ==
  \A img \in begun : begun = {img} /\ img # None /\ ValidateAll(img) =>
    \/ ValidateArea(OnTag(Target), 1)
    \/ \A c \in AreaCells(0) : OnTag(Target)[c] = img[c]

\* Nothing is written to a figure before it is noted.
LEMMA NextWhole == Inv /\ BegunInv /\ WholeInv /\ [Next]_vars => WholeInv'
  <1> SUFFICES ASSUME Inv, BegunInv, WholeInv, [Next]_vars, begun' = {}
               PROVE  ValidateAll(OnTag(Target)')
    BY DEF WholeInv, ValidateAll, ValidateArea, Matches, ComputeChecksum, Content
  <1>1. ~ReadOld
    BY ReadOldBegins
  <1>2. begun = {} /\ phase # "write"
    BY <1>1, BegunSteps DEF BegunInv, WriteBlock, WriteBlockFails
  <1>3. tags' = tags
    BY <1>1, <1>2, BegunSteps DEF WriteBlock, WriteBlockFails
  <1> QED BY <1>2, <1>3 DEF WholeInv, OnTag

\* AreaCells are cells; those of area a are in its blocks or in blocks 0 and 1.
LEMMA AreaCellBlocks ==
  ASSUME NEW a \in Areas, NEW c \in AreaCells(a)
  PROVE  /\ c \in Cells
         /\ \/ BlockOf(c) \in {0, 1}
            \/ /\ ~IsAccessControlBlock(BlockOf(c))
               /\ BlockOf(c) \in IF a = 0 THEN 8..16 ELSE 36..44
  <1>1. CASE c \in {Serial, Crc0}
    BY <1>1, CellBlocks DEF Cells
  <1>2. CASE \E f \in AreaOffsets \ {Trailer} : c = AreaBase(a) + f
    <2>1. PICK f \in AreaOffsets \ {Trailer} : c = AreaBase(a) + f
      BY <1>2
    <2>2. c \in Cells
      BY <2>1 DEF Cells
    <2>3. ~IsAccessControlBlock(BlockOf(c))
      BY <2>1, CellBlocks
    <2>4. a = 0 \/ a = 1
      BY DEF Areas
    <2>5. BlockOf(c) \in IF a = 0 THEN 8..16 ELSE 36..44
      BY <2>1, <2>4, CellBlocks
    <2> QED BY <2>2, <2>3, <2>5
  <1> QED BY <1>1, <1>2 DEF AreaCells

\* The heart of the matter: a block write of a valid image.
LEMMA WriteKeepsAnArea ==
  ASSUME Inv, WriteInv, WriteBlock \/ WriteBlockFails,
         Keys(data) = Keys(OnTag(Target)),
         \/ ValidateArea(OnTag(Target), 1)
         \/ \A c \in AreaCells(0) : OnTag(Target)[c] = data[c]
  PROVE  \/ ValidateArea(OnTag(Target)', 1)
         \/ \A c \in AreaCells(0) : OnTag(Target)'[c] = data[c]
  <1> DEFINE b == NextBlock
             r == OnTag(Target)
             w == OnTag(Target)'
  <1>1. phase = "write" /\ Remaining # {} /\ b \in TagBlocks
    BY WriteSteps
  <1>2. CASE tags' = tags
    <2>1. w = r
      BY <1>2 DEF OnTag
    <2> QED BY <2>1
  <1>3. CASE \A c \in Cells : w[c] = IF BlockOf(c) = b THEN data[c] ELSE r[c]
    <2>1. 0 \in Areas /\ 1 \in Areas
      BY DEF Areas
    <2>2. \A c \in Cells : BlockOf(c) \in {0, 1} => r[c] = data[c]
      BY SameKeysSameBlocks
    <2>3. CASE \A c \in AreaCells(0) : r[c] = data[c]
      BY <1>3, <2>1, <2>3, AreaCellBlocks
    <2>4. CASE ValidateArea(r, 1) /\ (IsAccessControlBlock(b) \/ b < 36)
      <3>1. b \in 0..44
        BY <1>1, BlockNumbers
      <3>2. ASSUME NEW c \in AreaCells(1)
            PROVE  w[c] = r[c]
        <4>1. /\ c \in Cells
              /\ \/ BlockOf(c) \in {0, 1}
                 \/ /\ ~IsAccessControlBlock(BlockOf(c))
                    /\ BlockOf(c) \in 36..44
          BY <2>1, <3>2, AreaCellBlocks
        <4>2. CASE BlockOf(c) = b
          <5>1. BlockOf(c) \in {0, 1}
            BY <2>4, <3>1, <4>1, <4>2
          <5> QED BY <1>3, <2>2, <4>1, <4>2, <5>1
        <4>3. CASE BlockOf(c) # b
          BY <1>3, <4>1, <4>3
        <4> QED BY <4>2, <4>3
      <3> HIDE DEF r, w
      <3>3. ValidateArea(w, 1)
        BY <2>1, <2>4, <3>2, SameAreaSameChecks
      <3> QED BY <3>3 DEF w
    <2>5. CASE ~IsAccessControlBlock(b) /\ b >= 36
      <3>1. \A c \in Remaining : b <= c
        BY <1>1, <2>5, NextBlockIsFirst
      <3>2. IsStored(tags[Target])
        BY ImagesAssumption DEF Inv, StoreInv, Target
      <3>3. ASSUME NEW c \in AreaCells(0)
            PROVE  w[c] = data[c]
        <4>1. c \in Cells /\ (BlockOf(c) \in {0, 1} \/ BlockOf(c) \in 8..16)
          BY <2>1, <3>3, AreaCellBlocks
        <4>2. BlockOf(c) \in TagBlocks
          BY <4>1, BlockNumbers
        <4>3. CASE BlockOf(c) \in {0, 1}
          BY <1>3, <2>2, <4>1, <4>3
        <4>4. CASE BlockOf(c) \in 8..16
          <5>1. BlockOf(c) \notin Remaining
            <6>1. b \in 0..44
              BY <1>1, BlockNumbers
            <6>2. ~(b <= BlockOf(c))
              BY <2>5, <4>4, <6>1
            <6> QED BY <3>1, <6>2
          <5>2. tags[Target][BlockOf(c)] = EncryptBuffer(data)[BlockOf(c)]
            BY <1>1, <4>2, <5>1, NotRemaining
          <5>3. r[c] = data[c]
            BY <3>2, <4>1, <4>2, <5>2, BlockReads DEF OnTag
          <5> QED BY <1>3, <4>1, <5>3
        <4> QED BY <4>1, <4>3, <4>4
      <3> QED BY <3>3
    <2>6. IsAccessControlBlock(b) \/ b < 36 \/ (~IsAccessControlBlock(b) /\ b >= 36)
      BY <1>1, BlockNumbers
    <2> QED BY <2>3, <2>4, <2>5, <2>6
  <1> QED BY <1>2, <1>3, WriteReads

\* Neither beginning a write nor a block of it costs both areas.
LEMMA NextCut ==
  Inv /\ WriteInv /\ BegunInv /\ KeysInv /\ WholeInv /\ CutInv /\ [Next]_vars => CutInv'
  <1> SUFFICES ASSUME Inv, WriteInv, BegunInv, KeysInv, WholeInv, CutInv, [Next]_vars,
                      NEW img \in begun', begun' = {img}, img # None, ValidateAll(img)
               PROVE  \/ ValidateArea(OnTag(Target)', 1)
                      \/ \A c \in AreaCells(0) : OnTag(Target)'[c] = img[c]
    BY DEF CutInv, ValidateAll, ValidateArea, Matches, ComputeChecksum, Content
  <1>1. CASE ReadOld
    <2>1. OnTag(Target)' = OnTag(Target)
      BY <1>1, ReadOldBegins DEF OnTag
    <2>2. CASE ValidateAll(OnTag(Target))
      <3>1. ValidateArea(OnTag(Target), 1)
        BY <2>2 DEF ValidateAll, Areas
      <3> QED BY <2>1, <3>1
    <2>3. CASE ~ValidateAll(OnTag(Target))
      <3>1. begun # {}
        BY <2>3 DEF WholeInv
      <3>2. begun \subseteq begun'
        BY <1>1, <2>3, ReadOldBegins
      <3>3. begun = {img}
        BY <3>1, <3>2
      <3> QED BY <2>1, <3>3 DEF CutInv
    <2> QED BY <2>2, <2>3
  <1>2. CASE begun' = begun /\ (WriteBlock \/ WriteBlockFails)
    <2>1. phase = "write"
      BY <1>2, WriteSteps
    <2>2. data = img
      BY <1>2, <2>1 DEF BegunInv
    <2>3. Keys(data) = Keys(OnTag(Target))
      BY <1>2, <2>2 DEF KeysInv
    <2>4. \/ ValidateArea(OnTag(Target), 1)
          \/ \A c \in AreaCells(0) : OnTag(Target)[c] = data[c]
      BY <1>2, <2>2 DEF CutInv
    <2> QED BY <1>2, <2>2, <2>3, <2>4, WriteKeepsAnArea
  <1>3. CASE begun' = begun /\ tags' = tags
    <2>1. OnTag(Target)' = OnTag(Target)
      BY <1>3 DEF OnTag
    <2> QED BY <1>3, <2>1 DEF CutInv
  <1> QED BY <1>1, <1>2, <1>3, BegunSteps

\* However often a write of a valid image to figure 0 is cut off and begun again, one
\* data area of the figure is whole: writeSkylanderToPortal writes the blocks of area 0
\* before those of area 1.
THEOREM AreasSurvive ==
  ASSUME OnlyTarget, WholeAtFirst
  PROVE  Spec => []OneAreaSurvives
  <1>1. Init => WholeInv /\ CutInv
    BY DEF Init, WholeAtFirst, WholeInv, CutInv, OnTag
  <1>2. Inv /\ WholeInv /\ CutInv => OneAreaSurvives
    <2> SUFFICES ASSUME Inv, WholeInv, CutInv, Cardinality(begun) <= 1,
                        \A img \in begun : img # None /\ ValidateAll(img)
                 PROVE  Survives(OnTag(Target))
      BY DEF OneAreaSurvives
    <2>1. CASE begun = {}
      BY <2>1 DEF WholeInv, ValidateAll, Survives, Areas
    <2>2. CASE begun # {}
      <3>1. PICK img \in begun : TRUE
        BY <2>2
      <3>2. begun = {img} /\ img # None /\ ValidateAll(img)
        BY AtMostOne DEF Inv, RestInv
      <3>3. CASE ValidateArea(OnTag(Target), 1)
        BY <3>3 DEF Survives, Areas
      <3>4. CASE \A c \in AreaCells(0) : OnTag(Target)[c] = img[c]
        <4>1. ValidateArea(img, 0) /\ 0 \in Areas
          BY <3>2 DEF ValidateAll, Areas
        <4>2. ValidateArea(OnTag(Target), 0)
          BY <3>4, <4>1, SameAreaSameChecks
        <4> QED BY <4>1, <4>2 DEF Survives
      <3> QED BY <3>2, <3>3, <3>4 DEF CutInv
    <2> QED BY <2>1, <2>2
  <1>3. Inv /\ BegunInv /\ WholeInv /\ [Next]_vars => WholeInv'
    BY NextWhole
  <1>4. Inv /\ WriteInv /\ BegunInv /\ KeysInv /\ WholeInv /\ CutInv /\ [Next]_vars => CutInv'
    BY NextCut
  <1> QED BY <1>1, <1>2, <1>3, <1>4, Writing, KeysHold, PTL DEF Spec

-----------------------------------------------------------------------------
(* Dumps.                                                                   *)

\* The names -a makes are names of files.
NamesKept == \A s, p : AutoName(s, p) \in Names

\* The blocks of the figures are encrypted with their figure's key.
OwnKeysAtFirst == \A t \in InitialTags : \A f \in Figures : OwnKey(t[f])

\* What main() writes to the file.
Contents == IF job.encrypt THEN EncryptBuffer(data) ELSE Unencrypted(data)

\* From fopen to fclose the file is short; after that it has the image, unless fclose
\* failed.
SavedInv ==
  /\ phase = "fill" => files[Destination] = Short
  /\ Succeeded /\ Saves /\ ~job.portalOut => files[Destination] \in {Short, Contents}

\* An image that was read from a figure stays what the figure holds.
DumpInv ==
  (Succeeded \/ phase \in {"save", "fill"}) /\ job.input = "portal" =>
    data = DecryptBuffer(tags[job.number])

\* The same of all figures, at any time.
OwnInv == \A f \in Figures : OwnKey(tags[f])

\* Where a file is written has a name.
LEMMA DestinationIsAName ==
  ASSUME NamesKept, JobInv, phase # "idle", Saves
  PROVE  Destination \in Names
  <1>1. job.output \in Names \cup {None}
    BY JobsAssumption DEF JobInv, IsJob
  <1> QED BY <1>1 DEF Destination, Saves, NamesKept

\* The steps that lead to writing a file.
LEMMA SavingSteps ==
  ASSUME [Next]_vars
  PROVE  /\ phase' = "fill" => Truncate \/ (phase = "fill" /\ UNCHANGED vars)
         /\ phase' = "save" => InitWithPortal \/ InitWithFile \/ Upgrade
                                 \/ (phase = "save" /\ UNCHANGED vars)
  <1>1. ASSUME phase' \in {"fill", "save"}, NEW j \in Jobs, Begin(j)
        PROVE  FALSE
    <2>1. phase' \in {"flash", "list", "read"}
      BY <1>1, JobsAssumption DEF Begin, StartSession, FirstPhase, IsJob
    <2> QED BY <1>1, <2>1
  <1>2. NoCopy \/ ReadFails \/ OpenFails \/ FillFails \/ ReadOldFails \/ WriteBlockFails
        \/ Success => phase' = "done"
    BY DEF NoCopy, ReadFails, OpenFails, FillFails, ReadOldFails, WriteBlockFails, Success, End
  <1>3. NoFile \/ Fill \/ FlushFails \/ PortalDone => phase' \in {"reread", "finish"}
    BY DEF NoFile, Fill, FlushFails, PortalDone, GoTo, AfterSaving
  <1>4. (Crash => phase' = "idle") /\ (ReadOld => phase' = "write")
    BY DEF Crash, ReadOld
  <1>5. WriteBlock => phase' = "write"
    BY DEF WriteBlock, session
  <1>6. Truncate => phase' = "fill"
    BY DEF Truncate, GoTo
  <1>7. InitWithPortal \/ InitWithFile \/ Upgrade => phase' \in {"upgrade", "save"}
    BY DEF InitWithPortal, InitWithFile, AfterReading, Upgrade
  <1>8. UNCHANGED vars => phase' = phase
    BY DEF vars, session
  <1> QED BY <1>1, <1>2, <1>3, <1>4, <1>5, <1>6, <1>7, <1>8 DEF Next

\* What is written to a file stays there to the end of the session.
LEMMA NextSaved ==
  ASSUME NamesKept
  PROVE  Inv /\ SavedInv /\ [Next]_vars => SavedInv'
  <1> SUFFICES ASSUME Inv, SavedInv, [Next]_vars
               PROVE  SavedInv'
    OBVIOUS
  <1>1. JobInv /\ StoreInv
    BY DEF Inv
  <1>2. ASSUME phase' = "fill"
        PROVE  files'[Destination'] = Short
    <2>1. CASE Truncate
      <3>1. /\ phase = "save" /\ Saves /\ files' = [files EXCEPT ![Destination] = Short]
            /\ UNCHANGED <<job, data, tags>>
        BY <2>1 DEF Truncate, GoTo
      <3>2. Destination \in Names
        BY <1>1, <3>1, DestinationIsAName
      <3>3. files'[Destination] = Short
        BY <1>1, <3>1, <3>2, FileStep
      <3>4. Destination' = Destination
        BY <3>1 DEF Destination
      <3> QED BY <3>3, <3>4
    <2>2. CASE phase = "fill" /\ UNCHANGED vars
      <3>1. Destination' = Destination /\ files' = files
        BY <2>2 DEF Destination, vars, session
      <3> QED BY <2>2, <3>1 DEF SavedInv
    <2> QED BY <1>2, <2>1, <2>2, SavingSteps
  <1>3. ASSUME Succeeded', Saves', ~job'.portalOut
        PROVE  files'[Destination'] \in {Short, Contents'}
    <2>1. UNCHANGED <<job, data, tags>>
      BY <1>3, SuccessSteps
    <2>2. Destination' = Destination /\ Contents' = Contents /\ Saves /\ ~job.portalOut
      BY <1>3, <2>1 DEF Destination, Contents, Saves
    <2>3. CASE Succeeded /\ UNCHANGED files
      BY <2>2, <2>3 DEF SavedInv
    <2>4. ~PortalDone
      BY <1>1, <2>2 DEF PortalDone, JobInv
    <2>5. ~NoFile
      BY <2>2 DEF NoFile
    <2>6. CASE Fill
      <3>1. phase = "fill" /\ files' = [files EXCEPT ![Destination] = Contents] /\ tags' = tags
        BY <2>6 DEF Fill, Contents
      <3>2. Destination \in Names
        BY <1>1, <2>2, <3>1, DestinationIsAName
      <3>3. IsStored(Contents)
        BY <3>1, EncryptedIsStored DEF Inv, DataInv, Contents
      <3>4. files'[Destination] = Contents
        BY <1>1, <3>1, <3>2, <3>3, FileStep
      <3> QED BY <2>2, <3>4
    <2>7. CASE FlushFails
      BY <2>2, <2>7 DEF FlushFails, SavedInv
    <2> QED BY <1>3, <2>3, <2>4, <2>5, <2>6, <2>7, SuccessSteps
  <1> QED BY <1>2, <1>3 DEF SavedInv

\* Nothing changes an image that was read to be dumped.
LEMMA NextDump == Inv /\ DumpInv /\ [Next]_vars => DumpInv'
  <1> SUFFICES ASSUME Inv, DumpInv, [Next]_vars,
                      Succeeded' \/ phase' \in {"save", "fill"}, job'.input = "portal"
               PROVE  data' = DecryptBuffer(tags'[job'.number])
    BY DEF DumpInv
  <1>1. JobInv
    BY DEF Inv
  <1>2. CASE Succeeded'
    <2>1. UNCHANGED <<job, data, tags>>
      BY <1>2, SuccessSteps
    <2>2. ~PortalDone
      BY <1>1, <2>1 DEF PortalDone, JobInv, Working, Accepted
    <2>3. Succeeded \/ phase \in {"save", "fill"}
      BY <1>2, <2>2, SuccessSteps DEF NoFile, Fill, FlushFails
    <2> QED BY <2>1, <2>3 DEF DumpInv
  <1>3. CASE phase' = "fill"
    <2>1. UNCHANGED <<job, data, tags>> /\ phase \in {"save", "fill"}
      BY <1>3, SavingSteps DEF Truncate, GoTo, vars, session
    <2> QED BY <2>1 DEF DumpInv
  <1>4. CASE phase' = "save"
    <2>1. CASE InitWithPortal
      BY <2>1 DEF InitWithPortal
    <2>2. ~InitWithFile
      BY DEF InitWithFile
    <2>3. ~Upgrade
      BY <1>1 DEF Upgrade, JobInv, Working, Accepted
    <2>4. CASE phase = "save" /\ UNCHANGED vars
      BY <2>4 DEF DumpInv, vars, session
    <2> QED BY <1>4, <2>1, <2>2, <2>3, <2>4, SavingSteps
  <1> QED BY <1>2, <1>3, <1>4

\* Figures keep their keys as long as no other figure's image is written to them.
LEMMA NextOwn ==
  Inv /\ BegunInv /\ KeysInv /\ None \notin begun /\ OwnInv /\ [Next]_vars => OwnInv'
  <1> SUFFICES ASSUME Inv, BegunInv, KeysInv, None \notin begun, OwnInv, [Next]_vars
               PROVE  OwnInv'
    OBVIOUS
  <1>1. CASE WriteBlock \/ WriteBlockFails
    <2>1. phase = "write"
      BY <1>1, WriteSteps
    <2>2. Keys(data) = Keys(OnTag(Target))
      BY <2>1 DEF BegunInv, KeysInv
    <2>3. tags' = tags \/ \A f \in Figures : OwnKey(tags[f]) => OwnKey(tags'[f])
      BY <1>1, <2>2, WriteReads
    <2> QED BY <2>3 DEF OwnInv
  <1>2. CASE tags' = tags
    BY <1>2 DEF OwnInv
  <1>3. ReadOld => tags' = tags
    BY DEF ReadOld
  <1> QED BY <1>1, <1>2, <1>3, BegunSteps

\* A dump is the tag byte for byte, or its bytes decrypted, also of a torn figure, in
\* every behaviour in which no image of another figure is begun to be written to one.
THEOREM DumpsAreFaithful ==
  ASSUME NamesKept, OwnKeysAtFirst
  PROVE  Spec /\ [](None \notin begun) => []DumpIsFaithful
  <1>1. Init => SavedInv /\ DumpInv /\ OwnInv
    BY DEF Init, SavedInv, DumpInv, OwnInv, Succeeded, OwnKeysAtFirst
  <1>2. Inv /\ SavedInv /\ DumpInv /\ OwnInv => DumpIsFaithful
    <2> SUFFICES ASSUME Inv, SavedInv, DumpInv, OwnInv,
                        Saved, job.input = "portal", files[Destination] # Short
                 PROVE  IF job.encrypt THEN files[Destination] = tags[job.number]
                        ELSE Plaintext(files[Destination]) = Plaintext(tags[job.number])
      BY DEF DumpIsFaithful
    <2> DEFINE t == tags[job.number]
    <2>1. Succeeded /\ Saves
      BY DEF Saved, Succeeded
    <2>2. Accepted(job) /\ job \in Jobs
      BY DEF Saved, Inv, JobInv
    <2>3. ~job.portalOut /\ job.number \in Figures
      BY <2>2, JobsAssumption DEF Accepted, IsJob
    <2>4. files[Destination] = Contents
      BY <2>1, <2>3 DEF SavedInv
    <2>5. data = DecryptBuffer(t)
      BY <2>1 DEF DumpInv
    <2>6. IsStored(t) /\ OwnKey(t)
      BY <2>3 DEF Inv, StoreInv, OwnInv
    <2> HIDE DEF t
    <2>7. EncryptBuffer(data) = t /\ data = Plaintext(t) /\ IsImage(data)
      BY <2>5, <2>6, OwnKeyReads, ReadingIsImage
    <2>8. Plaintext(Unencrypted(data)) = Plaintext(t)
      BY <2>7, EncryptedIsStored
    <2> QED BY <2>4, <2>7, <2>8 DEF Contents, t
  <1>3. Inv /\ SavedInv /\ [Next]_vars => SavedInv'
    BY NextSaved
  <1>4. Inv /\ DumpInv /\ [Next]_vars => DumpInv'
    BY NextDump
  <1>5. Inv /\ BegunInv /\ KeysInv /\ None \notin begun /\ OwnInv /\ [Next]_vars => OwnInv'
    BY NextOwn
  <1> QED BY <1>1, <1>2, <1>3, <1>4, <1>5, KeysHold, PTL DEF Spec
=============================================================================
