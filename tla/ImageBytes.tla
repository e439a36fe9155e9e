---------------------------- MODULE ImageBytes ----------------------------
(***************************************************************************)
(* The 1024 bytes of an image, as class Crypt (crypt.cpp), the loops of    *)
(* class SkylanderIO over its blocks (fileio.cpp) and class Checksum       *)
(* (checksum.cpp) work on them.  Modules TagImage and Editor abstract from *)
(* what happens here: there a block is encrypted or not, and a CRC is some *)
(* function of the fields that it covers.                                  *)
(***************************************************************************)
EXTENDS MD5, Rijndael, Standards

CONSTANTS
  Images,      \* the images there may be at first, block by block
  KnownKeys    \* known answers of MD5: records of header, index and key

BlockIndexes == 0..63

IsImage(img) ==
  /\ img = [b \in BlockIndexes |-> img[b]]
  /\ \A b \in BlockIndexes : Bytes16(img[b])

\* The tables of rijndael.cpp have the entries that the standard defines.
ASSUME TablesAssumption ==
  /\ \A x \in Byte : SubByte[x] = S(x) /\ By2[x] = Twice(x) /\ By3[x] = Thrice(x)
  /\ \A n \in 1..10 : RoundConstant(n) = rcon[n]

ASSUME ImagesAssumption == \A img \in Images : IsImage(img)

-----------------------------------------------------------------------------
(* Class Crypt.                                                             *)

IsAccessControlBlock(b) == b % 4 = 3
ShouldEncryptBlock(b)   == b >= 8 /\ ~IsAccessControlBlock(b)

\* " Copyright (C) 2010 Activision. All Rights Reserved. "
HashConst == <<
  32, 67, 111, 112, 121, 114, 105, 103, 104, 116, 32, 40, 67, 41, 32, 50, 48, 49,
  48, 32, 65, 99, 116, 105, 118, 105, 115, 105, 111, 110, 46, 32, 65, 108, 108, 32,
  82, 105, 103, 104, 116, 115, 32, 82, 101, 115, 101, 114, 118, 101, 100, 46, 32>>

\* ComputeMD5 of the first 0x20 bytes, the block index and the constant.
KeyOf(img, b) ==
  MD5Close(MD5Digest(MD5Open, img[0] \o img[1] \o <<b>> \o HashConst))

-----------------------------------------------------------------------------
(* Class Checksum.  A loop is a function of the accumulator that it begins    *)
(* with.                                                                    *)

Short == 0..65535     \* unsigned short

XorShort(x, y) == 256 * XorByte(x \div 256, y \div 256) + XorByte(x % 256, y % 256)

UpdateCcittCrc16(crc16, data) ==
  LET after[i \in 0..8] ==
        IF i = 0 THEN [crc |-> crc16, num2 |-> data * 256]
        ELSE LET before == after[i - 1]
                 num3   == IF XorShort(before.crc, before.num2) > 32767 THEN 1 ELSE 0
             IN [crc  |-> XorShort((2 * before.crc) % 65536, num3 * 4129),
                 num2 |-> (2 * before.num2) % 65536]
  IN after[8].crc

\* rest[n] is what the last n bytes make of an accumulator.
CrcOver(crc16, bytes) ==
  LET rest[n \in 0..Len(bytes)] ==
        [crc \in Short |->
           IF n = 0 THEN crc
           ELSE rest[n - 1][UpdateCcittCrc16(crc, bytes[Len(bytes) - n + 1])]]
  IN rest[Len(bytes)][crc16]

ComputeCcittCrc16(bytes) == CrcOver(65535, bytes)

AreaBlock(a) == IF a = 0 THEN 8 ELSE 36

\* Types 2 and 3: four blocks from the one given, counted from the header, and up
\* to the last of those that pad type 3.
OverBlock(img, a, start, b, crc16) ==
  IF IsAccessControlBlock(b) THEN crc16
  ELSE CrcOver(crc16, IF b < start + 4 THEN img[AreaBlock(a) + b] ELSE Zeroes(16))

OverBlocks(img, a, start, last) ==
  LET rest[n \in 0..(last - start + 1)] ==
        [crc \in Short |->
           IF n = 0 THEN crc ELSE rest[n - 1][OverBlock(img, a, start, last - n + 1, crc)]]
  IN rest[last - start + 1][65535]

ComputeChecksum(img, type, a) ==
  CASE type = 0 -> ComputeCcittCrc16(img[0] \o SubSeq(img[1], 1, 14))
    [] type = 1 -> ComputeCcittCrc16(SubSeq(img[AreaBlock(a)], 1, 14) \o <<5, 0>>)
    [] type = 2 -> OverBlocks(img, a, 1, 4)
    [] type = 3 -> OverBlocks(img, a, 5, 27)

\* Where the checksum is: a block, and its first byte there, counted from 1.
ChecksumBlock(type, a) == IF type = 0 THEN 1 ELSE AreaBlock(a)
ChecksumByte(type)     == IF type = 0 THEN 15 ELSE 17 - 2 * type

StoredChecksum(img, type, a) ==
  LET block == img[ChecksumBlock(type, a)]
  IN block[ChecksumByte(type)] + 256 * block[ChecksumByte(type) + 1]

WithChecksum(img, type, a, sum) ==
  [img EXCEPT ![ChecksumBlock(type, a)] =
     [@ EXCEPT ![ChecksumByte(type)] = sum % 256, ![ChecksumByte(type) + 1] = sum \div 256]]

\* The sequence number, an unsigned char, moves before the checksum of type 1.
BumpSequence(img, a) == [img EXCEPT ![AreaBlock(a)][10] = (@ + 1) % 256]

Prepared(img, type, a) == IF type = 1 THEN BumpSequence(img, a) ELSE img

-----------------------------------------------------------------------------
VARIABLES
  image,    \* the buffer
  plain,    \* history: the image, when last it was neither encrypted nor decrypted
  layers,   \* how often it was encrypted, less how often it was decrypted
  upgraded, \* was computeChecksum called?
  pass,     \* the loop that is running
  next,     \* its index
  aesKey,   \* local of EncryptTagBlock and DecryptTagBlock, <<>> for none
  rk,       \* local of EncryptAES128ECB and DecryptAES128ECB, likewise
  matches   \* OK, of ValidateAllChecksums

vars == <<image, plain, layers, upgraded, pass, next, aesKey, rk, matches>>

Init ==
  /\ image \in Images
  /\ plain = image
  /\ layers = 0
  /\ upgraded = FALSE
  /\ pass = "none"
  /\ next = 0
  /\ aesKey = <<>>
  /\ rk = <<>>
  /\ matches = TRUE

Start(loop, from) ==
  /\ pass = "none"
  /\ pass' = loop
  /\ next' = from

Finish(loop, at) ==
  /\ pass = loop
  /\ next = at
  /\ pass' = "none"
  /\ next' = 0

\* SkylanderIO::EncryptBuffer and DecryptBuffer.  The model's bound: no image is
\* encrypted, or decrypted, more than once over what it was.
EncryptBuffer ==
  /\ layers < 1
  /\ Start("encrypt", 8)
  /\ UNCHANGED <<image, plain, layers, upgraded, aesKey, rk, matches>>

DecryptBuffer ==
  /\ layers > -1
  /\ Start("decrypt", 8)
  /\ UNCHANGED <<image, plain, layers, upgraded, aesKey, rk, matches>>

\* Slip: the loop that encrypts goes on while blockIndex <= 0x40.
LoopingPastEnd ==
  \/ pass = "encrypt" /\ next <= 64
  \/ pass = "decrypt" /\ next < 64

Looping == pass \in {"encrypt", "decrypt"} /\ next < 64

\* EncryptTagBlock and DecryptTagBlock leave the block alone.
SkipBlock ==
  /\ Looping
  /\ ~ShouldEncryptBlock(next)
  /\ next' = next + 1
  /\ UNCHANGED <<image, plain, layers, upgraded, pass, aesKey, rk, matches>>

ComputeEncryptionKey ==
  /\ Looping
  /\ ShouldEncryptBlock(next)
  /\ aesKey = <<>>
  /\ aesKey' = KeyOf(image, next)
  /\ UNCHANGED <<image, plain, layers, upgraded, pass, next, rk, matches>>

\* EncryptAES128ECB and DecryptAES128ECB.
SetupKey ==
  /\ aesKey # <<>>
  /\ rk = <<>>
  /\ rk' = IF pass = "encrypt" THEN rijndaelSetupEncrypt(aesKey)
                               ELSE rijndaelSetupDecrypt(aesKey)
  /\ UNCHANGED <<image, plain, layers, upgraded, pass, next, aesKey, matches>>

CipherBlock ==
  /\ rk # <<>>
  /\ image' = [image EXCEPT ![next] =
                 IF pass = "encrypt" THEN rijndaelEncrypt(rk, image[next])
                                     ELSE rijndaelDecrypt(rk, image[next])]
  /\ aesKey' = <<>>
  /\ rk' = <<>>
  /\ next' = next + 1
  /\ UNCHANGED <<plain, layers, upgraded, pass, matches>>

BufferDone ==
  /\ \/ Finish("encrypt", 64) /\ layers' = layers + 1
     \/ Finish("decrypt", 64) /\ layers' = layers - 1
  /\ UNCHANGED <<image, plain, upgraded, aesKey, rk, matches>>

\* Skylander::validateChecksum and computeChecksum: ValidateAllChecksums without and
\* with overwrite.  The model's bound: one computeChecksum.
BeginValidate ==
  /\ layers = 0
  /\ Start("validate", 0)
  /\ matches' = TRUE
  /\ UNCHANGED <<image, plain, layers, upgraded, aesKey, rk>>

BeginOverwrite ==
  /\ layers = 0
  /\ ~upgraded
  /\ Start("overwrite", 0)
  /\ matches' = TRUE
  /\ upgraded' = TRUE
  /\ UNCHANGED <<image, plain, layers, aesKey, rk>>

\* The order of the two loops: both areas, and the types from 3 down.
DataArea == next \div 4

\* Slip: from type 0 up.
TypeUp == next % 4

Type == 3 - (next % 4)

ValidateChecksum ==
  /\ pass = "validate"
  /\ next < 8
  /\ matches' = (matches /\ StoredChecksum(image, Type, DataArea)
                              = ComputeChecksum(image, Type, DataArea))
  /\ next' = next + 1
  /\ UNCHANGED <<image, plain, layers, upgraded, pass, aesKey, rk>>

OverwriteChecksum ==
  /\ pass = "overwrite"
  /\ next < 8
  /\ LET img == Prepared(image, Type, DataArea)
         sum == ComputeChecksum(img, Type, DataArea)
     IN /\ image' = WithChecksum(img, Type, DataArea, sum)
        /\ matches' = (matches /\ StoredChecksum(img, Type, DataArea) = sum)
  /\ plain' = image'
  /\ next' = next + 1
  /\ UNCHANGED <<layers, upgraded, pass, aesKey, rk>>

ChecksumsDone ==
  /\ Finish("validate", 8) \/ Finish("overwrite", 8)
  /\ UNCHANGED <<image, plain, layers, upgraded, aesKey, rk, matches>>

Next ==
  \/ EncryptBuffer \/ DecryptBuffer
  \/ SkipBlock \/ ComputeEncryptionKey \/ SetupKey \/ CipherBlock \/ BufferDone
  \/ BeginValidate \/ BeginOverwrite
  \/ ValidateChecksum \/ OverwriteChecksum \/ ChecksumsDone

Spec == Init /\ [][Next]_vars

-----------------------------------------------------------------------------
(* Properties.                                                              *)

\* A buffer of 64 blocks of 16 bytes, keys of 16 bytes and 11 round keys; a key is
\* only ever computed for a block of the buffer that Crypt encrypts.
TypeOK ==
  /\ IsImage(image)
  /\ layers \in -1..1
  /\ pass \in {"none", "encrypt", "decrypt", "validate", "overwrite"}
  /\ next \in 0..64
  /\ aesKey # <<>> => Bytes16(aesKey) /\ next < 64 /\ ShouldEncryptBlock(next)
  /\ rk # <<>> => aesKey # <<>> /\ DOMAIN rk = 1..11
  /\ {upgraded, matches} \subseteq BOOLEAN

\* The key of a block is the MD5 digest of the 0x56 bytes that crypt.cpp:10 names,
\* as other programs compute it: otherwise the game cannot read the block.
KeyIsMD5 ==
  \A known \in KnownKeys :
    aesKey # <<>> /\ next = known.index /\ image[0] \o image[1] = known.header
      => aesKey = known.key

\* A pass of encryption turns each block into what AES makes of it, and leaves the
\* others alone: the tables, turned this way and that, compute the standard's cipher.
CipherIsAES ==
  [][image' # image /\ pass = "encrypt" =>
       image' = [image EXCEPT ![next] = AES(aesKey, image[next])]]_vars

\* Encryption and decryption undo each other, in either order: an image comes back
\* byte for byte.
RoundTrip == pass = "none" /\ layers = 0 => image = plain

\* What checksum.cpp says of the types: the first 0x1E bytes of sector 0; the header,
\* with 05 00 for the checksum itself; four blocks of the area without access control
\* blocks; the next four, padded with 0x0E blocks of zeroes.
Documented(type, a) ==
  LET block(n) == image[AreaBlock(a) + n]
  IN CASE type = 0 -> CRC(image[0] \o SubSeq(image[1], 1, 14))
       [] type = 1 -> CRC(SubSeq(block(0), 1, 14) \o <<5, 0>>)
       [] type = 2 -> CRC(block(1) \o block(2) \o block(4))
       [] type = 3 -> CRC(block(5) \o block(6) \o block(8) \o Zeroes(14 * 16))

AllAsDocumented ==
  \A type \in 0..3, a \in {0, 1} : StoredChecksum(image, type, a) = Documented(type, a)

\* computeChecksum leaves every checksum what it should be, those that cover other
\* checksums and the new sequence number included; validateChecksum says yes to
\* exactly such an image.
ChecksumsAreRemainders ==
  /\ pass = "overwrite" /\ next = 8 => AllAsDocumented
  /\ pass = "validate" /\ next = 8 => (matches <=> AllAsDocumented)
=============================================================================
