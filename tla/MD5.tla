-------------------------------- MODULE MD5 --------------------------------
(***************************************************************************)
(* md5.cpp, in the portable form that no LITTLE_ENDIAN is defined for.     *)
(*                                                                         *)
(* A UINT4 is an unsigned long: LongBytes bytes, here with the least       *)
(* significant first.  Everything the code adds, shifts or complements, it *)
(* does on the whole unsigned long.                                        *)
(***************************************************************************)
EXTENDS Bytes

CONSTANT LongBytes     \* sizeof(unsigned long): 4 in 32-bit builds and on Windows, else 8

ASSUME LongAssumption == LongBytes \in {4, 8}

\* A UINT4 with the given four low bytes.
Uint(bytes) == Tuple(LongBytes, LAMBDA i : At(bytes, i))

\* Sum, modulo the size of an unsigned long.
Plus(x, y) ==
  LET sum[i \in 0..LongBytes] ==
        IF i = 0 THEN 0 ELSE x[i] + y[i] + sum[i - 1] \div 256
  IN Tuple(LongBytes, LAMBDA i : sum[i] % 256)

Powers == <<1, 2, 4, 8, 16, 32, 64, 128>>

ShiftLeft(x, n) ==
  LET q == n \div 8
      scale == Powers[(n % 8) + 1]
  IN Tuple(LongBytes, LAMBDA i : ((At(x, i - q) * scale) % 256)
                                  + (At(x, i - q - 1) * scale) \div 256)

ShiftRight(x, n) ==
  LET q == n \div 8
      scale == Powers[(n % 8) + 1]
  IN Tuple(LongBytes, LAMBDA i : At(x, i + q) \div scale
                                  + (At(x, i + q + 1) % scale) * (256 \div scale))

RotateLeft(x, n) == OrBytes(ShiftLeft(x, n), ShiftRight(x, 32 - n))

F(x, y, z) == OrBytes(AndBytes(x, y), AndBytes(NotBytes(x), z))
G(x, y, z) == OrBytes(AndBytes(x, z), AndBytes(y, NotBytes(z)))
H(x, y, z) == XorBytes(XorBytes(x, y), z)
I(x, y, z) == XorBytes(y, OrBytes(x, NotBytes(z)))

\* The shifts of the four rounds, S11 to S44.
Shifts == <<<<7, 12, 17, 22>>, <<5, 9, 14, 20>>, <<4, 11, 16, 23>>, <<6, 10, 15, 21>>>>

\* The word of the block that step i, counted from 0, adds.
Index(i) == CASE i \div 16 = 0 -> i % 16
              [] i \div 16 = 1 -> (5 * i + 1) % 16
              [] i \div 16 = 2 -> (3 * i + 5) % 16
              [] i \div 16 = 3 -> (7 * i) % 16

\* The constants of the steps, least significant byte first.
Sines == <<
  <<120,164,106,215>>, <<86,183,199,232>>, <<219,112,32,36>>, <<238,206,189,193>>,
  <<175,15,124,245>>, <<42,198,135,71>>, <<19,70,48,168>>, <<1,149,70,253>>,
  <<216,152,128,105>>, <<175,247,68,139>>, <<177,91,255,255>>, <<190,215,92,137>>,
  <<34,17,144,107>>, <<147,113,152,253>>, <<142,67,121,166>>, <<33,8,180,73>>,
  <<98,37,30,246>>, <<64,179,64,192>>, <<81,90,94,38>>, <<170,199,182,233>>,
  <<93,16,47,214>>, <<83,20,68,2>>, <<129,230,161,216>>, <<200,251,211,231>>,
  <<230,205,225,33>>, <<214,7,55,195>>, <<135,13,213,244>>, <<237,20,90,69>>,
  <<5,233,227,169>>, <<248,163,239,252>>, <<217,2,111,103>>, <<138,76,42,141>>,
  <<66,57,250,255>>, <<129,246,113,135>>, <<34,97,157,109>>, <<12,56,229,253>>,
  <<68,234,190,164>>, <<169,207,222,75>>, <<96,75,187,246>>, <<112,188,191,190>>,
  <<198,126,155,40>>, <<250,39,161,234>>, <<133,48,239,212>>, <<5,29,136,4>>,
  <<57,208,212,217>>, <<229,153,219,230>>, <<248,124,162,31>>, <<101,86,172,196>>,
  <<68,34,41,244>>, <<151,255,42,67>>, <<167,35,148,171>>, <<57,160,147,252>>,
  <<195,89,91,101>>, <<146,204,12,143>>, <<125,244,239,255>>, <<209,93,132,133>>,
  <<79,126,168,111>>, <<224,230,44,254>>, <<20,67,1,163>>, <<161,17,8,78>>,
  <<130,126,83,247>>, <<53,242,58,189>>, <<187,210,215,42>>, <<145,211,134,235>>>>

Mix(i, x, y, z) == CASE i \div 16 = 0 -> F(x, y, z)
                     [] i \div 16 = 1 -> G(x, y, z)
                     [] i \div 16 = 2 -> H(x, y, z)
                     [] i \div 16 = 3 -> I(x, y, z)

\* FF, GG, HH and II.  v holds the four arguments; the next call has them one
\* place on.
Step(i, v, x) ==
  LET sum == Plus(Plus(Plus(v[1], Mix(i, v[2], v[3], v[4])), x), Uint(Sines[i + 1]))
  IN <<v[4], Plus(RotateLeft(sum, Shifts[(i \div 16) + 1][(i % 4) + 1]), v[2]), v[2], v[3]>>

MD5Transform(state, block) ==
  LET x == [j \in 0..15 |-> Uint(SubSeq(block, 4 * j + 1, 4 * j + 4))]
      v[n \in 0..64] == IF n = 0 THEN state ELSE Step(n - 1, v[n - 1], x[Index(n - 1)])
      last == v[64]
  IN [k \in 1..4 |-> Plus(state[k], last[k])]

-----------------------------------------------------------------------------
(* The context: buffer holds the bytes not transformed yet, and count the   *)
(* length in bits.  Messages are shorter than 2^28 bytes.                   *)

MD5Open ==
  [state |-> <<Uint(<<1, 35, 69, 103>>), Uint(<<137, 171, 205, 239>>),
               Uint(<<254, 220, 186, 152>>), Uint(<<118, 84, 50, 16>>)>>,
   count |-> 0, buffer |-> <<>>]

MD5Digest(md5, input) ==
  LET all  == md5.buffer \o input
      full == Len(all) \div 64
      state[n \in 0..full] ==
        IF n = 0 THEN md5.state
        ELSE MD5Transform(state[n - 1], SubSeq(all, 64 * n - 63, 64 * n))
  IN [state |-> state[full],
      count |-> md5.count + 8 * Len(input),
      buffer |-> SubSeq(all, 64 * full + 1, Len(all))]

\* ENCODE of a count.
EncodeCount(n) == <<n % 256, (n \div 256) % 256, (n \div 65536) % 256, (n \div 16777216) % 256>>

\* ENCODE: the four low bytes.
Encode(x) == SubSeq(x, 1, 4)

\* PADDING, as far as it is used.
Padding(md5) ==
  LET index == Len(md5.buffer)
  IN <<128>> \o Zeroes((IF index < 56 THEN 56 - index ELSE 120 - index) - 1)

\* Slip: the length is taken after the padding.
MD5CloseLate(md5) ==
  LET padded == MD5Digest(md5, Padding(md5))
      s == MD5Digest(padded, EncodeCount(padded.count) \o Zeroes(4)).state
  IN Joined(<<Encode(s[1]), Encode(s[2]), Encode(s[3]), Encode(s[4])>>)

\* The length goes last, and is that from before the padding.
MD5Close(md5) ==
  LET s == MD5Digest(MD5Digest(md5, Padding(md5)),
                     EncodeCount(md5.count) \o Zeroes(4)).state
  IN Joined(<<Encode(s[1]), Encode(s[2]), Encode(s[3]), Encode(s[4])>>)
=============================================================================
