----------------------------- MODULE Rijndael -----------------------------
(***************************************************************************)
(* rijndael.cpp with keys of 128 bits, the only ones Crypt uses.           *)
(*                                                                         *)
(* A u32 is written as its four low bytes, the most significant first.     *)
(* Where an unsigned long is wider the others are zero: no word is ever    *)
(* shifted left after GETU32 has made it.                                  *)
(***************************************************************************)
EXTENDS Bytes

Word  == Byte \X Byte \X Byte \X Byte
State == Word \X Word \X Word \X Word

\* Te4 has each of these bytes four times.
SBox == <<
   99, 124, 119, 123, 242, 107, 111, 197,  48,   1, 103,  43, 254, 215, 171, 118,
  202, 130, 201, 125, 250,  89,  71, 240, 173, 212, 162, 175, 156, 164, 114, 192,
  183, 253, 147,  38,  54,  63, 247, 204,  52, 165, 229, 241, 113, 216,  49,  21,
    4, 199,  35, 195,  24, 150,   5, 154,   7,  18, 128, 226, 235,  39, 178, 117,
    9, 131,  44,  26,  27, 110,  90, 160,  82,  59, 214, 179,  41, 227,  47, 132,
   83, 209,   0, 237,  32, 252, 177,  91, 106, 203, 190,  57,  74,  76,  88, 207,
  208, 239, 170, 251,  67,  77,  51, 133,  69, 249,   2, 127,  80,  60, 159, 168,
   81, 163,  64, 143, 146, 157,  56, 245, 188, 182, 218,  33,  16, 255, 243, 210,
  205,  12,  19, 236,  95, 151,  68,  23, 196, 167, 126,  61, 100,  93,  25, 115,
   96, 129,  79, 220,  34,  42, 144, 136,  70, 238, 184,  20, 222,  94,  11, 219,
  224,  50,  58,  10,  73,   6,  36,  92, 194, 211, 172,  98, 145, 149, 228, 121,
  231, 200,  55, 109, 141, 213,  78, 169, 108,  86, 244, 234, 101, 122, 174,   8,
  186, 120,  37,  46,  28, 166, 180, 198, 232, 221, 116,  31,  75, 189, 139, 138,
  112,  62, 181, 102,  72,   3, 246,  14,  97,  53,  87, 185, 134, 193,  29, 158,
  225, 248, 152,  17, 105, 217, 142, 148, 155,  30, 135, 233, 206,  85,  40, 223,
  140, 161, 137,  13, 191, 230,  66, 104,  65, 153,  45,  15, 176,  84, 187,  22>>

\* Td4, likewise.
InverseSBox == <<
   82,   9, 106, 213,  48,  54, 165,  56, 191,  64, 163, 158, 129, 243, 215, 251,
  124, 227,  57, 130, 155,  47, 255, 135,  52, 142,  67,  68, 196, 222, 233, 203,
   84, 123, 148,  50, 166, 194,  35,  61, 238,  76, 149,  11,  66, 250, 195,  78,
    8,  46, 161, 102,  40, 217,  36, 178, 118,  91, 162,  73, 109, 139, 209,  37,
  114, 248, 246, 100, 134, 104, 152,  22, 212, 164,  92, 204,  93, 101, 182, 146,
  108, 112,  72,  80, 253, 237, 185, 218,  94,  21,  70,  87, 167, 141, 157, 132,
  144, 216, 171,   0, 140, 188, 211,  10, 247, 228,  88,   5, 184, 179,  69,   6,
  208,  44,  30, 143, 202,  63,  15,   2, 193, 175, 189,   3,   1,  19, 138, 107,
   58, 145,  17,  65,  79, 103, 220, 234, 151, 242, 207, 206, 240, 180, 230, 115,
  150, 172, 116,  34, 231, 173,  53, 133, 226, 249,  55, 232,  28, 117, 223, 110,
   71, 241,  26, 113,  29,  41, 197, 137, 111, 183,  98,  14, 170,  24, 190,  27,
  252,  86,  62,  75, 198, 210, 121,  32, 154, 219, 192, 254, 120, 205,  90, 244,
   31, 221, 168,  51, 136,   7, 199,  49, 177,  18,  16,  89,  39, 128, 236,  95,
   96,  81, 127, 169,  25, 181,  74,  13,  45, 229, 122, 159, 147, 201, 156, 239,
  160, 224,  59,  77, 174,  42, 245, 176, 200, 235, 187,  60, 131,  83, 153,  97,
   23,  43,   4, 126, 186, 119, 214,  38, 225, 105,  20,  99,  85,  33,  12, 125>>

S(x)        == SBox[x + 1]
InverseS(x) == InverseSBox[x + 1]

\* The tables are permutations of the bytes, each other's inverse.
ASSUME BoxesAssumption ==
  \A x \in Byte : /\ S(x) \in Byte /\ InverseS(S(x)) = x
                  /\ InverseS(x) \in Byte /\ S(InverseS(x)) = x

\* Multiplication by 02 in GF(2^8), and by the other coefficients.
Twice(x)  == IF x < 128 THEN 2 * x ELSE XorByte(2 * x - 256, 27)
Thrice(x) == XorByte(Twice(x), x)
Times8(x) == Twice(Twice(Twice(x)))
Times9(x) == XorByte(Times8(x), x)
TimesB(x) == XorByte(Times9(x), Twice(x))
TimesD(x) == XorByte(Times9(x), Twice(Twice(x)))
TimesE(x) == XorByte(XorByte(Times8(x), Twice(Twice(x))), Twice(x))

\* The tables Te0 and Td0, by the rule their entries follow.  Te1 to Te3 and Td1
\* to Td3 have the same words turned by one, two and three bytes.
Te0 == [x \in Byte |-> <<Twice(S(x)), S(x), S(x), Thrice(S(x))>>]
Td0 == [x \in Byte |-> LET y == InverseS(x)
                       IN  <<TimesE(y), Times9(y), TimesD(y), TimesB(y)>>]

Turned(w) == <<w[4], w[1], w[2], w[3]>>

Te1 == [x \in Byte |-> Turned(Te0[x])]
Te2 == [x \in Byte |-> Turned(Te1[x])]
Te3 == [x \in Byte |-> Turned(Te2[x])]
Td1 == [x \in Byte |-> Turned(Td0[x])]
Td2 == [x \in Byte |-> Turned(Td1[x])]
Td3 == [x \in Byte |-> Turned(Td2[x])]

rcon == <<1, 2, 4, 8, 16, 32, 64, 128, 27, 54>>     \* the top byte of each

-----------------------------------------------------------------------------
\* The four words of 16 bytes: GETU32.  Joined again: PUTU32.
GetU32(bytes, i) == <<bytes[i], bytes[i + 1], bytes[i + 2], bytes[i + 3]>>
Words(bytes) ==
  <<GetU32(bytes, 1), GetU32(bytes, 5), GetU32(bytes, 9), GetU32(bytes, 13)>>

XorWord(v, w) ==
  <<XorByte(v[1], w[1]), XorByte(v[2], w[2]), XorByte(v[3], w[3]), XorByte(v[4], w[4])>>

AddKey(s, k) ==
  <<XorWord(s[1], k[1]), XorWord(s[2], k[2]), XorWord(s[3], k[3]), XorWord(s[4], k[4])>>

\* The words of the next round key, from those of the last.
NextKey(k, i) ==
  LET t == <<XorByte(S(k[4][2]), rcon[i]), S(k[4][3]), S(k[4][4]), S(k[4][1])>>
      first  == XorWord(k[1], t)
      second == XorWord(k[2], first)
      third  == XorWord(k[3], second)
  IN <<first, second, third, XorWord(k[4], third)>>

\* The key schedule: 11 round keys.
rijndaelSetupEncrypt(key) ==
  LET k[i \in 0..10] == IF i = 0 THEN Words(key) ELSE NextKey(k[i - 1], i)
  IN Tuple(11, LAMBDA i : k[i - 1])

\* Four table lookups and three exclusive ors.
Lookup(t0, t1, t2, t3, w) ==
  XorWord(XorWord(t0[w[1]], t1[w[2]]), XorWord(t2[w[3]], t3[w[4]]))

MixedWord(w) == Lookup(Td0, Td1, Td2, Td3, <<S(w[1]), S(w[2]), S(w[3]), S(w[4])>>)

InverseMixed(k) == <<MixedWord(k[1]), MixedWord(k[2]), MixedWord(k[3]), MixedWord(k[4])>>

\* Slip: the first round key is transformed too.
SetupDecryptFromFirst(key) ==
  LET rk == rijndaelSetupEncrypt(key)
  IN Tuple(11, LAMBDA i : IF i = 11 THEN rk[1] ELSE InverseMixed(rk[12 - i]))

\* The round keys in reverse; all but the first and the last transformed.
rijndaelSetupDecrypt(key) ==
  LET rk == rijndaelSetupEncrypt(key)
  IN Tuple(11, LAMBDA i : IF i \in {1, 11} THEN rk[12 - i] ELSE InverseMixed(rk[12 - i]))

\* Word w of the state, and from the next ones a byte each, d words on.
Wrapped(w) == ((w - 1) % 4) + 1
Diagonal(s, w, d) ==
  <<s[w][1], s[Wrapped(w + d)][2], s[Wrapped(w + 2 * d)][3], s[Wrapped(w + 3 * d)][4]>>

Round(s, t0, t1, t2, t3, d, k) ==
  LET word(w) == Lookup(t0, t1, t2, t3, Diagonal(s, w, d))
  IN AddKey(<<word(1), word(2), word(3), word(4)>>, k)

\* A byte of Te4 or Td4 each.
Substituted(box, w) == <<box[w[1] + 1], box[w[2] + 1], box[w[3] + 1], box[w[4] + 1]>>

Shuffled(s, box, d) ==
  LET word(w) == Substituted(box, Diagonal(s, w, d))
  IN <<word(1), word(2), word(3), word(4)>>

\* The round without a mixture of columns.
LastRound(s, box, d, k) == AddKey(Shuffled(s, box, d), k)

\* Slip: the last round mixes columns like the others.
EncryptMixesLast(rk, plaintext) ==
  LET s[n \in 0..10] ==
        IF n = 0 THEN AddKey(Words(plaintext), rk[1])
                 ELSE Round(s[n - 1], Te0, Te1, Te2, Te3, 1, rk[n + 1])
  IN Joined(s[10])

rijndaelEncrypt(rk, plaintext) ==
  LET s[n \in 0..9] ==
        IF n = 0 THEN AddKey(Words(plaintext), rk[1])
                 ELSE Round(s[n - 1], Te0, Te1, Te2, Te3, 1, rk[n + 1])
  IN Joined(LastRound(s[9], SBox, 1, rk[11]))

rijndaelDecrypt(rk, ciphertext) ==
  LET s[n \in 0..9] ==
        IF n = 0 THEN AddKey(Words(ciphertext), rk[1])
                 ELSE Round(s[n - 1], Td0, Td1, Td2, Td3, 3, rk[n + 1])
  IN Joined(LastRound(s[9], InverseSBox, 3, rk[11]))
=============================================================================
