------------------------- MODULE Encryption_proofs -------------------------
(***************************************************************************)
(* What holds of the bytes of an image, for every image: class Crypt turns *)
(* each block into what AES makes of it and gets the image back, byte for  *)
(* byte, and everything it and class Checksum write is a byte.             *)
(*                                                                         *)
(* The proofs go up from the digits of a byte: exclusive or, the           *)
(* multiplications in GF(2^8), the mixture of a column and its inverse,    *)
(* rounds, and the cipher.  The tables S, Te0 to Te3 and Td0 to Td3 enter  *)
(* through BoxesAssumption and TablesAssumption, which speak of 256 bytes  *)
(* and are evaluated.                                                      *)
(***************************************************************************)
EXTENDS ImageBytes, SequenceTheorems, WellFoundedInduction, TLAPS

-----------------------------------------------------------------------------
(* Bytes and their digits.                                                  *)

\* A byte, by its bounds.
LEMMA ByteBounds ==
  \A x : x \in Byte <=> x \in Int /\ 0 <= x /\ x <= 255
  BY DEF Byte

\* The powers of two that a byte has digits of.
Places == {1, 2, 4, 8, 16, 32, 64, 128}

\* Is digit n of x set?
Set(x, n) == Bit(x, n) = 1

\* A digit is 0 or 1.
LEMMA BitIsDigit ==
  ASSUME NEW x \in Nat, NEW n \in Places
  PROVE  Bit(x, n) \in {0, 1}
  BY DEF Bit, Places

\* A byte is the sum of its digits.
LEMMA DigitsOfByte ==
  ASSUME NEW x \in Byte
  PROVE  x = FromBits(LAMBDA n : Bit(x, n))
  BY SMTT(30) DEF Bit, FromBits, Byte

\* A sum of digits is a byte with these digits.
LEMMA DigitsOfSum ==
  ASSUME NEW b1 \in {0, 1}, NEW b2 \in {0, 1}, NEW b3 \in {0, 1}, NEW b4 \in {0, 1},
         NEW b5 \in {0, 1}, NEW b6 \in {0, 1}, NEW b7 \in {0, 1}, NEW b8 \in {0, 1}
  PROVE  LET x == b1 + 2 * b2 + 4 * b3 + 8 * b4 + 16 * b5 + 32 * b6 + 64 * b7 + 128 * b8
         IN  /\ x \in Byte
             /\ Bit(x, 1) = b1 /\ Bit(x, 2) = b2 /\ Bit(x, 4) = b3 /\ Bit(x, 8) = b4
             /\ Bit(x, 16) = b5 /\ Bit(x, 32) = b6 /\ Bit(x, 64) = b7 /\ Bit(x, 128) = b8
  BY SMTT(30) DEF Bit, Byte

\* Two bytes with the same digits are the same.
LEMMA SameDigits ==
  ASSUME NEW x \in Byte, NEW y \in Byte, \A n \in Places : Set(x, n) <=> Set(y, n)
  PROVE  x = y
  <1>1. \A n \in Places : Bit(x, n) = Bit(y, n)
    BY BitIsDigit DEF Set, Byte
  <1> QED BY <1>1, DigitsOfByte DEF Places, FromBits

\* Exclusive or, digit by digit.
LEMMA XorDigits ==
  ASSUME NEW x \in Byte, NEW y \in Byte
  PROVE  /\ XorByte(x, y) \in Byte
         /\ \A n \in Places : Set(XorByte(x, y), n) <=> (Set(x, n) <=> ~Set(y, n))
  <1> DEFINE d(n) == (Bit(x, n) + Bit(y, n)) % 2
  <1>1. XorByte(x, y) = FromBits(d)
    BY DEF XorByte, XorTable
  <1>2. \A n \in Places : d(n) \in {0, 1} /\ (d(n) = 1 <=> (Set(x, n) <=> ~Set(y, n)))
    BY BitIsDigit DEF Set, Byte
  <1> HIDE DEF d
  <1>3. /\ XorByte(x, y) \in Byte
        /\ \A n \in Places : Bit(XorByte(x, y), n) = d(n)
    BY <1>1, <1>2, DigitsOfSum DEF FromBits, Places
  <1> QED BY <1>2, <1>3 DEF Set

\* Exclusive or commutes, associates and undoes itself.
LEMMA XorLaws ==
  /\ \A x, y \in Byte : XorByte(x, y) \in Byte /\ XorByte(x, y) = XorByte(y, x)
  /\ \A x, y \in Byte : XorByte(XorByte(x, y), y) = x
  /\ \A x, y, z \in Byte : XorByte(XorByte(x, y), z) = XorByte(x, XorByte(y, z))
  <1>1. \A x, y \in Byte : XorByte(x, y) \in Byte
    BY XorDigits
  <1>2. ASSUME NEW x \in Byte, NEW y \in Byte
        PROVE  XorByte(x, y) = XorByte(y, x) /\ XorByte(XorByte(x, y), y) = x
    BY <1>1, XorDigits, SameDigits
  <1>3. ASSUME NEW x \in Byte, NEW y \in Byte, NEW z \in Byte
        PROVE  XorByte(XorByte(x, y), z) = XorByte(x, XorByte(y, z))
    BY <1>1, XorDigits, SameDigits
  <1> QED BY <1>1, <1>2, <1>3

\* Multiplication by 02 moves the digits one up; the highest comes back in four places.
LEMMA TwiceDigits ==
  ASSUME NEW x \in Byte
  PROVE  /\ Twice(x) \in Byte
         /\ Set(Twice(x), 1)   <=> Set(x, 128)
         /\ Set(Twice(x), 2)   <=> (Set(x, 1) <=> ~Set(x, 128))
         /\ Set(Twice(x), 4)   <=> Set(x, 2)
         /\ Set(Twice(x), 8)   <=> (Set(x, 4) <=> ~Set(x, 128))
         /\ Set(Twice(x), 16)  <=> (Set(x, 8) <=> ~Set(x, 128))
         /\ Set(Twice(x), 32)  <=> Set(x, 16)
         /\ Set(Twice(x), 64)  <=> Set(x, 32)
         /\ Set(Twice(x), 128) <=> Set(x, 64)
  <1>1. CASE x < 128
    BY <1>1 DEF Twice, Set, Bit, Byte
  <1>2. CASE x >= 128
    <2> DEFINE y == 2 * x - 256
    <2>1. y \in Byte /\ 27 \in Byte /\ Twice(x) = XorByte(y, 27)
      BY <1>2 DEF Byte, Twice
    <2>2. /\ Set(27, 1) /\ Set(27, 2) /\ ~Set(27, 4) /\ Set(27, 8) /\ Set(27, 16)
          /\ ~Set(27, 32) /\ ~Set(27, 64) /\ ~Set(27, 128)
      BY DEF Set, Bit
    <2>3. /\ ~Set(y, 1) /\ (Set(y, 2) <=> Set(x, 1)) /\ (Set(y, 4) <=> Set(x, 2))
          /\ (Set(y, 8) <=> Set(x, 4)) /\ (Set(y, 16) <=> Set(x, 8))
          /\ (Set(y, 32) <=> Set(x, 16)) /\ (Set(y, 64) <=> Set(x, 32))
          /\ (Set(y, 128) <=> Set(x, 64)) /\ Set(x, 128)
      BY <1>2, SMTT(30) DEF Set, Bit, Byte
    <2> HIDE DEF y
    <2> QED BY <2>1, <2>2, <2>3, XorDigits DEF Places
  <1> QED BY <1>1, <1>2 DEF Byte

\* It distributes over exclusive or.
LEMMA TwiceAdds ==
  ASSUME NEW x \in Byte, NEW y \in Byte
  PROVE  Twice(XorByte(x, y)) = XorByte(Twice(x), Twice(y))
  <1> DEFINE z == XorByte(x, y)
  <1>1. z \in Byte /\ Twice(z) \in Byte /\ Twice(x) \in Byte /\ Twice(y) \in Byte
        /\ XorByte(Twice(x), Twice(y)) \in Byte
    BY XorDigits, TwiceDigits
  <1>2. \A n \in Places : Set(z, n) <=> (Set(x, n) <=> ~Set(y, n))
    BY XorDigits
  <1> HIDE DEF z
  <1>3. \A n \in Places : Set(XorByte(Twice(x), Twice(y)), n) <=> (Set(Twice(x), n) <=> ~Set(Twice(y), n))
    BY <1>1, XorDigits
  <1>4. \A n \in Places : Set(Twice(z), n) <=> Set(XorByte(Twice(x), Twice(y)), n)
    BY <1>1, <1>2, <1>3, TwiceDigits DEF Places
  <1> QED BY <1>1, <1>4, SameDigits DEF z

\* The exclusive or of four.
Xor4(a, b, c, d) == XorByte(XorByte(a, b), XorByte(c, d))

MixedRow(a, b, c, d)   == Xor4(Twice(a), Thrice(b), c, d)
UnmixedRow(a, b, c, d) == Xor4(TimesE(a), TimesB(b), TimesD(c), Times9(d))

\* One byte of a column after encryption mixed it.
LEMMA MixedRowDigits ==
  ASSUME NEW a \in Byte, NEW b \in Byte, NEW c \in Byte, NEW d \in Byte
  PROVE  /\ MixedRow(a, b, c, d) \in Byte
         /\ Twice(MixedRow(a, b, c, d)) = MixedRow(Twice(a), Twice(b), Twice(c), Twice(d))
         /\ \A n \in Places :
              Set(MixedRow(a, b, c, d), n) <=>
                ((Set(Twice(a), n) <=> ~(Set(Twice(b), n) <=> ~Set(b, n))) <=> ~(Set(c, n) <=> ~Set(d, n)))
  <1>1. /\ Twice(a) \in Byte /\ Twice(b) \in Byte /\ Twice(c) \in Byte /\ Twice(d) \in Byte
        /\ Thrice(b) \in Byte /\ Twice(Thrice(b)) = Thrice(Twice(b)) /\ Thrice(Twice(b)) \in Byte
        /\ Twice(Twice(a)) \in Byte
    <2>1. \A x \in Byte : Twice(x) \in Byte
      BY TwiceDigits
    <2>2. \A x \in Byte : Thrice(x) \in Byte
      BY <2>1, XorDigits DEF Thrice
    <2>3. Twice(Thrice(b)) = Thrice(Twice(b))
      BY <2>1, TwiceAdds DEF Thrice
    <2> QED BY <2>1, <2>2, <2>3
  <1>2. XorByte(Twice(a), Thrice(b)) \in Byte /\ XorByte(c, d) \in Byte
    BY <1>1, XorDigits
  <1>3. MixedRow(a, b, c, d) \in Byte
    BY <1>2, XorDigits DEF MixedRow, Xor4
  <1>4. Twice(MixedRow(a, b, c, d)) = MixedRow(Twice(a), Twice(b), Twice(c), Twice(d))
    BY <1>1, <1>2, TwiceAdds DEF MixedRow, Xor4
  <1>5. ASSUME NEW n \in Places
        PROVE  Set(MixedRow(a, b, c, d), n) <=>
                ((Set(Twice(a), n) <=> ~(Set(Twice(b), n) <=> ~Set(b, n))) <=> ~(Set(c, n) <=> ~Set(d, n)))
    <2>1. Set(Thrice(b), n) <=> (Set(Twice(b), n) <=> ~Set(b, n))
      BY <1>1, XorDigits DEF Thrice
    <2>2. Set(XorByte(Twice(a), Thrice(b)), n) <=> (Set(Twice(a), n) <=> ~Set(Thrice(b), n))
      BY <1>1, XorDigits
    <2>3. Set(XorByte(c, d), n) <=> (Set(c, n) <=> ~Set(d, n))
      BY XorDigits
    <2> QED BY <1>2, <2>1, <2>2, <2>3, XorDigits DEF MixedRow, Xor4
  <1> QED BY <1>3, <1>4, <1>5

\* The four multiples, digit by digit.
LEMMA TimesDigits ==
  ASSUME NEW x \in Byte
  PROVE  LET x2 == Twice(x)
             x4 == Twice(x2)
             x8 == Twice(x4)
         IN  /\ x2 \in Byte /\ x4 \in Byte /\ x8 \in Byte
             /\ Times9(x) \in Byte /\ TimesB(x) \in Byte /\ TimesD(x) \in Byte /\ TimesE(x) \in Byte
             /\ \A n \in Places :
                  /\ Set(Times9(x), n) <=> (Set(x8, n) <=> ~Set(x, n))
                  /\ Set(TimesB(x), n) <=> ((Set(x8, n) <=> ~Set(x, n)) <=> ~Set(x2, n))
                  /\ Set(TimesD(x), n) <=> ((Set(x8, n) <=> ~Set(x, n)) <=> ~Set(x4, n))
                  /\ Set(TimesE(x), n) <=> ((Set(x8, n) <=> ~Set(x4, n)) <=> ~Set(x2, n))
  BY TwiceDigits, XorDigits DEF Times8, Times9, TimesB, TimesD, TimesE

\* Each commutes with Twice, as all multiplications do.
LEMMA TimesTwice ==
  ASSUME NEW x \in Byte
  PROVE  /\ Twice(Times9(x)) = Times9(Twice(x))
         /\ Twice(TimesB(x)) = TimesB(Twice(x))
         /\ Twice(TimesD(x)) = TimesD(Twice(x))
         /\ Twice(TimesE(x)) = TimesE(Twice(x))
  <1> DEFINE x2 == Twice(x)  x4 == Twice(x2)  x8 == Twice(x4)  x16 == Twice(x8)
  <1>1. x2 \in Byte /\ x4 \in Byte /\ x8 \in Byte /\ x16 \in Byte
    BY TwiceDigits
  <1>2. /\ Times9(x) = XorByte(x8, x) /\ TimesB(x) = XorByte(XorByte(x8, x), x2)
        /\ TimesD(x) = XorByte(XorByte(x8, x), x4) /\ TimesE(x) = XorByte(XorByte(x8, x4), x2)
        /\ Times9(x2) = XorByte(x16, x2) /\ TimesB(x2) = XorByte(XorByte(x16, x2), x4)
        /\ TimesD(x2) = XorByte(XorByte(x16, x2), x8) /\ TimesE(x2) = XorByte(XorByte(x16, x8), x4)
    BY DEF Times8, Times9, TimesB, TimesD, TimesE
  <1>3. XorByte(x8, x) \in Byte /\ XorByte(x8, x4) \in Byte
    BY <1>1, XorDigits
  <1>4. /\ Twice(XorByte(x8, x)) = XorByte(x16, x2) /\ Twice(XorByte(x8, x4)) = XorByte(x16, x8)
    BY <1>1, TwiceAdds
  <1>5. Twice(x) = x2 /\ Twice(x2) = x4 /\ Twice(x4) = x8
    OBVIOUS
  <1> HIDE DEF x2, x4, x8, x16
  <1> QED BY <1>1, <1>2, <1>3, <1>4, <1>5, TwiceAdds

\* One byte of a column after decryption mixed it.
LEMMA UnmixedRowDigits ==
  ASSUME NEW a \in Byte, NEW b \in Byte, NEW c \in Byte, NEW d \in Byte
  PROVE  /\ UnmixedRow(a, b, c, d) \in Byte
         /\ Twice(UnmixedRow(a, b, c, d)) = UnmixedRow(Twice(a), Twice(b), Twice(c), Twice(d))
         /\ \A n \in Places :
              Set(UnmixedRow(a, b, c, d), n) <=>
                ((Set(TimesE(a), n) <=> ~Set(TimesB(b), n)) <=> ~(Set(TimesD(c), n) <=> ~Set(Times9(d), n)))
  <1>1. TimesE(a) \in Byte /\ TimesB(b) \in Byte /\ TimesD(c) \in Byte /\ Times9(d) \in Byte
    BY TimesDigits
  <1>2. XorByte(TimesE(a), TimesB(b)) \in Byte /\ XorByte(TimesD(c), Times9(d)) \in Byte
    BY <1>1, XorDigits
  <1>3. UnmixedRow(a, b, c, d) \in Byte
    BY <1>2, XorDigits DEF UnmixedRow, Xor4
  <1>4. Twice(UnmixedRow(a, b, c, d)) = UnmixedRow(Twice(a), Twice(b), Twice(c), Twice(d))
    BY <1>1, <1>2, TwiceAdds, TimesTwice DEF UnmixedRow, Xor4
  <1>5. ASSUME NEW n \in Places
        PROVE  Set(UnmixedRow(a, b, c, d), n) <=>
                ((Set(TimesE(a), n) <=> ~Set(TimesB(b), n)) <=> ~(Set(TimesD(c), n) <=> ~Set(Times9(d), n)))
    BY <1>1, <1>2, XorDigits DEF UnmixedRow, Xor4
  <1> QED BY <1>3, <1>4, <1>5

\* The coefficients of decryption undo those of encryption.
LEMMA UnmixesMixed ==
  ASSUME NEW a \in Byte, NEW b \in Byte, NEW c \in Byte, NEW d \in Byte
  PROVE  UnmixedRow(MixedRow(a, b, c, d), MixedRow(b, c, d, a),
                    MixedRow(c, d, a, b), MixedRow(d, a, b, c)) = a
  <1> DEFINE k == MixedRow(a, b, c, d)
             l == MixedRow(b, c, d, a)
             m == MixedRow(c, d, a, b)
             o == MixedRow(d, a, b, c)
             a2 == Twice(a)  a4 == Twice(a2)  a8 == Twice(a4)  a16 == Twice(a8)
             b2 == Twice(b)  b4 == Twice(b2)  b8 == Twice(b4)  b16 == Twice(b8)
             c2 == Twice(c)  c4 == Twice(c2)  c8 == Twice(c4)  c16 == Twice(c8)
             d2 == Twice(d)  d4 == Twice(d2)  d8 == Twice(d4)  d16 == Twice(d8)
  <1>1. /\ a2 \in Byte /\ a4 \in Byte /\ a8 \in Byte
        /\ b2 \in Byte /\ b4 \in Byte /\ b8 \in Byte
        /\ c2 \in Byte /\ c4 \in Byte /\ c8 \in Byte
        /\ d2 \in Byte /\ d4 \in Byte /\ d8 \in Byte
    BY TwiceDigits
  <1>2. k \in Byte /\ l \in Byte /\ m \in Byte /\ o \in Byte
    BY MixedRowDigits
  <1>3. /\ Twice(k) = MixedRow(a2, b2, c2, d2) /\ Twice(l) = MixedRow(b2, c2, d2, a2)
        /\ Twice(m) = MixedRow(c2, d2, a2, b2) /\ Twice(o) = MixedRow(d2, a2, b2, c2)
    BY MixedRowDigits
  <1>4. /\ Twice(Twice(k)) = MixedRow(a4, b4, c4, d4) /\ Twice(Twice(l)) = MixedRow(b4, c4, d4, a4)
        /\ Twice(Twice(m)) = MixedRow(c4, d4, a4, b4) /\ Twice(Twice(o)) = MixedRow(d4, a4, b4, c4)
    BY <1>1, <1>3, MixedRowDigits
  <1>5. /\ Twice(Twice(Twice(k))) = MixedRow(a8, b8, c8, d8)
        /\ Twice(Twice(Twice(l))) = MixedRow(b8, c8, d8, a8)
        /\ Twice(Twice(Twice(m))) = MixedRow(c8, d8, a8, b8)
        /\ Twice(Twice(Twice(o))) = MixedRow(d8, a8, b8, c8)
    BY <1>1, <1>4, MixedRowDigits
  <1> HIDE DEF k, l, m, o
  <1>6. UnmixedRow(k, l, m, o) \in Byte
    BY <1>2, UnmixedRowDigits
  <1>7. ASSUME NEW n \in Places
        PROVE  Set(UnmixedRow(k, l, m, o), n) <=> Set(a, n)
    <2>1. Set(UnmixedRow(k, l, m, o), n) <=>
            ((Set(TimesE(k), n) <=> ~Set(TimesB(l), n)) <=> ~(Set(TimesD(m), n) <=> ~Set(Times9(o), n)))
      BY <1>2, UnmixedRowDigits
    <2>2. Set(TimesE(k), n) <=> ((Set(MixedRow(a8, b8, c8, d8), n) <=> ~Set(MixedRow(a4, b4, c4, d4), n))
                                <=> ~Set(MixedRow(a2, b2, c2, d2), n))
      BY <1>2, <1>3, <1>4, <1>5, TimesDigits
    <2>3. Set(TimesB(l), n) <=> ((Set(MixedRow(b8, c8, d8, a8), n) <=> ~Set(l, n))
                                <=> ~Set(MixedRow(b2, c2, d2, a2), n))
      BY <1>2, <1>3, <1>4, <1>5, TimesDigits
    <2>4. Set(TimesD(m), n) <=> ((Set(MixedRow(c8, d8, a8, b8), n) <=> ~Set(m, n))
                                <=> ~Set(MixedRow(c4, d4, a4, b4), n))
      BY <1>2, <1>3, <1>4, <1>5, TimesDigits
    <2>5. Set(Times9(o), n) <=> (Set(MixedRow(d8, a8, b8, c8), n) <=> ~Set(o, n))
      BY <1>2, <1>3, <1>4, <1>5, TimesDigits
    <2>6. /\ Set(l, n) <=> ((Set(b2, n) <=> ~(Set(c2, n) <=> ~Set(c, n))) <=> ~(Set(d, n) <=> ~Set(a, n)))
          /\ Set(m, n) <=> ((Set(c2, n) <=> ~(Set(d2, n) <=> ~Set(d, n))) <=> ~(Set(a, n) <=> ~Set(b, n)))
          /\ Set(o, n) <=> ((Set(d2, n) <=> ~(Set(a2, n) <=> ~Set(a, n))) <=> ~(Set(b, n) <=> ~Set(c, n)))
      BY MixedRowDigits DEF l, m, o
    <2>7. /\ Set(MixedRow(a2, b2, c2, d2), n) <=>
               ((Set(a4, n) <=> ~(Set(b4, n) <=> ~Set(b2, n))) <=> ~(Set(c2, n) <=> ~Set(d2, n)))
          /\ Set(MixedRow(b2, c2, d2, a2), n) <=>
               ((Set(b4, n) <=> ~(Set(c4, n) <=> ~Set(c2, n))) <=> ~(Set(d2, n) <=> ~Set(a2, n)))
      BY <1>1, MixedRowDigits
    <2>8. /\ Set(MixedRow(a4, b4, c4, d4), n) <=>
               ((Set(a8, n) <=> ~(Set(b8, n) <=> ~Set(b4, n))) <=> ~(Set(c4, n) <=> ~Set(d4, n)))
          /\ Set(MixedRow(c4, d4, a4, b4), n) <=>
               ((Set(c8, n) <=> ~(Set(d8, n) <=> ~Set(d4, n))) <=> ~(Set(a4, n) <=> ~Set(b4, n)))
      BY <1>1, MixedRowDigits
    <2>9. /\ Set(MixedRow(a8, b8, c8, d8), n) <=>
               ((Set(a16, n) <=> ~(Set(b16, n) <=> ~Set(b8, n))) <=> ~(Set(c8, n) <=> ~Set(d8, n)))
          /\ Set(MixedRow(b8, c8, d8, a8), n) <=>
               ((Set(b16, n) <=> ~(Set(c16, n) <=> ~Set(c8, n))) <=> ~(Set(d8, n) <=> ~Set(a8, n)))
          /\ Set(MixedRow(c8, d8, a8, b8), n) <=>
               ((Set(c16, n) <=> ~(Set(d16, n) <=> ~Set(d8, n))) <=> ~(Set(a8, n) <=> ~Set(b8, n)))
          /\ Set(MixedRow(d8, a8, b8, c8), n) <=>
               ((Set(d16, n) <=> ~(Set(a16, n) <=> ~Set(a8, n))) <=> ~(Set(b8, n) <=> ~Set(c8, n)))
      BY <1>1, MixedRowDigits
    <2> QED BY <2>1, <2>2, <2>3, <2>4, <2>5, <2>6, <2>7, <2>8, <2>9
  <1> QED BY <1>6, <1>7, SameDigits DEF k, l, m, o

\* And the other way round.
LEMMA MixesUnmixed ==
  ASSUME NEW a \in Byte, NEW b \in Byte, NEW c \in Byte, NEW d \in Byte
  PROVE  MixedRow(UnmixedRow(a, b, c, d), UnmixedRow(b, c, d, a),
                  UnmixedRow(c, d, a, b), UnmixedRow(d, a, b, c)) = a
  <1> DEFINE k == UnmixedRow(a, b, c, d)
             l == UnmixedRow(b, c, d, a)
             m == UnmixedRow(c, d, a, b)
             o == UnmixedRow(d, a, b, c)
             a2 == Twice(a)
             b2 == Twice(b)
             c2 == Twice(c)
             d2 == Twice(d)
  <1>1. a2 \in Byte /\ b2 \in Byte /\ c2 \in Byte /\ d2 \in Byte
    BY TwiceDigits
  <1>2. k \in Byte /\ l \in Byte /\ m \in Byte /\ o \in Byte
    BY UnmixedRowDigits
  <1>3. /\ Twice(k) = UnmixedRow(a2, b2, c2, d2) /\ Twice(l) = UnmixedRow(b2, c2, d2, a2)
    BY UnmixedRowDigits
  <1> HIDE DEF k, l, m, o
  <1>4. MixedRow(k, l, m, o) \in Byte
    BY <1>2, MixedRowDigits
  <1>5. ASSUME NEW n \in Places
        PROVE  Set(MixedRow(k, l, m, o), n) <=> Set(a, n)
    <2>1. Set(MixedRow(k, l, m, o), n) <=>
            ((Set(UnmixedRow(a2, b2, c2, d2), n) <=> ~(Set(UnmixedRow(b2, c2, d2, a2), n) <=> ~Set(l, n)))
             <=> ~(Set(m, n) <=> ~Set(o, n)))
      BY <1>2, <1>3, MixedRowDigits
    <2>2. /\ Set(l, n) <=> ((Set(TimesE(b), n) <=> ~Set(TimesB(c), n)) <=> ~(Set(TimesD(d), n) <=> ~Set(Times9(a), n)))
          /\ Set(m, n) <=> ((Set(TimesE(c), n) <=> ~Set(TimesB(d), n)) <=> ~(Set(TimesD(a), n) <=> ~Set(Times9(b), n)))
          /\ Set(o, n) <=> ((Set(TimesE(d), n) <=> ~Set(TimesB(a), n)) <=> ~(Set(TimesD(b), n) <=> ~Set(Times9(c), n)))
      BY UnmixedRowDigits DEF l, m, o
    <2>3. /\ Set(UnmixedRow(a2, b2, c2, d2), n) <=>
               ((Set(TimesE(a2), n) <=> ~Set(TimesB(b2), n)) <=> ~(Set(TimesD(c2), n) <=> ~Set(Times9(d2), n)))
          /\ Set(UnmixedRow(b2, c2, d2, a2), n) <=>
               ((Set(TimesE(b2), n) <=> ~Set(TimesB(c2), n)) <=> ~(Set(TimesD(d2), n) <=> ~Set(Times9(a2), n)))
      BY <1>1, UnmixedRowDigits
    <2> QED BY <1>1, <2>1, <2>2, <2>3, TimesDigits
  <1> QED BY <1>4, <1>5, SameDigits DEF k, l, m, o

\* The four may be turned.
LEMMA Xor4Turns ==
  ASSUME NEW a \in Byte, NEW b \in Byte, NEW c \in Byte, NEW d \in Byte
  PROVE  Xor4(a, b, c, d) \in Byte /\ Xor4(a, b, c, d) = Xor4(b, c, d, a)
  <1>1. /\ XorByte(a, b) \in Byte /\ XorByte(c, d) \in Byte /\ XorByte(b, c) \in Byte
        /\ XorByte(d, a) \in Byte
        /\ XorByte(XorByte(a, b), XorByte(c, d)) \in Byte
        /\ XorByte(XorByte(b, c), XorByte(d, a)) \in Byte
    BY XorDigits
  <1>2. \A n \in Places : /\ Set(Xor4(a, b, c, d), n) <=> ((Set(a, n) <=> ~Set(b, n)) <=> ~(Set(c, n) <=> ~Set(d, n)))
                          /\ Set(Xor4(b, c, d, a), n) <=> ((Set(b, n) <=> ~Set(c, n)) <=> ~(Set(d, n) <=> ~Set(a, n)))
    BY <1>1, XorDigits DEF Xor4
  <1> QED BY <1>1, <1>2, SameDigits DEF Xor4

\* The two in the middle may change places.
LEMMA XorMiddle ==
  ASSUME NEW a \in Byte, NEW b \in Byte, NEW c \in Byte, NEW d \in Byte
  PROVE  XorByte(XorByte(a, b), XorByte(c, d)) = XorByte(XorByte(a, c), XorByte(b, d))
  <1>1. /\ XorByte(a, b) \in Byte /\ XorByte(c, d) \in Byte
        /\ XorByte(a, c) \in Byte /\ XorByte(b, d) \in Byte
        /\ XorByte(XorByte(a, b), XorByte(c, d)) \in Byte
        /\ XorByte(XorByte(a, c), XorByte(b, d)) \in Byte
    BY XorDigits
  <1>2. \A n \in Places :
          Set(XorByte(XorByte(a, b), XorByte(c, d)), n) <=> Set(XorByte(XorByte(a, c), XorByte(b, d)), n)
    BY <1>1, XorDigits
  <1> QED BY <1>1, <1>2, SameDigits

\* The four multiplications of decryption distribute over exclusive or.
LEMMA TimesAdds ==
  ASSUME NEW x \in Byte, NEW y \in Byte
  PROVE  /\ Times9(XorByte(x, y)) = XorByte(Times9(x), Times9(y))
         /\ TimesB(XorByte(x, y)) = XorByte(TimesB(x), TimesB(y))
         /\ TimesD(XorByte(x, y)) = XorByte(TimesD(x), TimesD(y))
         /\ TimesE(XorByte(x, y)) = XorByte(TimesE(x), TimesE(y))
  <1> DEFINE z == XorByte(x, y)
             x2 == Twice(x)  x4 == Twice(x2)  x8 == Twice(x4)
             y2 == Twice(y)  y4 == Twice(y2)  y8 == Twice(y4)
             z2 == Twice(z)  z4 == Twice(z2)  z8 == Twice(z4)
  <1>1. /\ x2 \in Byte /\ x4 \in Byte /\ x8 \in Byte /\ y2 \in Byte /\ y4 \in Byte /\ y8 \in Byte
        /\ z \in Byte /\ z2 \in Byte /\ z4 \in Byte /\ z8 \in Byte
    BY TwiceDigits, XorDigits
  <1>2. z2 = XorByte(x2, y2) /\ z4 = XorByte(x4, y4) /\ z8 = XorByte(x8, y8)
    BY <1>1, TwiceAdds
  <1>3. /\ Times9(x) \in Byte /\ Times9(y) \in Byte /\ Times9(z) \in Byte
        /\ TimesB(x) \in Byte /\ TimesB(y) \in Byte /\ TimesB(z) \in Byte
        /\ TimesD(x) \in Byte /\ TimesD(y) \in Byte /\ TimesD(z) \in Byte
        /\ TimesE(x) \in Byte /\ TimesE(y) \in Byte /\ TimesE(z) \in Byte
    BY <1>1, TimesDigits
  <1>4. ASSUME NEW n \in Places
        PROVE  /\ Set(z, n)  <=> (Set(x, n) <=> ~Set(y, n))
               /\ Set(z2, n) <=> (Set(x2, n) <=> ~Set(y2, n))
               /\ Set(z4, n) <=> (Set(x4, n) <=> ~Set(y4, n))
               /\ Set(z8, n) <=> (Set(x8, n) <=> ~Set(y8, n))
    BY <1>1, <1>2, XorDigits
  <1>5. ASSUME NEW n \in Places
        PROVE  /\ Set(Times9(z), n) <=> Set(XorByte(Times9(x), Times9(y)), n)
               /\ Set(TimesB(z), n) <=> Set(XorByte(TimesB(x), TimesB(y)), n)
               /\ Set(TimesD(z), n) <=> Set(XorByte(TimesD(x), TimesD(y)), n)
               /\ Set(TimesE(z), n) <=> Set(XorByte(TimesE(x), TimesE(y)), n)
    <2>1. /\ Set(XorByte(Times9(x), Times9(y)), n) <=> (Set(Times9(x), n) <=> ~Set(Times9(y), n))
          /\ Set(XorByte(TimesB(x), TimesB(y)), n) <=> (Set(TimesB(x), n) <=> ~Set(TimesB(y), n))
          /\ Set(XorByte(TimesD(x), TimesD(y)), n) <=> (Set(TimesD(x), n) <=> ~Set(TimesD(y), n))
          /\ Set(XorByte(TimesE(x), TimesE(y)), n) <=> (Set(TimesE(x), n) <=> ~Set(TimesE(y), n))
      BY <1>3, XorDigits
    <2> HIDE DEF z
    <2> QED BY <1>1, <1>4, <2>1, TimesDigits
  <1>6. /\ XorByte(Times9(x), Times9(y)) \in Byte /\ XorByte(TimesB(x), TimesB(y)) \in Byte
        /\ XorByte(TimesD(x), TimesD(y)) \in Byte /\ XorByte(TimesE(x), TimesE(y)) \in Byte
    BY <1>3, XorDigits
  <1> QED BY <1>3, <1>5, <1>6, SameDigits

-----------------------------------------------------------------------------
(* Columns.                                                                 *)

MixedColumn(w) ==
  <<MixedRow(w[1], w[2], w[3], w[4]), MixedRow(w[2], w[3], w[4], w[1]),
    MixedRow(w[3], w[4], w[1], w[2]), MixedRow(w[4], w[1], w[2], w[3])>>

UnmixedColumn(w) ==
  <<UnmixedRow(w[1], w[2], w[3], w[4]), UnmixedRow(w[2], w[3], w[4], w[1]),
    UnmixedRow(w[3], w[4], w[1], w[2]), UnmixedRow(w[4], w[1], w[2], w[3])>>

\* Exclusive or of two words.
LEMMA XorWordLaws ==
  ASSUME NEW v \in Word, NEW w \in Word
  PROVE  XorWord(v, w) \in Word /\ XorWord(XorWord(v, w), w) = v
  BY XorLaws DEF XorWord, Word

\* The two mixtures of a column undo each other.
LEMMA ColumnsInvert ==
  ASSUME NEW w \in Word
  PROVE  /\ MixedColumn(w) \in Word /\ UnmixedColumn(MixedColumn(w)) = w
         /\ UnmixedColumn(w) \in Word /\ MixedColumn(UnmixedColumn(w)) = w
  <1>1. /\ MixedColumn(w) \in Word /\ UnmixedColumn(w) \in Word
    BY MixedRowDigits, UnmixedRowDigits DEF MixedColumn, UnmixedColumn, Word
  <1>2. UnmixedColumn(MixedColumn(w)) = w
    BY UnmixesMixed DEF MixedColumn, UnmixedColumn, Word
  <1>3. MixedColumn(UnmixedColumn(w)) = w
    BY MixesUnmixed DEF MixedColumn, UnmixedColumn, Word
  <1> QED BY <1>1, <1>2, <1>3

\* The mixture of decryption distributes over exclusive or, for a byte of the column,
LEMMA UnmixedRowAdds ==
  ASSUME NEW x \in Word, NEW y \in Word
  PROVE  UnmixedRow(XorByte(x[1], y[1]), XorByte(x[2], y[2]), XorByte(x[3], y[3]), XorByte(x[4], y[4])) =
           XorByte(UnmixedRow(x[1], x[2], x[3], x[4]), UnmixedRow(y[1], y[2], y[3], y[4]))
  <1> DEFINE p == TimesE(x[1])  q == TimesB(x[2])  r == TimesD(x[3])  s == Times9(x[4])
             t == TimesE(y[1])  u == TimesB(y[2])  v == TimesD(y[3])  w == Times9(y[4])
  <1>1. x[1] \in Byte /\ x[2] \in Byte /\ x[3] \in Byte /\ x[4] \in Byte
        /\ y[1] \in Byte /\ y[2] \in Byte /\ y[3] \in Byte /\ y[4] \in Byte
    BY DEF Word
  <1>2. /\ p \in Byte /\ q \in Byte /\ r \in Byte /\ s \in Byte
        /\ t \in Byte /\ u \in Byte /\ v \in Byte /\ w \in Byte
    BY <1>1, TimesDigits
  <1>3. UnmixedRow(XorByte(x[1], y[1]), XorByte(x[2], y[2]), XorByte(x[3], y[3]), XorByte(x[4], y[4])) =
          XorByte(XorByte(XorByte(p, t), XorByte(q, u)), XorByte(XorByte(r, v), XorByte(s, w)))
    BY <1>1, TimesAdds DEF UnmixedRow, Xor4
  <1> HIDE DEF p, q, r, s, t, u, v, w
  <1>4. /\ XorByte(XorByte(p, t), XorByte(q, u)) = XorByte(XorByte(p, q), XorByte(t, u))
        /\ XorByte(XorByte(r, v), XorByte(s, w)) = XorByte(XorByte(r, s), XorByte(v, w))
        /\ XorByte(p, q) \in Byte /\ XorByte(t, u) \in Byte /\ XorByte(r, s) \in Byte
        /\ XorByte(v, w) \in Byte
    BY <1>2, XorMiddle, XorDigits
  <1>5. XorByte(XorByte(XorByte(p, q), XorByte(t, u)), XorByte(XorByte(r, s), XorByte(v, w))) =
          XorByte(XorByte(XorByte(p, q), XorByte(r, s)), XorByte(XorByte(t, u), XorByte(v, w)))
    BY <1>4, XorMiddle
  <1> QED BY <1>3, <1>4, <1>5 DEF UnmixedRow, Xor4, p, q, r, s, t, u, v, w

\* and for the column: round keys may be mixed instead of the state.
LEMMA UnmixedColumnAdds ==
  ASSUME NEW v \in Word, NEW w \in Word
  PROVE  UnmixedColumn(XorWord(v, w)) = XorWord(UnmixedColumn(v), UnmixedColumn(w))
  <1> DEFINE v2 == <<v[2], v[3], v[4], v[1]>>
             v3 == <<v[3], v[4], v[1], v[2]>>
             v4 == <<v[4], v[1], v[2], v[3]>>
             w2 == <<w[2], w[3], w[4], w[1]>>
             w3 == <<w[3], w[4], w[1], w[2]>>
             w4 == <<w[4], w[1], w[2], w[3]>>
             Adds(x, y) ==
               UnmixedRow(XorByte(x[1], y[1]), XorByte(x[2], y[2]), XorByte(x[3], y[3]), XorByte(x[4], y[4])) =
                 XorByte(UnmixedRow(x[1], x[2], x[3], x[4]), UnmixedRow(y[1], y[2], y[3], y[4]))
  <1>1. v2 \in Word /\ v3 \in Word /\ v4 \in Word /\ w2 \in Word /\ w3 \in Word /\ w4 \in Word
    BY DEF Word
  <1>2. Adds(v, w)
    BY UnmixedRowAdds
  <1>3. Adds(v2, w2)
    <2> HIDE DEF v2, w2
    <2> QED BY <1>1, UnmixedRowAdds
  <1>4. Adds(v3, w3)
    <2> HIDE DEF v3, w3
    <2> QED BY <1>1, UnmixedRowAdds
  <1>5. Adds(v4, w4)
    <2> HIDE DEF v4, w4
    <2> QED BY <1>1, UnmixedRowAdds
  <1> QED BY <1>2, <1>3, <1>4, <1>5 DEF UnmixedColumn, XorWord

SubstitutedWord(w)   == <<S(w[1]), S(w[2]), S(w[3]), S(w[4])>>
UnsubstitutedWord(w) == <<InverseS(w[1]), InverseS(w[2]), InverseS(w[3]), InverseS(w[4])>>

\* A lookup in Te0 to Te3 substitutes and mixes; one in Td0 to Td3 likewise.
LEMMA TablesMix ==
  ASSUME NEW w \in Word
  PROVE  /\ Lookup(Te0, Te1, Te2, Te3, w) = MixedColumn(SubstitutedWord(w))
         /\ Lookup(Td0, Td1, Td2, Td3, w) = UnmixedColumn(UnsubstitutedWord(w))
  <1>1. ASSUME NEW x \in Byte
        PROVE  /\ Te0[x] = <<Twice(S(x)), S(x), S(x), Thrice(S(x))>>
               /\ Te1[x] = <<Thrice(S(x)), Twice(S(x)), S(x), S(x)>>
               /\ Te2[x] = <<S(x), Thrice(S(x)), Twice(S(x)), S(x)>>
               /\ Te3[x] = <<S(x), S(x), Thrice(S(x)), Twice(S(x))>>
    <2>1. Te0[x] = <<Twice(S(x)), S(x), S(x), Thrice(S(x))>>
      BY DEF Te0
    <2>2. Te1[x] = <<Thrice(S(x)), Twice(S(x)), S(x), S(x)>>
      BY <2>1 DEF Te1, Turned
    <2>3. Te2[x] = <<S(x), Thrice(S(x)), Twice(S(x)), S(x)>>
      BY <2>2 DEF Te2, Turned
    <2>4. Te3[x] = <<S(x), S(x), Thrice(S(x)), Twice(S(x))>>
      BY <2>3, SMTT(30) DEF Te3, Turned
    <2> QED BY <2>1, <2>2, <2>3, <2>4
  <1>2. ASSUME NEW x \in Byte
        PROVE  LET y == InverseS(x)
               IN  /\ Td0[x] = <<TimesE(y), Times9(y), TimesD(y), TimesB(y)>>
                   /\ Td1[x] = <<TimesB(y), TimesE(y), Times9(y), TimesD(y)>>
                   /\ Td2[x] = <<TimesD(y), TimesB(y), TimesE(y), Times9(y)>>
                   /\ Td3[x] = <<Times9(y), TimesD(y), TimesB(y), TimesE(y)>>
    BY DEF Td0, Td1, Td2, Td3, Turned
  <1>3. PICK a \in Byte, b \in Byte, c \in Byte, d \in Byte : w = <<a, b, c, d>>
    BY DEF Word
  <1>4. Lookup(Te0, Te1, Te2, Te3, w) =
          <<Xor4(Twice(S(a)), Thrice(S(b)), S(c), S(d)), Xor4(S(a), Twice(S(b)), Thrice(S(c)), S(d)),
            Xor4(S(a), S(b), Twice(S(c)), Thrice(S(d))), Xor4(Thrice(S(a)), S(b), S(c), Twice(S(d)))>>
    BY <1>1, <1>3 DEF Lookup, XorWord, Xor4
  <1>5. LET p == InverseS(a)
            q == InverseS(b)
            r == InverseS(c)
            s == InverseS(d)
        IN Lookup(Td0, Td1, Td2, Td3, w) =
             <<Xor4(TimesE(p), TimesB(q), TimesD(r), Times9(s)),
               Xor4(Times9(p), TimesE(q), TimesB(r), TimesD(s)),
               Xor4(TimesD(p), Times9(q), TimesE(r), TimesB(s)),
               Xor4(TimesB(p), TimesD(q), Times9(r), TimesE(s))>>
    <2> DEFINE p == InverseS(a)
               q == InverseS(b)
               r == InverseS(c)
               s == InverseS(d)
    <2>1. /\ Td0[a] = <<TimesE(p), Times9(p), TimesD(p), TimesB(p)>>
          /\ Td1[b] = <<TimesB(q), TimesE(q), Times9(q), TimesD(q)>>
          /\ Td2[c] = <<TimesD(r), TimesB(r), TimesE(r), Times9(r)>>
          /\ Td3[d] = <<Times9(s), TimesD(s), TimesB(s), TimesE(s)>>
      BY <1>2
    <2>2. Lookup(Td0, Td1, Td2, Td3, w) = XorWord(XorWord(Td0[a], Td1[b]), XorWord(Td2[c], Td3[d]))
      BY <1>3 DEF Lookup
    <2> HIDE DEF p, q, r, s
    <2>3. Lookup(Td0, Td1, Td2, Td3, w) =
             <<Xor4(TimesE(p), TimesB(q), TimesD(r), Times9(s)),
               Xor4(Times9(p), TimesE(q), TimesB(r), TimesD(s)),
               Xor4(TimesD(p), Times9(q), TimesE(r), TimesB(s)),
               Xor4(TimesB(p), TimesD(q), Times9(r), TimesE(s))>>
      BY <2>1, <2>2 DEF XorWord, Xor4
    <2> QED BY <2>3 DEF p, q, r, s
  <1>6. \A x \in Byte : /\ S(x) \in Byte /\ Twice(S(x)) \in Byte /\ Thrice(S(x)) \in Byte
                        /\ InverseS(x) \in Byte
    <2>1. \A x \in Byte : S(x) \in Byte /\ InverseS(x) \in Byte
      BY BoxesAssumption
    <2>2. \A x \in Byte : Twice(x) \in Byte
      BY TwiceDigits
    <2>3. \A x \in Byte : Thrice(x) \in Byte
      BY <2>2, XorDigits DEF Thrice
    <2> QED BY <2>1, <2>2, <2>3
  <1>7. Lookup(Te0, Te1, Te2, Te3, w) = MixedColumn(SubstitutedWord(w))
    <2>1. /\ Twice(S(a)) \in Byte /\ Thrice(S(a)) \in Byte /\ S(a) \in Byte
          /\ Twice(S(b)) \in Byte /\ Thrice(S(b)) \in Byte /\ S(b) \in Byte
          /\ Twice(S(c)) \in Byte /\ Thrice(S(c)) \in Byte /\ S(c) \in Byte
          /\ Twice(S(d)) \in Byte /\ Thrice(S(d)) \in Byte /\ S(d) \in Byte
      BY <1>6
    <2>2. Xor4(S(a), Twice(S(b)), Thrice(S(c)), S(d)) = MixedRow(S(b), S(c), S(d), S(a))
      BY <2>1, Xor4Turns DEF MixedRow
    <2>3. Xor4(S(a), S(b), Twice(S(c)), Thrice(S(d))) = MixedRow(S(c), S(d), S(a), S(b))
      BY <2>1, Xor4Turns DEF MixedRow
    <2>4. Xor4(Thrice(S(a)), S(b), S(c), Twice(S(d))) = MixedRow(S(d), S(a), S(b), S(c))
      BY <2>1, Xor4Turns DEF MixedRow
    <2>5. MixedColumn(SubstitutedWord(w)) =
            <<MixedRow(S(a), S(b), S(c), S(d)), MixedRow(S(b), S(c), S(d), S(a)),
              MixedRow(S(c), S(d), S(a), S(b)), MixedRow(S(d), S(a), S(b), S(c))>>
      BY <1>3 DEF MixedColumn, SubstitutedWord
    <2> QED BY <1>4, <2>2, <2>3, <2>4, <2>5 DEF MixedRow
  <1>8. Lookup(Td0, Td1, Td2, Td3, w) = UnmixedColumn(UnsubstitutedWord(w))
    <2> DEFINE p == InverseS(a)
               q == InverseS(b)
               r == InverseS(c)
               s == InverseS(d)
    <2>1. /\ TimesE(p) \in Byte /\ TimesB(p) \in Byte /\ TimesD(p) \in Byte /\ Times9(p) \in Byte
          /\ TimesE(q) \in Byte /\ TimesB(q) \in Byte /\ TimesD(q) \in Byte /\ Times9(q) \in Byte
          /\ TimesE(r) \in Byte /\ TimesB(r) \in Byte /\ TimesD(r) \in Byte /\ Times9(r) \in Byte
          /\ TimesE(s) \in Byte /\ TimesB(s) \in Byte /\ TimesD(s) \in Byte /\ Times9(s) \in Byte
      BY <1>6, TimesDigits
    <2>2. Xor4(Times9(p), TimesE(q), TimesB(r), TimesD(s)) = UnmixedRow(q, r, s, p)
      BY <2>1, Xor4Turns DEF UnmixedRow
    <2>3. Xor4(TimesD(p), Times9(q), TimesE(r), TimesB(s)) = UnmixedRow(r, s, p, q)
      BY <2>1, Xor4Turns DEF UnmixedRow
    <2>4. Xor4(TimesB(p), TimesD(q), Times9(r), TimesE(s)) = UnmixedRow(s, p, q, r)
      BY <2>1, Xor4Turns DEF UnmixedRow
    <2>5. UnmixedColumn(UnsubstitutedWord(w)) =
            <<UnmixedRow(p, q, r, s), UnmixedRow(q, r, s, p), UnmixedRow(r, s, p, q),
              UnmixedRow(s, p, q, r)>>
      BY <1>3 DEF UnmixedColumn, UnsubstitutedWord
    <2> QED BY <1>5, <2>2, <2>3, <2>4, <2>5 DEF UnmixedRow
  <1> QED BY <1>7, <1>8

-----------------------------------------------------------------------------
(* Rounds.                                                                  *)

MixedColumns(s)   == <<MixedColumn(s[1]), MixedColumn(s[2]), MixedColumn(s[3]), MixedColumn(s[4])>>
UnmixedColumns(s) ==
  <<UnmixedColumn(s[1]), UnmixedColumn(s[2]), UnmixedColumn(s[3]), UnmixedColumn(s[4])>>

\* The two mixtures of a state undo each other.
LEMMA MixesInvert ==
  ASSUME NEW s \in State
  PROVE  /\ MixedColumns(s) \in State /\ UnmixedColumns(MixedColumns(s)) = s
         /\ UnmixedColumns(s) \in State /\ MixedColumns(UnmixedColumns(s)) = s
  BY ColumnsInvert DEF MixedColumns, UnmixedColumns, State

\* The second addition of a round key takes the first one back.
LEMMA AddKeyLaws ==
  ASSUME NEW s \in State, NEW k \in State
  PROVE  /\ AddKey(s, k) \in State /\ AddKey(AddKey(s, k), k) = s
         /\ UnmixedColumns(AddKey(s, k)) = AddKey(UnmixedColumns(s), UnmixedColumns(k))
  BY XorWordLaws, UnmixedColumnAdds DEF AddKey, UnmixedColumns, State

\* The bytes that a word of the next state is made of.
LEMMA Diagonals ==
  ASSUME NEW s
  PROVE  /\ Diagonal(s, 1, 1) = <<s[1][1], s[2][2], s[3][3], s[4][4]>>
         /\ Diagonal(s, 2, 1) = <<s[2][1], s[3][2], s[4][3], s[1][4]>>
         /\ Diagonal(s, 3, 1) = <<s[3][1], s[4][2], s[1][3], s[2][4]>>
         /\ Diagonal(s, 4, 1) = <<s[4][1], s[1][2], s[2][3], s[3][4]>>
         /\ Diagonal(s, 1, 3) = <<s[1][1], s[4][2], s[3][3], s[2][4]>>
         /\ Diagonal(s, 2, 3) = <<s[2][1], s[1][2], s[4][3], s[3][4]>>
         /\ Diagonal(s, 3, 3) = <<s[3][1], s[2][2], s[1][3], s[4][4]>>
         /\ Diagonal(s, 4, 3) = <<s[4][1], s[3][2], s[2][3], s[1][4]>>
  BY DEF Diagonal, Wrapped

\* They are a word.
LEMMA DiagonalsAreWords ==
  ASSUME NEW s \in State, NEW w \in 1..4, NEW d \in {1, 3}
  PROVE  Diagonal(s, w, d) \in Word
  BY DEF Diagonal, Wrapped, State, Word

\* Te4 and Td4 substitute the bytes of a word.
LEMMA SubstitutionsInvert ==
  ASSUME NEW w \in Word
  PROVE  /\ Substituted(SBox, w) = SubstitutedWord(w) /\ SubstitutedWord(w) \in Word
         /\ Substituted(InverseSBox, w) = UnsubstitutedWord(w) /\ UnsubstitutedWord(w) \in Word
  BY BoxesAssumption DEF Substituted, SubstitutedWord, UnsubstitutedWord, S, InverseS, Word

\* The shifts and substitutions of a round undo each other.
LEMMA ShufflesInvert ==
  ASSUME NEW s \in State
  PROVE  /\ Shuffled(s, SBox, 1) \in State
         /\ Shuffled(Shuffled(s, SBox, 1), InverseSBox, 3) = s
         /\ Shuffled(s, InverseSBox, 3) \in State
         /\ Shuffled(Shuffled(s, InverseSBox, 3), SBox, 1) = s
  <1>1. ASSUME NEW t \in State
        PROVE  /\ Shuffled(t, SBox, 1) =
                    <<<<S(t[1][1]), S(t[2][2]), S(t[3][3]), S(t[4][4])>>,
                      <<S(t[2][1]), S(t[3][2]), S(t[4][3]), S(t[1][4])>>,
                      <<S(t[3][1]), S(t[4][2]), S(t[1][3]), S(t[2][4])>>,
                      <<S(t[4][1]), S(t[1][2]), S(t[2][3]), S(t[3][4])>>>>
               /\ Shuffled(t, InverseSBox, 3) =
                    <<<<InverseS(t[1][1]), InverseS(t[4][2]), InverseS(t[3][3]), InverseS(t[2][4])>>,
                      <<InverseS(t[2][1]), InverseS(t[1][2]), InverseS(t[4][3]), InverseS(t[3][4])>>,
                      <<InverseS(t[3][1]), InverseS(t[2][2]), InverseS(t[1][3]), InverseS(t[4][4])>>,
                      <<InverseS(t[4][1]), InverseS(t[3][2]), InverseS(t[2][3]), InverseS(t[1][4])>>>>
    <2>1. Shuffled(t, SBox, 1) =
            <<Substituted(SBox, <<t[1][1], t[2][2], t[3][3], t[4][4]>>),
              Substituted(SBox, <<t[2][1], t[3][2], t[4][3], t[1][4]>>),
              Substituted(SBox, <<t[3][1], t[4][2], t[1][3], t[2][4]>>),
              Substituted(SBox, <<t[4][1], t[1][2], t[2][3], t[3][4]>>)>>
      BY Diagonals DEF Shuffled
    <2>2. Shuffled(t, InverseSBox, 3) =
            <<Substituted(InverseSBox, <<t[1][1], t[4][2], t[3][3], t[2][4]>>),
              Substituted(InverseSBox, <<t[2][1], t[1][2], t[4][3], t[3][4]>>),
              Substituted(InverseSBox, <<t[3][1], t[2][2], t[1][3], t[4][4]>>),
              Substituted(InverseSBox, <<t[4][1], t[3][2], t[2][3], t[1][4]>>)>>
      BY Diagonals DEF Shuffled
    <2>3. Shuffled(t, SBox, 1) =
            <<<<S(t[1][1]), S(t[2][2]), S(t[3][3]), S(t[4][4])>>,
              <<S(t[2][1]), S(t[3][2]), S(t[4][3]), S(t[1][4])>>,
              <<S(t[3][1]), S(t[4][2]), S(t[1][3]), S(t[2][4])>>,
              <<S(t[4][1]), S(t[1][2]), S(t[2][3]), S(t[3][4])>>>>
      BY <2>1 DEF Substituted, S
    <2>4. Shuffled(t, InverseSBox, 3) =
            <<<<InverseS(t[1][1]), InverseS(t[4][2]), InverseS(t[3][3]), InverseS(t[2][4])>>,
              <<InverseS(t[2][1]), InverseS(t[1][2]), InverseS(t[4][3]), InverseS(t[3][4])>>,
              <<InverseS(t[3][1]), InverseS(t[2][2]), InverseS(t[1][3]), InverseS(t[4][4])>>,
              <<InverseS(t[4][1]), InverseS(t[3][2]), InverseS(t[2][3]), InverseS(t[1][4])>>>>
      BY <2>2 DEF Substituted, InverseS
    <2> QED BY <2>3, <2>4
  <1>2. Shuffled(s, SBox, 1) \in State /\ Shuffled(s, InverseSBox, 3) \in State
    BY <1>1, BoxesAssumption DEF State, Word
  <1>3. s = <<s[1], s[2], s[3], s[4]>> /\ \A i \in 1..4 : s[i] = <<s[i][1], s[i][2], s[i][3], s[i][4]>>
    BY DEF State, Word
  <1>4. \A i, j \in 1..4 : s[i][j] \in Byte
    BY DEF State, Word
  <1>5. Shuffled(Shuffled(s, SBox, 1), InverseSBox, 3) = s
    <2> DEFINE t == Shuffled(s, SBox, 1)
    <2>1. /\ t[1] = <<S(s[1][1]), S(s[2][2]), S(s[3][3]), S(s[4][4])>>
          /\ t[2] = <<S(s[2][1]), S(s[3][2]), S(s[4][3]), S(s[1][4])>>
          /\ t[3] = <<S(s[3][1]), S(s[4][2]), S(s[1][3]), S(s[2][4])>>
          /\ t[4] = <<S(s[4][1]), S(s[1][2]), S(s[2][3]), S(s[3][4])>>
      BY <1>1
    <2>2. t \in State
      BY <1>2
    <2> HIDE DEF t
    <2>3. Shuffled(t, InverseSBox, 3) =
            <<<<InverseS(t[1][1]), InverseS(t[4][2]), InverseS(t[3][3]), InverseS(t[2][4])>>,
              <<InverseS(t[2][1]), InverseS(t[1][2]), InverseS(t[4][3]), InverseS(t[3][4])>>,
              <<InverseS(t[3][1]), InverseS(t[2][2]), InverseS(t[1][3]), InverseS(t[4][4])>>,
              <<InverseS(t[4][1]), InverseS(t[3][2]), InverseS(t[2][3]), InverseS(t[1][4])>>>>
      BY <1>1, <2>2
    <2>4. Shuffled(t, InverseSBox, 3) =
            <<<<s[1][1], s[1][2], s[1][3], s[1][4]>>, <<s[2][1], s[2][2], s[2][3], s[2][4]>>,
              <<s[3][1], s[3][2], s[3][3], s[3][4]>>, <<s[4][1], s[4][2], s[4][3], s[4][4]>>>>
      BY <1>4, <2>1, <2>3, BoxesAssumption
    <2> QED BY <1>3, <2>4 DEF t
  <1>6. Shuffled(Shuffled(s, InverseSBox, 3), SBox, 1) = s
    <2> DEFINE t == Shuffled(s, InverseSBox, 3)
    <2>1. /\ t[1] = <<InverseS(s[1][1]), InverseS(s[4][2]), InverseS(s[3][3]), InverseS(s[2][4])>>
          /\ t[2] = <<InverseS(s[2][1]), InverseS(s[1][2]), InverseS(s[4][3]), InverseS(s[3][4])>>
          /\ t[3] = <<InverseS(s[3][1]), InverseS(s[2][2]), InverseS(s[1][3]), InverseS(s[4][4])>>
          /\ t[4] = <<InverseS(s[4][1]), InverseS(s[3][2]), InverseS(s[2][3]), InverseS(s[1][4])>>
      BY <1>1
    <2>2. t \in State
      BY <1>2
    <2> HIDE DEF t
    <2>3. Shuffled(t, SBox, 1) =
            <<<<S(t[1][1]), S(t[2][2]), S(t[3][3]), S(t[4][4])>>,
              <<S(t[2][1]), S(t[3][2]), S(t[4][3]), S(t[1][4])>>,
              <<S(t[3][1]), S(t[4][2]), S(t[1][3]), S(t[2][4])>>,
              <<S(t[4][1]), S(t[1][2]), S(t[2][3]), S(t[3][4])>>>>
      BY <1>1, <2>2
    <2>4. Shuffled(t, SBox, 1) =
            <<<<s[1][1], s[1][2], s[1][3], s[1][4]>>, <<s[2][1], s[2][2], s[2][3], s[2][4]>>,
              <<s[3][1], s[3][2], s[3][3], s[3][4]>>, <<s[4][1], s[4][2], s[4][3], s[4][4]>>>>
      BY <1>4, <2>1, <2>3, BoxesAssumption
    <2> QED BY <1>3, <2>4 DEF t
  <1> QED BY <1>2, <1>5, <1>6

\* A round is a shuffle, a mixture and the addition of a round key.
LEMMA RoundsAre ==
  ASSUME NEW s \in State, NEW k
  PROVE  /\ Round(s, Te0, Te1, Te2, Te3, 1, k) = AddKey(MixedColumns(Shuffled(s, SBox, 1)), k)
         /\ Round(s, Td0, Td1, Td2, Td3, 3, k) = AddKey(UnmixedColumns(Shuffled(s, InverseSBox, 3)), k)
  <1>1. ASSUME NEW w \in 1..4
        PROVE  /\ Lookup(Te0, Te1, Te2, Te3, Diagonal(s, w, 1)) = MixedColumn(Substituted(SBox, Diagonal(s, w, 1)))
               /\ Lookup(Td0, Td1, Td2, Td3, Diagonal(s, w, 3)) =
                    UnmixedColumn(Substituted(InverseSBox, Diagonal(s, w, 3)))
    BY DiagonalsAreWords, SubstitutionsInvert, TablesMix
  <1> QED BY <1>1 DEF Round, MixedColumns, UnmixedColumns, Shuffled

-----------------------------------------------------------------------------
(* Blocks of 16 bytes.                                                      *)

\* Tuple returns the function it is given, which is a sequence.
LEMMA FunctionsAreSequences ==
  ASSUME NEW n \in Nat, NEW V, NEW f \in [1..n -> V]
  PROVE  SubSeq(f, 1, n) = f /\ f \in Seq(V) /\ Len(f) = n
  <1>1. f \in Seq(V)
    BY SeqDef
  <1>2. Len(f) = n
    BY <1>1, LenProperties
  <1> QED BY <1>1, <1>2

\* A word is a sequence of four bytes.
LEMMA WordsAreStrings ==
  ASSUME NEW w \in Word
  PROVE  w \in Seq(Byte) /\ Len(w) = 4
  <1>1. PICK a \in Byte, b \in Byte, c \in Byte, d \in Byte : w = <<a, b, c, d>>
    BY DEF Word
  <1> QED BY <1>1

\* PUTU32 of four words.
LEMMA JoinedBytes ==
  ASSUME NEW s \in [1..4 -> [1..4 -> Byte]]
  PROVE  /\ Bytes16(Joined(s))
         /\ \A i \in 1..4 : /\ Joined(s)[i] = s[1][i] /\ Joined(s)[4 + i] = s[2][i]
                            /\ Joined(s)[8 + i] = s[3][i] /\ Joined(s)[12 + i] = s[4][i]
  <1> DEFINE f == [i \in 1..16 |-> s[((i - 1) \div 4) + 1][((i - 1) % 4) + 1]]
  <1>1. ASSUME NEW i \in 1..16
        PROVE  ((i - 1) \div 4) + 1 \in 1..4 /\ ((i - 1) % 4) + 1 \in 1..4
    OBVIOUS
  <1>2. f \in [1..16 -> Byte]
    BY <1>1
  <1>3. Joined(s) = SubSeq(f, 1, 16)
    BY DEF Joined, Tuple
  <1>4. \A i \in 1..4 : f[i] = s[1][i] /\ f[4 + i] = s[2][i] /\ f[8 + i] = s[3][i] /\ f[12 + i] = s[4][i]
    OBVIOUS
  <1> HIDE DEF f
  <1>5. Joined(s) = f /\ f \in Seq(Byte) /\ Len(f) = 16
    BY <1>2, <1>3, FunctionsAreSequences
  <1> QED BY <1>4, <1>5 DEF Bytes16

\* A state is a table of bytes.
LEMMA StatesAreTables ==
  ASSUME NEW s \in State
  PROVE  s \in [1..4 -> [1..4 -> Byte]]
  BY DEF State, Word

\* GETU32 of 16 bytes.
LEMMA WordsBytes ==
  ASSUME NEW b, Bytes16(b)
  PROVE  /\ Words(b) \in State
         /\ Words(b) = <<<<b[1], b[2], b[3], b[4]>>, <<b[5], b[6], b[7], b[8]>>,
                         <<b[9], b[10], b[11], b[12]>>, <<b[13], b[14], b[15], b[16]>>>>
  <1>1. \A i \in 1..16 : b[i] \in Byte
    BY ElementOfSeq DEF Bytes16
  <1>2. /\ GetU32(b, 1) = <<b[1], b[2], b[3], b[4]>> /\ GetU32(b, 5) = <<b[5], b[6], b[7], b[8]>>
        /\ GetU32(b, 9) = <<b[9], b[10], b[11], b[12]>>
        /\ GetU32(b, 13) = <<b[13], b[14], b[15], b[16]>>
    BY DEF GetU32
  <1>3. ASSUME NEW i \in {1, 5, 9, 13}
        PROVE  GetU32(b, i) \in Word
    BY <1>1 DEF GetU32, Word
  <1> QED BY <1>2, <1>3 DEF Words, State

\* GETU32 takes back what PUTU32 put,
LEMMA WordsJoined ==
  ASSUME NEW s \in State
  PROVE  Words(Joined(s)) = s
  <1>1. s = <<<<s[1][1], s[1][2], s[1][3], s[1][4]>>, <<s[2][1], s[2][2], s[2][3], s[2][4]>>,
              <<s[3][1], s[3][2], s[3][3], s[3][4]>>, <<s[4][1], s[4][2], s[4][3], s[4][4]>>>>
    BY DEF State, Word
  <1> DEFINE j == Joined(s)
  <1>2. Words(j) = <<<<j[1], j[2], j[3], j[4]>>, <<j[5], j[6], j[7], j[8]>>,
                     <<j[9], j[10], j[11], j[12]>>, <<j[13], j[14], j[15], j[16]>>>>
    BY JoinedBytes, StatesAreTables, WordsBytes
  <1>3. /\ j[1] = s[1][1] /\ j[2] = s[1][2] /\ j[3] = s[1][3] /\ j[4] = s[1][4]
        /\ j[5] = s[2][1] /\ j[6] = s[2][2] /\ j[7] = s[2][3] /\ j[8] = s[2][4]
        /\ j[9] = s[3][1] /\ j[10] = s[3][2] /\ j[11] = s[3][3] /\ j[12] = s[3][4]
        /\ j[13] = s[4][1] /\ j[14] = s[4][2] /\ j[15] = s[4][3] /\ j[16] = s[4][4]
    BY JoinedBytes, StatesAreTables
  <1> QED BY <1>1, <1>2, <1>3

\* and the other way round.
LEMMA JoinedWords ==
  ASSUME NEW b, Bytes16(b)
  PROVE  Joined(Words(b)) = b
  <1> DEFINE s == Words(b)
             j == Joined(s)
  <1>1. s \in State
    BY WordsBytes
  <1>2. Bytes16(j)
    BY <1>1, JoinedBytes, StatesAreTables
  <1>3. ASSUME NEW i \in 1..16
        PROVE  j[i] = b[i]
    <2>1. /\ j[1] = s[1][1] /\ j[2] = s[1][2] /\ j[3] = s[1][3] /\ j[4] = s[1][4]
          /\ j[5] = s[2][1] /\ j[6] = s[2][2] /\ j[7] = s[2][3] /\ j[8] = s[2][4]
          /\ j[9] = s[3][1] /\ j[10] = s[3][2] /\ j[11] = s[3][3] /\ j[12] = s[3][4]
          /\ j[13] = s[4][1] /\ j[14] = s[4][2] /\ j[15] = s[4][3] /\ j[16] = s[4][4]
      BY <1>1, JoinedBytes, StatesAreTables
    <2>2. s = <<<<b[1], b[2], b[3], b[4]>>, <<b[5], b[6], b[7], b[8]>>,
                <<b[9], b[10], b[11], b[12]>>, <<b[13], b[14], b[15], b[16]>>>>
      BY WordsBytes
    <2> HIDE DEF j, s
    <2>3. /\ j[1] = b[1] /\ j[2] = b[2] /\ j[3] = b[3] /\ j[4] = b[4]
          /\ j[5] = b[5] /\ j[6] = b[6] /\ j[7] = b[7] /\ j[8] = b[8]
          /\ j[9] = b[9] /\ j[10] = b[10] /\ j[11] = b[11] /\ j[12] = b[12]
          /\ j[13] = b[13] /\ j[14] = b[14] /\ j[15] = b[15] /\ j[16] = b[16]
      BY <2>1, <2>2
    <2>4. i \in {1, 2, 3, 4, 5, 6, 7, 8, 9, 10, 11, 12, 13, 14, 15, 16}
      OBVIOUS
    <2> QED BY <2>3, <2>4
  <1> QED BY <1>2, <1>3, SMTT(30) DEF Bytes16

-----------------------------------------------------------------------------
(* Recursion.                                                               *)

\* Induction, as a fact about a set of numbers: the least that is not in it has a
\* predecessor that is.
LEMMA SetInduction ==
  ASSUME NEW T, 0 \in T, \A n \in Nat : n \in T => n + 1 \in T
  PROVE  \A n \in Nat : n \in T
  <1> DEFINE R == OpToRel(<, Nat)
             U == {n \in Nat : n \notin T}
  <1>1. IsWellFoundedOn(R, Nat)
    BY NatLessThanWellFounded
  <1>2. \A x, y \in Nat : x < y => <<x, y>> \in R
    BY DEF OpToRel
  <1> HIDE DEF R
  <1> SUFFICES ASSUME U # {} PROVE FALSE
    OBVIOUS
  <1>3. PICK x \in U : \A y \in U : <<y, x>> \notin R
    BY <1>1, WFMin
  <1>4. x # 0 /\ x - 1 \in Nat
    OBVIOUS
  <1>5. <<x - 1, x>> \in R
    <2>1. x \in Nat /\ x - 1 < x
      OBVIOUS
    <2> QED BY <1>2, <1>4, <2>1
  <1>6. x - 1 \notin U
    BY <1>3, <1>5
  <1> QED BY <1>4, <1>6

\* What the values of a function on an interval are, one after the other.
LEMMA Values ==
  ASSUME NEW V, NEW n \in Nat, NEW h, h[0] \in V,
         \A i \in 1..n : h[i - 1] \in V => h[i] \in V
  PROVE  \A i \in 0..n : h[i] \in V
  <1> DEFINE T == {i \in Nat : i <= n => h[i] \in V}
  <1>1. 0 \in T
    OBVIOUS
  <1>2. ASSUME NEW i \in Nat, i \in T
        PROVE  i + 1 \in T
    <2> SUFFICES ASSUME i + 1 <= n PROVE h[i + 1] \in V
      OBVIOUS
    <2>1. i + 1 \in 1..n /\ (i + 1) - 1 = i
      OBVIOUS
    <2>2. h[i] \in V
      BY <1>2, <2>1
    <2> QED BY <2>1, <2>2
  <1> HIDE DEF T
  <1>3. \A i \in Nat : i \in T
    BY <1>1, <1>2, SetInduction
  <1> QED BY <1>3 DEF T

\* f begins with a, and goes on by the steps given.
Iterates(f, a, step, n) == f = [i \in 0..n |-> IF i = 0 THEN a ELSE step[i][f[i - 1]]]

\* A function by recursion exists.
LEMMA Recursion ==
  ASSUME NEW V, NEW a \in V, NEW n \in Nat, NEW step \in [1..n -> [V -> V]]
  PROVE  \E f \in [0..n -> V] : Iterates(f, a, step, n)
  <1> DEFINE Sol(f, k) == f = [i \in 0..k |-> IF i = 0 THEN a ELSE step[i][f[i - 1]]]
             T == {k \in Nat : k <= n => \E f \in [0..k -> V] : Sol(f, k)}
  <1>1. 0 \in T
    <2>1. [i \in 0..0 |-> a] \in [0..0 -> V] /\ Sol([i \in 0..0 |-> a], 0)
      OBVIOUS
    <2> QED BY <2>1
  <1>2. ASSUME NEW k \in Nat, k \in T
        PROVE  k + 1 \in T
    <2> SUFFICES ASSUME k + 1 <= n PROVE \E f \in [0..(k + 1) -> V] : Sol(f, k + 1)
      OBVIOUS
    <2>1. PICK f \in [0..k -> V] : Sol(f, k)
      BY <1>2
    <2> DEFINE g == [i \in 0..(k + 1) |-> IF i <= k THEN f[i] ELSE step[i][f[k]]]
    <2>2. f[k] \in V /\ step[k + 1] \in [V -> V]
      OBVIOUS
    <2>3. g \in [0..(k + 1) -> V]
      BY <2>2
    <2>4. ASSUME NEW i \in 0..(k + 1)
          PROVE  g[i] = IF i = 0 THEN a ELSE step[i][g[i - 1]]
      <3>1. CASE i = 0
        BY <2>1, <3>1
      <3>2. CASE i # 0 /\ i <= k
        <4>1. g[i] = f[i] /\ g[i - 1] = f[i - 1] /\ i \in 0..k
          BY <3>2
        <4>2. f[i] = step[i][f[i - 1]]
          BY <2>1, <3>2, <4>1
        <4> QED BY <3>2, <4>1, <4>2
      <3>3. CASE i = k + 1
        <4>1. g[i] = step[i][f[k]] /\ g[i - 1] = f[k]
          BY <3>3
        <4> QED BY <3>3, <4>1
      <3> QED BY <3>1, <3>2, <3>3
    <2>5. Sol(g, k + 1)
      BY <2>3, <2>4
    <2> QED BY <2>3, <2>5
  <1> HIDE DEF T
  <1>3. n \in T
    BY <1>1, <1>2, SetInduction
  <1> QED BY <1>3 DEF T, Iterates

\* The round keys are states, each of which follows from the one before.
LEMMA KeySchedule ==
  ASSUME NEW key, Bytes16(key)
  PROVE  /\ rijndaelSetupEncrypt(key) \in [1..11 -> State]
         /\ rijndaelSetupEncrypt(key)[1] = Words(key)
         /\ \A i \in 1..10 : rijndaelSetupEncrypt(key)[i + 1] = NextKey(rijndaelSetupEncrypt(key)[i], i)
  <1> DEFINE E(f) == [i \in 0..10 |-> IF i = 0 THEN Words(key) ELSE NextKey(f[i - 1], i)]
             step == [i \in 1..10 |-> [s \in State |-> NextKey(s, i)]]
             k == CHOOSE f : f = E(f)
  <1>1. Words(key) \in State
    BY WordsBytes
  <1>2. \A s \in State, i \in 1..10 : NextKey(s, i) \in State
    <2>1. \A i \in 1..10 : rcon[i] \in Byte
      BY DEF rcon, Byte
    <2>2. ASSUME NEW s \in State, NEW i \in 1..10
          PROVE  NextKey(s, i) \in State
      <3> DEFINE t == <<XorByte(S(s[4][2]), rcon[i]), S(s[4][3]), S(s[4][4]), S(s[4][1])>>
      <3>1. t \in Word
        BY <2>1, BoxesAssumption, XorDigits DEF State, Word
      <3> HIDE DEF t
      <3>2. \A v, w \in Word : XorWord(v, w) \in Word
        BY XorWordLaws
      <3>3. s[1] \in Word /\ s[2] \in Word /\ s[3] \in Word /\ s[4] \in Word
        BY DEF State
      <3> DEFINE first == XorWord(s[1], t)
                 second == XorWord(s[2], first)
                 third == XorWord(s[3], second)
      <3>4. first \in Word
        BY <3>1, <3>2, <3>3
      <3>5. second \in Word
        BY <3>4, <3>2, <3>3
      <3>6. third \in Word
        BY <3>5, <3>2, <3>3
      <3>7. XorWord(s[4], third) \in Word
        BY <3>6, <3>2, <3>3
      <3>8. NextKey(s, i) = <<first, second, third, XorWord(s[4], third)>>
        BY DEF NextKey, t
      <3> HIDE DEF first, second, third
      <3> QED BY <3>4, <3>5, <3>6, <3>7, <3>8 DEF State
    <2> QED BY <2>2
  <1>3. step \in [1..10 -> [State -> State]]
    BY <1>2
  <1>4. PICK f \in [0..10 -> State] : Iterates(f, Words(key), step, 10)
    <2> HIDE DEF step
    <2> QED BY <1>1, <1>3, Recursion
  <1>5. f = E(f)
    BY <1>4 DEF Iterates
  <1>6. k = E(k)
    <2> HIDE DEF E
    <2> QED BY <1>5
  <1>7. rijndaelSetupEncrypt(key) = Tuple(11, LAMBDA i : k[i - 1])
    BY DEF rijndaelSetupEncrypt
  <1> HIDE DEF k
  <1>8. k[0] = Words(key) /\ \A i \in 1..10 : k[i] = NextKey(k[i - 1], i)
    BY <1>6
  <1>9. \A i \in 0..10 : k[i] \in State
    BY <1>1, <1>2, <1>8, Values
  <1>10. [i \in 1..11 |-> k[i - 1]] \in [1..11 -> State]
    BY <1>9
  <1>11. rijndaelSetupEncrypt(key) = [i \in 1..11 |-> k[i - 1]]
    BY <1>7, <1>10, FunctionsAreSequences DEF Tuple
  <1>12. k[(1 - 1)] = k[0] /\ \A i \in 1..10 : i \in 1..11 /\ i + 1 \in 1..11 /\ (i + 1) - 1 = i
    OBVIOUS
  <1>13. \A i \in 1..10 : rijndaelSetupEncrypt(key)[i] = k[i - 1] /\ rijndaelSetupEncrypt(key)[i + 1] = k[i]
    BY <1>11, <1>12
  <1>14. rijndaelSetupEncrypt(key)[1] = k[0]
    BY <1>11, <1>12
  <1> QED BY <1>8, <1>10, <1>11, <1>13, <1>14

-----------------------------------------------------------------------------
(* The cipher and its inverse.                                              *)

RoundKeys == [1..11 -> State]

\* The round keys of decryption, from those of encryption.
Reversed(k) == [i \in 1..11 |-> IF i \in {1, 11} THEN k[12 - i] ELSE UnmixedColumns(k[12 - i])]

\* rijndaelSetupDecrypt passes the bytes through Te4 and Td0 to Td3: what the first does,
\* the others undo.
LEMMA DecryptionKeys ==
  ASSUME NEW key, Bytes16(key)
  PROVE  /\ rijndaelSetupDecrypt(key) = Reversed(rijndaelSetupEncrypt(key))
         /\ rijndaelSetupDecrypt(key) \in RoundKeys
  <1> DEFINE k == rijndaelSetupEncrypt(key)
             f == [i \in 1..11 |-> IF i \in {1, 11} THEN k[12 - i] ELSE InverseMixed(k[12 - i])]
  <1>1. k \in RoundKeys
    BY KeySchedule DEF RoundKeys
  <1>2. rijndaelSetupDecrypt(key) = SubSeq(f, 1, 11)
    BY DEF rijndaelSetupDecrypt, Tuple
  <1> HIDE DEF k
  <1>3. ASSUME NEW w \in Word
        PROVE  MixedWord(w) = UnmixedColumn(w)
    <2>1. SubstitutedWord(w) \in Word
      BY SubstitutionsInvert
    <2>2. MixedWord(w) = UnmixedColumn(UnsubstitutedWord(SubstitutedWord(w)))
      BY <2>1, TablesMix DEF MixedWord, SubstitutedWord
    <2>3. UnsubstitutedWord(SubstitutedWord(w)) = w
      BY BoxesAssumption DEF UnsubstitutedWord, SubstitutedWord, Word
    <2> QED BY <2>2, <2>3
  <1>4. \A s \in State : InverseMixed(s) = UnmixedColumns(s)
    BY <1>3 DEF InverseMixed, UnmixedColumns, State
  <1>5. \A i \in 1..11 : k[12 - i] \in State
    BY <1>1 DEF RoundKeys
  <1>6. f = Reversed(k)
    BY <1>4, <1>5 DEF Reversed
  <1>7. Reversed(k) \in RoundKeys
    BY <1>5, MixesInvert DEF Reversed, RoundKeys
  <1> HIDE DEF f
  <1> QED BY <1>2, <1>6, <1>7, FunctionsAreSequences DEF RoundKeys, k

\* rijndaelEncrypt, round by round.
LEMMA Encryption ==
  ASSUME NEW k \in RoundKeys, NEW b, Bytes16(b)
  PROVE  \E s \in [0..9 -> State] :
           /\ s[0] = AddKey(Words(b), k[1])
           /\ \A i \in 1..9 : s[i] = AddKey(MixedColumns(Shuffled(s[i - 1], SBox, 1)), k[i + 1])
           /\ Shuffled(s[9], SBox, 1) \in State
           /\ rijndaelEncrypt(k, b) = Joined(AddKey(Shuffled(s[9], SBox, 1), k[11]))
           /\ Bytes16(rijndaelEncrypt(k, b))
  <1> DEFINE a == AddKey(Words(b), k[1])
             Rnd(s, i) == Round(s, Te0, Te1, Te2, Te3, 1, k[i + 1])
             E(f) == [i \in 0..9 |-> IF i = 0 THEN a ELSE Rnd(f[i - 1], i)]
             step == [i \in 1..9 |-> [s \in State |-> Rnd(s, i)]]
             s == CHOOSE f : f = E(f)
  <1>1. /\ k[1] \in State /\ k[11] \in State /\ \A i \in 1..9 : k[i + 1] \in State
    BY DEF RoundKeys
  <1>2. a \in State
    BY <1>1, WordsBytes, AddKeyLaws
  <1>3. ASSUME NEW x \in State, NEW i \in 1..9
        PROVE  /\ Rnd(x, i) = AddKey(MixedColumns(Shuffled(x, SBox, 1)), k[i + 1])
               /\ Rnd(x, i) \in State
    <2>1. Rnd(x, i) = AddKey(MixedColumns(Shuffled(x, SBox, 1)), k[i + 1])
      BY RoundsAre
    <2>2. MixedColumns(Shuffled(x, SBox, 1)) \in State
      BY ShufflesInvert, MixesInvert
    <2> QED BY <1>1, <2>1, <2>2, AddKeyLaws
  <1>4. rijndaelEncrypt(k, b) = Joined(LastRound(s[9], SBox, 1, k[11]))
    BY DEF rijndaelEncrypt
  <1> HIDE DEF a, Rnd
  <1>5. step \in [1..9 -> [State -> State]]
    BY <1>3
  <1>6. PICK f \in [0..9 -> State] : Iterates(f, a, step, 9)
    <2> HIDE DEF step
    <2> QED BY <1>2, <1>5, Recursion
  <1>7. f = E(f)
    BY <1>6 DEF Iterates
  <1>8. s = E(s)
    <2> HIDE DEF E
    <2> QED BY <1>7
  <1> HIDE DEF s
  <1>9. s[0] = a /\ \A i \in 1..9 : s[i] = Rnd(s[i - 1], i)
    BY <1>8
  <1>10. \A i \in 0..9 : s[i] \in State
    BY <1>2, <1>3, <1>9, Values
  <1>11. s \in [0..9 -> State]
    BY <1>8, <1>10
  <1>12. \A i \in 1..9 : s[i] = AddKey(MixedColumns(Shuffled(s[i - 1], SBox, 1)), k[i + 1])
    BY <1>3, <1>9, <1>10
  <1>13. Shuffled(s[9], SBox, 1) \in State /\ AddKey(Shuffled(s[9], SBox, 1), k[11]) \in State
    BY <1>1, <1>10, ShufflesInvert, AddKeyLaws
  <1>14. Bytes16(rijndaelEncrypt(k, b))
    BY <1>4, <1>13, StatesAreTables, JoinedBytes DEF LastRound
  <1> QED BY <1>4, <1>9, <1>11, <1>12, <1>13, <1>14 DEF LastRound, a
\* rijndaelDecrypt, round by round.
LEMMA Decryption ==
  ASSUME NEW k \in RoundKeys, NEW b, Bytes16(b)
  PROVE  \E s \in [0..9 -> State] :
           /\ s[0] = AddKey(Words(b), k[1])
           /\ \A i \in 1..9 : s[i] = AddKey(UnmixedColumns(Shuffled(s[i - 1], InverseSBox, 3)), k[i + 1])
           /\ Shuffled(s[9], InverseSBox, 3) \in State
           /\ rijndaelDecrypt(k, b) = Joined(AddKey(Shuffled(s[9], InverseSBox, 3), k[11]))
           /\ Bytes16(rijndaelDecrypt(k, b))
  <1> DEFINE a == AddKey(Words(b), k[1])
             Rnd(s, i) == Round(s, Td0, Td1, Td2, Td3, 3, k[i + 1])
             E(f) == [i \in 0..9 |-> IF i = 0 THEN a ELSE Rnd(f[i - 1], i)]
             step == [i \in 1..9 |-> [s \in State |-> Rnd(s, i)]]
             s == CHOOSE f : f = E(f)
  <1>1. /\ k[1] \in State /\ k[11] \in State /\ \A i \in 1..9 : k[i + 1] \in State
    BY DEF RoundKeys
  <1>2. a \in State
    BY <1>1, WordsBytes, AddKeyLaws
  <1>3. ASSUME NEW x \in State, NEW i \in 1..9
        PROVE  /\ Rnd(x, i) = AddKey(UnmixedColumns(Shuffled(x, InverseSBox, 3)), k[i + 1])
               /\ Rnd(x, i) \in State
    <2>1. Rnd(x, i) = AddKey(UnmixedColumns(Shuffled(x, InverseSBox, 3)), k[i + 1])
      BY RoundsAre
    <2>2. UnmixedColumns(Shuffled(x, InverseSBox, 3)) \in State
      BY ShufflesInvert, MixesInvert
    <2> QED BY <1>1, <2>1, <2>2, AddKeyLaws
  <1>4. rijndaelDecrypt(k, b) = Joined(LastRound(s[9], InverseSBox, 3, k[11]))
    BY DEF rijndaelDecrypt
  <1> HIDE DEF a, Rnd
  <1>5. step \in [1..9 -> [State -> State]]
    BY <1>3
  <1>6. PICK f \in [0..9 -> State] : Iterates(f, a, step, 9)
    <2> HIDE DEF step
    <2> QED BY <1>2, <1>5, Recursion
  <1>7. f = E(f)
    BY <1>6 DEF Iterates
  <1>8. s = E(s)
    <2> HIDE DEF E
    <2> QED BY <1>7
  <1> HIDE DEF s
  <1>9. s[0] = a /\ \A i \in 1..9 : s[i] = Rnd(s[i - 1], i)
    BY <1>8
  <1>10. \A i \in 0..9 : s[i] \in State
    BY <1>2, <1>3, <1>9, Values
  <1>11. s \in [0..9 -> State]
    BY <1>8, <1>10
  <1>12. \A i \in 1..9 : s[i] = AddKey(UnmixedColumns(Shuffled(s[i - 1], InverseSBox, 3)), k[i + 1])
    BY <1>3, <1>9, <1>10
  <1>13. Shuffled(s[9], InverseSBox, 3) \in State /\ AddKey(Shuffled(s[9], InverseSBox, 3), k[11]) \in State
    BY <1>1, <1>10, ShufflesInvert, AddKeyLaws
  <1>14. Bytes16(rijndaelDecrypt(k, b))
    BY <1>4, <1>13, StatesAreTables, JoinedBytes DEF LastRound
  <1> QED BY <1>4, <1>9, <1>11, <1>12, <1>13, <1>14 DEF LastRound, a

\* Decryption undoes encryption: from the last round on it passes through the states
\* in which the rounds of encryption had shuffled their bytes.
LEMMA DecryptsEncrypted ==
  ASSUME NEW k \in RoundKeys, NEW d \in RoundKeys, d = Reversed(k), NEW b, Bytes16(b)
  PROVE  rijndaelDecrypt(d, rijndaelEncrypt(k, b)) = b
  <1> DEFINE c == rijndaelEncrypt(k, b)
  <1>1. PICK s \in [0..9 -> State] :
           /\ s[0] = AddKey(Words(b), k[1])
           /\ \A i \in 1..9 : s[i] = AddKey(MixedColumns(Shuffled(s[i - 1], SBox, 1)), k[i + 1])
           /\ Shuffled(s[9], SBox, 1) \in State
           /\ c = Joined(AddKey(Shuffled(s[9], SBox, 1), k[11]))
           /\ Bytes16(c)
    BY Encryption
  <1> HIDE DEF c
  <1>2. PICK t \in [0..9 -> State] :
           /\ t[0] = AddKey(Words(c), d[1])
           /\ \A i \in 1..9 : t[i] = AddKey(UnmixedColumns(Shuffled(t[i - 1], InverseSBox, 3)), d[i + 1])
           /\ rijndaelDecrypt(d, c) = Joined(AddKey(Shuffled(t[9], InverseSBox, 3), d[11]))
    BY <1>1, Decryption
  <1>3. /\ d[1] = k[11] /\ d[11] = k[1]
        /\ \A i \in 1..9 : d[i + 1] = UnmixedColumns(k[11 - i])
    BY DEF Reversed
  <1>4. \A i \in 1..11 : k[i] \in State
    BY DEF RoundKeys
  <1>5. \A i \in 0..9 : s[i] \in State /\ t[i] \in State
    OBVIOUS
  <1> DEFINE T == {n \in Nat : n <= 9 => t[n] = Shuffled(s[9 - n], SBox, 1)}
  <1>6. 0 \in T
    <2>1. AddKey(Shuffled(s[9], SBox, 1), k[11]) \in State
      BY <1>1, <1>4, AddKeyLaws
    <2>2. Words(c) = AddKey(Shuffled(s[9], SBox, 1), k[11])
      BY <1>1, <2>1, WordsJoined
    <2>3. t[0] = Shuffled(s[9], SBox, 1)
      BY <1>1, <1>2, <1>3, <1>4, <2>2, AddKeyLaws
    <2> QED BY <2>3
  <1>7. ASSUME NEW n \in Nat, n \in T
        PROVE  n + 1 \in T
    <2> SUFFICES ASSUME n + 1 <= 9 PROVE t[n + 1] = Shuffled(s[9 - (n + 1)], SBox, 1)
      OBVIOUS
    <2> DEFINE x == s[9 - n]
               y == s[8 - n]
               key == k[10 - n]
    <2>1. /\ n + 1 \in 1..9 /\ 9 - n \in 1..9 /\ 8 - n \in 0..9 /\ 10 - n \in 1..11
          /\ (n + 1) - 1 = n /\ (9 - n) - 1 = 8 - n /\ (9 - n) + 1 = 10 - n
          /\ 11 - (n + 1) = 10 - n /\ 9 - (n + 1) = 8 - n
      OBVIOUS
    <2>2. x \in State /\ y \in State /\ key \in State
      BY <1>4, <1>5, <2>1
    <2>3. t[n] = Shuffled(x, SBox, 1)
      BY <1>7, <2>1
    <2>4. t[n + 1] = AddKey(UnmixedColumns(Shuffled(t[n], InverseSBox, 3)), UnmixedColumns(key))
      BY <1>2, <1>3, <2>1
    <2>5. x = AddKey(MixedColumns(Shuffled(y, SBox, 1)), key)
      BY <1>1, <2>1
    <2> HIDE DEF x, y, key
    <2>6. t[n + 1] = AddKey(UnmixedColumns(x), UnmixedColumns(key))
      BY <2>2, <2>3, <2>4, ShufflesInvert
    <2>7. t[n + 1] = UnmixedColumns(AddKey(x, key))
      BY <2>2, <2>6, AddKeyLaws
    <2>8. Shuffled(y, SBox, 1) \in State /\ MixedColumns(Shuffled(y, SBox, 1)) \in State
      BY <2>2, ShufflesInvert, MixesInvert
    <2>9. AddKey(x, key) = MixedColumns(Shuffled(y, SBox, 1))
      BY <2>2, <2>5, <2>8, AddKeyLaws
    <2>10. t[n + 1] = Shuffled(y, SBox, 1)
      BY <2>7, <2>8, <2>9, MixesInvert
    <2> QED BY <2>1, <2>10 DEF y
  <1> HIDE DEF T
  <1>8. 9 \in T
    BY <1>6, <1>7, SetInduction
  <1>9. t[9] = Shuffled(s[0], SBox, 1)
    BY <1>8 DEF T
  <1>10. Words(b) \in State
    BY WordsBytes
  <1>11. AddKey(Shuffled(t[9], InverseSBox, 3), d[11]) = Words(b)
    BY <1>1, <1>3, <1>4, <1>5, <1>9, <1>10, ShufflesInvert, AddKeyLaws
  <1> QED BY <1>2, <1>11, JoinedWords DEF c

\* Encryption undoes decryption.
LEMMA EncryptsDecrypted ==
  ASSUME NEW k \in RoundKeys, NEW d \in RoundKeys, d = Reversed(k), NEW b, Bytes16(b)
  PROVE  rijndaelEncrypt(k, rijndaelDecrypt(d, b)) = b
  <1> DEFINE c == rijndaelDecrypt(d, b)
  <1>1. PICK t \in [0..9 -> State] :
           /\ t[0] = AddKey(Words(b), d[1])
           /\ \A i \in 1..9 : t[i] = AddKey(UnmixedColumns(Shuffled(t[i - 1], InverseSBox, 3)), d[i + 1])
           /\ Shuffled(t[9], InverseSBox, 3) \in State
           /\ c = Joined(AddKey(Shuffled(t[9], InverseSBox, 3), d[11]))
           /\ Bytes16(c)
    BY Decryption
  <1> HIDE DEF c
  <1>2. PICK s \in [0..9 -> State] :
           /\ s[0] = AddKey(Words(c), k[1])
           /\ \A i \in 1..9 : s[i] = AddKey(MixedColumns(Shuffled(s[i - 1], SBox, 1)), k[i + 1])
           /\ rijndaelEncrypt(k, c) = Joined(AddKey(Shuffled(s[9], SBox, 1), k[11]))
    BY <1>1, Encryption
  <1>3. /\ d[1] = k[11] /\ d[11] = k[1]
        /\ \A i \in 1..9 : d[i + 1] = UnmixedColumns(k[11 - i])
    BY DEF Reversed
  <1>4. \A i \in 1..11 : k[i] \in State
    BY DEF RoundKeys
  <1>5. \A i \in 0..9 : s[i] \in State /\ t[i] \in State
    OBVIOUS
  <1> DEFINE T == {n \in Nat : n <= 9 => s[n] = Shuffled(t[9 - n], InverseSBox, 3)}
  <1>6. 0 \in T
    <2>1. AddKey(Shuffled(t[9], InverseSBox, 3), k[1]) \in State
      BY <1>1, <1>4, AddKeyLaws
    <2>2. Words(c) = AddKey(Shuffled(t[9], InverseSBox, 3), k[1])
      BY <1>1, <1>3, <2>1, WordsJoined
    <2>3. s[0] = Shuffled(t[9], InverseSBox, 3)
      BY <1>1, <1>2, <1>4, <2>2, AddKeyLaws
    <2> QED BY <2>3
  <1>7. ASSUME NEW n \in Nat, n \in T
        PROVE  n + 1 \in T
    <2> SUFFICES ASSUME n + 1 <= 9 PROVE s[n + 1] = Shuffled(t[9 - (n + 1)], InverseSBox, 3)
      OBVIOUS
    <2> DEFINE x == t[9 - n]
               y == t[8 - n]
               key == k[n + 2]
    <2>1. /\ n + 1 \in 1..9 /\ 9 - n \in 1..9 /\ 8 - n \in 0..9 /\ n + 2 \in 1..11
          /\ (n + 1) - 1 = n /\ (9 - n) - 1 = 8 - n /\ (n + 1) + 1 = n + 2
          /\ 11 - (9 - n) = n + 2 /\ 9 - (n + 1) = 8 - n
      OBVIOUS
    <2>2. x \in State /\ y \in State /\ key \in State
      BY <1>4, <1>5, <2>1
    <2>3. s[n] = Shuffled(x, InverseSBox, 3)
      BY <1>7, <2>1
    <2>4. s[n + 1] = AddKey(MixedColumns(Shuffled(s[n], SBox, 1)), key)
      BY <1>2, <2>1
    <2>5. x = AddKey(UnmixedColumns(Shuffled(y, InverseSBox, 3)), UnmixedColumns(key))
      BY <1>1, <1>3, <2>1
    <2> HIDE DEF x, y, key
    <2>6. s[n + 1] = AddKey(MixedColumns(x), key)
      BY <2>2, <2>3, <2>4, ShufflesInvert
    <2>7. Shuffled(y, InverseSBox, 3) \in State
      BY <2>2, ShufflesInvert
    <2>8. /\ x = UnmixedColumns(AddKey(Shuffled(y, InverseSBox, 3), key))
          /\ AddKey(Shuffled(y, InverseSBox, 3), key) \in State
      BY <2>2, <2>5, <2>7, AddKeyLaws
    <2>9. MixedColumns(x) = AddKey(Shuffled(y, InverseSBox, 3), key)
      BY <2>8, MixesInvert
    <2>10. s[n + 1] = Shuffled(y, InverseSBox, 3)
      BY <2>2, <2>6, <2>7, <2>9, AddKeyLaws
    <2> QED BY <2>1, <2>10 DEF y
  <1> HIDE DEF T
  <1>8. 9 \in T
    BY <1>6, <1>7, SetInduction
  <1>9. s[9] = Shuffled(t[0], InverseSBox, 3)
    BY <1>8 DEF T
  <1>10. Words(b) \in State
    BY WordsBytes
  <1>11. AddKey(Shuffled(s[9], SBox, 1), k[11]) = Words(b)
    BY <1>1, <1>3, <1>4, <1>5, <1>9, <1>10, ShufflesInvert, AddKeyLaws
  <1> QED BY <1>2, <1>11, JoinedWords DEF c

\* rijndael.cpp decrypts what it encrypted and encrypts what it decrypted, with every
\* key of 128 bits and every block.
THEOREM CipherInverts ==
  ASSUME NEW key, Bytes16(key), NEW b, Bytes16(b)
  PROVE  /\ Bytes16(rijndaelEncrypt(rijndaelSetupEncrypt(key), b))
         /\ Bytes16(rijndaelDecrypt(rijndaelSetupDecrypt(key), b))
         /\ rijndaelDecrypt(rijndaelSetupDecrypt(key),
                            rijndaelEncrypt(rijndaelSetupEncrypt(key), b)) = b
         /\ rijndaelEncrypt(rijndaelSetupEncrypt(key),
                            rijndaelDecrypt(rijndaelSetupDecrypt(key), b)) = b
  <1>1. rijndaelSetupEncrypt(key) \in RoundKeys
    BY KeySchedule DEF RoundKeys
  <1>2. /\ rijndaelSetupDecrypt(key) = Reversed(rijndaelSetupEncrypt(key))
        /\ rijndaelSetupDecrypt(key) \in RoundKeys
    BY DecryptionKeys
  <1>3. Bytes16(rijndaelEncrypt(rijndaelSetupEncrypt(key), b))
    BY <1>1, Encryption
  <1>4. Bytes16(rijndaelDecrypt(rijndaelSetupDecrypt(key), b))
    BY <1>2, Decryption
  <1> QED BY <1>1, <1>2, <1>3, <1>4, DecryptsEncrypted, EncryptsDecrypted

-----------------------------------------------------------------------------
(* Strings of bytes and the words of MD5.                                   *)

\* Blocks of n bytes, as functions.
String(n) == [1..n -> Byte]

\* A block, as a sequence and as a function.
LEMMA BlocksAreStrings ==
  ASSUME NEW b
  PROVE  Bytes16(b) <=> b \in String(16)
  <1>1. ASSUME Bytes16(b)
        PROVE  b \in String(16)
    BY <1>1, LenProperties DEF Bytes16, String
  <1>2. ASSUME b \in String(16)
        PROVE  Bytes16(b)
    BY <1>2, FunctionsAreSequences DEF Bytes16, String
  <1> QED BY <1>1, <1>2

\* The bitwise and of two bytes is a byte.
LEMMA AndDigits ==
  ASSUME NEW x \in Byte, NEW y \in Byte
  PROVE  AndTable[x][y] \in Byte
  <1> DEFINE d(n) == Bit(x, n) * Bit(y, n)
  <1>1. AndTable[x][y] = FromBits(d)
    BY DEF AndTable
  <1>2. \A n \in Places : d(n) \in {0, 1}
    BY BitIsDigit DEF Byte
  <1> HIDE DEF d
  <1> QED BY <1>1, <1>2, DigitsOfSum DEF FromBits, Places

\* What the operations on strings return.
LEMMA StringOperations ==
  ASSUME NEW n \in Nat, NEW x \in String(n), NEW y \in String(n)
  PROVE  /\ Len(x) = n
         /\ XorBytes(x, y) \in String(n) /\ AndBytes(x, y) \in String(n)
         /\ NotBytes(x) \in String(n) /\ OrBytes(x, y) \in String(n)
  <1>1. ASSUME NEW z \in String(n)
        PROVE  Len(z) = n
    BY FunctionsAreSequences DEF String
  <1>2. ASSUME NEW v \in String(n), NEW w \in String(n)
        PROVE  AndBytes(v, w) \in String(n)
    <2>1. [i \in 1..n |-> AndTable[v[i]][w[i]]] \in [1..n -> Byte]
      BY AndDigits DEF String
    <2>2. AndBytes(v, w) = SubSeq([i \in 1..n |-> AndTable[v[i]][w[i]]], 1, n)
      BY <1>1 DEF AndBytes, Tuple
    <2> QED BY <2>1, <2>2, FunctionsAreSequences DEF String
  <1>3. XorBytes(x, y) \in String(n)
    <2>1. [i \in 1..n |-> XorTable[x[i]][y[i]]] \in [1..n -> Byte]
      BY XorDigits DEF String, XorByte
    <2>2. XorBytes(x, y) = SubSeq([i \in 1..n |-> XorTable[x[i]][y[i]]], 1, n)
      BY <1>1 DEF XorBytes, Tuple
    <2> QED BY <2>1, <2>2, FunctionsAreSequences DEF String
  <1>4. ASSUME NEW v \in String(n)
        PROVE  NotBytes(v) \in String(n)
    <2>1. \A a \in Byte : 255 - a \in Byte
      BY DEF Byte
    <2>2. [i \in 1..n |-> 255 - v[i]] \in [1..n -> Byte]
      BY <2>1 DEF String
    <2>3. NotBytes(v) = SubSeq([i \in 1..n |-> 255 - v[i]], 1, n)
      BY <1>1 DEF NotBytes, Tuple
    <2> QED BY <2>2, <2>3, FunctionsAreSequences DEF String
  <1>5. OrBytes(x, y) \in String(n)
    BY <1>2, <1>4 DEF OrBytes
  <1> QED BY <1>1, <1>2, <1>3, <1>4, <1>5

\* A UINT4.
Long == String(LongBytes)

\* Addition of two UINT4s carries no more than a byte can hold.
LEMMA PlusIsLong ==
  ASSUME NEW x \in Long, NEW y \in Long
  PROVE  Plus(x, y) \in Long
  <1> DEFINE V == {v \in Nat : v < 512}
             E(f) == [i \in 0..LongBytes |-> IF i = 0 THEN 0 ELSE x[i] + y[i] + f[i - 1] \div 256]
             step == [i \in 1..LongBytes |-> [v \in V |-> x[i] + y[i] + v \div 256]]
             sum == CHOOSE f : f = E(f)
  <1>1. LongBytes \in Nat /\ 0 \in V
    BY LongAssumption
  <1>2. \A i \in 1..LongBytes, v \in V : x[i] + y[i] + v \div 256 \in V
    <2>1. \A a, b \in Byte, v \in V : a + b + v \div 256 \in V
      BY ByteBounds
    <2>2. \A i \in 1..LongBytes : x[i] \in Byte /\ y[i] \in Byte
      BY DEF Long, String
    <2> HIDE DEF V
    <2> QED BY <2>1, <2>2
  <1>3. Plus(x, y) = Tuple(LongBytes, LAMBDA i : sum[i] % 256)
    BY DEF Plus
  <1>4. step \in [1..LongBytes -> [V -> V]]
    BY <1>2
  <1>5. PICK f \in [0..LongBytes -> V] : Iterates(f, 0, step, LongBytes)
    <2> HIDE DEF step, V
    <2> QED BY <1>1, <1>4, Recursion
  <1> HIDE DEF V
  <1>6. f = E(f)
    <2>1. ASSUME NEW i \in 1..LongBytes
          PROVE  step[i][f[i - 1]] = x[i] + y[i] + f[i - 1] \div 256
      <3>1. f[i - 1] \in V
        BY <1>1
      <3> QED BY <3>1
    <2>2. f = [i \in 0..LongBytes |-> IF i = 0 THEN 0 ELSE step[i][f[i - 1]]]
      BY <1>5 DEF Iterates
    <2> HIDE DEF step
    <2>3. \A i \in 0..LongBytes : (IF i = 0 THEN 0 ELSE step[i][f[i - 1]])
                                  = (IF i = 0 THEN 0 ELSE x[i] + y[i] + f[i - 1] \div 256)
      BY <1>1, <2>1
    <2>4. [i \in 0..LongBytes |-> IF i = 0 THEN 0 ELSE step[i][f[i - 1]]] = E(f)
      BY <2>3
    <2> QED BY <2>2, <2>4
  <1>7. sum = E(sum)
    <2> HIDE DEF E
    <2> QED BY <1>6
  <1> HIDE DEF sum
  <1>8. sum[0] \in V /\ \A i \in 1..LongBytes : sum[i - 1] \in V => sum[i] \in V
    <2> DEFINE carried(i) == IF i = 0 THEN 0 ELSE x[i] + y[i] + sum[i - 1] \div 256
    <2>1. sum = [i \in 0..LongBytes |-> carried(i)]
      BY <1>7
    <2> HIDE DEF carried
    <2>2. sum[0] = carried(0) /\ \A i \in 1..LongBytes : sum[i] = carried(i)
      BY <1>1, <2>1
    <2>3. carried(0) = 0 /\ \A i \in 1..LongBytes : carried(i) = x[i] + y[i] + sum[i - 1] \div 256
      BY <1>1 DEF carried
    <2> QED BY <1>1, <1>2, <2>2, <2>3
  <1>9. \A i \in 0..LongBytes : sum[i] \in V
    BY <1>1, <1>8, Values
  <1>10. [i \in 1..LongBytes |-> sum[i] % 256] \in [1..LongBytes -> Byte]
    <2>1. \A v \in V : v % 256 \in Byte
      BY ByteBounds DEF V
    <2>2. \A i \in 1..LongBytes : sum[i] \in V
      BY <1>1, <1>9
    <2>3. \A i \in 1..LongBytes : sum[i] % 256 \in Byte
      BY <2>1, <2>2
    <2> QED BY <2>3
  <1> DEFINE bytes == [i \in 1..LongBytes |-> sum[i] % 256]
  <1>11. Plus(x, y) = SubSeq(bytes, 1, LongBytes)
    BY <1>3 DEF Tuple
  <1>12. bytes \in [1..LongBytes -> Byte]
    BY <1>10
  <1> HIDE DEF bytes
  <1> QED BY <1>1, <1>11, <1>12, FunctionsAreSequences DEF Long, String

\* A byte of a UINT4, or 0 beyond its ends.
LEMMA AtIsByte ==
  ASSUME NEW n \in Nat, NEW x \in String(n), NEW i
  PROVE  At(x, i) \in Byte
  <1>1. DOMAIN x = 1..n /\ \A j \in 1..n : x[j] \in Byte
    BY DEF String
  <1>2. 0 \in Byte
    BY DEF Byte
  <1> QED BY <1>1, <1>2 DEF At

\* The distance of a shift within a byte.
LEMMA PowersAre ==
  ASSUME NEW n \in Nat
  PROVE  Powers[(n % 8) + 1] \in Places
  BY DEF Powers, Places

\* Shifts of a UINT4.
LEMMA ShiftsAreLong ==
  ASSUME NEW x \in Long, NEW n \in 0..32
  PROVE  ShiftLeft(x, n) \in Long /\ ShiftRight(x, n) \in Long /\ RotateLeft(x, n) \in Long
  <1>1. LongBytes \in Nat
    BY LongAssumption
  <1>2. ASSUME NEW m \in 0..32
        PROVE  ShiftLeft(x, m) \in Long /\ ShiftRight(x, m) \in Long
    <2> DEFINE q == m \div 8
               scale == Powers[(m % 8) + 1]
    <2>1. scale \in Places
      BY PowersAre
    <2>2. \A i : At(x, i) \in Byte
      BY <1>1, AtIsByte DEF Long
    <2>3. ASSUME NEW a \in Byte, NEW b \in Byte, NEW c \in Places
          PROVE  /\ ((a * c) % 256) + (b * c) \div 256 \in Byte
                 /\ a \div c + (b % c) * (256 \div c) \in Byte
      <3>1. CASE c = 1
        BY <3>1 DEF Byte
      <3>2. CASE c = 2
        BY <3>2 DEF Byte
      <3>3. CASE c = 4
        BY <3>3 DEF Byte
      <3>4. CASE c = 8
        BY <3>4 DEF Byte
      <3>5. CASE c = 16
        BY <3>5 DEF Byte
      <3>6. CASE c = 32
        BY <3>6 DEF Byte
      <3>7. CASE c = 64
        BY <3>7 DEF Byte
      <3>8. CASE c = 128
        BY <3>8 DEF Byte
      <3> QED BY <3>1, <3>2, <3>3, <3>4, <3>5, <3>6, <3>7, <3>8 DEF Places
    <2> HIDE DEF scale
    <2>4. [i \in 1..LongBytes |-> ((At(x, i - q) * scale) % 256) + (At(x, i - q - 1) * scale) \div 256]
            \in [1..LongBytes -> Byte]
      BY <2>1, <2>2, <2>3
    <2>5. [i \in 1..LongBytes |-> At(x, i + q) \div scale + (At(x, i + q + 1) % scale) * (256 \div scale)]
            \in [1..LongBytes -> Byte]
      BY <2>1, <2>2, <2>3
    <2>6. /\ ShiftLeft(x, m) =
               SubSeq([i \in 1..LongBytes |-> ((At(x, i - q) * scale) % 256)
                                              + (At(x, i - q - 1) * scale) \div 256], 1, LongBytes)
          /\ ShiftRight(x, m) =
               SubSeq([i \in 1..LongBytes |-> At(x, i + q) \div scale
                                              + (At(x, i + q + 1) % scale) * (256 \div scale)], 1, LongBytes)
      BY DEF ShiftLeft, ShiftRight, Tuple, q, scale
    <2> QED BY <1>1, <2>4, <2>5, <2>6, FunctionsAreSequences, ZenonT(60) DEF Long, String
  <1>3. 32 - n \in 0..32
    OBVIOUS
  <1>4. ShiftLeft(x, n) \in String(LongBytes) /\ ShiftRight(x, 32 - n) \in String(LongBytes)
    BY <1>2, <1>3 DEF Long
  <1>5. RotateLeft(x, n) \in Long
    BY <1>1, <1>4, StringOperations DEF RotateLeft, Long
  <1> QED BY <1>2, <1>5

\* Decode returns a UINT4.
LEMMA UintIsLong ==
  ASSUME NEW bytes \in Seq(Byte)
  PROVE  Uint(bytes) \in Long
  <1>1. LongBytes \in Nat
    BY LongAssumption
  <1>2. \A i : At(bytes, i) \in Byte
    <2>1. DOMAIN bytes = 1..Len(bytes) /\ \A i \in 1..Len(bytes) : bytes[i] \in Byte
      BY LenProperties, ElementOfSeq
    <2>2. 0 \in Byte
      BY DEF Byte
    <2> QED BY <2>1, <2>2 DEF At
  <1>3. [i \in 1..LongBytes |-> At(bytes, i)] \in [1..LongBytes -> Byte]
    BY <1>2
  <1> QED BY <1>1, <1>3, FunctionsAreSequences DEF Uint, Tuple, Long, String

\* The additive constants are words.
LEMMA SinesAre ==
  ASSUME NEW i \in 1..64
  PROVE  Sines[i] \in Word
  <1> DEFINE w == Sines[i]
  <1>1. w = <<w[1], w[2], w[3], w[4]>>
    BY DEF Sines
  <1>2. /\ w[1] \in Int /\ 0 <= w[1] /\ w[1] <= 255 /\ w[2] \in Int /\ 0 <= w[2] /\ w[2] <= 255
        /\ w[3] \in Int /\ 0 <= w[3] /\ w[3] <= 255 /\ w[4] \in Int /\ 0 <= w[4] /\ w[4] <= 255
    BY DEF Sines
  <1> HIDE DEF w
  <1>3. w[1] \in Byte /\ w[2] \in Byte /\ w[3] \in Byte /\ w[4] \in Byte
    BY <1>2, ByteBounds
  <1>4. w \in Word
    BY <1>1, <1>3 DEF Word
  <1> QED BY <1>4 DEF w

\* F, G, H and I.
LEMMA MixIsLong ==
  ASSUME NEW i \in 0..63, NEW x \in Long, NEW y \in Long, NEW z \in Long
  PROVE  Mix(i, x, y, z) \in Long
  <1>1. LongBytes \in Nat
    BY LongAssumption
  <1>2. ASSUME NEW v \in Long, NEW w \in Long
        PROVE  XorBytes(v, w) \in Long /\ AndBytes(v, w) \in Long /\ NotBytes(v) \in Long /\ OrBytes(v, w) \in Long
    BY <1>1, StringOperations DEF Long
  <1>3. F(x, y, z) \in Long
    BY <1>2 DEF F
  <1>4. G(x, y, z) \in Long
    BY <1>2 DEF G
  <1>5. H(x, y, z) \in Long
    BY <1>2 DEF H
  <1>6. I(x, y, z) \in Long
    BY <1>2 DEF I
  <1>7. i \div 16 \in {0, 1, 2, 3}
    OBVIOUS
  <1> QED BY <1>3, <1>4, <1>5, <1>6, <1>7 DEF Mix

Registers == [1..4 -> Long]

\* FF, GG, HH and II.
LEMMA StepIsTyped ==
  ASSUME NEW i \in 0..63, NEW v \in Registers, NEW x \in Long
  PROVE  Step(i, v, x) \in Registers
  <1> DEFINE mix == Mix(i, v[2], v[3], v[4])
             sine == Uint(Sines[i + 1])
             shift == Shifts[(i \div 16) + 1][(i % 4) + 1]
             sum == Plus(Plus(Plus(v[1], mix), x), sine)
  <1>1. v[1] \in Long /\ v[2] \in Long /\ v[3] \in Long /\ v[4] \in Long
    BY DEF Registers
  <1>2. mix \in Long
    BY <1>1, MixIsLong
  <1>3. sine \in Long
    <2>1. i + 1 \in 1..64
      OBVIOUS
    <2>2. Sines[i + 1] \in Word
      BY <2>1, SinesAre
    <2>3. Sines[i + 1] \in Seq(Byte)
      BY <2>2, WordsAreStrings
    <2> QED BY <2>3, UintIsLong
  <1>4. shift \in 0..32
    BY DEF Shifts
  <1>5. Step(i, v, x) = <<v[4], Plus(RotateLeft(sum, shift), v[2]), v[2], v[3]>>
    BY DEF Step
  <1> HIDE DEF mix, sine, shift
  <1>6. sum \in Long
    BY <1>1, <1>2, <1>3, PlusIsLong
  <1> HIDE DEF sum
  <1>7. Plus(RotateLeft(sum, shift), v[2]) \in Long
    BY <1>1, <1>4, <1>6, ShiftsAreLong, PlusIsLong
  <1> QED BY <1>1, <1>5, <1>7 DEF Registers

\* MD5Transform, over its 64 steps.
LEMMA TransformIsTyped ==
  ASSUME NEW state \in Registers, NEW block \in Seq(Byte), Len(block) = 64
  PROVE  MD5Transform(state, block) \in Registers
  <1> DEFINE steps == 64
             x == [j \in 0..15 |-> Uint(SubSeq(block, 4 * j + 1, 4 * j + 4))]
             E(f) == [n \in 0..steps |-> IF n = 0 THEN state ELSE Step(n - 1, f[n - 1], x[Index(n - 1)])]
             step == [n \in 1..steps |-> [v \in Registers |-> Step(n - 1, v, x[Index(n - 1)])]]
             v == CHOOSE f : f = E(f)
  <1>1. MD5Transform(state, block) = [k \in 1..4 |-> Plus(state[k], v[64][k])]
    BY DEF MD5Transform
  <1>2. \A j \in 0..15 : x[j] \in Long
    <2>1. ASSUME NEW j \in 0..15
          PROVE  SubSeq(block, 4 * j + 1, 4 * j + 4) \in Seq(Byte)
      <3>1. \A i \in (4 * j + 1)..(4 * j + 4) : i \in 1..Len(block)
        OBVIOUS
      <3>2. \A i \in 1..Len(block) : block[i] \in Byte
        BY ElementOfSeq
      <3>3. \A i \in (4 * j + 1)..(4 * j + 4) : block[i] \in Byte
        BY <3>1, <3>2
      <3> QED BY <3>3, SubSeqProperties
    <2> QED BY <2>1, UintIsLong
  <1> HIDE DEF x
  <1>13. steps \in Nat
    OBVIOUS
  <1>3. ASSUME NEW n \in 1..steps, NEW w \in Registers
        PROVE  Step(n - 1, w, x[Index(n - 1)]) \in Registers
    <2>1. n - 1 \in 0..63 /\ (n - 1) \div 16 \in {0, 1, 2, 3}
      OBVIOUS
    <2>2. Index(n - 1) \in 0..15
      <3>1. \A i \in 0..63 : /\ i % 16 \in 0..15 /\ (5 * i + 1) % 16 \in 0..15
                              /\ (3 * i + 5) % 16 \in 0..15 /\ (7 * i) % 16 \in 0..15
        OBVIOUS
      <3> DEFINE i == n - 1
      <3>2. i \in 0..63 /\ i \div 16 \in {0, 1, 2, 3}
        BY <2>1
      <3> HIDE DEF i
      <3>3. Index(i) \in 0..15
        BY <3>1, <3>2 DEF Index
      <3> QED BY <3>3 DEF i
    <2> QED BY <1>2, <2>1, <2>2, StepIsTyped
  <1>12. v[64] = v[steps]
    OBVIOUS
  <1> HIDE DEF steps
  <1>4. step \in [1..steps -> [Registers -> Registers]]
    BY <1>3
  <1>5. PICK f \in [0..steps -> Registers] : Iterates(f, state, step, steps)
    <2> HIDE DEF step
    <2> QED BY <1>4, <1>13, Recursion
  <1>6. f = E(f)
    <2>1. ASSUME NEW n \in 1..steps
          PROVE  step[n][f[n - 1]] = Step(n - 1, f[n - 1], x[Index(n - 1)])
      <3>1. n - 1 \in 0..steps
        BY <1>13
      <3>2. f[n - 1] \in Registers
        BY <3>1
      <3> QED BY <3>2
    <2>2. f = [n \in 0..steps |-> IF n = 0 THEN state ELSE step[n][f[n - 1]]]
      BY <1>5 DEF Iterates
    <2> HIDE DEF step
    <2>3. \A n \in 0..steps : n # 0 => n \in 1..steps
      BY <1>13
    <2>4. [n \in 0..steps |-> IF n = 0 THEN state ELSE step[n][f[n - 1]]] = E(f)
      BY <2>1, <2>3
    <2> QED BY <2>2, <2>4
  <1>7. v = E(v)
    <2> HIDE DEF E
    <2> QED BY <1>6
  <1> HIDE DEF v
  <1>8. v[0] = state /\ \A n \in 1..steps : v[n] = Step(n - 1, v[n - 1], x[Index(n - 1)])
    <2> DEFINE following(n) == IF n = 0 THEN state ELSE Step(n - 1, v[n - 1], x[Index(n - 1)])
    <2>1. v = [n \in 0..steps |-> following(n)]
      BY <1>7
    <2> HIDE DEF following
    <2>2. v[0] = following(0) /\ \A n \in 1..steps : v[n] = following(n)
      BY <1>13, <2>1
    <2>3. following(0) = state /\ \A n \in 1..steps : following(n) = Step(n - 1, v[n - 1], x[Index(n - 1)])
      BY <1>13 DEF following
    <2> QED BY <2>2, <2>3
  <1>9. \A n \in 0..steps : v[n] \in Registers
    <2>1. \A n \in 1..steps : v[n - 1] \in Registers => v[n] \in Registers
      BY <1>3, <1>8
    <2> QED BY <1>8, <1>13, <2>1, Values, ZenonT(60)
  <1>10. \A k \in 1..4 : state[k] \in Long /\ v[64][k] \in Long
    <2>1. v[64] \in Registers
      BY <1>9, <1>12, <1>13
    <2> QED BY <2>1 DEF Registers
  <1>11. \A k \in 1..4 : Plus(state[k], v[64][k]) \in Long
    BY <1>10, PlusIsLong
  <1> QED BY <1>1, <1>11 DEF Registers

\* A context between two calls.
Context == [state : Registers, count : Nat, buffer : {b \in Seq(Byte) : Len(b) < 64}]

\* MD5Update, over the blocks that fill its buffer.
LEMMA DigestIsTyped ==
  ASSUME NEW md5 \in Context, NEW input \in Seq(Byte)
  PROVE  MD5Digest(md5, input) \in Context
  <1> DEFINE all == md5.buffer \o input
             full == Len(all) \div 64
             block(n) == SubSeq(all, 64 * n - 63, 64 * n)
             E(f) == [n \in 0..full |-> IF n = 0 THEN md5.state ELSE MD5Transform(f[n - 1], block(n))]
             step == [n \in 1..full |-> [s \in Registers |-> MD5Transform(s, block(n))]]
             state == CHOOSE f : f = E(f)
  <1>1. md5.state \in Registers /\ md5.count \in Nat /\ md5.buffer \in Seq(Byte)
    BY DEF Context
  <1>2. MD5Digest(md5, input) =
          [state |-> state[full], count |-> md5.count + 8 * Len(input),
           buffer |-> SubSeq(all, 64 * full + 1, Len(all))]
    BY DEF MD5Digest
  <1>3. all \in Seq(Byte) /\ Len(all) \in Nat
    BY <1>1, ConcatProperties, LenProperties
  <1> HIDE DEF all
  <1>4. full \in Nat /\ 64 * full <= Len(all) /\ Len(all) < 64 * full + 64
    BY <1>3
  <1>5. \A i \in 1..Len(all) : all[i] \in Byte
    BY <1>3, ElementOfSeq
  <1> HIDE DEF full
  <1>6. ASSUME NEW n \in 1..full
        PROVE  block(n) \in Seq(Byte) /\ Len(block(n)) = 64
    <2>1. /\ 64 * n - 63 \in Int /\ 64 * n \in Int /\ 64 * n - 63 <= 64 * n
          /\ 64 * n - (64 * n - 63) + 1 = 64
      BY <1>4
    <2>2. \A i \in (64 * n - 63)..(64 * n) : i \in 1..Len(all)
      BY <1>3, <1>4
    <2>3. \A i \in (64 * n - 63)..(64 * n) : all[i] \in Byte
      BY <1>5, <2>2
    <2> QED BY <2>1, <2>3, SubSeqProperties
  <1> HIDE DEF block
  <1>7. \A n \in 1..full, s \in Registers : MD5Transform(s, block(n)) \in Registers
    BY <1>6, TransformIsTyped
  <1>8. step \in [1..full -> [Registers -> Registers]]
    BY <1>7
  <1>9. PICK f \in [0..full -> Registers] : Iterates(f, md5.state, step, full)
    <2> HIDE DEF step
    <2> QED BY <1>1, <1>4, <1>8, Recursion
  <1>10. f = E(f)
    <2>1. ASSUME NEW n \in 1..full
          PROVE  step[n][f[n - 1]] = MD5Transform(f[n - 1], block(n))
      <3>1. n - 1 \in 0..full
        BY <1>4
      <3>2. f[n - 1] \in Registers
        BY <3>1
      <3> QED BY <3>2
    <2>2. f = [n \in 0..full |-> IF n = 0 THEN md5.state ELSE step[n][f[n - 1]]]
      BY <1>9 DEF Iterates
    <2> HIDE DEF step
    <2>3. \A n \in 0..full : n # 0 => n \in 1..full
      BY <1>4
    <2>4. [n \in 0..full |-> IF n = 0 THEN md5.state ELSE step[n][f[n - 1]]] = E(f)
      BY <2>1, <2>3
    <2> QED BY <2>2, <2>4
  <1>11. state = E(state)
    <2> HIDE DEF E
    <2> QED BY <1>10
  <1> HIDE DEF state
  <1>12. state[0] = md5.state /\ \A n \in 1..full : state[n] = MD5Transform(state[n - 1], block(n))
    BY <1>4, <1>11
  <1>13. \A n \in 0..full : state[n] \in Registers
    BY <1>1, <1>4, <1>7, <1>12, Values
  <1>14. state[full] \in Registers
    BY <1>4, <1>13
  <1>15. md5.count + 8 * Len(input) \in Nat
    BY <1>1, LenProperties
  <1>16. /\ SubSeq(all, 64 * full + 1, Len(all)) \in Seq(Byte)
         /\ Len(SubSeq(all, 64 * full + 1, Len(all))) < 64
    <2>1. \A i \in (64 * full + 1)..Len(all) : all[i] \in Byte
      BY <1>3, <1>4, <1>5
    <2>2. 64 * full + 1 \in Int /\ Len(all) \in Int /\ Len(all) - (64 * full + 1) + 1 < 64
      BY <1>3, <1>4
    <2> QED BY <2>1, <2>2, SubSeqProperties
  <1> QED BY <1>2, <1>14, <1>15, <1>16 DEF Context

\* A string of zeroes.
LEMMA ZeroesAre ==
  ASSUME NEW n \in Nat
  PROVE  Zeroes(n) \in Seq(Byte) /\ Len(Zeroes(n)) = n
  <1>1. [i \in 1..n |-> 0] \in [1..n -> Byte]
    BY DEF Byte
  <1> QED BY <1>1, FunctionsAreSequences DEF Zeroes, Tuple

\* MD5Final returns 16 bytes.
LEMMA CloseIsBlock ==
  ASSUME NEW md5 \in Context
  PROVE  Bytes16(MD5Close(md5))
  <1> DEFINE last == EncodeCount(md5.count) \o Zeroes(4)
             s == MD5Digest(MD5Digest(md5, Padding(md5)), last).state
  <1>1. Padding(md5) \in Seq(Byte)
    <2> DEFINE index == Len(md5.buffer)
    <2>1. index \in 0..63
      <3>1. md5.buffer \in Seq(Byte) /\ Len(md5.buffer) < 64
        BY DEF Context
      <3>2. Len(md5.buffer) \in Nat
        BY <3>1, LenProperties
      <3>3. index \in Nat /\ index < 64
        BY <3>1, <3>2
      <3> HIDE DEF index
      <3> QED BY <3>3
    <2> HIDE DEF index
    <2>2. (IF index < 56 THEN 56 - index ELSE 120 - index) - 1 \in Nat
      BY <2>1
    <2>3. <<128>> \in Seq(Byte)
      BY DEF Byte
    <2> QED BY <2>2, <2>3, ZeroesAre, ConcatProperties DEF Padding, index
  <1>2. last \in Seq(Byte)
    <2>1. md5.count \in Nat
      BY DEF Context
    <2>2. \A n \in Nat : n % 256 \in Byte /\ n \div 256 \in Nat /\ n \div 65536 \in Nat /\ n \div 16777216 \in Nat
      BY DEF Byte
    <2>3. EncodeCount(md5.count) \in Word
      BY <2>1, <2>2 DEF EncodeCount, Word
    <2> QED BY <2>3, WordsAreStrings, ZeroesAre, ConcatProperties
  <1> HIDE DEF last
  <1>3. s \in Registers
    <2>1. MD5Digest(MD5Digest(md5, Padding(md5)), last) \in Context
      BY <1>1, <1>2, DigestIsTyped
    <2> QED BY <2>1 DEF Context
  <1>4. MD5Close(md5) = Joined(<<Encode(s[1]), Encode(s[2]), Encode(s[3]), Encode(s[4])>>)
    BY DEF MD5Close, last
  <1> HIDE DEF s
  <1>5. ASSUME NEW x \in Long
        PROVE  Encode(x) \in [1..4 -> Byte]
    <2>1. \A i \in 1..4 : x[i] \in Byte
      BY LongAssumption DEF Long, String
    <2>2. Encode(x) \in Seq(Byte) /\ Len(Encode(x)) = 4
      BY <2>1, SubSeqProperties DEF Encode
    <2> QED BY <2>2, LenProperties
  <1>6. <<Encode(s[1]), Encode(s[2]), Encode(s[3]), Encode(s[4])>> \in [1..4 -> [1..4 -> Byte]]
    BY <1>3, <1>5 DEF Registers
  <1> QED BY <1>4, <1>6, JoinedBytes

\* MD5Init returns a context.
LEMMA OpenIsTyped ==
  MD5Open \in Context
  <1>1. /\ Uint(<<1, 35, 69, 103>>) \in Long /\ Uint(<<137, 171, 205, 239>>) \in Long
        /\ Uint(<<254, 220, 186, 152>>) \in Long /\ Uint(<<118, 84, 50, 16>>) \in Long
    <2>1. /\ <<1, 35, 69, 103>> \in Word /\ <<137, 171, 205, 239>> \in Word
          /\ <<254, 220, 186, 152>> \in Word /\ <<118, 84, 50, 16>> \in Word
      BY DEF Word, Byte
    <2> QED BY <2>1, WordsAreStrings, UintIsLong
  <1>2. <<>> \in Seq(Byte) /\ Len(<<>>) = 0
    BY EmptySeq
  <1> QED BY <1>1, <1>2 DEF MD5Open, Context, Registers

-----------------------------------------------------------------------------
(* Class Checksum.                                                          *)

\* The key of a block has 128 bits.
LEMMA KeyIsBlock ==
  ASSUME NEW img, IsImage(img), NEW b \in BlockIndexes
  PROVE  Bytes16(KeyOf(img, b))
  <1>1. img[0] \in Seq(Byte) /\ img[1] \in Seq(Byte)
    BY DEF IsImage, Bytes16, BlockIndexes
  <1>2. <<b>> \in Seq(Byte)
    <2>1. b \in Byte
      BY DEF BlockIndexes, Byte
    <2> QED BY <2>1
  <1>3. HashConst \in Seq(Byte)
    BY DEF HashConst, Byte
  <1>4. img[0] \o img[1] \o <<b>> \o HashConst \in Seq(Byte)
    BY <1>1, <1>2, <1>3, ConcatProperties
  <1> QED BY <1>4, OpenIsTyped, DigestIsTyped, CloseIsBlock DEF KeyOf

\* An unsigned short, by its bounds.
LEMMA ShortBounds ==
  \A x : x \in Short <=> x \in Int /\ 0 <= x /\ x <= 65535
  <1> DEFINE max == 65535
  <1>1. Short = 0..max
    BY DEF Short
  <1>2. max \in Nat
    OBVIOUS
  <1> HIDE DEF max
  <1>3. \A x : x \in Short <=> x \in Int /\ 0 <= x /\ x <= max
    BY <1>1, <1>2
  <1> QED BY <1>3 DEF max

\* An unsigned short has two bytes,
LEMMA ShortHasTwoBytes ==
  ASSUME NEW x \in Short
  PROVE  x \div 256 \in Byte /\ x % 256 \in Byte
  BY ShortBounds, ByteBounds

\* and two bytes make one.
LEMMA TwoBytesAreShort ==
  ASSUME NEW a \in Byte, NEW b \in Byte
  PROVE  256 * a + b \in Short
  BY ShortBounds, ByteBounds

\* A shift by one place.
LEMMA DoubledShort ==
  ASSUME NEW n \in Short
  PROVE  (2 * n) % 65536 \in Short
  BY ShortBounds

\* The polynomial, or none.
LEMMA PolynomialIsShort ==
  ASSUME NEW n \in {0, 1}
  PROVE  n * 4129 \in Short
  <1>1. 0 * 4129 \in Short
    BY ShortBounds
  <1>2. 1 * 4129 \in Short
    BY ShortBounds
  <1> QED BY <1>1, <1>2

\* Exclusive or of unsigned shorts.
LEMMA XorShortIsShort ==
  ASSUME NEW x \in Short, NEW y \in Short
  PROVE  XorShort(x, y) \in Short
  <1>1. /\ x \div 256 \in Byte /\ y \div 256 \in Byte /\ x % 256 \in Byte /\ y % 256 \in Byte
    BY ShortHasTwoBytes
  <1>2. XorByte(x \div 256, y \div 256) \in Byte /\ XorByte(x % 256, y % 256) \in Byte
    BY <1>1, XorDigits
  <1> QED BY <1>2, TwoBytesAreShort DEF XorShort

\* UpdateCcittCrc16, over the digits of a byte.
LEMMA UpdateIsShort ==
  ASSUME NEW crc16 \in Short, NEW data \in Byte
  PROVE  UpdateCcittCrc16(crc16, data) \in Short
  <1> DEFINE V == [crc : Short, num2 : Short]
             a == [crc |-> crc16, num2 |-> data * 256]
             num3(w) == IF XorShort(w.crc, w.num2) > 32767 THEN 1 ELSE 0
             Upd(w) == [crc |-> XorShort((2 * w.crc) % 65536, num3(w) * 4129),
                        num2 |-> (2 * w.num2) % 65536]
             E(f) == [i \in 0..8 |-> IF i = 0 THEN a ELSE Upd(f[i - 1])]
             step == [i \in 1..8 |-> [w \in V |-> Upd(w)]]
             after == CHOOSE f : f = E(f)
  <1>1. a \in V
    <2>1. data * 256 \in Short
      BY ShortBounds, ByteBounds
    <2> QED BY <2>1
  <1>2. ASSUME NEW w \in V
        PROVE  Upd(w) \in V
    <2>1. w.crc \in Short /\ w.num2 \in Short /\ num3(w) \in {0, 1}
      OBVIOUS
    <2> HIDE DEF num3
    <2>2. (2 * w.crc) % 65536 \in Short /\ (2 * w.num2) % 65536 \in Short /\ num3(w) * 4129 \in Short
      BY <2>1, DoubledShort, PolynomialIsShort
    <2> QED BY <2>1, <2>2, XorShortIsShort
  <1>3. UpdateCcittCrc16(crc16, data) = after[8].crc
    BY DEF UpdateCcittCrc16
  <1> HIDE DEF a, Upd
  <1>4. step \in [1..8 -> [V -> V]]
    BY <1>2
  <1>5. PICK f \in [0..8 -> V] : Iterates(f, a, step, 8)
    <2> HIDE DEF step, V
    <2> QED BY <1>1, <1>4, Recursion
  <1>6. f = E(f)
    <2> HIDE DEF V
    <2>1. ASSUME NEW i \in 1..8
          PROVE  step[i][f[i - 1]] = Upd(f[i - 1])
      <3>1. i - 1 \in 0..8
        OBVIOUS
      <3>2. f[i - 1] \in V
        BY <3>1
      <3> QED BY <3>2
    <2>2. f = [i \in 0..8 |-> IF i = 0 THEN a ELSE step[i][f[i - 1]]]
      BY <1>5 DEF Iterates
    <2> HIDE DEF step
    <2>3. \A i \in 0..8 : i # 0 => i \in 1..8
      OBVIOUS
    <2>4. [i \in 0..8 |-> IF i = 0 THEN a ELSE step[i][f[i - 1]]] = E(f)
      BY <2>1, <2>3
    <2> QED BY <2>2, <2>4
  <1>7. after = E(after)
    <2> HIDE DEF E
    <2> QED BY <1>6
  <1> HIDE DEF after
  <1>8. after[0] = a /\ \A i \in 1..8 : after[i] = Upd(after[i - 1])
    BY <1>7
  <1>9. \A i \in 0..8 : after[i] \in V
    <2> HIDE DEF V
    <2> QED BY <1>1, <1>2, <1>8, Values
  <1>10. after[8] \in V
    BY <1>9
  <1> QED BY <1>3, <1>10

\* A loop over the accumulator, as a function of where it starts.
LEMMA CrcIsShort ==
  ASSUME NEW crc16 \in Short, NEW bytes \in Seq(Byte)
  PROVE  CrcOver(crc16, bytes) \in Short
  <1> DEFINE n == Len(bytes)
             V == [Short -> Short]
             a == [crc \in Short |-> crc]
             byte(i) == bytes[n - i + 1]
             Upd(g, i) == [crc \in Short |-> g[UpdateCcittCrc16(crc, byte(i))]]
             E(f) == [i \in 0..n |-> [crc \in Short |-> IF i = 0 THEN crc
                                                        ELSE f[i - 1][UpdateCcittCrc16(crc, byte(i))]]]
             step == [i \in 1..n |-> [g \in V |-> Upd(g, i)]]
             rest == CHOOSE f : f = E(f)
  <1>1. a \in V /\ n \in Nat
    BY LenProperties
  <1>2. ASSUME NEW i \in 1..n
        PROVE  byte(i) \in Byte
    <2>1. n - i + 1 \in 1..n
      BY <1>1
    <2> QED BY <2>1, ElementOfSeq
  <1>3. CrcOver(crc16, bytes) = rest[n][crc16]
    BY DEF CrcOver
  <1> HIDE DEF n, byte
  <1>4. ASSUME NEW i \in 1..n, NEW g \in V
        PROVE  Upd(g, i) \in V
    BY <1>2, UpdateIsShort
  <1>5. step \in [1..n -> [V -> V]]
    BY <1>4
  <1>6. PICK f \in [0..n -> V] : Iterates(f, a, step, n)
    <2> HIDE DEF step, V, a
    <2> QED BY <1>1, <1>5, Recursion
  <1>7. ASSUME NEW i \in 1..n
        PROVE  i - 1 \in 0..n /\ i \in 0..n
    BY <1>1
  <1>8. f = E(f)
    <2>1. ASSUME NEW i \in 1..n
          PROVE  step[i][f[i - 1]] = Upd(f[i - 1], i)
      <3> HIDE DEF V, Upd
      <3> QED BY <1>7
    <2>2. f = [i \in 0..n |-> IF i = 0 THEN a ELSE step[i][f[i - 1]]]
      BY <1>6 DEF Iterates
    <2> HIDE DEF step, V
    <2>3. \A i \in 0..n : i # 0 => i \in 1..n
      BY <1>1
    <2>4. \A i \in 0..n : (IF i = 0 THEN a ELSE step[i][f[i - 1]])
                         = [crc \in Short |-> IF i = 0 THEN crc
                                              ELSE f[i - 1][UpdateCcittCrc16(crc, byte(i))]]
      BY <2>1, <2>3
    <2>5. [i \in 0..n |-> IF i = 0 THEN a ELSE step[i][f[i - 1]]] = E(f)
      BY <2>4
    <2> QED BY <2>2, <2>5
  <1>9. rest = E(rest)
    <2> HIDE DEF E
    <2> QED BY <1>8
  <1> HIDE DEF rest
  <1>10. rest[0] = a /\ \A i \in 1..n : rest[i] = Upd(rest[i - 1], i)
    <2>1. \A i \in 0..n : rest[i] = [crc \in Short |-> IF i = 0 THEN crc
                                                      ELSE rest[i - 1][UpdateCcittCrc16(crc, byte(i))]]
      BY <1>9
    <2> QED BY <1>1, <1>7, <2>1
  <1> HIDE DEF Upd, a, V
  <1>11. \A i \in 0..n : rest[i] \in V
    BY <1>1, <1>4, <1>10, Values
  <1>12. rest[n] \in V
    BY <1>1, <1>11
  <1> QED BY <1>3, <1>12 DEF V

\* One block of ComputeChecksum for types 2 and 3.
LEMMA OverBlockIsShort ==
  ASSUME NEW img, IsImage(img), NEW area \in {0, 1}, NEW start \in {1, 5}, NEW b \in Int, start <= b,
         NEW crc16 \in Short
  PROVE  OverBlock(img, area, start, b, crc16) \in Short
  <1>1. Zeroes(16) \in Seq(Byte)
    BY ZeroesAre
  <1>2. ASSUME b < start + 4
        PROVE  img[AreaBlock(area) + b] \in Seq(Byte)
    <2>1. AreaBlock(area) \in {8, 36}
      BY DEF AreaBlock
    <2>2. b \in 1..8
      BY <1>2
    <2>3. AreaBlock(area) + b \in BlockIndexes
      BY <2>1, <2>2 DEF BlockIndexes
    <2> QED BY <2>3 DEF IsImage, Bytes16
  <1> QED BY <1>1, <1>2, CrcIsShort DEF OverBlock

\* All of them.
LEMMA OverBlocksIsShort ==
  ASSUME NEW img, IsImage(img), NEW area \in {0, 1}, NEW start \in {1, 5}, NEW last \in {4, 27}, start <= last
  PROVE  OverBlocks(img, area, start, last) \in Short
  <1> DEFINE n == last - start + 1
             V == [Short -> Short]
             a == [crc \in Short |-> crc]
             Over(i, crc) == OverBlock(img, area, start, last - i + 1, crc)
             Upd(g, i) == [crc \in Short |-> g[Over(i, crc)]]
             E(f) == [i \in 0..n |-> [crc \in Short |-> IF i = 0 THEN crc ELSE f[i - 1][Over(i, crc)]]]
             step == [i \in 1..n |-> [g \in V |-> Upd(g, i)]]
             rest == CHOOSE f : f = E(f)
  <1>1. a \in V /\ n \in Nat
    OBVIOUS
  <1>2. ASSUME NEW i \in 1..n, NEW crc \in Short
        PROVE  Over(i, crc) \in Short
    <2>1. last - i + 1 \in Int /\ start <= last - i + 1
      OBVIOUS
    <2> QED BY <2>1, OverBlockIsShort
  <1>3. OverBlocks(img, area, start, last) = rest[n][65535]
    BY DEF OverBlocks
  <1> HIDE DEF n, Over
  <1>4. ASSUME NEW i \in 1..n, NEW g \in V
        PROVE  Upd(g, i) \in V
    BY <1>2
  <1>5. step \in [1..n -> [V -> V]]
    BY <1>4
  <1>6. PICK f \in [0..n -> V] : Iterates(f, a, step, n)
    <2> HIDE DEF step, V, a
    <2> QED BY <1>1, <1>5, Recursion
  <1>7. ASSUME NEW i \in 1..n
        PROVE  i - 1 \in 0..n /\ i \in 0..n
    BY <1>1
  <1>8. f = E(f)
    <2>1. ASSUME NEW i \in 1..n
          PROVE  step[i][f[i - 1]] = Upd(f[i - 1], i)
      <3> HIDE DEF V, Upd
      <3> QED BY <1>7
    <2>2. f = [i \in 0..n |-> IF i = 0 THEN a ELSE step[i][f[i - 1]]]
      BY <1>6 DEF Iterates
    <2> HIDE DEF step, V
    <2>3. \A i \in 0..n : i # 0 => i \in 1..n
      BY <1>1
    <2>4. \A i \in 0..n : (IF i = 0 THEN a ELSE step[i][f[i - 1]])
                         = [crc \in Short |-> IF i = 0 THEN crc ELSE f[i - 1][Over(i, crc)]]
      BY <2>1, <2>3
    <2>5. [i \in 0..n |-> IF i = 0 THEN a ELSE step[i][f[i - 1]]] = E(f)
      BY <2>4
    <2> QED BY <2>2, <2>5
  <1>9. rest = E(rest)
    <2> HIDE DEF E
    <2> QED BY <1>8
  <1> HIDE DEF rest
  <1>10. rest[0] = a /\ \A i \in 1..n : rest[i] = Upd(rest[i - 1], i)
    <2>1. \A i \in 0..n : rest[i] = [crc \in Short |-> IF i = 0 THEN crc ELSE rest[i - 1][Over(i, crc)]]
      BY <1>9
    <2> QED BY <1>1, <1>7, <2>1
  <1> HIDE DEF Upd, a, V
  <1>11. \A i \in 0..n : rest[i] \in V
    BY <1>1, <1>4, <1>10, Values
  <1>12. rest[n] \in V
    BY <1>1, <1>11
  <1>13. 65535 \in Short
    BY ShortBounds
  <1> QED BY <1>3, <1>12, <1>13 DEF V

\* ComputeCcittCrc16.
LEMMA CcittIsShort ==
  ASSUME NEW bytes \in Seq(Byte)
  PROVE  ComputeCcittCrc16(bytes) \in Short
  <1>1. 65535 \in Short
    BY ShortBounds
  <1> QED BY <1>1, CrcIsShort DEF ComputeCcittCrc16

\* ComputeChecksum, for every type.
LEMMA ChecksumIsShort ==
  ASSUME NEW img, IsImage(img), NEW type \in 0..3, NEW a \in {0, 1}
  PROVE  ComputeChecksum(img, type, a) \in Short
  <1>1. \A b \in BlockIndexes : img[b] \in Seq(Byte) /\ Len(img[b]) = 16
    BY DEF IsImage, Bytes16
  <1>2. ASSUME NEW b \in BlockIndexes
        PROVE  SubSeq(img[b], 1, 14) \in Seq(Byte)
    <2>1. \A i \in 1..14 : img[b][i] \in Byte
      BY <1>1, ElementOfSeq
    <2> QED BY <2>1, SubSeqProperties
  <1>4. 0 \in BlockIndexes /\ 1 \in BlockIndexes /\ AreaBlock(a) \in BlockIndexes
    BY DEF BlockIndexes, AreaBlock
  <1>5. CASE type = 0
    <2>1. img[0] \o SubSeq(img[1], 1, 14) \in Seq(Byte)
      BY <1>1, <1>2, <1>4, ConcatProperties
    <2>2. ComputeCcittCrc16(img[0] \o SubSeq(img[1], 1, 14)) \in Short
      <3> DEFINE bytes == img[0] \o SubSeq(img[1], 1, 14)
      <3>1. bytes \in Seq(Byte)
        BY <2>1
      <3> HIDE DEF bytes
      <3>2. ComputeCcittCrc16(bytes) \in Short
        BY <3>1, CcittIsShort
      <3> QED BY <3>2 DEF bytes
    <2> QED BY <1>5, <2>2 DEF ComputeChecksum
  <1>6. CASE type = 1
    <2>1. <<5, 0>> \in Seq(Byte)
      BY DEF Byte
    <2>2. SubSeq(img[AreaBlock(a)], 1, 14) \o <<5, 0>> \in Seq(Byte)
      BY <1>2, <1>4, <2>1, ConcatProperties
    <2>3. ComputeCcittCrc16(SubSeq(img[AreaBlock(a)], 1, 14) \o <<5, 0>>) \in Short
      <3> DEFINE bytes == SubSeq(img[AreaBlock(a)], 1, 14) \o <<5, 0>>
      <3>1. bytes \in Seq(Byte)
        BY <2>2
      <3> HIDE DEF bytes
      <3>2. ComputeCcittCrc16(bytes) \in Short
        BY <3>1, CcittIsShort
      <3> QED BY <3>2 DEF bytes
    <2> QED BY <1>6, <2>3 DEF ComputeChecksum
  <1>7. CASE type = 2
    <2>1. OverBlocks(img, a, 1, 4) \in Short
      BY OverBlocksIsShort
    <2> QED BY <1>7, <2>1 DEF ComputeChecksum
  <1>8. CASE type = 3
    <2>1. OverBlocks(img, a, 5, 27) \in Short
      BY OverBlocksIsShort
    <2> QED BY <1>8, <2>1 DEF ComputeChecksum
  <1> QED BY <1>5, <1>6, <1>7, <1>8

\* An image, as a function.
LEMMA ImageBlocks ==
  ASSUME NEW img
  PROVE  IsImage(img) <=> img \in [BlockIndexes -> String(16)]
  BY BlocksAreStrings DEF IsImage

\* The two bytes that overwriteChecksum stores are bytes.
LEMMA WithChecksumIsImage ==
  ASSUME NEW img, IsImage(img), NEW type \in 0..3, NEW a \in {0, 1}, NEW sum \in Short
  PROVE  IsImage(WithChecksum(img, type, a, sum))
  <1>1. sum % 256 \in Byte /\ sum \div 256 \in Byte
    BY ShortHasTwoBytes
  <1>2. img \in [BlockIndexes -> [1..16 -> Byte]]
    BY ImageBlocks DEF String
  <1>3. WithChecksum(img, type, a, sum) \in [BlockIndexes -> [1..16 -> Byte]]
    BY <1>1, <1>2, ZenonT(60) DEF WithChecksum
  <1> QED BY <1>3, ImageBlocks DEF String

\* The sequence number stays a byte.
LEMMA PreparedIsImage ==
  ASSUME NEW img, IsImage(img), NEW type \in 0..3, NEW a \in {0, 1}
  PROVE  IsImage(Prepared(img, type, a))
  <1>1. img \in [BlockIndexes -> [1..16 -> Byte]]
    BY ImageBlocks DEF String
  <1>2. \A x \in Byte : (x + 1) % 256 \in Byte
    BY ByteBounds
  <1>3. 10 \in 1..16
    OBVIOUS
  <1>4. BumpSequence(img, a) \in [BlockIndexes -> [1..16 -> Byte]]
    <2> DEFINE b == AreaBlock(a)
               block == [img[b] EXCEPT ![10] = (img[b][10] + 1) % 256]
    <2>1. BumpSequence(img, a) = [img EXCEPT ![b] = block]
      BY DEF BumpSequence
    <2>2. b \in BlockIndexes
      BY DEF AreaBlock, BlockIndexes
    <2> HIDE DEF b
    <2>3. img[b] \in [1..16 -> Byte]
      BY <1>1, <2>2
    <2>4. (img[b][10] + 1) % 256 \in Byte
      BY <1>2, <1>3, <2>3
    <2>5. block \in [1..16 -> Byte]
      BY <2>3, <2>4
    <2> HIDE DEF block
    <2> QED BY <1>1, <2>1, <2>5
  <1>5. IsImage(BumpSequence(img, a))
    BY <1>4, ImageBlocks DEF String
  <1> QED BY <1>5 DEF Prepared

-----------------------------------------------------------------------------
(* The inductive invariant.                                                 *)

\* A block as rijndael.cpp encrypts it, and as it decrypts it.
Sealed(block, key) == rijndaelEncrypt(rijndaelSetupEncrypt(key), block)
Opened(block, key) == rijndaelDecrypt(rijndaelSetupDecrypt(key), block)

\* Block b of img, with n layers of encryption.
Coded(n, img, b) ==
  IF n = 0 \/ ~ShouldEncryptBlock(b) THEN img[b]
  ELSE IF n = 1 THEN Sealed(img[b], KeyOf(img, b)) ELSE Opened(img[b], KeyOf(img, b))

\* The layers that block b has got, up to here in the pass.
Depth(b) ==
  IF b >= next THEN layers
  ELSE IF pass = "encrypt" THEN layers + 1
  ELSE IF pass = "decrypt" THEN layers - 1 ELSE layers

\* Every block is the plain one in as many layers as the passes have given it, under the
\* key that the plain image has for it.
ImageInv ==
  /\ IsImage(image) /\ IsImage(plain)
  /\ \A b \in BlockIndexes : image[b] = Coded(Depth(b), plain, b)

PassInv ==
  /\ layers \in -1..1 /\ next \in 0..64 /\ upgraded \in BOOLEAN /\ matches \in BOOLEAN
  /\ pass \in {"none", "encrypt", "decrypt", "validate", "overwrite"}
  /\ pass = "encrypt" => layers \in {-1, 0}
  /\ pass = "decrypt" => layers \in {0, 1}
  /\ pass \in {"validate", "overwrite"} => layers = 0 /\ next <= 8

KeyInv ==
  /\ aesKey # <<>> => /\ pass \in {"encrypt", "decrypt"} /\ next < 64 /\ ShouldEncryptBlock(next)
                      /\ aesKey = KeyOf(plain, next)
  /\ rk # <<>> => /\ aesKey # <<>>
                  /\ rk = IF pass = "encrypt" THEN rijndaelSetupEncrypt(aesKey)
                                              ELSE rijndaelSetupDecrypt(aesKey)

IInv == ImageInv /\ PassInv /\ KeyInv

\* A pass adds a layer to a block, or takes one off.
LEMMA CodedBlocks ==
  ASSUME NEW img, IsImage(img), NEW b \in BlockIndexes
  PROVE  /\ Coded(0, img, b) = img[b]
         /\ ~ShouldEncryptBlock(b) => \A n : Coded(n, img, b) = img[b]
         /\ ShouldEncryptBlock(b) =>
              LET key == KeyOf(img, b)
              IN /\ Sealed(Coded(0, img, b), key) = Coded(1, img, b)
                 /\ Sealed(Coded(-1, img, b), key) = Coded(0, img, b)
                 /\ Opened(Coded(1, img, b), key) = Coded(0, img, b)
                 /\ Opened(Coded(0, img, b), key) = Coded(-1, img, b)
  <1> DEFINE key == KeyOf(img, b)
  <1>1. Bytes16(key) /\ Bytes16(img[b])
    BY KeyIsBlock DEF IsImage
  <1>2. Opened(Sealed(img[b], key), key) = img[b] /\ Sealed(Opened(img[b], key), key) = img[b]
    BY <1>1, CipherInverts DEF Sealed, Opened
  <1> HIDE DEF key
  <1>3. Coded(0, img, b) = img[b] /\ (~ShouldEncryptBlock(b) => \A n : Coded(n, img, b) = img[b])
    BY DEF Coded
  <1>4. ShouldEncryptBlock(b) => /\ Coded(1, img, b) = Sealed(img[b], key)
                                 /\ Coded(-1, img, b) = Opened(img[b], key)
    BY DEF Coded, key
  <1> QED BY <1>2, <1>3, <1>4 DEF key

\* The key of a block depends on blocks that no pass touches.
LEMMA KeysAreKept ==
  ASSUME ImageInv, NEW b
  PROVE  KeyOf(image, b) = KeyOf(plain, b)
  <1>1. 0 \in BlockIndexes /\ 1 \in BlockIndexes /\ ~ShouldEncryptBlock(0) /\ ~ShouldEncryptBlock(1)
    BY DEF BlockIndexes, ShouldEncryptBlock
  <1>2. image[0] = plain[0] /\ image[1] = plain[1]
    BY <1>1, CodedBlocks DEF ImageInv
  <1> QED BY <1>2 DEF KeyOf

\* IInv holds at first.
LEMMA InvInit == Init => IInv
  <1> SUFFICES ASSUME Init PROVE IInv
    OBVIOUS
  <1>1. IsImage(image) /\ plain = image
    BY ImagesAssumption DEF Init
  <1>2. ImageInv
    BY <1>1, CodedBlocks DEF Init, ImageInv, Depth
  <1>3. PassInv
    <2>1. layers = 0 /\ next = 0 /\ pass = "none" /\ upgraded \in BOOLEAN /\ matches \in BOOLEAN
      BY DEF Init
    <2> QED BY <2>1 DEF PassInv
  <1>4. KeyInv
    BY DEF Init, KeyInv
  <1> QED BY <1>2, <1>3, <1>4 DEF IInv

\* Every action keeps it.
LEMMA InvNext == IInv /\ [Next]_vars => IInv'
  <1> SUFFICES ASSUME IInv, [Next]_vars PROVE IInv'
    OBVIOUS
  <1> USE DEF IInv
  \* What a step that leaves image, plain and the keys alone has to keep.
  <1>a. ASSUME image' = image, plain' = plain,
               \A b \in BlockIndexes : Coded(Depth(b)', plain, b) = Coded(Depth(b), plain, b)
        PROVE  ImageInv'
    BY <1>a DEF ImageInv
  <1>b. ASSUME aesKey = <<>>, rk = <<>>, aesKey' = aesKey, rk' = rk
        PROVE  KeyInv'
    BY <1>b DEF KeyInv
  <1>c. \A b \in BlockIndexes : ~ShouldEncryptBlock(b) => \A m, n : Coded(m, plain, b) = Coded(n, plain, b)
    BY CodedBlocks DEF ImageInv
  <1>d. ASSUME pass \notin {"encrypt", "decrypt"} \/ next = 64
        PROVE  aesKey = <<>> /\ rk = <<>>
    BY <1>d DEF KeyInv
  <1>e. layers \in Int /\ next \in Int /\ \A b \in BlockIndexes : b \in Int /\ 0 <= b /\ b <= 63
    BY DEF PassInv, BlockIndexes
  <1>1. CASE EncryptBuffer
    <2>1. /\ pass = "none" /\ pass' = "encrypt" /\ next' = 8 /\ layers < 1
          /\ UNCHANGED <<image, plain, layers, upgraded, aesKey, rk, matches>>
      BY <1>1 DEF EncryptBuffer, Start
    <2>2. ASSUME NEW b \in BlockIndexes
          PROVE  Coded(Depth(b)', plain, b) = Coded(Depth(b), plain, b)
      <3>1. CASE b >= 8
        BY <1>e, <2>1, <3>1 DEF Depth
      <3>2. CASE ~(b >= 8)
        BY <1>c, <3>2 DEF ShouldEncryptBlock
      <3> QED BY <3>1, <3>2
    <2>3. ImageInv'
      BY <1>a, <2>1, <2>2
    <2>4. PassInv'
      BY <2>1 DEF PassInv
    <2> QED BY <1>b, <1>d, <2>1, <2>3, <2>4
  <1>2. CASE DecryptBuffer
    <2>1. /\ pass = "none" /\ pass' = "decrypt" /\ next' = 8 /\ layers > -1
          /\ UNCHANGED <<image, plain, layers, upgraded, aesKey, rk, matches>>
      BY <1>2 DEF DecryptBuffer, Start
    <2>2. ASSUME NEW b \in BlockIndexes
          PROVE  Coded(Depth(b)', plain, b) = Coded(Depth(b), plain, b)
      <3>1. CASE b >= 8
        BY <1>e, <2>1, <3>1 DEF Depth
      <3>2. CASE ~(b >= 8)
        BY <1>c, <3>2 DEF ShouldEncryptBlock
      <3> QED BY <3>1, <3>2
    <2>3. ImageInv'
      BY <1>a, <2>1, <2>2
    <2>4. PassInv'
      BY <2>1 DEF PassInv
    <2> QED BY <1>b, <1>d, <2>1, <2>3, <2>4
  <1>3. CASE SkipBlock
    <2>1. /\ pass \in {"encrypt", "decrypt"} /\ next < 64 /\ ~ShouldEncryptBlock(next)
          /\ next' = next + 1
          /\ UNCHANGED <<image, plain, layers, upgraded, pass, aesKey, rk, matches>>
      BY <1>3 DEF SkipBlock, Looping
    <2>2. ASSUME NEW b \in BlockIndexes
          PROVE  Coded(Depth(b)', plain, b) = Coded(Depth(b), plain, b)
      <3>1. CASE b = next
        BY <1>c, <2>1, <3>1
      <3>2. CASE b # next
        BY <1>e, <2>1, <3>2 DEF Depth
      <3> QED BY <3>1, <3>2
    <2>3. ImageInv'
      BY <1>a, <2>1, <2>2
    <2>4. PassInv'
      BY <2>1 DEF PassInv
    <2>5. KeyInv'
      BY <1>b, <2>1 DEF KeyInv
    <2> QED BY <2>3, <2>4, <2>5
  <1>4. CASE ComputeEncryptionKey
    <2>1. /\ pass \in {"encrypt", "decrypt"} /\ next < 64 /\ ShouldEncryptBlock(next)
          /\ aesKey = <<>> /\ aesKey' = KeyOf(image, next)
          /\ UNCHANGED <<image, plain, layers, upgraded, pass, next, rk, matches>>
      BY <1>4 DEF ComputeEncryptionKey, Looping
    <2>2. ImageInv'
      BY <1>a, <2>1 DEF Depth
    <2>3. PassInv'
      BY <2>1 DEF PassInv
    <2>4. KeyInv'
      BY <2>1, KeysAreKept DEF KeyInv
    <2> QED BY <2>2, <2>3, <2>4
  <1>5. CASE SetupKey
    <2>1. /\ aesKey # <<>> /\ rk = <<>>
          /\ rk' = IF pass = "encrypt" THEN rijndaelSetupEncrypt(aesKey)
                                       ELSE rijndaelSetupDecrypt(aesKey)
          /\ UNCHANGED <<image, plain, layers, upgraded, pass, next, aesKey, matches>>
      BY <1>5 DEF SetupKey
    <2>2. ImageInv'
      BY <1>a, <2>1 DEF Depth
    <2>3. PassInv'
      BY <2>1 DEF PassInv
    <2>4. KeyInv'
      BY <2>1 DEF KeyInv
    <2> QED BY <2>2, <2>3, <2>4
  <1>6. CASE CipherBlock
    <2> DEFINE key == KeyOf(plain, next)
               block == IF pass = "encrypt" THEN Sealed(image[next], key) ELSE Opened(image[next], key)
    <2>1. /\ rk # <<>> /\ aesKey' = <<>> /\ rk' = <<>> /\ next' = next + 1
          /\ UNCHANGED <<plain, layers, upgraded, pass, matches>>
      BY <1>6 DEF CipherBlock
    <2>2. /\ pass \in {"encrypt", "decrypt"} /\ next < 64 /\ ShouldEncryptBlock(next)
          /\ rk = IF pass = "encrypt" THEN rijndaelSetupEncrypt(key) ELSE rijndaelSetupDecrypt(key)
      BY <2>1 DEF KeyInv
    <2>3. next \in BlockIndexes
      BY <2>2 DEF PassInv, BlockIndexes
    <2>4. image' = [image EXCEPT ![next] = block]
      BY <1>6, <2>2 DEF CipherBlock, Sealed, Opened
    <2>5. image[next] = Coded(layers, plain, next)
      BY <1>e, <2>3 DEF ImageInv, Depth
    <2>6. ASSUME NEW b \in BlockIndexes, b = next
          PROVE  block = Coded(Depth(b)', plain, b)
      <3>1. CASE pass = "encrypt"
        <4>1. Depth(b)' = layers + 1 /\ layers \in {-1, 0}
          BY <1>e, <2>1, <2>6, <3>1 DEF Depth, PassInv
        <4>2. block = Sealed(Coded(layers, plain, b), key)
          BY <2>5, <2>6, <3>1
        <4> HIDE DEF key, block
        <4> QED BY <2>2, <2>6, <4>1, <4>2, CodedBlocks DEF ImageInv, key
      <3>2. CASE pass = "decrypt"
        <4>1. Depth(b)' = layers - 1 /\ layers \in {0, 1}
          BY <1>e, <2>1, <2>6, <3>2 DEF Depth, PassInv
        <4>2. block = Opened(Coded(layers, plain, b), key)
          BY <2>5, <2>6, <3>2
        <4> HIDE DEF key, block
        <4> QED BY <2>2, <2>6, <4>1, <4>2, CodedBlocks DEF ImageInv, key
      <3> QED BY <2>2, <3>1, <3>2
    <2>7. Bytes16(block)
      <3>1. Bytes16(key) /\ Bytes16(image[next])
        BY <2>3, KeyIsBlock DEF ImageInv, IsImage
      <3> QED BY <3>1, CipherInverts DEF Sealed, Opened
    <2> HIDE DEF block, key
    <2>8. IsImage(image')
      <3>1. image \in [BlockIndexes -> String(16)] /\ block \in String(16)
        BY <2>7, BlocksAreStrings, ImageBlocks DEF ImageInv
      <3>2. image' \in [BlockIndexes -> String(16)]
        BY <2>4, <3>1
      <3> QED BY <3>2, ImageBlocks
    <2>9. ASSUME NEW b \in BlockIndexes
          PROVE  image'[b] = Coded(Depth(b)', plain', b)
      <3>0. image = [c \in BlockIndexes |-> image[c]]
        BY DEF ImageInv, IsImage
      <3>1. CASE b = next
        BY <2>1, <2>3, <2>4, <2>6, <3>0, <3>1
      <3>2. CASE b # next
        <4>1. Depth(b)' = Depth(b)
          BY <1>e, <2>1, <3>2 DEF Depth
        <4>2. image'[b] = image[b]
          BY <2>4, <3>0, <3>2
        <4> QED BY <2>1, <4>1, <4>2 DEF ImageInv
      <3> QED BY <3>1, <3>2
    <2>10. ImageInv'
      BY <2>1, <2>8, <2>9 DEF ImageInv
    <2>11. PassInv'
      BY <2>1, <2>2 DEF PassInv
    <2>12. KeyInv'
      BY <2>1 DEF KeyInv
    <2> QED BY <2>10, <2>11, <2>12
  <1>7. CASE BufferDone
    <2>1. /\ next = 64 /\ pass' = "none" /\ next' = 0
          /\ \/ pass = "encrypt" /\ layers' = layers + 1
             \/ pass = "decrypt" /\ layers' = layers - 1
          /\ UNCHANGED <<image, plain, upgraded, aesKey, rk, matches>>
      BY <1>7 DEF BufferDone, Finish
    <2>2. \A b \in BlockIndexes : Depth(b)' = Depth(b)
      BY <1>e, <2>1 DEF Depth
    <2>3. ImageInv'
      BY <1>a, <2>1, <2>2
    <2>4. PassInv'
      BY <2>1 DEF PassInv
    <2> QED BY <1>b, <1>d, <2>1, <2>3, <2>4
  <1>8. CASE BeginValidate \/ BeginOverwrite
    <2>1. /\ layers = 0 /\ pass = "none" /\ pass' \in {"validate", "overwrite"} /\ next' = 0
          /\ matches' = TRUE /\ upgraded' \in {upgraded, TRUE}
          /\ UNCHANGED <<image, plain, layers, aesKey, rk>>
      BY <1>8 DEF BeginValidate, BeginOverwrite, Start
    <2>2. \A b \in BlockIndexes : Depth(b)' = Depth(b)
      BY <1>e, <2>1 DEF Depth
    <2>3. ImageInv'
      BY <1>a, <2>1, <2>2
    <2>4. PassInv'
      <3>1. upgraded' \in BOOLEAN /\ matches' \in BOOLEAN
        BY <2>1 DEF PassInv
      <3>2. layers' = 0 /\ next' = 0
        BY <2>1
      <3> QED BY <2>1, <3>1, <3>2 DEF PassInv
    <2> QED BY <1>b, <1>d, <2>1, <2>3, <2>4
  <1>9. CASE ValidateChecksum
    <2>1. /\ pass = "validate" /\ next < 8 /\ next' = next + 1 /\ matches' \in BOOLEAN
          /\ UNCHANGED <<image, plain, layers, upgraded, pass, aesKey, rk>>
      BY <1>9 DEF ValidateChecksum
    <2>2. \A b \in BlockIndexes : Depth(b)' = Depth(b)
      BY <1>e, <2>1 DEF Depth
    <2>3. ImageInv'
      BY <1>a, <2>1, <2>2
    <2>4. PassInv'
      <3>1. layers = 0 /\ next \in 0..7 /\ upgraded \in BOOLEAN
        BY <2>1 DEF PassInv
      <3>2. next' \in 0..8
        BY <2>1, <3>1
      <3> QED BY <2>1, <3>1, <3>2 DEF PassInv
    <2> QED BY <1>b, <1>d, <2>1, <2>3, <2>4
  <1>10. CASE OverwriteChecksum
    <2> DEFINE img == Prepared(image, Type, DataArea)
               sum == ComputeChecksum(img, Type, DataArea)
    <2>1. /\ pass = "overwrite" /\ next < 8 /\ next' = next + 1 /\ matches' \in BOOLEAN
          /\ image' = WithChecksum(img, Type, DataArea, sum) /\ plain' = image'
          /\ UNCHANGED <<layers, upgraded, pass, aesKey, rk>>
      BY <1>10 DEF OverwriteChecksum
    <2>2. Type \in 0..3 /\ DataArea \in {0, 1}
      BY <1>e, <2>1 DEF Type, DataArea, PassInv
    <2>3. IsImage(img)
      BY <2>2, PreparedIsImage DEF ImageInv
    <2> HIDE DEF img
    <2>4. sum \in Short
      BY <2>2, <2>3, ChecksumIsShort
    <2> HIDE DEF sum
    <2>5. IsImage(image')
      BY <2>1, <2>2, <2>3, <2>4, WithChecksumIsImage
    <2>6. ASSUME NEW b \in BlockIndexes
          PROVE  image'[b] = Coded(Depth(b)', plain', b)
      <3>1. Depth(b)' = 0
        BY <2>1 DEF Depth, PassInv
      <3> QED BY <2>1, <2>5, <3>1, CodedBlocks
    <2>7. ImageInv'
      BY <2>1, <2>5, <2>6 DEF ImageInv
    <2>8. PassInv'
      BY <2>1 DEF PassInv
    <2> QED BY <1>b, <1>d, <2>1, <2>7, <2>8
  <1>11. CASE ChecksumsDone
    <2>1. /\ pass \in {"validate", "overwrite"} /\ pass' = "none" /\ next' = 0
          /\ UNCHANGED <<image, plain, layers, upgraded, aesKey, rk, matches>>
      BY <1>11 DEF ChecksumsDone, Finish
    <2>2. \A b \in BlockIndexes : Depth(b)' = Depth(b)
      BY <1>e, <2>1 DEF Depth
    <2>3. ImageInv'
      BY <1>a, <2>1, <2>2
    <2>4. PassInv'
      BY <2>1 DEF PassInv
    <2> QED BY <1>b, <1>d, <2>1, <2>3, <2>4
  <1>12. CASE UNCHANGED vars
    BY <1>12 DEF vars, ImageInv, PassInv, KeyInv, Depth
  <1> QED BY <1>1, <1>2, <1>3, <1>4, <1>5, <1>6, <1>7, <1>8, <1>9, <1>10, <1>11, <1>12 DEF Next

\* The inductive invariant, with layers that each block has got so far.
LEMMA Invariance == Spec => []IInv
  BY InvInit, InvNext, PTL DEF Spec

\* The buffer stays 64 blocks of 16 bytes whatever crypt.cpp and checksum.cpp store in it,
\* a key is 16 bytes and only computed for a block of the buffer that is encrypted, and round
\* keys are 11.
THEOREM TypeCorrect == Spec => []TypeOK
  <1>1. IInv => TypeOK
    <2> SUFFICES ASSUME IInv PROVE TypeOK
      OBVIOUS
    <2>1. IsImage(image) /\ {upgraded, matches} \subseteq BOOLEAN
      BY DEF IInv, ImageInv, PassInv
    <2>2. /\ layers \in -1..1 /\ next \in 0..64
          /\ pass \in {"none", "encrypt", "decrypt", "validate", "overwrite"}
      BY DEF IInv, PassInv
    <2>3. ASSUME aesKey # <<>>
          PROVE  Bytes16(aesKey) /\ next < 64 /\ ShouldEncryptBlock(next)
      <3>1. /\ next \in BlockIndexes /\ next < 64 /\ ShouldEncryptBlock(next)
            /\ aesKey = KeyOf(plain, next)
        BY <2>3 DEF IInv, KeyInv, PassInv, BlockIndexes
      <3> QED BY <3>1, KeyIsBlock DEF IInv, ImageInv
    <2>4. ASSUME rk # <<>>
          PROVE  aesKey # <<>> /\ DOMAIN rk = 1..11
      <3>1. /\ aesKey # <<>>
            /\ rk \in {rijndaelSetupEncrypt(aesKey), rijndaelSetupDecrypt(aesKey)}
        BY <2>4 DEF IInv, KeyInv
      <3>2. rk \in RoundKeys
        BY <2>3, <3>1, KeySchedule, DecryptionKeys DEF RoundKeys
      <3> QED BY <3>1, <3>2 DEF RoundKeys
    <2> QED BY <2>1, <2>2, <2>3, <2>4 DEF TypeOK
  <1> QED BY <1>1, Invariance, PTL

\* Encrypted and decrypted, or decrypted and encrypted, an image is what it was, byte for
\* byte: the passes of fileio.cpp use the same key for a block both times.
THEOREM ImagesComeBack == Spec => []RoundTrip
  <1>1. IInv => RoundTrip
    <2> SUFFICES ASSUME IInv, pass = "none", layers = 0 PROVE image = plain
      BY DEF RoundTrip
    <2>1. image = [b \in BlockIndexes |-> image[b]] /\ plain = [b \in BlockIndexes |-> plain[b]]
      BY DEF IInv, ImageInv, IsImage
    <2>2. \A b \in BlockIndexes : image[b] = plain[b]
      BY CodedBlocks DEF IInv, ImageInv, Depth
    <2> QED BY <2>1, <2>2
  <1> QED BY <1>1, Invariance, PTL

-----------------------------------------------------------------------------
(* The cipher and the standard.                                             *)

\* AddRoundKey, byte by byte.
LEMMA XorBytesAre ==
  ASSUME NEW n \in Nat, NEW x \in String(n), NEW y \in String(n)
  PROVE  /\ XorBytes(x, y) \in String(n)
         /\ \A i \in 1..n : XorBytes(x, y)[i] = XorByte(x[i], y[i])
  <1>1. Len(x) = n /\ XorBytes(x, y) \in String(n)
    BY StringOperations
  <1>2. [i \in 1..n |-> XorTable[x[i]][y[i]]] \in [1..n -> Byte]
    BY XorDigits DEF String, XorByte
  <1>3. XorBytes(x, y) = SubSeq([i \in 1..n |-> XorTable[x[i]][y[i]]], 1, n)
    BY <1>1 DEF XorBytes, Tuple
  <1>4. XorBytes(x, y) = [i \in 1..n |-> XorTable[x[i]][y[i]]]
    BY <1>2, <1>3, FunctionsAreSequences
  <1> QED BY <1>1, <1>4 DEF XorByte

\* GETU32 of a block, as a function.
LEMMA WordsOfString ==
  ASSUME NEW s \in String(16)
  PROVE  /\ Words(s) \in State
         /\ Words(s) = <<<<s[1], s[2], s[3], s[4]>>, <<s[5], s[6], s[7], s[8]>>,
                         <<s[9], s[10], s[11], s[12]>>, <<s[13], s[14], s[15], s[16]>>>>
  BY WordsBytes, BlocksAreStrings

\* AddRoundKey of the standard and the words of rijndael.cpp.
LEMMA AddRoundKey ==
  ASSUME NEW s \in String(16), NEW k \in String(16)
  PROVE  Words(XorBytes(s, k)) = AddKey(Words(s), Words(k))
  <1> DEFINE x == XorBytes(s, k)
  <1>1. x \in String(16) /\ \A i \in 1..16 : x[i] = XorByte(s[i], k[i])
    BY XorBytesAre
  <1> HIDE DEF x
  <1>2. Words(x) = <<<<x[1], x[2], x[3], x[4]>>, <<x[5], x[6], x[7], x[8]>>,
                     <<x[9], x[10], x[11], x[12]>>, <<x[13], x[14], x[15], x[16]>>>>
    BY <1>1, WordsOfString
  <1>3. AddKey(Words(s), Words(k)) =
          <<<<XorByte(s[1], k[1]), XorByte(s[2], k[2]), XorByte(s[3], k[3]), XorByte(s[4], k[4])>>,
            <<XorByte(s[5], k[5]), XorByte(s[6], k[6]), XorByte(s[7], k[7]), XorByte(s[8], k[8])>>,
            <<XorByte(s[9], k[9]), XorByte(s[10], k[10]), XorByte(s[11], k[11]), XorByte(s[12], k[12])>>,
            <<XorByte(s[13], k[13]), XorByte(s[14], k[14]), XorByte(s[15], k[15]), XorByte(s[16], k[16])>>>>
    BY WordsOfString DEF AddKey, XorWord
  <1> QED BY <1>1, <1>2, <1>3 DEF x

\* SubBytes, byte by byte.
LEMMA SubBytesAre ==
  ASSUME NEW s \in String(16)
  PROVE  SubBytes(s) \in String(16) /\ \A i \in 1..16 : SubBytes(s)[i] = S(s[i])
  <1>1. \A i \in 1..16 : SubByte[s[i]] = S(s[i]) /\ S(s[i]) \in Byte
    BY TablesAssumption, BoxesAssumption DEF String
  <1>2. [i \in 1..16 |-> SubByte[s[i]]] \in [1..16 -> Byte]
    BY <1>1
  <1>3. SubBytes(s) = [i \in 1..16 |-> SubByte[s[i]]]
    BY <1>2, FunctionsAreSequences DEF SubBytes, Tuple
  <1> QED BY <1>1, <1>2, <1>3 DEF String

\* ShiftRows, byte by byte.
LEMMA ShiftRowsAre ==
  ASSUME NEW s \in String(16)
  PROVE  LET x == ShiftRows(s)
         IN /\ x \in String(16)
            /\ x[1] = s[1] /\ x[2] = s[6] /\ x[3] = s[11] /\ x[4] = s[16]
            /\ x[5] = s[5] /\ x[6] = s[10] /\ x[7] = s[15] /\ x[8] = s[4]
            /\ x[9] = s[9] /\ x[10] = s[14] /\ x[11] = s[3] /\ x[12] = s[8]
            /\ x[13] = s[13] /\ x[14] = s[2] /\ x[15] = s[7] /\ x[16] = s[12]
  <1> DEFINE at(i) == Cell(i - 1, (i - 1) \div 4 + i - 1)
             x == ShiftRows(s)
  <1>1. \A i \in 1..16 : at(i) \in 1..16
    BY DEF Cell
  <1>2. [i \in 1..16 |-> s[at(i)]] \in [1..16 -> Byte]
    BY <1>1 DEF String
  <1>3. x = [i \in 1..16 |-> s[at(i)]]
    BY <1>2, FunctionsAreSequences DEF ShiftRows, Tuple
  <1>4. /\ at(1) = 1 /\ at(2) = 6 /\ at(3) = 11 /\ at(4) = 16
        /\ at(5) = 5 /\ at(6) = 10 /\ at(7) = 15 /\ at(8) = 4
        /\ at(9) = 9 /\ at(10) = 14 /\ at(11) = 3 /\ at(12) = 8
        /\ at(13) = 13 /\ at(14) = 2 /\ at(15) = 7 /\ at(16) = 12
    BY DEF Cell
  <1> HIDE DEF at, x
  <1> QED BY <1>2, <1>3, <1>4 DEF String, x

\* SubBytes and ShiftRows are the shuffle of rijndael.cpp.
LEMMA SubShift ==
  ASSUME NEW s \in String(16)
  PROVE  /\ ShiftRows(SubBytes(s)) \in String(16)
         /\ Words(ShiftRows(SubBytes(s))) = Shuffled(Words(s), SBox, 1)
  <1> DEFINE y == SubBytes(s)
             x == ShiftRows(y)
             t == Words(s)
  <1>1. y \in String(16) /\ \A i \in 1..16 : y[i] = S(s[i])
    BY SubBytesAre
  <1> HIDE DEF y
  <1>2. /\ x \in String(16)
        /\ x[1] = y[1] /\ x[2] = y[6] /\ x[3] = y[11] /\ x[4] = y[16]
        /\ x[5] = y[5] /\ x[6] = y[10] /\ x[7] = y[15] /\ x[8] = y[4]
        /\ x[9] = y[9] /\ x[10] = y[14] /\ x[11] = y[3] /\ x[12] = y[8]
        /\ x[13] = y[13] /\ x[14] = y[2] /\ x[15] = y[7] /\ x[16] = y[12]
    BY <1>1, ShiftRowsAre
  <1> HIDE DEF x
  <1>3. Words(x) = <<<<x[1], x[2], x[3], x[4]>>, <<x[5], x[6], x[7], x[8]>>,
                     <<x[9], x[10], x[11], x[12]>>, <<x[13], x[14], x[15], x[16]>>>>
    BY <1>2, WordsOfString
  <1>4. Shuffled(t, SBox, 1) =
          <<<<S(t[1][1]), S(t[2][2]), S(t[3][3]), S(t[4][4])>>,
            <<S(t[2][1]), S(t[3][2]), S(t[4][3]), S(t[1][4])>>,
            <<S(t[3][1]), S(t[4][2]), S(t[1][3]), S(t[2][4])>>,
            <<S(t[4][1]), S(t[1][2]), S(t[2][3]), S(t[3][4])>>>>
    <2> HIDE DEF t
    <2>1. Shuffled(t, SBox, 1) =
            <<Substituted(SBox, <<t[1][1], t[2][2], t[3][3], t[4][4]>>),
              Substituted(SBox, <<t[2][1], t[3][2], t[4][3], t[1][4]>>),
              Substituted(SBox, <<t[3][1], t[4][2], t[1][3], t[2][4]>>),
              Substituted(SBox, <<t[4][1], t[1][2], t[2][3], t[3][4]>>)>>
      BY Diagonals DEF Shuffled
    <2> QED BY <2>1 DEF Substituted, S
  <1>5. t = <<<<s[1], s[2], s[3], s[4]>>, <<s[5], s[6], s[7], s[8]>>,
              <<s[9], s[10], s[11], s[12]>>, <<s[13], s[14], s[15], s[16]>>>>
    BY WordsOfString
  <1> HIDE DEF t
  <1>6. Words(x) = <<<<S(s[1]), S(s[6]), S(s[11]), S(s[16])>>, <<S(s[5]), S(s[10]), S(s[15]), S(s[4])>>,
                     <<S(s[9]), S(s[14]), S(s[3]), S(s[8])>>, <<S(s[13]), S(s[2]), S(s[7]), S(s[12])>>>>
    BY <1>1, <1>2, <1>3
  <1>7. Shuffled(t, SBox, 1) =
          <<<<S(s[1]), S(s[6]), S(s[11]), S(s[16])>>, <<S(s[5]), S(s[10]), S(s[15]), S(s[4])>>,
            <<S(s[9]), S(s[14]), S(s[3]), S(s[8])>>, <<S(s[13]), S(s[2]), S(s[7]), S(s[12])>>>>
    BY <1>4, <1>5
  <1> QED BY <1>2, <1>6, <1>7 DEF x, y, t

\* MixColumns is its mixture.
LEMMA MixColumnsAre ==
  ASSUME NEW s \in String(16)
  PROVE  /\ MixColumns(s) \in String(16)
         /\ Words(MixColumns(s)) = MixedColumns(Words(s))
  <1> DEFINE col(i) == (i - 1) \div 4
             row(i) == (i - 1) % 4
             f == [i \in 1..16 |->
                     XorByte(XorByte(By2[s[Cell(row(i), col(i))]], By3[s[Cell(row(i) + 1, col(i))]]),
                             XorByte(s[Cell(row(i) + 2, col(i))], s[Cell(row(i) + 3, col(i))]))]
             x == MixColumns(s)
  <1>1. \A i \in 1..16 : s[i] \in Byte
    BY DEF String
  <1>2. \A i \in 1..16, d \in 0..3 : Cell(row(i) + d, col(i)) \in 1..16
    BY DEF Cell
  <1>3. \A b \in Byte : By2[b] = Twice(b) /\ By3[b] = Thrice(b) /\ Twice(b) \in Byte /\ Thrice(b) \in Byte
    BY TablesAssumption, TwiceDigits, XorDigits DEF Thrice
  <1>4. MixColumns(s) = SubSeq(f, 1, 16)
    BY DEF MixColumns, Tuple
  <1>5. ASSUME NEW i \in 1..16
        PROVE  LET a(d) == s[Cell(row(i) + d, col(i))]
               IN f[i] = MixedRow(a(0), a(1), a(2), a(3)) /\ f[i] \in Byte
    <2> DEFINE a(d) == s[Cell(row(i) + d, col(i))]
    <2>1. \A d \in 0..3 : a(d) \in Byte
      BY <1>1, <1>2
    <2>2. row(i) + 0 = row(i)
      OBVIOUS
    <2>3. f[i] = XorByte(XorByte(By2[a(0)], By3[a(1)]), XorByte(a(2), a(3)))
      BY <2>2
    <2> HIDE DEF a, f
    <2>4. a(0) \in Byte /\ a(1) \in Byte /\ a(2) \in Byte /\ a(3) \in Byte
      BY <2>1
    <2>5. f[i] = MixedRow(a(0), a(1), a(2), a(3))
      BY <1>3, <2>3, <2>4 DEF MixedRow, Xor4
    <2>6. f[i] \in Byte
      BY <2>4, <2>5, MixedRowDigits
    <2> HIDE DEF row, col
    <2> QED BY <2>5, <2>6 DEF a
  <1>6. f \in [1..16 -> Byte]
    BY <1>5
  <1> HIDE DEF f
  <1>7. x = f /\ x \in String(16)
    BY <1>4, <1>6, FunctionsAreSequences DEF String
  <1> HIDE DEF x
  <1>8. ASSUME NEW c \in 0..3
        PROVE  /\ x[4 * c + 1] = MixedRow(s[4 * c + 1], s[4 * c + 2], s[4 * c + 3], s[4 * c + 4])
               /\ x[4 * c + 2] = MixedRow(s[4 * c + 2], s[4 * c + 3], s[4 * c + 4], s[4 * c + 1])
               /\ x[4 * c + 3] = MixedRow(s[4 * c + 3], s[4 * c + 4], s[4 * c + 1], s[4 * c + 2])
               /\ x[4 * c + 4] = MixedRow(s[4 * c + 4], s[4 * c + 1], s[4 * c + 2], s[4 * c + 3])
    <2>1. ASSUME NEW r \in 0..3
          PROVE  /\ row(4 * c + 1 + r) = r /\ col(4 * c + 1 + r) = c /\ 4 * c + 1 + r \in 1..16
      OBVIOUS
    <2>2. \A r \in 0..3 : x[4 * c + 1 + r] =
            MixedRow(s[Cell(r + 0, c)], s[Cell(r + 1, c)], s[Cell(r + 2, c)], s[Cell(r + 3, c)])
      BY <1>5, <1>7, <2>1
    <2>3. /\ Cell(0, c) = 4 * c + 1 /\ Cell(1, c) = 4 * c + 2 /\ Cell(2, c) = 4 * c + 3 /\ Cell(3, c) = 4 * c + 4
          /\ Cell(4, c) = 4 * c + 1 /\ Cell(5, c) = 4 * c + 2 /\ Cell(6, c) = 4 * c + 3
      BY DEF Cell
    <2>4. /\ x[4 * c + 1 + 0] = MixedRow(s[Cell(0, c)], s[Cell(1, c)], s[Cell(2, c)], s[Cell(3, c)])
          /\ x[4 * c + 1 + 1] = MixedRow(s[Cell(1, c)], s[Cell(2, c)], s[Cell(3, c)], s[Cell(4, c)])
          /\ x[4 * c + 1 + 2] = MixedRow(s[Cell(2, c)], s[Cell(3, c)], s[Cell(4, c)], s[Cell(5, c)])
          /\ x[4 * c + 1 + 3] = MixedRow(s[Cell(3, c)], s[Cell(4, c)], s[Cell(5, c)], s[Cell(6, c)])
      BY <2>2
    <2> QED BY <2>3, <2>4
  <1>9. /\ Words(x) = <<<<x[1], x[2], x[3], x[4]>>, <<x[5], x[6], x[7], x[8]>>,
                        <<x[9], x[10], x[11], x[12]>>, <<x[13], x[14], x[15], x[16]>>>>
        /\ Words(s) = <<<<s[1], s[2], s[3], s[4]>>, <<s[5], s[6], s[7], s[8]>>,
                        <<s[9], s[10], s[11], s[12]>>, <<s[13], s[14], s[15], s[16]>>>>
    BY <1>7, WordsOfString
  <1>10. /\ <<x[1], x[2], x[3], x[4]>> = MixedColumn(<<s[1], s[2], s[3], s[4]>>)
         /\ <<x[5], x[6], x[7], x[8]>> = MixedColumn(<<s[5], s[6], s[7], s[8]>>)
         /\ <<x[9], x[10], x[11], x[12]>> = MixedColumn(<<s[9], s[10], s[11], s[12]>>)
         /\ <<x[13], x[14], x[15], x[16]>> = MixedColumn(<<s[13], s[14], s[15], s[16]>>)
    BY <1>8 DEF MixedColumn
  <1> QED BY <1>7, <1>9, <1>10 DEF x, MixedColumns

\* The key expansion of the standard is its key schedule.
LEMMA ExpandIs ==
  ASSUME NEW k \in String(16), NEW n \in 1..10
  PROVE  /\ Expand(k, n) \in String(16)
         /\ Words(Expand(k, n)) = NextKey(Words(k), n)
  <1> DEFINE turned == <<XorByte(SubByte[k[14]], RoundConstant(n)),
                         SubByte[k[15]], SubByte[k[16]], SubByte[k[13]]>>
             v1 == SubSeq(k, 1, 4)
             v2 == SubSeq(k, 5, 8)
             v3 == SubSeq(k, 9, 12)
             v4 == SubSeq(k, 13, 16)
             w1 == XorBytes(v1, turned)
             w2 == XorBytes(v2, w1)
             w3 == XorBytes(v3, w2)
             w4 == XorBytes(v4, w3)
  <1>1. Expand(k, n) = Joined(<<w1, w2, w3, w4>>)
    BY DEF Expand
  <1>2. \A i \in 1..16 : k[i] \in Byte
    BY DEF String
  <1>3. ASSUME NEW m \in {1, 5, 9, 13}
        PROVE  /\ SubSeq(k, m, m + 3) \in String(4)
               /\ \A i \in 1..4 : SubSeq(k, m, m + 3)[i] = k[m + i - 1]
    <2>1. \A i \in m..(m + 3) : k[i] \in Byte
      BY <1>2
    <2>2. m \in Int /\ m + 3 \in Int /\ m <= m + 3 /\ (m + 3) - m + 1 = 4
      OBVIOUS
    <2>3. /\ SubSeq(k, m, m + 3) \in Seq(Byte) /\ Len(SubSeq(k, m, m + 3)) = 4
          /\ \A i \in 1..4 : SubSeq(k, m, m + 3)[i] = k[m + i - 1]
      BY <2>1, <2>2, SubSeqProperties
    <2> QED BY <2>3, LenProperties DEF String
  <1>4. /\ v1 \in String(4) /\ v1[1] = k[1] /\ v1[2] = k[2] /\ v1[3] = k[3] /\ v1[4] = k[4]
    BY <1>3
  <1>5. /\ v2 \in String(4) /\ v2[1] = k[5] /\ v2[2] = k[6] /\ v2[3] = k[7] /\ v2[4] = k[8]
    BY <1>3
  <1>6. /\ v3 \in String(4) /\ v3[1] = k[9] /\ v3[2] = k[10] /\ v3[3] = k[11] /\ v3[4] = k[12]
    BY <1>3
  <1>7. /\ v4 \in String(4) /\ v4[1] = k[13] /\ v4[2] = k[14] /\ v4[3] = k[15] /\ v4[4] = k[16]
    BY <1>3
  <1>8. turned = <<XorByte(S(k[14]), rcon[n]), S(k[15]), S(k[16]), S(k[13])>> /\ turned \in String(4)
    <2>1. rcon[n] \in Byte
      BY DEF rcon, Byte
    <2>2. \A i \in 13..16 : SubByte[k[i]] = S(k[i]) /\ S(k[i]) \in Byte
      BY <1>2, TablesAssumption, BoxesAssumption
    <2>3. RoundConstant(n) = rcon[n]
      BY TablesAssumption
    <2>4. turned = <<XorByte(S(k[14]), rcon[n]), S(k[15]), S(k[16]), S(k[13])>>
      BY <2>2, <2>3
    <2>5. XorByte(S(k[14]), rcon[n]) \in Byte
      BY <2>1, <2>2, XorDigits
    <2> HIDE DEF turned
    <2> QED BY <2>2, <2>4, <2>5 DEF String
  <1> HIDE DEF turned, v1, v2, v3, v4
  <1>9. ASSUME NEW v \in String(4), NEW w \in String(4)
        PROVE  XorBytes(v, w) \in String(4) /\ XorBytes(v, w) = XorWord(v, w)
    <2> DEFINE z == XorBytes(v, w)
    <2>1. z \in String(4) /\ \A i \in 1..4 : z[i] = XorByte(v[i], w[i])
      BY XorBytesAre
    <2> HIDE DEF z
    <2>2. z = <<z[1], z[2], z[3], z[4]>>
      BY <2>1 DEF String
    <2>3. z = XorWord(v, w)
      BY <2>1, <2>2 DEF XorWord
    <2> QED BY <2>1, <2>3 DEF z
  <1>10. /\ w1 \in String(4) /\ w1 = XorWord(v1, turned)
    BY <1>4, <1>8, <1>9
  <1> HIDE DEF w1
  <1>11. /\ w2 \in String(4) /\ w2 = XorWord(v2, w1)
    BY <1>5, <1>10, <1>9
  <1> HIDE DEF w2
  <1>12. /\ w3 \in String(4) /\ w3 = XorWord(v3, w2)
    BY <1>6, <1>11, <1>9
  <1> HIDE DEF w3
  <1>13. /\ w4 \in String(4) /\ w4 = XorWord(v4, w3)
    BY <1>7, <1>12, <1>9
  <1> HIDE DEF w4
  <1> DEFINE ws == <<w1, w2, w3, w4>>
  <1>14. ws \in State
    <2>1. \A w \in String(4) : w \in Word
      BY DEF String, Word
    <2> QED BY <1>10, <1>11, <1>12, <1>13, <2>1 DEF State
  <1>15. Bytes16(Expand(k, n)) /\ Words(Expand(k, n)) = ws
    BY <1>1, <1>14, StatesAreTables, JoinedBytes, WordsJoined
  <1>16. ws = NextKey(Words(k), n)
    <2>1. /\ v1 = <<k[1], k[2], k[3], k[4]>> /\ v2 = <<k[5], k[6], k[7], k[8]>>
          /\ v3 = <<k[9], k[10], k[11], k[12]>> /\ v4 = <<k[13], k[14], k[15], k[16]>>
      BY <1>4, <1>5, <1>6, <1>7 DEF String
    <2>2. Words(k) = <<v1, v2, v3, v4>>
      BY <2>1, WordsOfString
    <2>3. turned = <<XorByte(S(v4[2]), rcon[n]), S(v4[3]), S(v4[4]), S(v4[1])>>
      BY <1>7, <1>8
    <2> QED BY <1>10, <1>11, <1>12, <1>13, <2>2, <2>3 DEF NextKey
  <1> QED BY <1>15, <1>16, BlocksAreStrings

\* The standard's cipher, round by round.
LEMMA StandardRounds ==
  ASSUME NEW key \in String(16), NEW b \in String(16)
  PROVE  \E x \in [0..10 -> String(16)], k \in [0..10 -> String(16)] :
           /\ x[0] = XorBytes(b, key) /\ k[0] = key
           /\ \A n \in 1..10 : k[n] = Expand(k[n - 1], n)
           /\ \A n \in 1..9 : x[n] = XorBytes(MixColumns(ShiftRows(SubBytes(x[n - 1]))), k[n])
           /\ x[10] = XorBytes(ShiftRows(SubBytes(x[9])), k[10])
           /\ AES(key, b) = x[10]
  <1> DEFINE V == [state : String(16), key : String(16)]
             a == [state |-> XorBytes(b, key), key |-> key]
             Shift(v) == ShiftRows(SubBytes(v.state))
             Rnd(v, n) == [state |-> XorBytes(IF n = 10 THEN Shift(v) ELSE MixColumns(Shift(v)),
                                              Expand(v.key, n)),
                           key |-> Expand(v.key, n)]
             E(f) == [n \in 0..10 |-> IF n = 0 THEN a ELSE Rnd(f[n - 1], n)]
             step == [n \in 1..10 |-> [v \in V |-> Rnd(v, n)]]
             after == CHOOSE f : f = E(f)
  <1>1. AES(key, b) = after[10].state
    BY DEF AES
  <1>2. a \in V
    BY XorBytesAre
  <1>3. ASSUME NEW v \in V, NEW n \in 1..10
        PROVE  Rnd(v, n) \in V
    <2>1. v.state \in String(16) /\ v.key \in String(16)
      OBVIOUS
    <2>2. Shift(v) \in String(16) /\ Expand(v.key, n) \in String(16)
      BY <2>1, SubShift, ExpandIs
    <2>3. MixColumns(Shift(v)) \in String(16)
      BY <2>2, MixColumnsAre
    <2> HIDE DEF Shift
    <2>4. XorBytes(IF n = 10 THEN Shift(v) ELSE MixColumns(Shift(v)), Expand(v.key, n)) \in String(16)
      BY <2>2, <2>3, XorBytesAre
    <2> QED BY <2>2, <2>4
  <1> HIDE DEF V, a, Rnd
  <1>4. step \in [1..10 -> [V -> V]]
    BY <1>3
  <1>5. PICK f \in [0..10 -> V] : Iterates(f, a, step, 10)
    <2> HIDE DEF step
    <2> QED BY <1>2, <1>4, Recursion
  <1>6. f = E(f)
    BY <1>5 DEF Iterates
  <1>7. after = E(after)
    <2> HIDE DEF E
    <2> QED BY <1>6
  <1> HIDE DEF after
  <1>8. after[0] = a /\ \A n \in 1..10 : after[n] = Rnd(after[n - 1], n)
    BY <1>7
  <1>9. \A n \in 0..10 : after[n] \in V
    BY <1>2, <1>3, <1>8, Values
  <1> DEFINE x == [n \in 0..10 |-> after[n].state]
             k == [n \in 0..10 |-> after[n].key]
  <1>10. x \in [0..10 -> String(16)] /\ k \in [0..10 -> String(16)]
    BY <1>9 DEF V
  <1>11. x[0] = XorBytes(b, key) /\ k[0] = key
    BY <1>8 DEF a
  <1>12. ASSUME NEW n \in 1..10
         PROVE  /\ k[n] = Expand(k[n - 1], n)
                /\ n = 10 => x[n] = XorBytes(ShiftRows(SubBytes(x[n - 1])), k[n])
                /\ n # 10 => x[n] = XorBytes(MixColumns(ShiftRows(SubBytes(x[n - 1]))), k[n])
    <2>1. n \in 0..10 /\ n - 1 \in 0..10
      OBVIOUS
    <2>2. k[n] = after[n].key /\ x[n] = after[n].state /\ k[n - 1] = after[n - 1].key /\ x[n - 1] = after[n - 1].state
      BY <2>1
    <2> HIDE DEF x, k
    <2>3. after[n] = Rnd(after[n - 1], n)
      BY <1>8
    <2>4. after[n] = [state |-> XorBytes(IF n = 10 THEN ShiftRows(SubBytes(x[n - 1]))
                                         ELSE MixColumns(ShiftRows(SubBytes(x[n - 1]))),
                                         Expand(k[n - 1], n)),
                      key |-> Expand(k[n - 1], n)]
      BY <2>2, <2>3 DEF Rnd
    <2> QED BY <2>2, <2>4
  <1>13. AES(key, b) = x[10]
    BY <1>1
  <1> HIDE DEF x, k
  <1>14. /\ \A n \in 1..9 : x[n] = XorBytes(MixColumns(ShiftRows(SubBytes(x[n - 1]))), k[n])
         /\ x[10] = XorBytes(ShiftRows(SubBytes(x[9])), k[10])
    <2>1. \A n \in 1..9 : n \in 1..10 /\ n # 10
      OBVIOUS
    <2>2. 10 \in 1..10 /\ 10 - 1 = 9
      OBVIOUS
    <2> QED BY <1>12, <2>1, <2>2
  <1> QED BY <1>10, <1>11, <1>12, <1>13, <1>14

\* What rijndaelEncrypt computes with its tables is the standard's cipher: the words of
\* both states agree after every round.
THEOREM CipherMeetsStandard ==
  ASSUME NEW key, Bytes16(key), NEW b, Bytes16(b)
  PROVE  rijndaelEncrypt(rijndaelSetupEncrypt(key), b) = AES(key, b)
  <1> DEFINE keys == rijndaelSetupEncrypt(key)
  <1>1. key \in String(16) /\ b \in String(16)
    BY BlocksAreStrings
  <1>2. PICK x \in [0..10 -> String(16)], k \in [0..10 -> String(16)] :
           /\ x[0] = XorBytes(b, key) /\ k[0] = key
           /\ \A n \in 1..10 : k[n] = Expand(k[n - 1], n)
           /\ \A n \in 1..9 : x[n] = XorBytes(MixColumns(ShiftRows(SubBytes(x[n - 1]))), k[n])
           /\ x[10] = XorBytes(ShiftRows(SubBytes(x[9])), k[10])
           /\ AES(key, b) = x[10]
    BY <1>1, StandardRounds
  <1>3. /\ keys \in RoundKeys /\ keys[1] = Words(key)
        /\ \A i \in 1..10 : keys[i + 1] = NextKey(keys[i], i)
    BY KeySchedule DEF RoundKeys
  <1> HIDE DEF keys
  <1>4. PICK s \in [0..9 -> State] :
           /\ s[0] = AddKey(Words(b), keys[1])
           /\ \A i \in 1..9 : s[i] = AddKey(MixedColumns(Shuffled(s[i - 1], SBox, 1)), keys[i + 1])
           /\ rijndaelEncrypt(keys, b) = Joined(AddKey(Shuffled(s[9], SBox, 1), keys[11]))
    BY <1>3, Encryption
  <1>5. \A n \in 0..10 : x[n] \in String(16) /\ k[n] \in String(16)
    OBVIOUS
  <1> DEFINE K == {n \in Nat : n <= 10 => Words(k[n]) = keys[n + 1]}
             T == {n \in Nat : n <= 9 => Words(x[n]) = s[n]}
  <1>6. \A n \in Nat : n \in K
    <2>1. 0 \in K
      BY <1>2, <1>3
    <2>2. ASSUME NEW n \in Nat, n \in K
          PROVE  n + 1 \in K
      <3> SUFFICES ASSUME n + 1 <= 10 PROVE Words(k[n + 1]) = keys[(n + 1) + 1]
        OBVIOUS
      <3>1. n + 1 \in 1..10 /\ (n + 1) - 1 = n /\ n \in 0..10
        OBVIOUS
      <3>2. k[n + 1] = Expand(k[n], n + 1) /\ Words(k[n]) = keys[n + 1]
        BY <1>2, <2>2, <3>1
      <3>3. Words(k[n + 1]) = NextKey(keys[n + 1], n + 1)
        BY <1>5, <3>1, <3>2, ExpandIs
      <3> QED BY <1>3, <3>1, <3>3
    <2> HIDE DEF K
    <2> QED BY <2>1, <2>2, SetInduction
  <1>7. \A n \in 1..10 : Words(k[n]) = keys[n + 1]
    BY <1>6
  <1>8. \A n \in Nat : n \in T
    <2>1. 0 \in T
      BY <1>1, <1>2, <1>3, <1>4, AddRoundKey
    <2>2. ASSUME NEW n \in Nat, n \in T
          PROVE  n + 1 \in T
      <3> SUFFICES ASSUME n + 1 <= 9 PROVE Words(x[n + 1]) = s[n + 1]
        OBVIOUS
      <3> DEFINE y == ShiftRows(SubBytes(x[n]))
      <3>1. n + 1 \in 1..9 /\ n + 1 \in 1..10 /\ (n + 1) - 1 = n /\ n \in 0..10 /\ n + 1 \in 0..10
        OBVIOUS
      <3>2. x[n + 1] = XorBytes(MixColumns(y), k[n + 1]) /\ Words(x[n]) = s[n]
        BY <1>2, <2>2, <3>1
      <3>3. y \in String(16) /\ Words(y) = Shuffled(s[n], SBox, 1)
        BY <1>5, <3>1, <3>2, SubShift
      <3> HIDE DEF y
      <3>4. /\ MixColumns(y) \in String(16)
            /\ Words(MixColumns(y)) = MixedColumns(Shuffled(s[n], SBox, 1))
        BY <3>3, MixColumnsAre
      <3>5. Words(x[n + 1]) = AddKey(Words(MixColumns(y)), Words(k[n + 1]))
        BY <1>5, <3>1, <3>2, <3>4, AddRoundKey
      <3> QED BY <1>4, <1>7, <3>1, <3>4, <3>5
    <2> HIDE DEF T
    <2> QED BY <2>1, <2>2, SetInduction
  <1>9. Words(x[9]) = s[9]
    BY <1>8
  <1> DEFINE z == ShiftRows(SubBytes(x[9]))
  <1>10. z \in String(16) /\ Words(z) = Shuffled(s[9], SBox, 1)
    BY <1>5, <1>9, SubShift
  <1>11. Words(k[10]) = keys[11]
    BY <1>7
  <1>12. x[10] = XorBytes(z, k[10])
    BY <1>2
  <1> HIDE DEF z
  <1>13. Words(x[10]) = AddKey(Shuffled(s[9], SBox, 1), keys[11])
    BY <1>5, <1>10, <1>11, <1>12, AddRoundKey
  <1>14. Bytes16(x[10])
    BY <1>5, BlocksAreStrings
  <1> QED BY <1>2, <1>4, <1>13, <1>14, JoinedWords DEF keys

\* Every block that a pass of encryption changes becomes what AES makes of it with the
\* key computed for it, and no other block changes.
THEOREM PassesAreAES == Spec => CipherIsAES
  <1>1. IInv /\ [Next]_vars =>
          [image' # image /\ pass = "encrypt" =>
             image' = [image EXCEPT ![next] = AES(aesKey, image[next])]]_vars
    <2> SUFFICES ASSUME IInv, [Next]_vars, image' # image, pass = "encrypt"
                 PROVE  image' = [image EXCEPT ![next] = AES(aesKey, image[next])]
      OBVIOUS
    <2>1. CipherBlock
      BY DEF Next, vars, EncryptBuffer, DecryptBuffer, SkipBlock, ComputeEncryptionKey,
                  SetupKey, BufferDone, BeginValidate, BeginOverwrite, ValidateChecksum,
                  OverwriteChecksum, ChecksumsDone
    <2>2. /\ rk # <<>>
          /\ image' = [image EXCEPT ![next] = rijndaelEncrypt(rk, image[next])]
      BY <2>1 DEF CipherBlock
    <2>3. /\ rk = rijndaelSetupEncrypt(aesKey)
          /\ next \in BlockIndexes /\ aesKey = KeyOf(plain, next)
      BY <2>2 DEF IInv, KeyInv, PassInv, BlockIndexes
    <2>4. Bytes16(aesKey) /\ Bytes16(image[next])
      BY <2>3, KeyIsBlock DEF IInv, ImageInv, IsImage
    <2>5. rijndaelEncrypt(rk, image[next]) = AES(aesKey, image[next])
      BY <2>3, <2>4, CipherMeetsStandard
    <2> QED BY <2>2, <2>5
  <1> QED BY <1>1, Invariance, PTL DEF Spec, CipherIsAES
=============================================================================
