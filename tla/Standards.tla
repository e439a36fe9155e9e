----------------------------- MODULE Standards -----------------------------
(***************************************************************************)
(* What the encryption and the checksums of a figure are meant to compute, *)
(* from the definitions of the standards: AES with a key of 128 bits (FIPS *)
(* 197), and CRC-16/CCITT.  Nothing here is taken from the program.        *)
(*                                                                         *)
(* Both are arithmetic on polynomials over GF(2).  A polynomial is the set *)
(* of its exponents; the sum of two is their symmetric difference.         *)
(***************************************************************************)
EXTENDS Bytes, FiniteSets

Sum(p, q) == (p \ q) \cup (q \ p)

Degree(p) == CHOOSE n \in p : \A m \in p : m <= n

Shifted(p, n) == {k + n : k \in p}

\* Long division: exponents are cleared, from the degree of p down to that of g.
Remainder(p, g) ==
  LET cleared[n \in Nat] ==
        [r \in SUBSET Nat |->
           IF n < Degree(g) THEN r
           ELSE cleared[n - 1][IF n \in r THEN Sum(r, Shifted(g, n - Degree(g))) ELSE r]]
  IN IF p = {} THEN p ELSE cleared[Degree(p)][p]

\* The exponents with an odd number of ways to be a sum of one of p and one of q.
Product(p, q) ==
  {n \in 0..14 : Cardinality({k \in p : n - k \in q}) % 2 = 1}

\* A byte as a polynomial of degree 7 at most, and back.
Poly(b) == {i \in 0..7 : (b \div 2 ^ i) % 2 = 1}

Number(p) ==
  LET sum[i \in 0..16] == IF i = 0 THEN 0
                          ELSE sum[i - 1] + (IF i - 1 \in p THEN 2 ^ (i - 1) ELSE 0)
  IN sum[16]

-----------------------------------------------------------------------------
(* FIPS 197.                                                                *)

Times(a, b) == Number(Remainder(Product(Poly(a), Poly(b)), {8, 4, 3, 1, 0}))

\* a to the 254th, which is its inverse, and 0 for 0.
InverseByte(a) ==
  LET square[i \in 0..7] ==
        IF i = 0 THEN a ELSE LET s == square[i - 1] IN Times(s, s)
      power[i \in 1..7] ==
        IF i = 1 THEN square[1] ELSE Times(power[i - 1], square[i])
  IN power[7]

Affine(a) ==
  LET p == Poly(a)
      q == {i \in 0..7 : Cardinality({d \in {0, 4, 5, 6, 7} : (i + d) % 8 \in p}) % 2 = 1}
  IN Number(Sum(q, Poly(99)))

SubByte == [a \in Byte |-> Affine(InverseByte(a))]
By2     == [a \in Byte |-> Times(2, a)]
By3     == [a \in Byte |-> Times(3, a)]

SubBytes(s) == Tuple(16, LAMBDA i : SubByte[s[i]])

\* Byte r of column c, both from 0, is the element 4 * c + r + 1.
Cell(r, c) == 4 * (c % 4) + (r % 4) + 1

ShiftRows(s) ==
  Tuple(16, LAMBDA i : s[Cell(i - 1, (i - 1) \div 4 + i - 1)])

MixColumns(s) ==
  Tuple(16, LAMBDA i :
    LET r == (i - 1) % 4
        c == (i - 1) \div 4
    IN XorByte(XorByte(By2[s[Cell(r, c)]], By3[s[Cell(r + 1, c)]]),
               XorByte(s[Cell(r + 2, c)], s[Cell(r + 3, c)])))

\* x to the power n - 1.
RoundConstant(n) == Number(Remainder({n - 1}, {8, 4, 3, 1, 0}))

\* The bytes of round key n + 1 from those of round key n.
Expand(k, n) ==
  LET turned == <<XorByte(SubByte[k[14]], RoundConstant(n)),
                  SubByte[k[15]], SubByte[k[16]], SubByte[k[13]]>>
      w1 == XorBytes(SubSeq(k, 1, 4), turned)
      w2 == XorBytes(SubSeq(k, 5, 8), w1)
      w3 == XorBytes(SubSeq(k, 9, 12), w2)
  IN Joined(<<w1, w2, w3, XorBytes(SubSeq(k, 13, 16), w3)>>)

\* State and round key after n rounds.
AES(key, block) ==
  LET after[n \in 0..10] ==
        IF n = 0 THEN [state |-> XorBytes(block, key), key |-> key]
        ELSE LET before  == after[n - 1]
                 shifted == ShiftRows(SubBytes(before.state))
                 k       == Expand(before.key, n)
             IN [state |-> XorBytes(IF n = 10 THEN shifted ELSE MixColumns(shifted), k),
                 key |-> k]
  IN after[10].state

-----------------------------------------------------------------------------
(* CRC-16/CCITT, starting from ones: the remainder of the message, its first *)
(* two bytes complemented, times x^16.                                      *)

Generator == {16, 12, 5, 0}

CRC(message) ==
  LET padded == NotBytes(SubSeq(message, 1, 2))
                \o SubSeq(message, 3, Len(message)) \o Zeroes(2)
      groups == (Len(padded) + 7) \div 8
      \* The polynomial of the eight bytes that end where group n does.
      group(n) == UNION {Shifted(Poly(At(padded, Len(padded) - 8 * (groups - n) - i)), 8 * i) :
                         i \in 0..7}
      rest[n \in 0..groups] ==
        IF n = 0 THEN {} ELSE Remainder(Sum(Shifted(rest[n - 1], 64), group(n)), Generator)
  IN Number(rest[groups])
=============================================================================
