------------------------------- MODULE Bytes -------------------------------
(***************************************************************************)
(* Bytes, and strings of bytes as sequences of them.                       *)
(***************************************************************************)
EXTENDS Integers, Sequences

Byte == 0..255

Bytes16(s) == s \in Seq(Byte) /\ Len(s) = 16

\* The tuple of n elements whose i-th is f(i).  SubSeq has TLC compute each once.
Tuple(n, f(_)) == SubSeq([i \in 1..n |-> f(i)], 1, n)

\* The digit of x that counts n, a power of two; and a byte from its digits.
Bit(x, n) == (x \div n) % 2

FromBits(bit(_)) ==
  bit(1) + 2 * bit(2) + 4 * bit(4) + 8 * bit(8)
  + 16 * bit(16) + 32 * bit(32) + 64 * bit(64) + 128 * bit(128)

\* Exclusive or and conjunction of bytes, as tables.
XorTable ==
  [a \in Byte |-> [b \in Byte |-> FromBits(LAMBDA n : (Bit(a, n) + Bit(b, n)) % 2)]]
AndTable ==
  [a \in Byte |-> [b \in Byte |-> FromBits(LAMBDA n : Bit(a, n) * Bit(b, n))]]

XorByte(a, b) == XorTable[a][b]

\* Strings of the same length, byte by byte.
XorBytes(x, y) == Tuple(Len(x), LAMBDA i : XorTable[x[i]][y[i]])
AndBytes(x, y) == Tuple(Len(x), LAMBDA i : AndTable[x[i]][y[i]])
NotBytes(x)    == Tuple(Len(x), LAMBDA i : 255 - x[i])
OrBytes(x, y)  == NotBytes(AndBytes(NotBytes(x), NotBytes(y)))

\* Four words of four bytes, one after the other.
Joined(words) == Tuple(16, LAMBDA i : words[((i - 1) \div 4) + 1][((i - 1) % 4) + 1])

\* Bytes beyond either end are zero.
At(x, i) == IF i \in DOMAIN x THEN x[i] ELSE 0

Zeroes(n) == Tuple(n, LAMBDA i : 0)
=============================================================================
