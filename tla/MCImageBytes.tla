---------------------------- MODULE MCImageBytes ----------------------------
(***************************************************************************)
(* The instances of ImageBytes that TLC checks.                            *)
(***************************************************************************)
EXTENDS ImageBytes, TLC

\* Bytes in some disorder, different from block to block, no checksum right; and
\* the sequence number of area 0 about to wrap.
Image(seed) ==
  [b \in BlockIndexes |->
     LET block == Tuple(16, LAMBDA i : (37 * b + i * (b + seed)) % 256)
     IN IF b = 8 THEN [block EXCEPT ![10] = 255] ELSE block]

MCImages == {Image(11), Image(164)}

\* MD5 of the header, the index and the constant, by another program.
Known(seed, index, key) ==
  [header |-> Image(seed)[0] \o Image(seed)[1], index |-> index, key |-> key]

MCKnownKeys == {
  Known(11, 8, <<5, 241, 32, 31, 19, 20, 183, 55, 64, 44, 169, 165, 42, 148, 176, 171>>),
  Known(11, 36, <<26, 52, 235, 70, 127, 176, 84, 69, 85, 183, 207, 33, 107, 85, 151, 86>>),
  Known(11, 62, <<85, 117, 203, 17, 250, 148, 97, 134, 213, 74, 226, 59, 48, 22, 108, 85>>),
  Known(164, 9, <<212, 161, 57, 151, 80, 72, 163, 116, 244, 210, 145, 243, 175, 95, 98, 227>>),
  Known(164, 61, <<29, 89, 162, 149, 206, 137, 117, 103, 177, 94, 214, 225, 60, 218, 74, 179>>)}
=============================================================================
