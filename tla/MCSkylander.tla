---------------------------- MODULE MCSkylander -----------------------------
(***************************************************************************)
(* The instance of Skylander that TLC checks.                              *)
(***************************************************************************)
EXTENDS Skylander

\* A CRC without collisions: the content itself.
MCCrc(content) == content

\* A figure with sequence numbers s0 and s1 whose checksums are all correct.
Figure(s0, s1, skill) ==
  LET blank == [c \in Cells |->
        CASE c = AreaBase(0) + Sequence -> (s0 - 1) % 256
          [] c = AreaBase(1) + Sequence -> (s1 - 1) % 256
          [] c \in {AreaBase(a) + Skill : a \in Areas} -> skill
          [] OTHER -> 0]
  IN OverwriteAll(blank)

\* Either area current, a tie, areas that wrap one right after the other and far
\* apart; skills with and without the path bits; one file with a stale checksum.
MCInitialImages ==
  {Figure(254, 255, 1), Figure(255, 255, 1), Figure(255, 3, 0), Figure(0, 254, 2),
   [Figure(255, 254, 3) EXCEPT ![Serial] = 9]}

\* The bound of the run: sessions go on while the sequence number of area 0 is
\* near the wrap, which is up to SavesAfterWrap saves past it.
SavesAfterWrap == 4
NearWrap == Field(file, 0, Sequence) \in {254, 255} \cup 0..SavesAfterWrap

\* Every numeric option, values that do not fit their field (65536 for two
\* bytes, 2^24 for three), both paths, -c alone and no upgrade at all.
MCOptions ==
  {NoOptions,
   [NoOptions EXCEPT !.upgrade = TRUE],
   [NoOptions EXCEPT !.upgrade = TRUE, !.money = 65000, !.xp = 33000],
   [NoOptions EXCEPT !.upgrade = TRUE, !.money = 65536, !.xp = 16777216, !.right = 65535],
   [NoOptions EXCEPT !.upgrade = TRUE, !.hp = 100],
   [NoOptions EXCEPT !.upgrade = TRUE, !.left = 0, !.challenges = 7]}
=============================================================================
