------------------------------ MODULE MCEditor ------------------------------
(***************************************************************************)
(* The instances of Editor that TLC checks.                                *)
(***************************************************************************)
EXTENDS Editor

\* A CRC without collisions: the content itself.
MCCrc(content) == content

\* Figure number n, last saved in area a with sequence number s, whose checksums
\* match.
Figure(n, a, s) ==
  LET blank == [c \in Cells |->
        CASE c = Serial -> n
          [] c = AreaBase(a) + Sequence -> s - 1
          [] c = AreaBase(1 - a) + Sequence -> s - 2
          [] c \in {AreaBase(x) + Skill : x \in Areas} -> 1
          [] OTHER -> 0]
  IN OverwriteAll(blank)

\* Bytes that come out of a block decrypted with the wrong key.
MCGarbled ==
  [c \in Cells |-> IF c \in {Crc0} \cup {AreaBase(a) + o : a \in Areas, o \in {Crc1, Crc2, Crc3}}
                   THEN <<>> ELSE 170]

NoUpgrade == [upgrade |-> FALSE, money |-> 0, xp |-> 0, hp |-> 0,
              challenges |-> 0, left |-> NotGiven, right |-> NotGiven]
SomeUpgrade    == [NoUpgrade EXCEPT !.upgrade = TRUE, !.money = 65000, !.hp = 100]
EarlierUpgrade == [SomeUpgrade EXCEPT !.money = 100, !.hp = 50]

\* The figures, and an earlier dump of figure 0 with another trailer in one sector.
MCInitialTags == {[n \in Figures |-> EncryptBuffer(Figure(n, 1, 6))]}
TwoSavesAgo ==
  [Upgraded(Upgraded(Figure(0, 0, 4), 0, EarlierUpgrade), 1, EarlierUpgrade)
     EXCEPT ![AreaBase(1) + Trailer] = 1]

\* One file at first: none, an earlier dump, or the image of a figure that is not
\* there.
Holding(stored) == [n \in Names |-> IF n = "plain.bin" THEN stored ELSE None]
MCInitialFiles ==
  {Holding(None), Holding(Unencrypted(TwoSavesAgo)), Holding(Unencrypted(Figure(9, 1, 6)))}

\* The dumps of figure 0 have the name "plain.bin" with -a and with -o.
MCAutoName(serial, path) == "plain.bin"

Job(input, output, portalOut, opts, n) ==
  [task |-> "copy", input |-> input, output |-> output, auto |-> FALSE, dump |-> FALSE,
   portalOut |-> portalOut, decrypt |-> FALSE, encrypt |-> FALSE, opts |-> opts,
   number |-> n]
Show == [Job("portal", None, FALSE, NoUpgrade, 0) EXCEPT !.dump = TRUE]

\* Dump, restore, upgrade in the file and onto the figure, and a combination that
\* main() refuses.
PlainJobs == UNION {
  {Job("portal", "plain.bin", FALSE, NoUpgrade, n),
   Job("plain.bin", None, TRUE, NoUpgrade, n),
   Job("plain.bin", "plain.bin", TRUE, SomeUpgrade, n),
   Job("portal", "plain.bin", TRUE, NoUpgrade, n)} : n \in Figures}

\* Dump with encryption, conversion of that file and restore from it; a dump under
\* a name of the program's own, of fields only, -l and -F.
MoreJobs ==
  {[Job("portal", "crypt.bin", FALSE, NoUpgrade, 0) EXCEPT !.encrypt = TRUE],
   [Job("crypt.bin", "plain.bin", FALSE, NoUpgrade, 0) EXCEPT !.decrypt = TRUE],
   [Job("crypt.bin", None, TRUE, NoUpgrade, 0) EXCEPT !.decrypt = TRUE],
   [Show EXCEPT !.auto = TRUE],
   Show,
   [Show EXCEPT !.task = "list"],
   [Show EXCEPT !.task = "flash"]}
MCJobs == PlainJobs \cup MoreJobs

\* The bound of the runs: sequence numbers of the figures and of the files.
MaxSeq == 7
WithinBound(img) == \A a \in Areas : Field(img, a, Sequence) \in 0..MaxSeq
FewUpgrades ==
  /\ faults < FaultsCounted
  /\ \A f \in Figures : WithinBound(OnTag(f))
  /\ \A n \in Names : files[n] \notin {None, Short} => WithinBound(Plaintext(files[n]))
=============================================================================
