--------------------------- MODULE Skylander_proofs -------------------------
(***************************************************************************)
(* What holds of every session, for every CRC, every set of command lines  *)
(* and every set of initial files.  Each invariant follows from Inv, which *)
(* says what data is in terms of the file at every point of a session.     *)
(***************************************************************************)
EXTENDS Skylander, TagImage_proofs

-----------------------------------------------------------------------------
(* What an upgrade changes.                                                 *)

\* An option that was not given changes nothing.
LEMMA EditedOnlyAsked ==
  ASSUME NEW img, IsImage(img), NEW a \in Areas, NEW o, IsOption(o), NEW c \in Cells,
         Edited(img, a, o)[c] # img[c]
  PROVE  c \in Asked(o, a)
  <1>1. OnCells(img)
    BY DEF IsImage, OnCells
  <1>2. PICK f \in UserFields : c = AreaBase(a) + f
    BY <1>1, EditedFields
  <1>3. f \in {XP, Money, Skill, HeroPoints, Challenges}
    BY DEF UserFields
  <1>4. SetField(f, img[c], o) # img[c]
    BY <1>1, <1>2, EditedFields DEF Field
  <1>5. CASE f = Money
    BY <1>2, <1>4, <1>5, SetFieldCases DEF SetMoney, Asked
  <1>6. CASE f = XP
    BY <1>2, <1>4, <1>6, SetFieldCases DEF SetXP, Asked
  <1>7. CASE f = HeroPoints
    BY <1>2, <1>4, <1>7, SetFieldCases DEF SetHeroPoints, Asked
  <1>8. CASE f = Challenges
    BY <1>2, <1>4, <1>8, SetFieldCases DEF SetChallenges, Asked
  <1>9. CASE f = Skill
    BY <1>2, <1>4, <1>9, SetFieldCases DEF SetSkillLeft, SetSkillRight, Asked
  <1> QED BY <1>3, <1>5, <1>6, <1>7, <1>8, <1>9

\* What an upgrade does to a file: cells change for a reason, and each sequence
\* number moves once.
LEMMA UpgradeFrame ==
  ASSUME NEW img, IsImage(img), NEW a \in Areas, NEW o, IsOption(o)
  PROVE  /\ \A c \in Cells : Upgraded(img, a, o)[c] # img[c] =>
                              c \in Asked(o, a) \cup Bookkeeping
         /\ \A b \in Areas :
              Field(Upgraded(img, a, o), b, Sequence) = (Field(img, b, Sequence) + 1) % 256
  <1> DEFINE new == Edited(img, a, o)
             up  == OverwriteAll(new)
  <1>1. Upgraded(img, a, o) = up
    BY DEF Upgraded
  <1>2. OnCells(img) /\ OnCells(new)
    BY EditedFields DEF IsImage, OnCells
  <1>3. \A c \in Cells : new[c] # img[c] => c \in Asked(o, a)
    BY EditedOnlyAsked
  <1>4. ASSUME NEW b \in Areas
        PROVE  Field(new, b, Sequence) = Field(img, b, Sequence)
    <2>1. Sequence \in AreaOffsets /\ Sequence \notin UserFields /\ UserFields \subseteq AreaOffsets
      BY DEF AreaOffsets, UserFields, XP, Money, Skill, HeroPoints, Challenges, Sequence
    <2>2. /\ AreaBase(b) + Sequence \in Cells
          /\ \A f \in UserFields : AreaBase(b) + Sequence # AreaBase(a) + f
      BY <2>1, CellsApart
    <2> QED BY <1>2, <2>2, EditedFields DEF Field
  <1> HIDE DEF new
  <1>5. /\ \A c \in Cells \ (Rewritten(0) \cup Rewritten(1)) : up[c] = new[c]
        /\ \A b \in Areas : Field(up, b, Sequence) = (Field(new, b, Sequence) + 1) % 256
    BY <1>2, OverwriteAllFrame
  <1>6. Rewritten(0) \cup Rewritten(1) \subseteq Bookkeeping
    BY DEF Rewritten, Bookkeeping, Areas
  <1> HIDE DEF up
  <1>7. ASSUME NEW c \in Cells, up[c] # img[c]
        PROVE  c \in Asked(o, a) \cup Bookkeeping
    BY <1>3, <1>5, <1>6, <1>7
  <1> QED BY <1>1, <1>4, <1>5, <1>7

-----------------------------------------------------------------------------
(* Sessions.                                                                *)

\* The inductive invariant: what the session holds, in terms of the file it was
\* loaded from.
Inv ==
  /\ TypeOK
  /\ phase # "idle" => area = AreaFromSequence(file)
  /\ phase = "loaded" => data = file
  /\ phase = "edited" => opts.upgrade /\ data = Edited(file, area, opts)
  /\ phase = "checked" => opts.upgrade /\ data = Upgraded(file, area, opts)

\* No session has options until one begins.
LEMMA NoOptionsIsOption == IsOption(NoOptions)
  BY DEF IsOption, NoOptions, NotGiven

\* It holds before the first session.
LEMMA InitInv == Init => Inv
  BY ImagesAssumption, NoOptionsIsOption DEF Init, Inv, TypeOK, Areas

\* Both Save and Stop leave nothing of the session.
LEMMA ClosedSession ==
  ASSUME CloseSession, IsImage(file')
  PROVE  Inv'
  BY NoOptionsIsOption DEF CloseSession, Inv, TypeOK, Areas

\* Every step keeps Inv.
LEMMA NextInv == Inv /\ [Next]_vars => Inv'
  <1> SUFFICES ASSUME Inv, [Next]_vars
               PROVE  Inv'
    OBVIOUS
  <1>1. ASSUME NEW o \in Options, Load(o)
        PROVE  Inv'
    <2>1. IsOption(o)
      BY OptionsAssumption
    <2>2. AreaFromSequence(file) \in Areas
      BY DEF AreaFromSequence, Areas
    <2> QED BY <1>1, <2>1, <2>2 DEF Load, Inv, TypeOK
  <1>2. CASE Edit
    <2>1. IsImage(file) /\ area \in Areas /\ IsOption(opts)
      BY DEF Inv, TypeOK
    <2>2. data = file
      BY <1>2 DEF Inv, Edit
    <2>3. data' = Edited(file, area, opts) /\ IsImage(data')
      BY <1>2, <2>1, <2>2, EditedImage DEF Edit
    <2> QED BY <1>2, <2>3 DEF Edit, Inv, TypeOK
  <1>3. CASE ComputeChecksums
    <2>1. IsImage(data) /\ data = Edited(file, area, opts) /\ opts.upgrade
      BY <1>3 DEF Inv, TypeOK, ComputeChecksums
    <2>2. data' = Upgraded(file, area, opts) /\ IsImage(data')
      BY <1>3, <2>1, OverwriteAllImage DEF ComputeChecksums, Upgraded
    <2> QED BY <1>3, <2>1, <2>2 DEF ComputeChecksums, Inv, TypeOK
  <1>4. CASE Save
    <2>1. IsImage(file')
      BY <1>4 DEF Save, Inv, TypeOK
    <2> QED BY <1>4, <2>1, ClosedSession DEF Save
  <1>5. CASE Stop
    <2>1. IsImage(file')
      BY <1>5 DEF Stop, Inv, TypeOK
    <2> QED BY <1>5, <2>1, ClosedSession DEF Stop
  <1>6. CASE UNCHANGED vars
    BY <1>6 DEF vars, Inv, TypeOK
  <1> QED BY <1>1, <1>2, <1>3, <1>4, <1>5, <1>6 DEF Next

\* Inv holds throughout.
THEOREM Invariance == Spec => []Inv
  <1>1. Init => Inv
    BY InitInv
  <1>2. Inv /\ [Next]_vars => Inv'
    BY NextInv
  <1> QED BY <1>1, <1>2, PTL DEF Spec

\* The fields keep their widths, session after session.
THEOREM TypeCorrect == Spec => []TypeOK
  <1>1. Inv => TypeOK
    BY DEF Inv
  <1> QED BY <1>1, Invariance, PTL

\* For any CRC, every image Skylander::computeChecksum leaves passes all eight
\* of its own tests.
THEOREM UpgradesValidate == Spec => []UpgradeValidates
  <1>1. Inv => UpgradeValidates
    <2> SUFFICES ASSUME Inv, phase = "checked"
                 PROVE  ValidateAll(data)
      BY DEF UpgradeValidates
    <2>1. OnCells(Edited(file, area, opts)) /\ data = OverwriteAll(Edited(file, area, opts))
      BY EditedFields DEF Inv, TypeOK, IsImage, OnCells, Upgraded
    <2> QED BY <2>1, OverwriteAllMatches
  <1> QED BY <1>1, Invariance, PTL

\* Reloading an upgraded image selects the area that was edited, unless exactly
\* one sequence number wrapped.
THEOREM ReloadsSelect == Spec => []ReloadSelects
  <1>1. Inv => ReloadSelects
    <2> SUFFICES ASSUME Inv, phase = "checked"
                 PROVE  AreaFromSequence(data) = area <=> (Wrapped(0) <=> Wrapped(1))
      BY DEF ReloadSelects
    <2> DEFINE s0 == Field(file, 0, Sequence)
               s1 == Field(file, 1, Sequence)
    <2>1. s0 \in Int /\ 0 <= s0 /\ s0 <= 255 /\ s1 \in Int /\ 0 <= s1 /\ s1 <= 255
      BY SequenceBounds DEF Inv, TypeOK, Areas
    <2>2. /\ IsImage(file) /\ area \in Areas /\ IsOption(opts)
          /\ data = Upgraded(file, area, opts)
          /\ area = AreaFromSequence(file)
      BY DEF Inv, TypeOK
    <2>3. Field(data, 0, Sequence) = (s0 + 1) % 256 /\ Field(data, 1, Sequence) = (s1 + 1) % 256
      BY <2>2, UpgradeFrame DEF Areas
    <2>4. /\ AreaFromSequence(data) = IF (s0 + 1) % 256 < (s1 + 1) % 256 THEN 1 ELSE 0
          /\ area = IF s0 < s1 THEN 1 ELSE 0
      BY <2>2, <2>3 DEF AreaFromSequence
    <2>5. (Wrapped(0) <=> s0 = 255) /\ (Wrapped(1) <=> s1 = 255)
      BY DEF Wrapped
    <2> HIDE DEF s0, s1
    <2>6. /\ (s0 + 1) % 256 = IF s0 = 255 THEN 0 ELSE s0 + 1
          /\ (s1 + 1) % 256 = IF s1 = 255 THEN 0 ELSE s1 + 1
      BY <2>1, SMT
    <2> QED BY <2>1, <2>4, <2>5, <2>6
  <1> QED BY <1>1, Invariance, PTL

\* A session that changes the file has upgraded it.
LEMMA FileChanges ==
  ASSUME Inv, [Next]_vars, file' # file
  PROVE  /\ IsImage(file) /\ area \in Areas /\ IsOption(opts) /\ opts.upgrade
         /\ file' = Upgraded(file, area, opts)
  <1>1. Save
    BY DEF Next, Load, Edit, ComputeChecksums, Stop, vars
  <1>2. file' = data /\ phase = "checked"
    BY <1>1 DEF Save, Inv
  <1> QED BY <1>2 DEF Inv, TypeOK

\* The two sequence numbers move together.
THEOREM SequenceGap == Spec => SequenceGapKept
  <1>1. Inv /\ [Next]_vars => [Gap(file') = Gap(file)]_vars
    <2> SUFFICES ASSUME Inv, [Next]_vars, file' # file
                 PROVE  Gap(file') = Gap(file)
      BY DEF Gap
    <2> DEFINE s0 == Field(file, 0, Sequence)
               s1 == Field(file, 1, Sequence)
    <2>1. s0 \in Int /\ 0 <= s0 /\ s0 <= 255 /\ s1 \in Int /\ 0 <= s1 /\ s1 <= 255
      BY SequenceBounds DEF Inv, TypeOK, Areas
    <2>2. /\ Field(file', 0, Sequence) = (s0 + 1) % 256
          /\ Field(file', 1, Sequence) = (s1 + 1) % 256
      BY FileChanges, UpgradeFrame DEF Areas
    <2>3. Gap(file') = (((s1 + 1) % 256) - ((s0 + 1) % 256)) % 256 /\ Gap(file) = (s1 - s0) % 256
      BY <2>2 DEF Gap
    <2> HIDE DEF s0, s1
    <2> QED BY <2>1, <2>3, SMT
  <1> QED BY <1>1, Invariance, PTL DEF Spec, SequenceGapKept

\* A saved session changed nothing but what its command line asked for, sequence
\* numbers and checksums.
THEOREM OnlyAsked == Spec => OnlyAskedChanges
  <1> DEFINE A == \A c \in Cells : file'[c] # file[c] =>
                    opts.upgrade /\ c \in Asked(opts, area) \cup Bookkeeping
  <1>1. Inv /\ [Next]_vars => [A]_vars
    <2> SUFFICES ASSUME Inv, [Next]_vars, NEW c \in Cells, file'[c] # file[c]
                 PROVE  opts.upgrade /\ c \in Asked(opts, area) \cup Bookkeeping
      OBVIOUS
    <2>1. file' # file
      OBVIOUS
    <2> QED BY <2>1, FileChanges, UpgradeFrame
  <1> QED BY <1>1, Invariance, PTL DEF Spec, OnlyAskedChanges

\* The CRC tells the image that was edited from the one that was loaded wherever a
\* checksum looks at a difference.
NoCollision ==
  \A t \in Types : \A a \in Areas :
    ComputeChecksum(data, t, a) = ComputeChecksum(file, t, a) =>
      Content(data, t, a) = Content(file, t, a)

\* Which checksum covers which field a setter writes.
FieldType(f) == CASE f \in {XP, Money} -> 1
                  [] f = Skill -> 2
                  [] OTHER -> 3

LEMMA FieldsAreCovered ==
  ASSUME NEW f \in UserFields
  PROVE  FieldType(f) \in {1, 2, 3} /\ f \in Covered(FieldType(f)) /\ f # Crc1
  BY CoveredFields DEF FieldType, UserFields, XP, Money, Skill, HeroPoints, Challenges, Crc1

\* Every field of the setters is covered by a checksum they do not write: an edit of a
\* valid image that still passes all checksums, before computeChecksum, is a collision
\* of the CRC.
THEOREM EditsShow == Spec => [](NoCollision => EditsAreCovered)
  <1>1. Inv => (NoCollision => EditsAreCovered)
    <2> SUFFICES ASSUME Inv, NoCollision, phase = "edited", ValidateAll(file), data # file,
                        ValidateAll(data)
                 PROVE  FALSE
      BY DEF EditsAreCovered
    <2>1. /\ IsImage(file) /\ IsImage(data) /\ area \in Areas /\ IsOption(opts)
          /\ data = Edited(file, area, opts)
      BY DEF Inv, TypeOK
    <2>2. OnCells(file) /\ OnCells(data)
      BY <2>1 DEF IsImage, OnCells
    <2>3. PICK c \in Cells : data[c] # file[c]
      BY <2>2 DEF OnCells
    <2>4. PICK f \in UserFields : c = AreaBase(area) + f
      BY <2>1, <2>2, <2>3, EditedFields
    <2> DEFINE t == FieldType(f)
    <2>5. t \in {1, 2, 3} /\ f \in Covered(t) /\ f # Crc1
      BY FieldsAreCovered
    <2> HIDE DEF t
    <2>6. t \in Types
      BY <2>5 DEF Types
    <2>7. data[Location(t, area)] = file[Location(t, area)]
      <3>1. {Crc1, Crc2, Crc3} \subseteq AreaOffsets /\ UserFields \subseteq AreaOffsets
            /\ \A g \in UserFields : g \notin {Crc1, Crc2, Crc3}
        BY DEF AreaOffsets, UserFields, XP, Money, Skill, HeroPoints, Challenges, Crc1, Crc2, Crc3
      <3>2. PICK h \in {Crc1, Crc2, Crc3} : Location(t, area) = AreaBase(area) + h
        BY <2>1, <2>5, Locations
      <3>3. /\ AreaBase(area) + h \in Cells
            /\ \A g \in UserFields : AreaBase(area) + h # AreaBase(area) + g
        BY <2>1, <3>1, CellsApart
      <3> QED BY <2>1, <2>2, <3>2, <3>3, EditedFields
    <2>8. Matches(data, t, area) /\ Matches(file, t, area)
      BY <2>1, <2>6 DEF ValidateAll, ValidateArea
    <2>9. ComputeChecksum(data, t, area) = ComputeChecksum(file, t, area)
      BY <2>7, <2>8 DEF Matches, Location
    <2>10. Content(data, t, area) = Content(file, t, area)
      BY <2>1, <2>6, <2>9 DEF NoCollision
    <2>11. Start(t, area) = AreaBase(area)
      BY <2>5 DEF Start
    <2>12. \A img : Content(img, t, area)[f] = img[c]
      BY <2>4, <2>5, <2>11 DEF Content
    <2> QED BY <2>3, <2>10, <2>12
  <1> QED BY <1>1, Invariance, PTL
=============================================================================
