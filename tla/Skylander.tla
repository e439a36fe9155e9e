------------------------------ MODULE Skylander -----------------------------
(***************************************************************************)
(* One figure kept in an unencrypted file, and the sessions of the editor  *)
(* that load it into class Skylander, upgrade it and save it back under    *)
(* the same name.  A session is one run of main() without a portal: one    *)
(* thread, but a session may end at any point without saving (a dump only, *)
(* a kill), and the next one starts from whatever the file then holds.     *)
(***************************************************************************)
EXTENDS TagImage

CONSTANTS
  InitialImages,   \* the images a file can hold before the first session
  Options          \* the command lines, as records

ASSUME OptionsAssumption == \A o \in Options : IsOption(o)
ASSUME ImagesAssumption  == \A img \in InitialImages : IsImage(img)

VARIABLES
  file,    \* the decrypted image in the file
  data,    \* Skylander::data of this session, NoData without a session
  area,    \* Skylander::area, the area every getter and setter goes to
  opts,    \* the command line of this session
  phase    \* how far main() is: "idle", "loaded", "edited" or "checked"

vars == <<file, data, area, opts, phase>>

NoData == <<>>
NoOptions == [upgrade |-> FALSE, money |-> 0, xp |-> 0, hp |-> 0,
              challenges |-> 0, left |-> NotGiven, right |-> NotGiven]

Init ==
  /\ file \in InitialImages
  /\ data = NoData
  /\ area = 0
  /\ opts = NoOptions
  /\ phase = "idle"

\* SkylanderIO::initWithUnencryptedFile and Skylander::initSkylander.  Checksums
\* that do not match are only warned about.
Load(o) ==
  /\ phase = "idle"
  /\ opts' = o
  /\ data' = file
  /\ area' = AreaFromSequence(file)
  /\ phase' = "loaded"
  /\ UNCHANGED file

\* The setters main() calls under "if (upgrade)".
Edit ==
  /\ phase = "loaded"
  /\ opts.upgrade
  /\ data' = Edited(data, area, opts)
  /\ phase' = "edited"
  /\ UNCHANGED <<file, area, opts>>

\* Skylander::computeChecksum.  It leaves area alone.
ComputeChecksums ==
  /\ phase = "edited"
  /\ data' = OverwriteAll(data)
  /\ phase' = "checked"
  /\ UNCHANGED <<file, area, opts>>

CloseSession ==
  /\ data' = NoData
  /\ area' = 0
  /\ opts' = NoOptions
  /\ phase' = "idle"

\* writeSkylanderToUnencryptedFile, and the end of main().
Save ==
  /\ phase = "checked" \/ (phase = "loaded" /\ ~opts.upgrade)
  /\ file' = data
  /\ CloseSession

\* The process ends without saving.
Stop ==
  /\ phase # "idle"
  /\ CloseSession
  /\ UNCHANGED file

Next ==
  \/ \E o \in Options : Load(o)
  \/ Edit
  \/ ComputeChecksums
  \/ Save
  \/ Stop

Spec == Init /\ [][Next]_vars

-----------------------------------------------------------------------------
(* Properties.                                                              *)

\* Every field stays in the range its bytes can hold, and a session has data.
TypeOK ==
  /\ IsImage(file)
  /\ phase \in {"idle", "loaded", "edited", "checked"}
  /\ area \in Areas
  /\ IsOption(opts)
  /\ phase # "idle" => IsImage(data)

\* After Skylander::computeChecksum all eight checksum tests pass, whatever the
\* file held and whatever was edited.  The type 1 checksum covers the sequence
\* number and the type 2 and 3 checksums, so the order of the loops in
\* Checksum::ValidateAllChecksums is what makes this true.
UpgradeValidates == phase = "checked" => ValidateAll(data)

\* No edit slips past the checksums: if the file validated and the setters
\* changed anything, the image does not validate until computeChecksum runs.
\* Checksum::computeChecksum must therefore cover every field of skylander.h's
\* setters.  It holds for a CRC without collisions only.
EditsAreCovered ==
  phase = "edited" /\ ValidateAll(file) /\ data # file => ~ValidateAll(data)

\* The cyclic distance from the sequence number of area 0 to that of area 1.
Gap(img) == (Field(img, 1, Sequence) - Field(img, 0, Sequence)) % 256

\* Checksum::validateChecksum moves both sequence numbers, never one alone: no
\* session changes how far apart the two areas of the file are.
SequenceGapKept == [][Gap(file') = Gap(file)]_vars

\* A sequence number that computeChecksum wraps from 255 to 0.
Wrapped(a) == Field(file, a, Sequence) = 255

\* Skylander::setAreaFromSequence run on the upgraded image selects the area
\* that was edited, unless exactly one of the two sequence numbers wrapped in
\* this upgrade; then it selects the other one.
ReloadSelects ==
  phase = "checked" =>
    (AreaFromSequence(data) = area <=> (Wrapped(0) <=> Wrapped(1)))

\* The cells a command line may change, besides sequence numbers and checksums.
Asked(o, a) ==
  {AreaBase(a) + f : f \in
     (IF o.money # 0 THEN {Money} ELSE {}) \cup
     (IF o.xp # 0 THEN {XP} ELSE {}) \cup
     (IF o.hp # 0 THEN {HeroPoints} ELSE {}) \cup
     (IF o.challenges # 0 THEN {Challenges} ELSE {}) \cup
     (IF o.left # NotGiven \/ o.right # NotGiven THEN {Skill} ELSE {})}

Bookkeeping == {Crc0} \cup {AreaBase(a) + f : a \in Areas, f \in {Sequence, Crc1, Crc2, Crc3}}

\* A session changes nothing it was not asked to: the fields of the area that
\* was not current (the older save), the serial number and the sector trailers
\* come out of a save as they went in, and without an upgrade option so does
\* every byte.
OnlyAskedChanges ==
  [][\A c \in Cells : file'[c] # file[c] =>
       opts.upgrade /\ c \in Asked(opts, area) \cup Bookkeeping]_vars

(* What comments of the source claim, and the code does not do.             *)

\* skylander.cpp:19 says the area with the higher value is the last save
\* location: then the area an upgrade wrote has the higher value after it.
LastSaveIsHigher == phase = "checked" => AreaFromSequence(data) = area
=============================================================================
