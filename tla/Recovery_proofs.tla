-------------------------- MODULE Recovery_proofs --------------------------
(***************************************************************************)
(* One fault, wherever it strikes, never costs all copies of a figure:     *)
(* what is on the tag and what is in the files, through any number of      *)
(* sessions before and after it.                                           *)
(***************************************************************************)
EXTENDS Editor_proofs

CONSTANT Encrypted    \* the names of encrypted dumps

\* What a file of name n has in it: an image, encrypted or not as its name says.
InForm(n, stored) ==
  stored = IF n \in Encrypted THEN EncryptBuffer(Plaintext(stored))
           ELSE Unencrypted(Plaintext(stored))

\* -d is given for the files that are encrypted, -e for those that are to be: a user
\* who reads an encrypted file without -d gets garbage, and may write it anywhere.
NamesTellForm ==
  \A j \in Jobs :
    /\ j.input # "portal" => (j.decrypt <=> j.input \in Encrypted)
    /\ ~j.auto /\ j.output # None => (j.encrypt <=> j.output \in Encrypted)
    /\ j.auto => \A s, p : j.encrypt <=> AutoName(s, p) \in Encrypted

\* An image is neither a missing nor a short file.
MarksAreNoImages == \A s : IsStored(s) => Opens(s)

\* The sessions start with valid figures, and with files that are valid, short or
\* missing.
FiguresWholeAtFirst ==
  \A t \in InitialTags : \A f \in Figures : OwnKey(t[f]) /\ ValidateAll(DecryptBuffer(t[f]))
FilesWholeAtFirst ==
  \A d \in InitialFiles : \A n \in Names :
    Opens(d[n]) => InForm(n, d[n]) /\ ValidateAll(Plaintext(d[n]))

-----------------------------------------------------------------------------
(* What is kept.                                                            *)

\* How good a copy is: whole in both areas, or in one at least.
Fit(img, whole) == IF whole THEN ValidateAll(img) ELSE Survives(img)

Holding == phase \in {"upgrade", "save", "fill", "reread", "write", "finish"}

\* What is in the files, on the figures but the one that is written, and in memory.
FilesFit(whole) ==
  \A n \in Names : Opens(files[n]) => InForm(n, files[n]) /\ Fit(Plaintext(files[n]), whole)
FiguresFit(whole) ==
  \A f \in Figures :
    (phase = "write" => f # Target) => OwnKey(tags[f]) /\ Fit(OnTag(f), whole)
DataFits(whole) == Holding => Fit(data, whole)

Kept(whole) == FilesFit(whole) /\ FiguresFit(whole) /\ DataFits(whole)

\* While a figure is written: blocks go out in the order that spares an area.
TargetInv ==
  phase = "write" /\ None \notin begun =>
    /\ OwnKey(tags[Target])
    /\ \/ ValidateArea(OnTag(Target), 1)
       \/ \A c \in AreaCells(0) : OnTag(Target)[c] = data[c]

\* An image on its way to the portal is in a file as well: the one it came from, or the
\* one it was saved in.
CopyInv ==
  /\ phase \in {"upgrade", "save"} /\ job.input # "portal" => Opens(files[job.input])
  /\ phase \in {"reread", "write"} => \E n \in Names : Opens(files[n])

\* Before a fault, and after one that struck a file, everything is whole.  After one that
\* struck the tag, the tag and the files may be torn copies, of which one is at rest.
LossInv ==
  faults <= 1 => \/ Kept(TRUE) /\ TargetInv
                 \/ faults = 1 /\ Kept(FALSE) /\ CopyInv

-----------------------------------------------------------------------------
(* Copies.                                                                  *)

\* A valid image will do for either.
LEMMA WholeFits ==
  ASSUME NEW img, ValidateAll(img), NEW whole \in BOOLEAN
  PROVE  Fit(img, whole)
  BY DEF Fit, ValidateAll, Survives, Areas

\* What the key of a figure is, it is for what is written to one.
LEMMA EncryptedHasOwnKey ==
  ASSUME NEW d
  PROVE  OwnKey(EncryptBuffer(d))
  <1> DEFINE e == EncryptBuffer(d)
  <1>1. \A b \in TagBlocks : /\ e[b].bytes = Block(d, b)
                             /\ e[b].key = IF ShouldEncryptBlock(b) THEN Keys(d) ELSE Plain
    BY DEF EncryptBuffer
  <1>2. Keys(d) = <<e[0].bytes, e[1].bytes>>
    BY <1>1, BlockNumbers DEF Keys
  <1> HIDE DEF e
  <1>3. OwnKey(e)
    BY <1>1, <1>2 DEF OwnKey
  <1> QED BY <1>3 DEF e

\* A file read as its name says yields its bytes.
LEMMA FormReads ==
  ASSUME NEW s, IsStored(s), NEW n, InForm(n, s)
  PROVE  (IF n \in Encrypted THEN DecryptBuffer(s) ELSE Bytes(s)) = Plaintext(s)
  <1> DEFINE p == Plaintext(s)
  <1>1. CASE n \in Encrypted
    <2>1. s = EncryptBuffer(p)
      BY <1>1 DEF InForm
    <2>2. OwnKey(s)
      BY <2>1, EncryptedHasOwnKey
    <2> QED BY <1>1, <2>2, OwnKeyReads
  <1>2. CASE n \notin Encrypted
    <2>1. s = Unencrypted(p)
      BY <1>2 DEF InForm
    <2>2. \A b \in TagBlocks : s[b].key = Plain
      BY <2>1 DEF Unencrypted
    <2>3. \A c \in Cells : s[BlockOf(c)].key = Plain
      BY <2>2, BlockNumbers
    <2> QED BY <1>2, <2>3 DEF Bytes, Plaintext
  <1> QED BY <1>1, <1>2

\* What main() writes to its destination is in the form the name tells.
LEMMA ContentsInForm ==
  ASSUME NamesTellForm, job \in Jobs, Saves, IsImage(data)
  PROVE  InForm(Destination, Contents) /\ Plaintext(Contents) = data /\ IsStored(Contents)
  <1>1. job.encrypt <=> Destination \in Encrypted
    BY DEF NamesTellForm, Saves, Destination
  <1>2. Plaintext(Contents) = data /\ IsStored(Contents)
    BY EncryptedIsStored DEF Contents
  <1> QED BY <1>1, <1>2 DEF InForm, Contents

\* What main() reads from a file is what the file has.
LEMMA InputReads ==
  ASSUME NamesTellForm, Inv, InitWithFile, NEW whole, FilesFit(whole)
  PROVE  Fit(data', whole)
  <1> DEFINE f == files[job.input]
  <1>1. job \in Jobs /\ job.input \in Names /\ job.input # "portal"
    BY JobsAssumption DEF Inv, JobInv, InitWithFile, IsJob
  <1>2. Opens(f) /\ data' = IF job.decrypt THEN DecryptBuffer(f) ELSE Bytes(f)
    BY DEF InitWithFile
  <1>3. IsStored(f)
    BY <1>1, <1>2 DEF Inv, StoreInv, Opens
  <1>4. InForm(job.input, f) /\ Fit(Plaintext(f), whole)
    BY <1>1, <1>2 DEF FilesFit
  <1>5. job.decrypt <=> job.input \in Encrypted
    BY <1>1 DEF NamesTellForm
  <1> HIDE DEF f
  <1>6. data' = Plaintext(f)
    BY <1>2, <1>3, <1>4, <1>5, FormReads
  <1> QED BY <1>4, <1>6

-----------------------------------------------------------------------------
(* Which steps change what.                                                 *)

\* Only opening and filling change a file.
LEMMA FileSteps ==
  ASSUME Inv, [Next]_vars
  PROVE  Truncate \/ Fill \/ files' = files
  BY DEF Next, Begin, StartSession, NoCopy, InitWithPortal, InitWithFile, ReadFails, Upgrade,
         NoFile, OpenFails, FillFails, FlushFails, ReadOld, ReadOldFails,
         WriteBlock, WriteBlockFails, PortalDone, Success, Crash, vars

\* What is in memory is read, made by an upgrade, or what it was.
LEMMA DataSteps ==
  ASSUME Inv, [Next]_vars, Holding'
  PROVE  InitWithPortal \/ InitWithFile \/ Upgrade \/ (Holding /\ data' = data)
  <1>1. \A j \in Jobs : ~Begin(j)
    <2> SUFFICES ASSUME NEW j \in Jobs, Begin(j)
                 PROVE  FALSE
      OBVIOUS
    <2>1. phase' \in {"flash", "list", "read"}
      BY JobsAssumption DEF Begin, StartSession, FirstPhase, IsJob
    <2> QED BY <2>1 DEF Holding
  <1>2. ~(NoCopy \/ ReadFails \/ OpenFails \/ FillFails \/ ReadOldFails \/ WriteBlockFails
          \/ Success \/ Crash)
    BY DEF Holding, NoCopy, ReadFails, OpenFails, FillFails, ReadOldFails, WriteBlockFails,
           Success, Crash, End
  <1>3. NoFile \/ Truncate \/ Fill \/ FlushFails \/ ReadOld \/ WriteBlock \/ PortalDone
          \/ UNCHANGED vars => Holding /\ data' = data
    BY DEF Holding, NoFile, Truncate, Fill, FlushFails, GoTo, ReadOld, WriteBlock, PortalDone,
           vars, session
  <1> QED BY <1>1, <1>2, <1>3 DEF Next

\* A second fault ends what is promised, and so does one while two keys are mixed.
LEMMA FaultSteps ==
  ASSUME Inv, [Next]_vars, faults' <= 1
  PROVE  \/ /\ faults' = faults
            /\ ~FlushFails
            /\ phase = "write" /\ phase' # "write" => PortalDone
         \/ /\ faults = 0 /\ faults' = 1 /\ None \notin begun /\ begun' = begun
            /\ phase = "write" => WriteBlockFails \/ Crash
            /\ ~(phase = "write" /\ phase' = "write")
  <1>1. faults \in 0..2
    BY DEF Inv, RestInv, FaultsCounted
  <1>2. FillFails \/ FlushFails \/ WriteBlockFails \/ Crash =>
          faults = 0 /\ faults' = 1 /\ None \notin begun /\ begun' = begun
    BY <1>1 DEF FillFails, FlushFails, WriteBlockFails, Crash, Fault, FaultsCounted
  <1>3. /\ FillFails \/ FlushFails => phase = "fill"
        /\ WriteBlockFails \/ Crash => phase' # "write"
    BY DEF FillFails, FlushFails, WriteBlockFails, Crash, End
  <1>4. CASE FillFails \/ FlushFails \/ WriteBlockFails \/ Crash
    BY <1>2, <1>3, <1>4
  <1>5. CASE ~(FillFails \/ FlushFails \/ WriteBlockFails \/ Crash)
    <2>1. faults' = faults
      BY <1>5 DEF Next, Begin, StartSession, NoCopy, InitWithPortal, InitWithFile, ReadFails,
             Upgrade, NoFile, Truncate, OpenFails, Fill, ReadOld, ReadOldFails,
             WriteBlock, PortalDone, Success, NoFault, vars
    <2>2. ASSUME phase = "write", phase' # "write"
          PROVE  PortalDone
      BY <1>5, <2>2 DEF Next, Begin, Running, NoCopy, InitWithPortal, InitWithFile, ReadFails,
             Upgrade, NoFile, Truncate, OpenFails, Fill, ReadOld, ReadOldFails,
             WriteBlock, Success, vars, session
    <2> QED BY <1>5, <2>1, <2>2
  <1> QED BY <1>4, <1>5

-----------------------------------------------------------------------------
(* Each part of Kept.                                                       *)

\* A file is emptied, or gets what is in memory.
LEMMA NextFiles ==
  ASSUME NamesTellForm, NamesKept, Inv, [Next]_vars, NEW whole, FilesFit(whole), DataFits(whole)
  PROVE  FilesFit(whole)'
  <1> SUFFICES ASSUME NEW n \in Names, Opens(files'[n])
               PROVE  InForm(n, files'[n]) /\ Fit(Plaintext(files'[n]), whole)
    BY DEF FilesFit
  <1>1. CASE files' = files
    BY <1>1 DEF FilesFit
  <1>2. CASE Truncate
    <2>1. files' = [files EXCEPT ![Destination] = Short]
      BY <1>2 DEF Truncate
    <2>2. StoreInv
      BY DEF Inv
    <2>3. files'[n] \in {files[n], Short}
      BY <2>1, <2>2 DEF StoreInv
    <2> QED BY <2>3 DEF FilesFit, Opens
  <1>3. CASE Fill
    <2>1. /\ phase = "fill" /\ job \in Jobs /\ Saves /\ IsImage(data)
          /\ files' = [files EXCEPT ![Destination] = Contents]
      BY <1>3 DEF Fill, Inv, JobInv, DataInv, Contents
    <2>2. InForm(Destination, Contents) /\ Plaintext(Contents) = data
      BY <2>1, ContentsInForm
    <2>3. Fit(data, whole)
      BY <2>1 DEF DataFits, Holding
    <2>4. StoreInv
      BY DEF Inv
    <2>5. files'[n] = IF n = Destination THEN Contents ELSE files[n]
      BY <2>1, <2>4 DEF StoreInv
    <2> QED BY <2>2, <2>3, <2>5 DEF FilesFit
  <1> QED BY <1>1, <1>2, <1>3, FileSteps

\* An image comes from a figure or a file, and is made whole by an upgrade.
LEMMA NextDataFits ==
  ASSUME NamesTellForm, Inv, [Next]_vars, NEW whole \in BOOLEAN, Kept(whole)
  PROVE  DataFits(whole)'
  <1> SUFFICES ASSUME Holding'
               PROVE  Fit(data', whole)
    BY DEF DataFits
  <1>1. CASE InitWithPortal
    <2>1. job.number \in Figures /\ phase = "read" /\ data' = OnTag(job.number)
      BY <1>1, JobsAssumption DEF Inv, JobInv, InitWithPortal, IsJob, OnTag
    <2> QED BY <2>1 DEF Kept, FiguresFit
  <1>2. CASE InitWithFile
    BY <1>2, InputReads DEF Kept
  <1>3. CASE Upgrade
    <2> DEFINE edited == Edited(data, AreaFromSequence(data), job.opts)
    <2>1. OnCells(edited)
      BY DEF Edited, OnCells
    <2>2. data' = OverwriteAll(edited)
      BY <1>3 DEF Upgrade, Upgraded
    <2> HIDE DEF edited
    <2>3. ValidateAll(data')
      BY <2>1, <2>2, OverwriteAllMatches
    <2> QED BY <2>3, WholeFits
  <1>4. CASE Holding /\ data' = data
    BY <1>4 DEF Kept, DataFits
  <1> QED BY <1>1, <1>2, <1>3, <1>4, DataSteps

\* A figure that was written to the end is as good as the image.
LEMMA NextFigures ==
  ASSUME OnlyTarget, Inv, WriteInv, WrittenInv, [Next]_vars, NEW whole, Kept(whole),
         phase = "write" /\ phase' # "write" => PortalDone
  PROVE  FiguresFit(whole)'
  <1> SUFFICES ASSUME NEW f \in Figures, phase' = "write" => f # Target
               PROVE  OwnKey(tags'[f]) /\ Fit(DecryptBuffer(tags'[f]), whole)
    BY DEF FiguresFit, OnTag
  <1>1. CASE (phase = "write" => f # Target) /\ tags'[f] = tags[f]
    BY <1>1 DEF Kept, FiguresFit, OnTag
  <1>2. CASE f # Target /\ tags' # tags
    <2>1. WriteBlock \/ WriteBlockFails
      BY <1>2, BegunSteps DEF ReadOld
    <2>2. /\ NextBlock \in TagBlocks /\ IsImage(data) /\ UNCHANGED files
          /\ tags' = [tags EXCEPT ![Target][NextBlock] = EncryptBuffer(data)[NextBlock]]
      BY <1>2, <2>1, WriteSteps
    <2>3. tags'[f] = tags[f]
      BY <1>2, <2>2, TagStep DEF Inv
    <2> QED BY <1>1, <1>2, <2>3
  <1>3. CASE f = Target /\ phase = "write"
    <2>1. PortalDone /\ job.portalOut
      BY <1>3 DEF Inv, JobInv
    <2>2. Succeeded' /\ UNCHANGED <<job, tags, data>> /\ job.number = Target
      BY <1>3, <2>1 DEF PortalDone, GoTo, Succeeded, WriteInv
    <2>3. tags'[f] = EncryptBuffer(data)
      BY <1>3, <2>1, <2>2, NextWritten DEF WrittenInv
    <2>4. IsImage(data) /\ Fit(data, whole)
      BY <1>3 DEF Inv, DataInv, Kept, DataFits, Holding
    <2>5. IsStored(tags'[f]) /\ Plaintext(tags'[f]) = data /\ OwnKey(tags'[f])
      BY <2>3, <2>4, EncryptedIsStored, EncryptedHasOwnKey
    <2> QED BY <2>4, <2>5, OwnKeyReads
  <1>4. CASE f = Target /\ phase # "write"
    <2>1. tags' = tags
      BY <1>4, BegunSteps DEF ReadOld, WriteBlock, WriteBlockFails
    <2> QED BY <1>1, <1>4, <2>1
  <1> QED BY <1>1, <1>2, <1>3, <1>4

-----------------------------------------------------------------------------
(* The order of the blocks, and the copies in the files.                    *)

\* A block write of an image with the key of the figure.
LEMMA TargetKept ==
  ASSUME Inv, WriteInv, BegunInv, KeysInv, TargetInv, None \notin begun,
         WriteBlock \/ WriteBlockFails
  PROVE  /\ OwnKey(tags'[Target])
         /\ \/ ValidateArea(OnTag(Target)', 1)
            \/ \A c \in AreaCells(0) : OnTag(Target)'[c] = data[c]
  <1>1. phase = "write" /\ Target \in Figures
    BY WriteSteps, ImagesAssumption DEF Target
  <1>2. Keys(data) = Keys(OnTag(Target))
    BY <1>1 DEF BegunInv, KeysInv
  <1>3. OwnKey(tags'[Target])
    BY <1>1, <1>2, WriteReads DEF TargetInv
  <1>4. \/ ValidateArea(OnTag(Target), 1)
        \/ \A c \in AreaCells(0) : OnTag(Target)[c] = data[c]
    BY <1>1 DEF TargetInv
  <1> QED BY <1>2, <1>3, <1>4, WriteKeepsAnArea

\* Block by block, as long as blocks of one key only are written.
LEMMA NextTarget ==
  ASSUME Inv, WriteInv, BegunInv, KeysInv, Kept(TRUE), TargetInv, [Next]_vars
  PROVE  TargetInv'
  <1> SUFFICES ASSUME phase' = "write", None \notin begun'
               PROVE  /\ OwnKey(tags'[Target])
                      /\ \/ ValidateArea(OnTag(Target)', 1)
                         \/ \A c \in AreaCells(0) : OnTag(Target)'[c] = data'[c]
    BY DEF TargetInv
  <1>1. CASE ReadOld
    <2>1. phase # "write" /\ Target \in Figures /\ OnTag(Target)' = OnTag(Target) /\ tags' = tags
      BY <1>1, ImagesAssumption DEF ReadOld, OnTag, Target
    <2>2. OwnKey(tags[Target]) /\ ValidateAll(OnTag(Target))
      BY <2>1 DEF Kept, FiguresFit, Fit
    <2>3. ValidateArea(OnTag(Target), 1)
      BY <2>2 DEF ValidateAll, Areas
    <2> QED BY <2>1, <2>2, <2>3
  <1>2. CASE WriteBlock
    <2>1. data' = data /\ begun' = begun
      BY <1>2 DEF WriteBlock, session, NoFault
    <2> QED BY <1>2, <2>1, TargetKept
  <1>3. CASE phase = "write" /\ UNCHANGED vars
    <2>1. begun' = begun /\ OnTag(Target)' = OnTag(Target) /\ tags' = tags /\ data' = data
      BY <1>3 DEF vars, session, OnTag
    <2> QED BY <1>3, <2>1 DEF TargetInv
  <1> QED BY <1>1, <1>2, <1>3, WritingSteps

\* As long as closing a file does not fail, an image that goes to the portal is in a file.
LEMMA NextCopy ==
  ASSUME MarksAreNoImages, NamesTellForm, NamesKept, Inv, CopyInv, [Next]_vars, ~FlushFails
  PROVE  CopyInv'
  <1>1. JobInv /\ StoreInv
    BY DEF Inv
  <1>2. ASSUME phase' \in {"upgrade", "save"}, job'.input # "portal"
        PROVE  Opens(files'[job'.input])
    <2>1. CASE InitWithFile
      BY <2>1 DEF InitWithFile
    <2>2. CASE Upgrade
      BY <1>2, <2>2 DEF Upgrade, CopyInv
    <2>3. CASE UNCHANGED vars
      BY <1>2, <2>3 DEF vars, session, CopyInv
    <2>4. ~InitWithPortal
      BY <1>2 DEF InitWithPortal
    <2>5. InitWithFile \/ InitWithPortal \/ Upgrade \/ UNCHANGED vars
      <3>1. \A j \in Jobs : ~Begin(j)
        BY <1>2, JobsAssumption DEF Begin, StartSession, FirstPhase, IsJob
      <3>2. ~(NoCopy \/ ReadFails \/ OpenFails \/ FillFails \/ ReadOldFails \/ WriteBlockFails
              \/ Success \/ Crash)
        BY <1>2 DEF NoCopy, ReadFails, OpenFails, FillFails, ReadOldFails, WriteBlockFails,
               Success, Crash, End
      <3>3. ~(NoFile \/ Truncate \/ Fill \/ FlushFails \/ ReadOld \/ WriteBlock \/ PortalDone)
        BY <1>2 DEF NoFile, Truncate, Fill, FlushFails, GoTo, AfterSaving, ReadOld, WriteBlock,
               PortalDone, session
      <3> QED BY <3>1, <3>2, <3>3 DEF Next
    <2> QED BY <2>1, <2>2, <2>3, <2>4, <2>5
  <1>3. ASSUME phase' \in {"reread", "write"}
        PROVE  \E n \in Names : Opens(files'[n])
    <2>1. CASE NoFile
      <3>1. phase = "save" /\ job.portalOut /\ files' = files
        BY <1>3, <2>1 DEF NoFile, GoTo, AfterSaving
      <3>2. job \in Jobs /\ job.input # "portal"
        BY <1>1, <3>1 DEF JobInv, Working, Accepted
      <3>3. job.input \in Names
        BY <3>2, JobsAssumption DEF IsJob
      <3> QED BY <3>1, <3>2, <3>3 DEF CopyInv
    <2>2. CASE Fill
      <3>1. /\ phase = "fill" /\ job \in Jobs /\ Saves /\ IsImage(data) /\ tags' = tags
            /\ files' = [files EXCEPT ![Destination] = Contents]
        BY <1>1, <2>2 DEF Fill, Inv, JobInv, DataInv, Contents
      <3>2. Destination \in Names
        BY <1>1, <3>1, DestinationIsAName
      <3>3. IsStored(Contents)
        BY <3>1, ContentsInForm
      <3>4. files'[Destination] = Contents
        BY <1>1, <3>1, <3>2, <3>3, FileStep
      <3> QED BY <3>2, <3>3, <3>4 DEF MarksAreNoImages
    <2>3. CASE phase \in {"reread", "write"} /\ files' = files
      BY <2>3 DEF CopyInv
    <2>4. NoFile \/ Fill \/ (phase \in {"reread", "write"} /\ files' = files)
      <3>1. \A j \in Jobs : ~Begin(j)
        BY <1>3, JobsAssumption DEF Begin, StartSession, FirstPhase, IsJob
      <3>2. ~(NoCopy \/ ReadFails \/ OpenFails \/ FillFails \/ ReadOldFails \/ WriteBlockFails
              \/ Success \/ Crash)
        BY <1>3 DEF NoCopy, ReadFails, OpenFails, FillFails, ReadOldFails, WriteBlockFails,
               Success, Crash, End
      <3>3. ~(InitWithPortal \/ InitWithFile \/ Upgrade \/ Truncate \/ PortalDone)
        BY <1>3 DEF InitWithPortal, InitWithFile, AfterReading, Upgrade, Truncate, PortalDone, GoTo
      <3>4. ReadOld \/ WriteBlock \/ UNCHANGED vars => phase \in {"reread", "write"} /\ files' = files
        BY <1>3 DEF ReadOld, WriteBlock, vars, session
      <3> QED BY <3>1, <3>2, <3>3, <3>4 DEF Next
    <2> QED BY <2>1, <2>2, <2>3, <2>4
  <1> QED BY <1>2, <1>3 DEF CopyInv

-----------------------------------------------------------------------------
(* Before, at and after the fault.                                          *)

\* A write that is cut off leaves an area of the tag, and whole files.
LEMMA CutKeeps ==
  ASSUME OnlyTarget, NamesTellForm, NamesKept, Inv, WriteInv, BegunInv, KeysInv, [Next]_vars,
         Kept(TRUE), TargetInv, phase = "write", None \notin begun, WriteBlockFails \/ Crash
  PROVE  Kept(FALSE)' /\ CopyInv'
  <1>1. phase' \in {"done", "idle"} /\ Target \in Figures
    BY ImagesAssumption DEF WriteBlockFails, Crash, End, Target
  <1>2. FilesFit(TRUE)'
    BY NextFiles DEF Kept
  <1>3. FilesFit(FALSE)'
    BY <1>2, WholeFits DEF FilesFit, Fit
  <1>4. OwnKey(tags'[Target]) /\ Survives(OnTag(Target)')
    <2>1. ValidateAll(data)
      BY DEF Kept, DataFits, Holding, Fit
    <2>2. /\ OwnKey(tags'[Target])
          /\ \/ ValidateArea(OnTag(Target)', 1)
             \/ \A c \in AreaCells(0) : OnTag(Target)'[c] = data[c]
      <3>1. CASE WriteBlockFails
        BY <3>1, TargetKept
      <3>2. CASE Crash
        <4>1. tags' = tags /\ OnTag(Target)' = OnTag(Target)
          BY <3>2 DEF Crash, OnTag
        <4> QED BY <4>1 DEF TargetInv
      <3> QED BY <3>1, <3>2
    <2>3. 0 \in Areas /\ 1 \in Areas /\ ValidateArea(data, 0)
      BY <2>1 DEF ValidateAll, Areas
    <2>4. CASE \A c \in AreaCells(0) : OnTag(Target)'[c] = data[c]
      <3> DEFINE r == OnTag(Target)'
      <3>1. \A c \in AreaCells(0) : data[c] = r[c]
        BY <2>4
      <3> HIDE DEF r
      <3>2. ValidateArea(r, 0)
        BY <2>3, <3>1, SameAreaSameChecks
      <3> QED BY <2>2, <2>3, <3>2 DEF Survives, r
    <2> QED BY <2>2, <2>3, <2>4 DEF Survives
  <1>5. ASSUME NEW f \in Figures, f # Target
        PROVE  OwnKey(tags'[f]) /\ Survives(DecryptBuffer(tags'[f]))
    <2>1. tags'[f] = tags[f]
      <3>1. CASE tags' = tags
        BY <3>1
      <3>2. CASE tags' # tags
        <4>1. WriteBlockFails
          BY <3>2 DEF Crash
        <4>2. /\ NextBlock \in TagBlocks /\ IsImage(data) /\ UNCHANGED files
              /\ tags' = [tags EXCEPT ![Target][NextBlock] = EncryptBuffer(data)[NextBlock]]
          BY <3>2, <4>1, WriteSteps
        <4> QED BY <1>5, <4>2, TagStep DEF Inv
      <3> QED BY <3>1, <3>2
    <2>2. OwnKey(tags[f]) /\ ValidateAll(DecryptBuffer(tags[f]))
      BY <1>5 DEF Kept, FiguresFit, Fit, OnTag
    <2> QED BY <2>1, <2>2, WholeFits DEF Fit
  <1>6. FiguresFit(FALSE)'
    BY <1>4, <1>5 DEF FiguresFit, Fit, OnTag
  <1> QED BY <1>1, <1>3, <1>6 DEF Kept, DataFits, Holding, CopyInv

\* Each step, with the invariants of Editor_proofs.
LEMMA NextLoss ==
  ASSUME OnlyTarget, MarksAreNoImages, NamesTellForm, NamesKept
  PROVE  /\ Inv /\ WriteInv /\ WrittenInv /\ BegunInv /\ KeysInv /\ LossInv
         /\ [Next]_vars
         => LossInv'
  <1> SUFFICES ASSUME Inv, WriteInv, WrittenInv, BegunInv, KeysInv, LossInv, [Next]_vars,
                      faults' <= 1
               PROVE  \/ Kept(TRUE)' /\ TargetInv'
                      \/ faults' = 1 /\ Kept(FALSE)' /\ CopyInv'
    BY DEF LossInv
  <1>1. faults \in Nat /\ (faults' = faults \/ faults = 0)
    BY FaultSteps DEF Inv, RestInv, FaultsCounted
  <1>2. CASE Kept(TRUE) /\ TargetInv
    <2>1. CASE phase = "write" /\ (WriteBlockFails \/ Crash)
      <3>1. faults' = 1 /\ None \notin begun
        BY <2>1, FaultSteps DEF PortalDone, GoTo, WriteBlockFails, Crash, End
      <3> QED BY <1>2, <2>1, <3>1, CutKeeps
    <2>2. CASE ~(phase = "write" /\ (WriteBlockFails \/ Crash))
      <3>1. phase = "write" /\ phase' # "write" => PortalDone
        BY <2>2, FaultSteps
      <3>2. Kept(TRUE)'
        BY <1>2, <3>1, NextFiles, NextDataFits, NextFigures DEF Kept
      <3> QED BY <1>2, <3>2, NextTarget
    <2> QED BY <2>1, <2>2
  <1>3. CASE faults = 1 /\ Kept(FALSE) /\ CopyInv
    <2>1. /\ faults' = 1 /\ ~FlushFails
          /\ phase = "write" /\ phase' # "write" => PortalDone
      BY <1>3, FaultSteps
    <2>2. Kept(FALSE)'
      BY <1>3, <2>1, NextFiles, NextDataFits, NextFigures DEF Kept
    <2> QED BY <1>3, <2>1, <2>2, NextCopy
  <1>4. faults <= 1
    BY <1>1
  <1>5. (Kept(TRUE) /\ TargetInv) \/ (faults = 1 /\ Kept(FALSE) /\ CopyInv)
    BY <1>4 DEF LossInv
  <1> QED BY <1>2, <1>3, <1>5

\* One cut-off or failed write, to the figure or to a file, never costs all copies: in
\* each state one area is whole on the figure or in a file that opens.
THEOREM NothingIsLost ==
  ASSUME OnlyTarget, MarksAreNoImages, NamesTellForm, NamesKept,
         FiguresWholeAtFirst, FilesWholeAtFirst
  PROVE  Spec => []OneFaultLosesNothing
  <1>1. Init => LossInv
    <2> SUFFICES ASSUME Init
                 PROVE  Kept(TRUE) /\ TargetInv
      BY DEF LossInv
    <2>1. FilesFit(TRUE)
      BY DEF Init, FilesWholeAtFirst, FilesFit, Fit
    <2>2. FiguresFit(TRUE)
      BY DEF Init, FiguresWholeAtFirst, FiguresFit, Fit, OnTag
    <2> QED BY <2>1, <2>2 DEF Init, Kept, DataFits, Holding, TargetInv
  <1>2. Inv /\ LossInv => OneFaultLosesNothing
    <2> SUFFICES ASSUME Inv, LossInv, faults <= 1, None \notin begun
                 PROVE  \/ Survives(OnTag(Target))
                        \/ \E n \in Names :
                             /\ Opens(files[n])
                             /\ Survives(Bytes(files[n])) \/ Survives(DecryptBuffer(files[n]))
      BY DEF OneFaultLosesNothing
    <2>1. Target \in Figures /\ 0 \in Areas /\ 1 \in Areas
      BY ImagesAssumption DEF Target, Areas
    <2>2. CASE Kept(TRUE) /\ TargetInv
      <3>1. CASE phase # "write"
        <4>1. ValidateAll(OnTag(Target))
          BY <2>1, <2>2, <3>1 DEF Kept, FiguresFit, Fit
        <4> QED BY <4>1, WholeFits DEF Fit
      <3>2. CASE phase = "write" /\ ValidateArea(OnTag(Target), 1)
        BY <2>1, <3>2 DEF Survives
      <3>3. CASE phase = "write" /\ \A c \in AreaCells(0) : OnTag(Target)[c] = data[c]
        <4>1. ValidateArea(data, 0)
          BY <2>1, <2>2, <3>3 DEF Kept, DataFits, Holding, Fit, ValidateAll
        <4>2. ValidateArea(OnTag(Target), 0)
          BY <2>1, <3>3, <4>1, SameAreaSameChecks
        <4> QED BY <2>1, <4>2 DEF Survives
      <3> QED BY <2>2, <3>1, <3>2, <3>3 DEF TargetInv
    <2>3. CASE Kept(FALSE) /\ CopyInv
      <3>1. CASE phase # "write"
        BY <2>1, <2>3, <3>1 DEF Kept, FiguresFit, Fit
      <3>2. CASE phase = "write"
        <4>1. PICK n \in Names : Opens(files[n])
          BY <2>3, <3>2 DEF CopyInv
        <4>2. InForm(n, files[n]) /\ Survives(Plaintext(files[n]))
          BY <2>3, <4>1 DEF Kept, FilesFit, Fit
        <4>3. IsStored(files[n])
          BY <4>1 DEF Inv, StoreInv, Opens
        <4>4. Plaintext(files[n]) \in {Bytes(files[n]), DecryptBuffer(files[n])}
          BY <4>2, <4>3, FormReads
        <4> QED BY <4>1, <4>2, <4>4
      <3> QED BY <3>1, <3>2
    <2> QED BY <2>2, <2>3 DEF LossInv
  <1>3. /\ Inv /\ WriteInv /\ WrittenInv /\ BegunInv /\ KeysInv /\ LossInv
        /\ [Next]_vars
        => LossInv'
    BY NextLoss
  <1> QED BY <1>1, <1>2, <1>3, Writing, KeysHold, PTL DEF Spec
=============================================================================
