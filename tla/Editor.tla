------------------------------- MODULE Editor -------------------------------
(***************************************************************************)
(* main() and class SkylanderIO (fileio.cpp): sessions that move a figure  *)
(* between files and the portal, upgrade it on the way, and may be cut off *)
(* between any two writes.                                                 *)
(*                                                                         *)
(* The portal is the memory of module BlockStore: a block is read or       *)
(* written as a whole, or the call throws.  Encryption is symbolic.        *)
(***************************************************************************)
EXTENDS TagImage, FiniteSets

CONSTANTS
  Names,          \* of files
  AutoName(_, _), \* the name -a makes of a serial number and a path
  Figures,        \* places on the portal
  Jobs,           \* the command lines, as records
  InitialFiles,   \* the files there may be at first, [Names -> stored]
  InitialTags,    \* the figures there may be at first, [Figures -> stored]
  Garbled,        \* what an encrypted block yields with the wrong key or none, an image
  Short,          \* the content of a file of less than 1024 bytes
  None            \* no file, no data, no command line

(* A command line: task is "flash" (-F), "list" (-l) or "copy"; input is a    *)
(* name or "portal"; decrypt and encrypt are -d and -e; output is a name or  *)
(* None, auto is -a; portalOut is -P; dump is -D; number is -s; opts are the *)
(* upgrade options, as in module Skylander.                                  *)

\* The combinations main() accepts.
Accepted(j) ==
  /\ j.output # None \/ j.auto \/ j.portalOut \/ j.dump
  /\ ~(j.input = "portal" /\ j.opts.upgrade)
  /\ ~(j.input = "portal" /\ j.portalOut)

-----------------------------------------------------------------------------
(* Blocks in a file or on a tag, encrypted or not.                          *)

TagBlocks == {BlockOf(c) : c \in Cells}

Block(img, b) == [c \in {x \in Cells : BlockOf(x) = b} |-> img[c]]

Plain == <<>>        \* in place of the key of a block that is not encrypted

\* Crypt::ComputeEncryptionKey; the index it adds is the block's own.
Keys(img) == <<Block(img, 0), Block(img, 1)>>

\* Crypt::ShouldEncryptBlock
ShouldEncryptBlock(b) == b >= 8 /\ ~IsAccessControlBlock(b)

Unencrypted(img) == [b \in TagBlocks |-> [key |-> Plain, bytes |-> Block(img, b)]]

\* SkylanderIO::EncryptBuffer: the key comes from blocks 0 and 1 of the image.
EncryptBuffer(img) ==
  [b \in TagBlocks |->
    [key |-> IF ShouldEncryptBlock(b) THEN Keys(img) ELSE Plain,
     bytes |-> Block(img, b)]]

\* The image behind a buffer, for one who has every key.
Plaintext(stored) == [c \in Cells |-> stored[BlockOf(c)].bytes[c]]

\* The image a buffer holds, its blocks taken as they are.
Bytes(stored) ==
  [c \in Cells |-> IF stored[BlockOf(c)].key # Plain
                     THEN Garbled[c] ELSE stored[BlockOf(c)].bytes[c]]

\* Slip: the access control blocks are decrypted as well.
DecryptsFrom8(stored) ==
  LET keys == <<stored[0].bytes, stored[1].bytes>>
  IN [c \in Cells |->
       IF BlockOf(c) >= 8 /\ stored[BlockOf(c)].key # keys
         THEN Garbled[c] ELSE stored[BlockOf(c)].bytes[c]]

\* SkylanderIO::DecryptBuffer: blocks encrypted with another key do not come out.
DecryptBuffer(stored) ==
  LET keys == <<stored[0].bytes, stored[1].bytes>>
  IN [c \in Cells |->
       IF ShouldEncryptBlock(BlockOf(c)) /\ stored[BlockOf(c)].key # keys
         THEN Garbled[c] ELSE stored[BlockOf(c)].bytes[c]]

\* What 1024 bytes hold that are encrypted block by block, or not.
IsStored(stored) ==
  /\ stored = [b \in TagBlocks |->
                 [key |-> stored[b].key, bytes |-> Block(stored[b].bytes, b)]]
  /\ IsImage(Plaintext(stored))

IsJob(j) ==
  /\ j.task \in {"flash", "list", "copy"}
  /\ j.input \in Names \cup {"portal"}
  /\ j.output \in Names \cup {None}
  /\ {j.auto, j.portalOut, j.dump, j.decrypt, j.encrypt} \subseteq BOOLEAN
  /\ j.number \in Figures
  /\ IsOption(j.opts)

ASSUME JobsAssumption == None \notin Jobs /\ \A j \in Jobs : IsJob(j)

\* There is a figure 0, and what comes out of a block with the wrong key is bytes as
\* good as any.
ASSUME ImagesAssumption ==
  /\ 0 \in Figures
  /\ IsImage(Garbled)
  /\ \A t \in InitialTags : t = [f \in Figures |-> t[f]] /\ \A f \in Figures : IsStored(t[f])
  /\ \A d \in InitialFiles : /\ d = [n \in Names |-> d[n]]
                             /\ \A n \in Names : d[n] \in {None, Short} \/ IsStored(d[n])

-----------------------------------------------------------------------------
VARIABLES
  files,   \* a stored image, Short or None, per name
  tags,    \* the stored image of each figure on the portal
  job,     \* the command line of this session, None before the first and after a crash
  phase,   \* how far main() is
  data,    \* Skylander::data
  old,     \* what writeSkylanderToPortal read from the tag, None otherwise
  exit,    \* the exception main() ended with, 0 for "Success!"
  begun,   \* history: the images begun to be written since figure 0 was last
           \* whole, None for that of another figure
  faults   \* history: what went wrong so far, counted up to FaultsCounted

FaultsCounted == 2

session == <<job, phase, data, old, exit>>
vars == <<files, tags, session, begun, faults>>

Init ==
  /\ files \in InitialFiles
  /\ tags \in InitialTags
  /\ job = None
  /\ phase = "idle"
  /\ data = None
  /\ old = None
  /\ exit = 0
  /\ begun = {}
  /\ faults = 0

Running == phase \notin {"idle", "done"}

\* What the session worked on is kept to the end of a copy that succeeded, for the
\* properties.
End(e) ==
  /\ phase' = "done"
  /\ exit' = e
  /\ data' = IF e = 0 THEN data ELSE None
  /\ old' = None
  /\ UNCHANGED job

GoTo(p) ==
  /\ phase' = p
  /\ UNCHANGED <<job, data, old, exit>>

\* A write of another figure's image that is cut off counts as everything going
\* wrong: what is on the tag then belongs to neither.
Fault ==
  faults' = IF faults = FaultsCounted \/ None \in begun THEN FaultsCounted ELSE faults + 1
NoFault == UNCHANGED <<begun, faults>>

PortalErrors == {4, 5, 6, 8, 9, 11}    \* any of them from any method but WriteBlock

-----------------------------------------------------------------------------
(* Starting and reading.                                                    *)

FirstPhase(j) == IF j.task = "copy" THEN "read" ELSE j.task

StartSession(j) ==
  /\ job' = j
  /\ phase' = FirstPhase(j)
  /\ data' = None
  /\ old' = None
  /\ exit' = 0
  /\ UNCHANGED <<files, tags>>
  /\ NoFault

\* Slip: the combinations of options are not tested.
BeginAny(j) == ~Running /\ StartSession(j)

\* main() looks for -F, then for -l, then at the other options.
Begin(j) ==
  /\ ~Running
  /\ j.task = "copy" => Accepted(j)
  /\ StartSession(j)

\* PortalIO::flash comes to an end by an exception only, listSkylanders also when
\* it has read all figures or could not read one.
NoCopy ==
  /\ phase \in {"flash", "list"}
  /\ \E e \in PortalErrors \cup (IF phase = "list" THEN {0} ELSE {}) : End(e)
  /\ UNCHANGED <<files, tags>>
  /\ NoFault

AfterReading == IF job.opts.upgrade THEN "upgrade" ELSE "save"

\* initWithPortal: ReadPortal, DecryptBuffer.
InitWithPortal ==
  /\ phase = "read"
  /\ job.input = "portal"
  /\ data' = DecryptBuffer(tags[job.number])
  /\ phase' = AfterReading
  /\ UNCHANGED <<files, tags, job, old, exit>>
  /\ NoFault

\* ReadSkylanderFile gets its 1024 bytes.
Opens(f) == f \notin {None, Short}

\* initWithEncryptedFile and initWithUnencryptedFile.
InitWithFile ==
  /\ phase = "read"
  /\ job.input # "portal"
  /\ LET f == files[job.input]
     IN /\ Opens(f)
        /\ data' = IF job.decrypt THEN DecryptBuffer(f) ELSE Bytes(f)
  /\ phase' = AfterReading
  /\ UNCHANGED <<files, tags, job, old, exit>>
  /\ NoFault

ReadFails ==
  /\ phase = "read"
  /\ IF job.input = "portal"
       THEN \E e \in PortalErrors : End(e)
       ELSE /\ ~Opens(files[job.input])
            /\ End(IF files[job.input] = None THEN 1 ELSE 2)
  /\ UNCHANGED <<files, tags>>
  /\ NoFault

\* The setters and computeChecksum.
Upgrade ==
  /\ phase = "upgrade"
  /\ data' = Upgraded(data, AreaFromSequence(data), job.opts)
  /\ phase' = "save"
  /\ UNCHANGED <<files, tags, job, old, exit>>
  /\ NoFault

-----------------------------------------------------------------------------
(* Writing a file: WriteSkylanderFile.                                      *)

Saves == job.output # None \/ job.auto

\* With -a the name is made here, of what is to be written.
Destination ==
  IF job.auto
    THEN AutoName(data[Serial], Path(Field(data, AreaFromSequence(data), Skill)))
    ELSE job.output

AfterSaving == IF job.portalOut THEN "reread" ELSE "finish"

NoFile ==
  /\ phase = "save"
  /\ ~Saves
  /\ GoTo(AfterSaving)
  /\ UNCHANGED <<files, tags>>
  /\ NoFault

\* Slip: the file is emptied and left to be written at the end.
TruncateOnly ==
  /\ phase = "save"
  /\ Saves
  /\ files' = [files EXCEPT ![Destination] = Short]
  /\ GoTo(AfterSaving)
  /\ UNCHANGED tags
  /\ NoFault

\* fopen "wb" empties the file.
Truncate ==
  /\ phase = "save"
  /\ Saves
  /\ files' = [files EXCEPT ![Destination] = Short]
  /\ GoTo("fill")
  /\ UNCHANGED tags
  /\ NoFault

OpenFails ==
  /\ phase = "save"
  /\ Saves
  /\ End(1)
  /\ UNCHANGED <<files, tags>>
  /\ NoFault

Fill ==
  /\ phase = "fill"
  /\ files' = [files EXCEPT ![Destination] =
                 IF job.encrypt THEN EncryptBuffer(data) ELSE Unencrypted(data)]
  /\ GoTo(AfterSaving)
  /\ UNCHANGED tags
  /\ NoFault

\* fwrite fails.
FillFails ==
  /\ phase = "fill"
  /\ End(3)
  /\ Fault
  /\ UNCHANGED <<files, tags, begun>>

\* fwrite has only filled a buffer; fclose writes it and fails, and nobody looks.
FlushFails ==
  /\ phase = "fill"
  /\ GoTo(AfterSaving)
  /\ Fault
  /\ UNCHANGED <<files, tags, begun>>

-----------------------------------------------------------------------------
(* Writing the portal: writeSkylanderToPortal.                              *)

\* WriteBlock is given bNewSkylander, which is false, for the number of a figure.
Target == 0

\* What the tag of figure f says.
OnTag(f) == DecryptBuffer(tags[f])

\* The image that is about to be written, for the history.
Beginning ==
  (IF ValidateAll(OnTag(Target)) THEN {} ELSE begun)
    \cup {IF Keys(data) = Keys(OnTag(Target)) THEN data ELSE None}

\* ReadPortal(old, number) and a second PortalIO.
ReadOld ==
  /\ phase = "reread"
  /\ old' = tags[job.number]
  /\ phase' = "write"
  /\ begun' = Beginning
  /\ UNCHANGED <<files, tags, job, data, exit, faults>>

ReadOldFails ==
  /\ phase = "reread"
  /\ \E e \in PortalErrors : End(e)
  /\ UNCHANGED <<files, tags>>
  /\ NoFault

\* Slip: the pass over the access control blocks is left out.
ChangedData ==
  LET new == EncryptBuffer(data)
  IN {b \in TagBlocks : ~IsAccessControlBlock(b) /\ old[b] # new[b]}

\* The blocks to write: those that differ from what was read.
Changed == LET new == EncryptBuffer(data) IN {b \in TagBlocks : old[b] # new[b]}

Lowest(S) == CHOOSE b \in S : \A c \in S : b <= c

\* Those of them still to write.  No block is written twice, so a block that
\* holds its new content has been written.
Remaining == LET new == EncryptBuffer(data) IN {b \in Changed : tags[Target][b] # new[b]}

\* Slip: one pass.
NextBlockOnePass == Lowest(Remaining)

\* Two passes in ascending order, access control blocks first.
NextBlock ==
  LET trailers == {b \in Remaining : IsAccessControlBlock(b)}
  IN Lowest(IF trailers # {} THEN trailers ELSE Remaining)

Written ==
  LET b == NextBlock IN [tags EXCEPT ![Target][b] = EncryptBuffer(data)[b]]

\* Slip: a block that cannot be written is left for later.
WriteAnyBlock ==
  /\ phase = "write"
  /\ \E b \in Remaining : tags' = [tags EXCEPT ![Target][b] = EncryptBuffer(data)[b]]
  /\ UNCHANGED <<files, session>>
  /\ NoFault

WriteBlock ==
  /\ phase = "write"
  /\ Remaining # {}
  /\ tags' = Written
  /\ UNCHANGED <<files, session>>
  /\ NoFault

\* WriteBlock throws; the block may have been written all the same.
WriteBlockFails ==
  /\ phase = "write"
  /\ Remaining # {}
  /\ tags' \in {tags, Written}
  /\ End(22)
  /\ Fault
  /\ UNCHANGED <<files, begun>>

PortalDone ==
  /\ phase = "write"
  /\ Remaining = {}
  /\ GoTo("finish")
  /\ UNCHANGED <<files, tags>>
  /\ NoFault

Success ==
  /\ phase = "finish"
  /\ End(0)
  /\ UNCHANGED <<files, tags>>
  /\ NoFault

\* The process is killed, or the machine stops.
Crash ==
  /\ Running
  /\ phase' = "idle"
  /\ job' = None
  /\ data' = None
  /\ old' = None
  /\ exit' = 0
  /\ Fault
  /\ UNCHANGED <<files, tags, begun>>

Next ==
  \/ \E j \in Jobs : Begin(j)
  \/ NoCopy
  \/ InitWithPortal
  \/ InitWithFile
  \/ ReadFails
  \/ Upgrade
  \/ NoFile
  \/ Truncate
  \/ OpenFails
  \/ Fill
  \/ FillFails
  \/ FlushFails
  \/ ReadOld
  \/ ReadOldFails
  \/ WriteBlock
  \/ WriteBlockFails
  \/ PortalDone
  \/ Success
  \/ Crash

Spec == Init /\ [][Next]_vars

-----------------------------------------------------------------------------
(* Properties.                                                              *)

\* The variables have their types: past reading there is an image to work on, and
\* no session runs with options that exclude each other.
TypeOK ==
  /\ phase \in {"idle", "flash", "list", "read", "upgrade", "save", "fill", "reread",
                "write", "finish", "done"}
  /\ phase \in {"upgrade", "save", "fill", "reread", "write", "finish"} => IsImage(data)
  /\ phase = "write" => old # None
  /\ exit \in 0..11 \cup {22}
  /\ job # None /\ job.task = "copy" => Accepted(job)
  /\ Running => job # None
  /\ phase = "fill" => Saves
  /\ faults \in 0..FaultsCounted
  /\ \A img \in begun : img = None \/ IsImage(img)

Survives(img) == \E a \in Areas : ValidateArea(img, a)

\* Wherever a write to a figure is cut off, and however often it is begun again and
\* cut off again, one of the two areas is whole: the blocks go out in ascending
\* order, so area 0 is finished before area 1 is begun.  It takes a figure and an
\* image that were valid before, and that it is always the same image.
OneAreaSurvives ==
  Cardinality(begun) <= 1 /\ (\A img \in begun : img # None /\ ValidateAll(img))
    => Survives(OnTag(Target))

\* One cut-off or failed write, wherever it strikes, never costs all copies of a
\* save: on the figure or in a file one area is whole, whatever the sessions before
\* and after it copied where.  main() saves the file before it goes to the portal,
\* and only one of the two is ever incomplete.
OneFaultLosesNothing ==
  faults <= 1 /\ None \notin begun =>
    \/ Survives(OnTag(Target))
    \/ \E n \in Names : /\ Opens(files[n])
                        /\ Survives(Bytes(files[n])) \/ Survives(DecryptBuffer(files[n]))

\* When main() says "Success!" after -P, the figure holds the image, whatever an
\* earlier session that was cut off left on it.
SuccessMeansWritten ==
  phase = "done" /\ exit = 0 /\ job.task = "copy" /\ job.portalOut => tags[job.number] = EncryptBuffer(data)

Saved == phase = "done" /\ exit = 0 /\ job.task = "copy" /\ Saves

\* A dump is faithful: encrypted, it is the tag byte for byte, decrypted it has
\* the bytes behind it; a figure torn by a crash is no exception, unless
\* what was begun was the image of another one.
DumpIsFaithful ==
  Saved /\ job.input = "portal" /\ files[Destination] # Short /\ None \notin begun
    => IF job.encrypt THEN files[Destination] = tags[job.number]
       ELSE Plaintext(files[Destination]) = Plaintext(tags[job.number])

\* fileio.cpp:144: "write the access control blocks first".
AccessControlFirst ==
  [][(\E b \in TagBlocks : tags'[Target][b] # tags[Target][b] /\ ~IsAccessControlBlock(b))
       => \A c \in TagBlocks : IsAccessControlBlock(c) => tags[Target][c] = EncryptBuffer(data)[c]]_vars

(* What messages and documents of the program claim, and the code does not do. *)

\* README.md: "-s <skylander> select which skylander."
OnlyTheSelectedFigure ==
  [][\A f \in Figures : tags'[f] # tags[f] => f = job.number]_vars

\* main.cpp:313 has "Cannot write to File." for a file that was not written.
SuccessMeansSaved == Saved => files[Destination] # Short
=============================================================================
