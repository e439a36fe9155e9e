# SkyReader in TLA+

SkyReader reads, edits and writes the 1024-byte images of toy figures
("skylanders"): from a USB portal, from encrypted or decrypted dump files, and
back. The modules in this directory model the program; TLC checks them on small
instances, and TLAPS proves theorems about each of its parts for every value of the
constants: the figure image and its sessions, encryption, the portal protocol,
transfers, and HIDAPI on both systems. `PROJECT.json` maps each definition to the lines it stands for.

To run: `tlc -config Skylander.cfg MCSkylander` (and the same for each row of the
table of runs below), `tlapm Skylander_proofs.tla`.

## Inventory

The program is one process. `main()` calls the classes below from top to bottom;
the only concurrency is inside HIDAPI, and between the process and the portal.
The only things that outlive a run are the dump files and the figures.

| Component | State | Operations | Correct when |
|---|---|---|---|
| Figure image: `skylander.cpp`, `checksum.cpp` | 1024 bytes: two data areas with a sequence number each, seven stored checksums; the current area | `initSkylander`, getters, setters, `computeChecksum`, `validateChecksum` | after an upgrade all checksums match; no field changes that was not asked for; the area edited is the one read back |
| Encryption: `crypt.cpp`, `rijndael.cpp`, `md5.cpp` | none (key and key schedule are rebuilt per block) | encrypt or decrypt a block | keys and blocks are those of MD5 and AES, as the game computes them; what is encrypted with an image's key is decrypted with it; access control blocks and blocks 0-7 stay plain |
| Transfers: `fileio.cpp`, `main.cpp` | the image in memory, options, the exit code | read and write files, read and write figures, list figures | success means what was asked has happened; an interrupted write leaves something to recover from |
| Portal protocol: `portalio_hidapi.cpp` | the device handle; loop counters of the method under way | constructor, destructor, `ReadBlock`, `WriteBlock`, `SetPortalColor`, `flash` | a read returns what the figure holds, a write that returns true has happened, every method ends |
| HIDAPI (macOS): `hid.c` | report queue of at most 32, shutdown and disconnect flags, a read thread with a run loop, a mutex, a condition, a barrier | open, read with timeout, write, close, callbacks | reports keep their order; readers wake; close and disconnect do not race |
| HIDAPI (Windows): `hid_win.c` | one overlapped read with its event and buffer, which the driver fills | open, read with timeout, write, close | as on macOS; a read that timed out is taken up by the next call; nothing leaks when opening fails |
| Earlier backends `portalio.cpp`, `portalio_libusb.cpp`, `portalio_iokit.cpp` | as `PortalIO` | free functions, not a class | linked by no makefile, called by nothing |
| Toy names, `usbtest.c`, build files | constant tables | look-ups | - |

How they interact: `SkylanderIO` makes a `PortalIO` per reading and another per
writing; `PortalIO` sends a report with `hid_write` and polls
`hid_read_timeout`; HIDAPI's callback, on its own thread, puts reports into the
queue that the poll empties. Requests and reports carry no numbers, so a report
is matched with a request by its first letter and, for block reads, by block
and figure.

What is hard here: an answer to an earlier query is still on its way when the
next one is asked; a write is repeated although the first copy may have taken
effect; a report nobody asked for puts all later answers one behind; a crash or a
failure between two of up to 64 block writes; sequence numbers of one byte that
wrap at different times; an order of checksums that matters; words whose width
depends on the build. `PROJECT.json` lists these as hazards, each at its line.

## Modules

| Module | Models | Correspondence |
|---|---|---|
| `TagImage` | the image, its checksums, setters and sequence numbers | An image is a function from cells to values. A cell is the address of the first byte of a field, the code's own number, so that which checksum covers which field is computed from block ranges as in `Checksum::computeChecksum`. The CRC is the constant `Crc(_)` |
| `Skylander` | sessions on a dump file | one action per step of `main()` without a portal: `Load`, `Edit`, `ComputeChecksums`, `Save`; `Stop` is a run that ends without saving |
| `BlockStore` | abstract: what `PortalIO` promises | a memory of blocks; a call may fail, and a failed write may still take effect later |
| `PortalIO` | `portalio_hidapi.cpp` over HIDAPI, and the portal | `pc` is the next statement of the method under way: `"put"` (send a `W`), `"send"` (send a query or a command), `"await"` (in `CheckResponse`). `requests` and `replies` are the two directions of the link; `replies` is HIDAPI's queue with its bound |
| `Editor` | `fileio.cpp` and `main.cpp` with a portal | `phase` is how far `main()` is. A block is written in one action, a figure read in one, against the memory `BlockStore` promises. A stored block carries the key it was encrypted with. `begun` and `faults` are history: what was begun to be written to the figure since it was last whole, and how often something went wrong |
| `Bytes`, `MD5`, `Rijndael` | `md5.cpp`, `rijndael.cpp` | strings of bytes, and exclusive or by their digits; the functions of the source under their names. `Te0` to `Te3` and `Td0` to `Td3` are given by the rule their entries follow. `LongBytes` is `sizeof(unsigned long)` |
| `Standards` | AES and the CCITT CRC as their standards define them | the reference: multiplication in GF(2^8) and division of polynomials, no tables |
| `ImageBytes` | `crypt.cpp`, `checksum.cpp` and the loops of `fileio.cpp` over blocks | an image is 64 blocks of 16 bytes; one action per block and step (key, key schedule, cipher) and per checksum |
| `ReportQueue` | abstract: what HIDAPI promises to `PortalIO` | reports in order, the oldest lost when too many wait, errors only when the device is gone. `Ahead` reports may have been taken for a caller that has not come back: none on macOS, one on Windows |
| `HidDevice` | `hid.c` | `main` and `reader` are the places in the code of the thread that calls HIDAPI and of `read_thread`; one action per call that another thread can observe. A thread inside a barrier is at the place of its name; `waiting` says which of them sleep |
| `HidWindows` | `hid_win.c` | `place` is the place in the code; `io`, `event` and `ring` are the driver's side of the overlapped read; `held` is what the handle has to give back |
| `MCSkylander`, `MCPortalIO`, `MCEditor`, `MCHidDevice`, `MCHidWindows`, `MCImageBytes` | the instances | constants, and the bounds of the runs |
| `TagImage_proofs`, `Skylander_proofs`, `PortalIO_proofs`, `Editor_proofs`, `Recovery_proofs`, `HidDevice_proofs`, `HidWindows_proofs`, `Encryption_proofs` | theorems | see below |

`Editor` reuses `TagImage` for the image, and relies on the portal only as
`BlockStore` describes it; `PortalIO` is checked to implement `BlockStore`
(`Store == INSTANCE BlockStore WITH store <- tag`). That is how the two compose.
One level down, `HidDevice` implements `ReportQueue`, which is how the variable
`replies` of `PortalIO` behaves: filled by `Deliver`, which drops the oldest,
emptied from the front by `Receive`, and failing once the portal is unplugged.
`HidWindows` implements the same module with `Ahead` = 1: a report that is in the
buffer of a timed-out read is no longer among those the driver may drop.

`TagImage` and `Editor` treat the CRC and the ciphers as functions of which little
is assumed; `ImageBytes` is where these are computed, on the bytes. What `Editor` takes
for granted of a block under its own key, that it comes back, is `RoundTrip` there, and
proved.

Definitions that begin with a comment "Slip:" are not part of the model: each is
a plausible mistake in the definition that follows it, and putting it in that
definition's place makes the property named in `PROJECT.json` fail.

### What the models abstract

- *Bytes.* A field of several bytes is one cell, in the range its bytes hold.
  Only fields that are edited, checksummed, or needed to tell blocks apart are
  cells; the hat, nickname and play time are not.
- *CRC.* In `TagImage`, `Crc` is any function of the covered bytes. The proofs assume nothing
  about it. TLC uses the content itself, a CRC without collisions; only
  `EditsAreCovered` needs that, and is proved for images whose CRCs do not happen to
  agree (`EditsShow`).
- *Ciphers.* In `Editor` a block is decrypted with the key it was encrypted with
  or comes out as `Garbled`, as it does when an encrypted file is read without
  `-d`. A wrong key could by accident yield valid checksums in reality; it never
  does in the model. That decryption undoes encryption is `RoundTrip` of
  `ImageBytes`.
- *Words of `rijndael.cpp`* are four bytes. There too a word is an unsigned long,
  but none is shifted left once made, so a wider one has zeroes in front.
- *The portal and the figures* are not in the repository. `AnswerQuery`,
  `StoreWrite`, `AnswerCommand` and `SetColor` say what the code expects of a
  portal; the fault actions say what it defends against. A send may fail on a portal that
  is there (`SendFails`, the fault "unsent"), and is then taken not to have reached it.
- *Uninitialised memory.* After a timeout `CheckResponse` inspects a buffer that
  `ReadBlock` clears and its other callers do not. `TimedOut` therefore has
  every outcome the build can produce for those callers: asking again, taking the
  command as answered, exceptions 9 and 11.
- *The run loop* of Core Foundation is not in the repository either. In
  `HidDevice` it calls the callbacks that are due, in any order, or returns one of
  the codes `read_thread` tests for. `WakeUp` changes nothing: a run loop that is
  asleep and not woken would act at its next timeout, 1000 s later.
- *Calls on one side of a barrier* that only concern the device, as the four
  calls in `Unregister`, are one step: what the other thread can do between them
  it can do before or after.
- *The driver* of Windows is not in the repository. `ReportArrives`, `ReadFails` and
  `Pushed` say what `hid_win.c` expects of it: one read at a time is served in
  order, a removed device fails it and nothing else does, although `hid_win.c:677` would
  handle any failure in the same way: `ReportQueue` promises no less. `CancelIo` in `hid_close` is taken to have ended
  the read, and `hid_write` returns at any time: the hazards at `hid_win.c:806` and
  `hid_win.c:644` say what this leaves out.
- *Figures stay themselves.* A place on the portal holds the same figure when it
  is taken off and put back. The image of another figure may be written to it.

## Runs

| Run | Instance | Shows |
|---|---|---|
| `upgrade` | `MCSkylander`, `Skylander.cfg` | After every upgrade all checksums match (`UpgradeValidates`); before `computeChecksum` no edit goes unnoticed (`EditsAreCovered`); both sequence numbers move together (`SequenceGapKept`); only what was asked changes (`OnlyAskedChanges`); the area that was edited is the one a reload selects, except when exactly one number wraps (`ReloadSelects`) |
| `portal_faults` | `MCPortalIO`, `PortalFaults.cfg` | With any two faults out of nine kinds, `PortalIO` implements `BlockStore`; a block reported written stays written although copies of the request are still on their way (`WritesLast`); without other faults, `ReadBlock` gives up only when answers are behind by its 15 attempts, `WriteBlock` only when by its 3 retries (`FailuresHaveACause`), and they are behind by no more than the stray reports and late answers explain (`LagIsAccountedFor`); every method but `flash`, which is meant to go on, returns or throws (`MethodsEnd`) |
| `transfer` | `MCEditor`, `Editor.cfg` | Wherever a write of an image is cut off, also again and again, one data area of the figure is whole (`OneAreaSurvives`); one fault anywhere never costs all copies, on the figure and in the files (`OneFaultLosesNothing`); a session that says "Success!" has repaired whatever an earlier one left, an image of another figure included (`SuccessMeansWritten`); dumps and conversions keep every byte, also of a torn figure (`DumpIsFaithful`); access control blocks go first (`AccessControlFirst`) |
| `hid_device` | `MCHidDevice`, `HidDevice.cfg` | `hid_read` gives reports in order and fails only when the device is gone, whatever wakes it (`ImplementsReportQueue`); `hid_open` returns when the reader is ready (`OpenAfterStart`); `hid_close` wakes a thread that is still there (`ThreadOutlivesWakeUp`). Removing the device wakes who waits for it, also who is just falling asleep (`RemovalWakes`); `hid_open` and `hid_close` return, whoever reaches the barrier first (`CallsEnd`) |
| `hid_windows` | `MCHidWindows`, `HidWindows.cfg` | The same order of reports (`ImplementsReportQueue`); what the driver completed has its event set until a call takes note, however many timed out (`WakesForData`); nothing leaks on any path out of `hid_open_path` (`NothingLeaks`); reads of a device that is gone end (`ReadsEnd`) |
| `tag_bytes` | `MCImageBytes`, `ImageBytes.cfg` | With 32-bit words: keys are the MD5 digests another program computes (`KeyIsMD5`); a pass of encryption is AES block by block (`CipherIsAES`); encryption and decryption undo each other in either order (`RoundTrip`); `computeChecksum` leaves eight correct checksums and `validateChecksum` accepts exactly those (`ChecksumsAreRemainders`) |
| `wrap_selects_the_wrong_area` | `MCSkylander`, `SkylanderWrap.cfg` | finding 1 |
| `selected_figure` | `MCEditor`, `EditorSelected.cfg` | finding 2 |
| `success_means_saved` | `MCEditor`, `EditorSaved.cfg` | finding 3 |
| `barrier_wakes_early` | `MCHidDevice`, `HidBarrier.cfg` | finding 4 |
| `closes_unplugged_device` | `MCHidDevice`, `HidClose.cfg` | finding 5 |
| `key_on_64_bit` | `MCImageBytes`, `ImageBytes64.cfg` | finding 6 |

`TypeOK` is checked in the run of each module. Runs say
`CHECK_DEADLOCK FALSE` where the system may stop: a process that has ended, or an
exception that leaves nothing but the destructor to call. `tag_bytes` does not:
there a pass over the image always comes to its end, and another may begin.

### Findings

1. `skylander.cpp:19` says the area with the higher sequence number is the last
   save. `computeChecksum` moves both numbers modulo 256: from 255/254 they become
   0/255, and the next load takes the area that was *not* edited. `ReloadSelects`
   is the exact condition, and it is proved.
2. The README says `-s` selects the figure. `writeSkylanderToPortal` compares
   with the selected figure but writes the differences to figure 0
   (`fileio.cpp:158`).
3. `WriteSkylanderFile` ignores `fclose`, which is where a full disk shows, and
   `main()` prints "Success!" over a short file.
4. The barrier of `hid.c` does not loop around `pthread_cond_wait`. A wakeup
   nobody signaled, which `cond_wait` in the same file allows for, lets the read
   thread end before `hid_close` has used its run loop. `Spec` has no such wakeup
   in a barrier (in `cond_wait` they may always happen); `EarlySpec` adds them.
5. `hid_close` removes the removal callback before it stops the reader. A device
   unplugged after that is not noticed, and is closed although, says the comment,
   that crashes.
6. `md5.h` makes the words of MD5 unsigned longs. With 64 bits `ROTATE_LEFT` is no
   rotation, and every key differs from the MD5 hash that `crypt.cpp` describes: such
   a build reads no figure and no encrypted dump but its own. Builds for Windows, and 32-bit builds, are as
   `tag_bytes` shows.

Seen while modelling, without a run: `main.cpp:37` says `-L 0` sets the path, but the
setter only changes bit 1 of the skill field, so a figure with bit 0 clear still has
no path; `PortalIO::WriteBlock` throws 22 when a verification fails, where
`fileio.h:48` and `main.cpp:320` have 10, so the user reads "Unknown exception";
`listSkylanders` deletes again, in its handler, what it may have deleted before.

### Bounds, and why they are enough

- `SavesAfterWrap` (`NearWrap`): sessions go on from two before the wrap of area 0
  to four after it. Initial images have the other area tied, one ahead, one
  behind and half the range away, so every order of the two wraps occurs.
- `MCOptions`: every numeric option, values one past their field (65536, 2^24),
  both paths, an upgrade without options, and none.
- `MaxAttempts` 3 for 15, `MaxRetries` 2 for 3, `QueueMax` 3 or 4 for 32: the
  loops and the queue only compare with their limit, 2 is the least with a
  repetition, and the two limits differ, as in the code, because a read is given up
  by one and a write by the other; late answers and stray reports fill the queue
  within the fault budget `MaxFaults` = 2. The theorems hold for all limits. `LinkMax` = 2
  requests may be on their way.
- Two blocks, one in each data area's header, and two values: an answer for the
  wrong block and a stale answer for the right one can be told from a good one.
- In `HidDevice`, `QueueMax` 2 for 32 and `MaxReports` 5: the queue overflows more
  than once and is refilled after reads. Opening and closing is not bounded. The
  theorems hold for every `QueueMax` and `MaxReports`.
- `HidWindows` has `RingMax` 2 for 64 and `MaxReports` 5, for the same reasons.
- `MaxSeq` (`FewUpgrades`): sessions of `Editor` go on until a sequence number
  passes 7: one upgrade of the figure (5 and 6 at first), more of an earlier dump.
  Wraps are the business of `Skylander`. The earlier dump that can be restored
  differs from the figure in both data areas (`TwoSavesAgo`), so the order of
  the blocks matters to `OneAreaSurvives`; another file holds the image of another
  figure. Sessions go on after one fault, so that whatever it left is repaired,
  copied and built upon; a second fault is checked, and not continued from.
- Two file names, one for plain and one for encrypted dumps, also in place: `-i`
  and `-o` with the same name. `AutoName` gives one of them.
- `ImageBytes`: two images whose bytes differ from block to block, the sequence
  number of one area at 255. They are encrypted once and decrypted once, in either
  order, and `computeChecksum` runs once: the code keeps no state between passes.
  Five digests of MD5, for blocks in both areas, come from another program.

### Fairness

`FairSpec` of `PortalIO` assumes `WF_vars(HostStep)`: the process, inside a
method, is scheduled and its calls return (a timeout is a return); and
`WF_vars(PortalStep)`: a portal that has a request and can handle it does so.
Faults are not fair, and `MaxFaults` makes them finitely many; a failing `hid_write` is
one, and although it is a step of the host, fairness never asks for it alone, since the
portal makes room for the next request. Without the second
assumption `MethodsEnd` is false, and rightly: the loops that send a query again
after each timeout have no limit of their own (`portalio_hidapi.cpp:196`). No
fairness is assumed of calls, faults or crashes.

`FairSpec` of `HidDevice` assumes `WF_vars(MainStep)` and `WF_vars(ReaderStep)`:
both threads are scheduled and calls of the system return; and
`SF_vars(RemovalCallback \/ PerformSignal)`: a run loop that times out again and
again still makes, some time, the callback that is due. It is strong fairness
because between a timeout and the next run nothing can be called. Reports,
timeouts and unplugging are not fair: `RemovalWakes` is about the removal alone,
also for reads without a timeout.

`FairSpec` of `HidWindows` assumes `WF_vars(MainStep)`: the thread is scheduled, and
calls of the system that can return do; and `WF_vars(ReadFails)`: the driver ends
the reads of a device that is gone. Timeouts are not fair, so `ReadsEnd` holds for
reads without one as well.

`MethodsEnd` leaves out `flash`, which goes on until the portal fails.

`Skylander`, `Editor` and `ImageBytes` state no liveness.

## Proofs

`TagImage_proofs` shows what the operators of `TagImage` do, from the layout
alone. The fields of the two areas are different cells (`CellsApart`), each
checksum looks at a known set of them (`CoveredFields`, `SeenFields`), storing
one changes one cell (`StoredCell`), so a stored checksum matches
(`OverwriteMatches`) and later stores in the order of the code leave it
matching (`OverwriteKeeps`, whose hypotheses are just what the order 3, 2, 1, 0
guarantees). From these follow `OverwriteAllMatches` and `OverwriteAllFrame`.

`Skylander_proofs` has the sessions. `TypeOK` alone is not inductive with respect
to any of the others: what matters is that `data` is, at each phase, a function
of the file and the command line. `Inv` says so:

    loaded  => data = file
    edited  => data = Edited(file, area, opts)
    checked => data = Upgraded(file, area, opts)
    not idle => area = AreaFromSequence(file)

with `TypeOK`. `InitInv` and `NextInv` are its two steps, and

| Theorem | States |
|---|---|
| `TypeCorrect` | `Spec => []TypeOK` |
| `UpgradesValidate` | `Spec => []UpgradeValidates` |
| `ReloadsSelect` | `Spec => []ReloadSelects` |
| `SequenceGap` | `Spec => SequenceGapKept` |
| `OnlyAsked` | `Spec => OnlyAskedChanges` |
| `EditsShow` | `Spec => [](NoCollision => EditsAreCovered)` |

follow from it. The assumptions are `OptionsAssumption` (options are naturals, or
not given) and `ImagesAssumption` (initial files hold values that fit their
bytes); both are evaluated in the `upgrade` run. Nothing is assumed of `Crc`, but
`EditsShow` has it as a hypothesis on the state: `NoCollision` says that where a
checksum looks at a cell that the edit changed, it comes out different. The rest of
the argument is `FieldsAreCovered`: every field of the setters is looked at by a
checksum that is not itself among the fields written.

`HidDevice_proofs` has the threads. Three facts make the properties inductive:

- `GoneInv`: while the device is in use, `disconnected`, `shutdown` or a stopped
  run loop mean that it was unplugged, and nobody has signaled the source. Without
  it a read could return -1 for a device that is there. From it follows the
  refinement, `HidReadsCorrectly`: each action is a step of `ReportQueue` or
  changes nothing it sees. It is proved for `EarlySpec` as well as for `Spec`.
- `StartupInv`: while the reader is not ready, main has not arrived at the startup
  barrier or sleeps in it. `ShutdownInv`: before main arrives at the shutdown
  barrier, the reader has not arrived or sleeps in it. They give `OpensAfterStart`
  and `OutlivesWakeUp`, both for `Spec` only: finding 4 shows that `EarlySpec` does
  not have the second.
- `ThreadTypes` and `QueueTypes`, the two halves of `TypeOK` (`HidTypeCorrect`);
  the first needs that a handle is freed when its reader has ended.

They assume `CountsAssumption`, evaluated in `hid_device`.

`HidWindows_proofs` has the overlapped read. `ReadInv` says when the event of the read
is set, which resources are held at each place of `hid_open_path` and of the calls, and
when a read is with the driver: a read that times out goes on, and the next call finds out
from `read_pending` and the event alone, so that both must agree with the driver's side.
`DataInv` says that buffer and ring hold reports that arrived, and nothing once the file is
closed: otherwise a device opened again would begin with reports of the last time. From the first follow `ReadsWake` and `LeaksNothing`, from both
`WindowsTypeCorrect` and the refinement `WindowsReadsCorrectly`, for every size of the
ring. They assume `RingAssumption`, evaluated in `hid_windows`.

`PortalIO_proofs` has the protocol, for any number of blocks, data, attempts, retries,
faults and requests on their way:

| Theorem | States | By |
|---|---|---|
| `KeepsBlockStore` | `Spec => ImplementsBlockStore` | `StoreInv`: a block holds its original or what was last asked; each request to write it carries what was asked; a report tells what its block held or holds |
| `WritesStay` | `Spec => WritesLast` | the same: what copies of a request may still do has been done |
| `NothingPilesUp` | `Spec => []LagIsAccountedFor` | `LagInv`: what the portal has yet to answer counts with the reports that wait |
| `FailuresExplained` | `Spec => []FailuresHaveACause` | `StaleInv`: see below |
| `TypeInvariance` | `Spec => []TypeOK` | by itself |

`FailuresHaveACause` is about a portal that answers every query, perhaps with more than
was asked. Each attempt of `ReadBlock` and each retry of `WriteBlock` uses up a report
that did not belong to it. `OnPace` counts them: the requests and reports that cannot
answer the query under way are at most the delay that the faults explain, less the
attempts and retries made. When a limit is reached, the delay has therefore reached
it too. For this count to be inductive one has to know that, once the last copy of a
request to write is sent, whatever is asked after it finds the new data (`SentInv`),
that no report says otherwise than that portal and figures are there (`CleanInv`), and
that the counters start at zero (`LoopInv`).

The assumptions are `DataAssumption`, `NoCallAssumption` and `CountsAssumption`, evaluated in
`portal_faults`.

`Editor_proofs` has the sessions with a portal, for every CRC, every set of command
lines, names, initial files and figures, and whatever comes out of a block with the wrong
key. `Inv` (`JobInv`, `StoreInv`, `DataInv`, `RestInv`) says what each phase of `main()`
can rely on. On top of it:

| Theorem | States | If | By |
|---|---|---|---|
| `EditorTypeCorrect` | `Spec => []TypeOK` | `NoneIsNoImage` | `Inv` |
| `SuccessesAreWritten` | `Spec => []SuccessMeansWritten` | `OnlyTarget` | `WriteInv`: while a figure is written, each of its blocks is the old or the new one; `WrittenInv` |
| `AccessControlGoesFirst` | `Spec => AccessControlFirst` | `OnlyTarget` | `WriteInv`, and the order of `NextBlock` |
| `AreasSurvive` | `Spec => []OneAreaSurvives` | `OnlyTarget`, `WholeAtFirst` | `BegunInv`, `KeysInv`, `WholeInv`, `CutInv` |
| `DumpsAreFaithful` | `Spec /\ [](None \notin begun) => []DumpIsFaithful` | `NamesKept`, `OwnKeysAtFirst` | `SavedInv`, `DumpInv`, `OwnInv` |

Why `AreasSurvive` needs more than `WriteInv`: a session that is cut off leaves a mixture of
two images, and the next one writes over that. `CutInv` says what remains true of any such
mixture as long as the same valid image is written: area 1 is still whole, or area 0 is
already the image's; blocks are written from the first to the last, so area 1 is touched
only when area 0 is done. `KeysInv` says that the blocks of
all images begun decrypt with the figure's own key, without which no block of a mixture
means anything.

The hypotheses restrict the constants, and the `transfer` instance satisfies them all:

- `OnlyTarget`: `-P` is used with figure 0 only. For another one the properties are
  false, because the code compares with the figure of `-s` and writes to figure 0
  (finding 2).
- `WholeAtFirst`: figure 0 is valid before the first session. `OwnKeysAtFirst`: the figures are
  encrypted with their own keys.
- `NamesKept`: names made for `-a` are names of files. `NoneIsNoImage`: the value that stands
  for "no image" is none.

`DumpsAreFaithful` has a hypothesis on the behaviour too: no image of another figure is begun
to be written to figure 0. One that is cut off leaves blocks under two keys, and a dump
of that is not the tag decrypted. The model says they come out as `Garbled`, of which
the proofs assume nothing: it might validate. TLC checks the property without this hypothesis,
with a `Garbled` that does not.

The assumptions are `JobsAssumption` (command lines are such as `main()` can parse)
and `ImagesAssumption` (files and figures hold 64 blocks of bytes, and there is a
figure 0), evaluated in `transfer`.

`Recovery_proofs` goes on from there to `OneFaultLosesNothing` (`NothingIsLost`), which is
about all copies at once. `LossInv` is its inductive invariant:

- before a fault, and after one that struck a file, all that opens is whole: files, figures
  and the image in memory. While figure 0 is written, it is whole in area 1, or area 0 is
  already the image's (`TargetInv`);
- after a fault that struck the figure, copies of it may be torn, but every copy that is not
  being written is whole in one area, and an image on its way to the portal is in a file
  too (`CopyInv`): `main()` saves it first. A second session that reads the torn figure,
  edits it, and writes it to files and back changes nothing in this.

Both halves are needed: a torn figure can be dumped over a good file, so the files do not
stay whole, and it is written over again, so the figure does not either. The theorem has
`OnlyTarget` and `NamesKept` as above, and

- `NamesTellForm`: `-d` is given for the files that are encrypted, and `-e` for those that
  are to be. A plain file read as an encrypted one is garbled without any fault.
- `FiguresWholeAtFirst`, `FilesWholeAtFirst`: what there is at first is valid, or a file is
  missing or short. `MarksAreNoImages`: the values that stand for such files are no images.

`transfer` satisfies these as well, with one of its names for encrypted dumps (`Encrypted`).

`Encryption_proofs` is about every byte of every image. Nothing is assumed of MD5, AES or
the CRC but what the modules define:

| Theorem | States |
|---|---|
| `CipherInverts` | `rijndaelDecrypt` with the keys of `rijndaelSetupDecrypt` undoes `rijndaelEncrypt` with those of `rijndaelSetupEncrypt`, and the other way round |
| `CipherMeetsStandard` | `rijndaelEncrypt` with the keys of `rijndaelSetupEncrypt` is AES |
| `PassesAreAES` | `Spec => CipherIsAES` |
| `ImagesComeBack` | `Spec => []RoundTrip` |
| `TypeCorrect` | `Spec => []TypeOK`: among other things, a key is only computed for a block of the buffer that is encrypted, so no loop goes past its 64 blocks |

They go up in layers. A byte is its eight digits, so an equation of bytes under exclusive or
is one of propositional logic for each digit (`SameDigits`, `XorDigits`); multiplication by
02 moves digits (`TwiceDigits`) and distributes (`TwiceAdds`), hence so do the coefficients
of both mixtures, and the two mixtures of a column undo each other (`ColumnsInvert`). A
lookup in `Te0` to `Te3` is a substitution and a mixture (`TablesMix`), a round is a
shuffle, a mixture and a key (`RoundsAre`). Decryption walks through the states between
shuffle and mixture in reverse: `rijndaelSetupDecrypt` mixes the round keys so that adding
them after the mixture is adding the originals before it (`DecryptionKeys`, `AddKeyLaws`).
The standard's cipher has the same states, as bytes rather than words (`SubShift`,
`MixColumnsAre`, `ExpandIs`).

The inductive invariant of the passes is `IInv`. `RoundTrip` says something only when no
pass runs and as many have encrypted as decrypted; `ImageInv` says of every block, at any
time, that it is the plain one in as many layers as it has got so far (`Depth`). For that the
key must be the same both times: it comes from blocks 0 and 1, which no pass touches
(`KeysAreKept`), and that they are not touched follows from `ImageInv` itself. `TypeOK`
needs that MD5, AES and the CRC return bytes (`KeyIsBlock`, `ChecksumIsShort`). Arithmetic
on bytes, unsigned shorts and sequence numbers cites their bounds (`ByteBounds`,
`ShortBounds`, `SequenceBounds`): the provers write a range between numerals out, element
by element.

What a function defined by recursion computes is shown by induction over a set of numbers
(`SetInduction`, from `WFMin`), and that there is such a function by `Recursion`: the
library's theorems for both take operators, which cannot be instantiated here.

The assumptions say of the 256 entries of a table what TLC evaluates in `tag_bytes`: the
substitution boxes are inverse permutations (`BoxesAssumption`), the standard's arithmetic
agrees with them, with `Twice` and `Thrice`, and with `rcon` (`TablesAssumption`); and
`Images` holds images (`ImagesAssumption`), an unsigned long has 4 or 8 bytes
(`LongAssumption`).

Only model-checked:

- `KeyIsMD5`: known answers, which are computed and not argued for. With 64-bit words it
  is false (finding 6).
- `ChecksumsAreRemainders`: it would need the theory of remainders of polynomials, of which
  the library has nothing. What is proved is that checksums are written where they
  belong and in which order (`UpgradesValidate`), for every function in place of the CRC.
- Liveness (`MethodsEnd`, `RemovalWakes`, `CallsEnd`, `ReadsEnd`), which is beyond TLAPS.
- The disagreements above, which are counterexamples.

## Not modelled, and the plan

What would come next is the theory of polynomials over GF(2) for
`ChecksumsAreRemainders`. `Editor` and `BlockStore` stay two modules whose steps
agree by reading: an `INSTANCE` would need the request under way, which belongs to one
`PortalIO`, while `Editor` goes through many and its figures outlive all of them.

Not modelled:

- An exchange of figures between reading and writing. The code has no means to
  notice one, so there is nothing to state that holds.
- The earlier backends. No makefile links them: they offer free functions where
  `fileio.cpp` calls a class.
- AES with keys of 192 and 256 bits, the loops that `FULL_UNROLL` leaves out, the
  `LITTLE_ENDIAN` variant of MD5: nothing in the repository calls or selects them.
- Feature reports and device strings of HIDAPI, `hid_exit`, and what `hid_enumerate` asks
  of the setup library: not used, or calls of the system from top to bottom.
- `Max*`, `setHat`, `setArea` and `UpdateBuf` of `Skylander`, which nothing calls.
- Toy names (a table), the layout of what `-D` and `-l` print, `usbtest.c`.
