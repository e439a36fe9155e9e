----------------------------- MODULE HidWindows -----------------------------
(***************************************************************************)
(* HIDAPI on Windows (hid_win.c): one thread, and a driver that completes  *)
(* its reads.  A handle has one OVERLAPPED read and one buffer for it; a   *)
(* read that times out leaves both to the driver, and the next call goes   *)
(* on with them.  The driver sets the event of a read it completes.        *)
(*                                                                         *)
(* The driver is not part of the repository: it keeps RingMax reports per  *)
(* open file, drops the oldest for a new one, hands a report to a read that *)
(* waits and fails the reads of a device that is gone.                     *)
(***************************************************************************)
EXTENDS Integers, Sequences

CONSTANTS
  RingMax,      \* reports the driver keeps: 64
  MaxReports    \* reports of a device while it is open, the model's bound

ASSUME RingAssumption == RingMax \in Nat \ {0} /\ MaxReports \in Nat

Resources == {"event", "file", "preparsed", "buffer"}

VARIABLES
  place,      \* of the thread
  held,       \* what was created or allocated for the handle
  blocking,   \* field of hid_device_
  pending,    \* read_pending of hid_device_
  buffer,     \* the report in read_buf, 0 for none
  patience,   \* how long the read under way waits
  outcome,    \* of the last read: a report, 0 for none in time, -1 for an error
  io,         \* the read given to the driver: none, running, done or failed
  event,      \* hEvent of the OVERLAPPED is signaled
  ring,       \* the driver's reports
  arrived,    \* reports received since the file was opened
  plugged     \* is the device connected?

handlevars == <<held, blocking, pending, buffer>>
callvars   == <<patience, outcome>>
drivervars == <<io, event, ring, arrived>>
vars == <<place, handlevars, callvars, drivervars, plugged>>

Init ==
  /\ place = "closed"
  /\ held = {}
  /\ blocking = TRUE
  /\ pending = FALSE
  /\ buffer = 0
  /\ patience = "none"
  /\ outcome = 0
  /\ io = "none"
  /\ event = FALSE
  /\ ring = <<>>
  /\ arrived = 0
  /\ plugged = TRUE

Goes(from, to) == place = from /\ place' = to

-----------------------------------------------------------------------------
(* hid_open and hid_open_path.                                              *)

\* hid_enumerate lists the device, and hid_open takes its path.
FindDevice ==
  /\ plugged
  /\ Goes("closed", "found")
  /\ UNCHANGED <<handlevars, callvars, drivervars, plugged>>

\* new_hid_device.
NewDevice ==
  /\ Goes("found", "created")
  /\ held' = {"event"}
  /\ blocking' = TRUE
  /\ pending' = FALSE
  /\ buffer' = 0
  /\ event' = FALSE
  /\ UNCHANGED <<callvars, io, ring, arrived, plugged>>

\* open_device.  The driver collects reports from here.
CreateFile ==
  /\ plugged
  /\ Goes("created", "opened")
  /\ held' = held \cup {"file"}
  /\ io' = "none"
  /\ ring' = <<>>
  /\ arrived' = 0
  /\ outcome' = 0
  /\ UNCHANGED <<blocking, pending, buffer, patience, event, plugged>>

SetNumInputBuffers ==
  /\ Goes("opened", "sized")
  /\ UNCHANGED <<handlevars, callvars, drivervars, plugged>>

GetPreparsedData ==
  /\ Goes("sized", "prepared")
  /\ held' = held \cup {"preparsed"}
  /\ UNCHANGED <<blocking, pending, buffer, callvars, drivervars, plugged>>

\* HidP_GetCaps gives the lengths of the reports, for the buffer.
GetCaps ==
  /\ Goes("prepared", "open")
  /\ held' = (held \ {"preparsed"}) \cup {"buffer"}
  /\ UNCHANGED <<blocking, pending, buffer, callvars, drivervars, plugged>>

\* free_hid_device.
FreeDevice(rest) ==
  /\ place' = "closed"
  /\ held' = rest
  /\ pending' = FALSE
  /\ buffer' = 0
  /\ io' = "none"
  /\ ring' = <<>>
  /\ UNCHANGED blocking

\* Slip: HidP_GetCaps fails to the wrong label.
OpenFailsToErr ==
  /\ place \in {"created", "opened", "sized", "prepared"}
  /\ FreeDevice(held \cap {"preparsed"})
  /\ UNCHANGED <<callvars, event, arrived, plugged>>

\* The labels err_pp_data and err: each call of hid_open_path may fail.
OpenFails ==
  /\ place \in {"created", "opened", "sized", "prepared"}
  /\ FreeDevice({})
  /\ UNCHANGED <<callvars, event, arrived, plugged>>

-----------------------------------------------------------------------------
(* hid_read_timeout, hid_read and hid_write.                                *)

\* Slip: a read that could not be started counts as pending.
ReadFileFailsPending ==
  /\ ~plugged
  /\ pending' = TRUE
  /\ buffer' = 0
  /\ event' = FALSE
  /\ outcome' = -1
  /\ UNCHANGED <<place, patience, io, ring>>

\* ReadFile fails at once; CancelIo finds nothing to cancel.
ReadFileFails ==
  /\ ~plugged
  /\ pending' = FALSE
  /\ buffer' = 0
  /\ event' = FALSE
  /\ outcome' = -1
  /\ UNCHANGED <<place, patience, io, ring>>

\* Slip: the event is reset after ReadFile.
ReadFileThenReset(p) ==
  /\ pending' = TRUE
  /\ event' = FALSE
  /\ IF ring = <<>>
       THEN io' = "running" /\ buffer' = 0 /\ UNCHANGED ring
       ELSE io' = "done" /\ buffer' = Head(ring) /\ ring' = Tail(ring)
  /\ place' = "waiting"
  /\ patience' = p
  /\ UNCHANGED outcome

\* The driver takes the read, and completes it with its oldest report if it has
\* one.
ReadFile(p) ==
  /\ pending' = TRUE
  /\ event' = (ring # <<>>)
  /\ IF ring = <<>>
       THEN io' = "running" /\ buffer' = 0 /\ UNCHANGED ring
       ELSE io' = "done" /\ buffer' = Head(ring) /\ ring' = Tail(ring)
  /\ place' = "waiting"
  /\ patience' = p
  /\ UNCHANGED outcome

\* The read an earlier call left running is still the one.
ContinueRead(p) ==
  /\ place' = "waiting"
  /\ patience' = p
  /\ UNCHANGED <<pending, buffer, outcome, io, event, ring>>

\* p is "none" for 0 milliseconds, "some" for more, "endless" for less.
HidReadTimeout(p) ==
  /\ place = "open"
  /\ IF pending THEN ContinueRead(p) ELSE ReadFile(p) \/ ReadFileFails
  /\ UNCHANGED <<held, blocking, arrived, plugged>>

HidRead == HidReadTimeout(IF blocking THEN "endless" ELSE "none")

HidSetNonblocking(nonblock) ==
  /\ place = "open"
  /\ blocking' = ~nonblock
  /\ UNCHANGED <<place, held, pending, buffer, callvars, drivervars, plugged>>

Return(r) ==
  /\ place' = "open"
  /\ patience' = "none"
  /\ outcome' = r

\* WaitForSingleObject finds the event, and resets it.
WaitObject ==
  /\ patience # "endless"
  /\ event
  /\ Goes("waiting", "signaled")
  /\ event' = FALSE
  /\ UNCHANGED <<handlevars, callvars, io, ring, arrived, plugged>>

\* Slip: a read that timed out is forgotten.
WaitTimeoutForgets ==
  /\ place = "waiting"
  /\ patience # "endless"
  /\ ~event
  /\ Return(0)
  /\ pending' = FALSE
  /\ UNCHANGED <<held, blocking, buffer, drivervars, plugged>>

\* "There was no data this time": the read goes on.
WaitTimeout ==
  /\ place = "waiting"
  /\ patience # "endless"
  /\ ~event
  /\ Return(0)
  /\ UNCHANGED <<handlevars, drivervars, plugged>>

\* Slip: the read stays pending when it failed.
GetResultIfDone ==
  /\ place = "signaled" \/ (place = "waiting" /\ patience = "endless")
  /\ io \in {"done", "failed"}
  /\ event' \in {event, FALSE}
  /\ pending' = (io = "failed")
  /\ io' = "none"
  /\ Return(IF io = "done" THEN buffer ELSE -1)
  /\ UNCHANGED <<held, blocking, buffer, ring, arrived, plugged>>

\* GetOverlappedResult.  When it has to wait it resets the event.
GetResult ==
  /\ place = "signaled" \/ (place = "waiting" /\ patience = "endless")
  /\ io \in {"done", "failed"}
  /\ event' \in {event, FALSE}
  /\ pending' = FALSE
  /\ io' = "none"
  /\ Return(IF io = "done" THEN buffer ELSE -1)
  /\ UNCHANGED <<held, blocking, buffer, ring, arrived, plugged>>

\* hid_write waits for the driver with an OVERLAPPED of its own, the read of an
\* earlier call left running.
HidWrite ==
  /\ Goes("open", "writing")
  /\ UNCHANGED <<handlevars, callvars, drivervars, plugged>>

\* The portal has the report, or the device is gone; or, since this OVERLAPPED has
\* no event, the end of an earlier read has signaled the file.
WriteDone ==
  /\ Goes("writing", "open")
  /\ UNCHANGED <<handlevars, callvars, drivervars, plugged>>

\* hid_close: CancelIo and free_hid_device.
HidClose ==
  /\ place = "open"
  /\ FreeDevice({})
  /\ UNCHANGED <<callvars, event, arrived, plugged>>

-----------------------------------------------------------------------------
(* The driver and the device.                                               *)

Pushed(s, r) ==
  LET all == Append(s, r) IN IF Len(all) > RingMax THEN Tail(all) ELSE all

ReportArrives ==
  /\ "file" \in held
  /\ plugged
  /\ arrived < MaxReports
  /\ arrived' = arrived + 1
  /\ IF io = "running"
       THEN io' = "done" /\ event' = TRUE /\ buffer' = arrived' /\ UNCHANGED ring
       ELSE ring' = Pushed(ring, arrived') /\ UNCHANGED <<io, event, buffer>>
  /\ UNCHANGED <<place, held, blocking, pending, callvars, plugged>>

ReadFails ==
  /\ io = "running"
  /\ ~plugged
  /\ io' = "failed"
  /\ event' = TRUE
  /\ UNCHANGED <<place, handlevars, callvars, ring, arrived, plugged>>

Unplug ==
  /\ plugged
  /\ plugged' = FALSE
  /\ UNCHANGED <<place, handlevars, callvars, drivervars>>

\* A device that comes back is not the one a file was opened for.
PlugIn ==
  /\ ~plugged
  /\ "file" \notin held
  /\ plugged' = TRUE
  /\ UNCHANGED <<place, handlevars, callvars, drivervars>>

-----------------------------------------------------------------------------
\* What the thread does within a call.
MainStep ==
  \/ NewDevice \/ CreateFile \/ SetNumInputBuffers \/ GetPreparsedData \/ GetCaps
  \/ OpenFails \/ WaitObject \/ GetResult \/ WriteDone

Next ==
  \/ FindDevice \/ MainStep
  \/ HidRead \/ \E p \in {"none", "some", "endless"} : HidReadTimeout(p)
  \/ WaitTimeout
  \/ \E b \in BOOLEAN : HidSetNonblocking(b)
  \/ HidWrite \/ HidClose
  \/ ReportArrives \/ ReadFails \/ Unplug \/ PlugIn

Spec == Init /\ [][Next]_vars

\* The thread is scheduled, and the driver ends the reads of a removed device.
FairSpec == Spec /\ WF_vars(MainStep) /\ WF_vars(ReadFails)

-----------------------------------------------------------------------------
Finished == io \in {"done", "failed"}
Reading  == place \in {"waiting", "signaled"}

\* Types; read_pending tells the truth about the driver, and the reports not yet
\* read are among those that arrived.
TypeOK ==
  /\ place \in {"closed", "found", "created", "opened", "sized", "prepared", "open",
                "waiting", "signaled", "writing"}
  /\ held \subseteq Resources
  /\ {blocking, pending, event, plugged} \subseteq BOOLEAN
  /\ patience \in {"none", "some", "endless"}
  /\ arrived \in 0..MaxReports
  /\ buffer \in 0..arrived \/ "file" \notin held
  /\ outcome \in -1..MaxReports
  /\ io \in {"none", "running", "done", "failed"}
  /\ pending <=> io # "none"
  /\ ring \in Seq(1..arrived)
  /\ Len(ring) <= RingMax

Taken == IF io = "done" THEN <<buffer>> ELSE <<>>

Reports == INSTANCE ReportQueue WITH
  QueueMax <- RingMax,
  Ahead    <- 1,
  open     <- "file" \in held,
  queue    <- Taken \o ring

\* hid_read_timeout gives the reports in the order in which the driver received
\* them, also the one that arrived in the buffer of a call that had timed out, and
\* fails only when the device is gone.
ImplementsReportQueue == Reports!Spec

\* A read never waits for an event that was lost: what the driver completed has its
\* event set until a call takes note of it, however many calls timed out before.
WakesForData == pending /\ Finished => event \/ place = "signaled" \/ patience = "endless"

\* Whatever fails in hid_open_path, what was made before it is given back; and an
\* open handle has all it needs.
NothingLeaks ==
  /\ place = "closed" => held = {}
  /\ place \in {"open", "waiting", "signaled", "writing"} => held = Resources \ {"preparsed"}

\* Every read ends when its device is gone, whether the driver had taken it before
\* or not, and also after one that failed at once.
ReadsEnd == Reading /\ ~plugged ~> place = "open"
=============================================================================
