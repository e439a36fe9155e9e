----------------------------- MODULE HidDevice -----------------------------
(***************************************************************************)
(* HIDAPI on Mac OS (hid.c): a device handle shared by the thread that     *)
(* calls HIDAPI, "main", and the thread that runs the device's run loop,   *)
(* "reader".  The run loop hands the device's reports to a callback, which *)
(* queues them for hid_read.  Two barriers order the start and the end of  *)
(* the reader; a mutex and a condition let main sleep until a report       *)
(* comes.                                                                  *)
(*                                                                         *)
(* main and reader are the places of the threads.  The mutex is only held  *)
(* within one step, except by main between finding no report and sleeping. *)
(* The flags disconnected and shutdown_thread are read without it.         *)
(***************************************************************************)
EXTENDS Integers, Sequences

CONSTANTS
  QueueMax,     \* reports kept for a reader: 32
  MaxReports    \* reports of a device while it is open, the model's bound

ASSUME CountsAssumption ==
  /\ QueueMax \in Nat \ {0}
  /\ MaxReports \in Nat

Threads  == {"main", "reader"}
Barriers == {"startup", "shutdown"}

VARIABLES
  main, reader,  \* the place of each thread
  patience,      \* how long the read under way waits
  disconnected,  \* field of hid_device_
  shutdown,      \* shutdown_thread of hid_device_
  registered,    \* the callbacks for reports and for the removal are set
  signaled,      \* the run loop's source is signaled
  count,         \* of each barrier, the threads that arrived
  waiting,       \* of each barrier, the threads that sleep in it
  queue,         \* input_reports of hid_device_
  arrived,       \* reports received since the device was opened
  outcome,       \* of the last read: a report, 0 for none in time, -1 for an error
  plugged        \* is the device connected?

places == <<main, reader>>
flags == <<disconnected, shutdown, registered, signaled>>
sync  == <<count, waiting>>
data  == <<queue, arrived, outcome, patience>>
vars  == <<places, flags, sync, data, plugged>>

Init ==
  /\ main = "closed"
  /\ reader = "none"
  /\ patience = "none"
  /\ disconnected = FALSE
  /\ shutdown = FALSE
  /\ registered = FALSE
  /\ signaled = FALSE
  /\ count = [b \in Barriers |-> 0]
  /\ waiting = [b \in Barriers |-> {}]
  /\ queue = <<>>
  /\ arrived = 0
  /\ outcome = 0
  /\ plugged = TRUE

MainGoes(from, to)   == main = from /\ main' = to /\ UNCHANGED reader
ReaderGoes(from, to) == reader = from /\ reader' = to /\ UNCHANGED main

MutexFree == main # "empty"

-----------------------------------------------------------------------------
(* The barriers.  A thread at a place named like a barrier is inside it.    *)

\* Slip: the barrier opens for the first thread.
OneEnough == 1

TripCount == 2

Trips(b) == count[b] + 1 >= TripCount

\* The last thread to arrive lets all others go.
Arrive(b, t) ==
  /\ count' = [count EXCEPT ![b] = IF Trips(b) THEN 0 ELSE @ + 1]
  /\ waiting' = [waiting EXCEPT ![b] = IF Trips(b) THEN {} ELSE @ \cup {t}]

\* Where a thread is that just arrived.
Beyond(b, after) == IF Trips(b) THEN after ELSE b

-----------------------------------------------------------------------------
(* hid_open.                                                                *)

\* hid_enumerate finds the device.
FindDevice ==
  /\ plugged
  /\ MainGoes("closed", "found")
  /\ UNCHANGED <<flags, sync, data, plugged>>

\* hid_open_path makes a handle and starts the reader.
OpenPath ==
  /\ plugged
  /\ main = "found"
  /\ main' = "opening"
  /\ reader' = "starting"
  /\ disconnected' = FALSE
  /\ shutdown' = FALSE
  /\ registered' = TRUE
  /\ signaled' = FALSE
  /\ count' = [b \in Barriers |-> 0]
  /\ waiting' = [b \in Barriers |-> {}]
  /\ queue' = <<>>
  /\ arrived' = 0
  /\ outcome' = 0
  /\ UNCHANGED <<patience, plugged>>

\* The device is gone, or another process has it.
OpenFails ==
  /\ MainGoes("found", "closed")
  /\ UNCHANGED <<flags, sync, data, plugged>>

AwaitStart ==
  /\ main = "opening"
  /\ Arrive("startup", "main")
  /\ main' = Beyond("startup", "open")
  /\ UNCHANGED <<reader, flags, data, plugged>>

Opened ==
  /\ "main" \notin waiting["startup"]
  /\ MainGoes("startup", "open")
  /\ UNCHANGED <<flags, sync, data, plugged>>

-----------------------------------------------------------------------------
(* hid_read and hid_read_timeout.                                           *)

Gone == disconnected \/ shutdown

Return(r) ==
  /\ main' = "open"
  /\ UNCHANGED reader
  /\ outcome' = r
  /\ patience' = "none"

\* The oldest report, if there is one.
ReturnData ==
  /\ queue # <<>>
  /\ Return(Head(queue))
  /\ queue' = Tail(queue)

\* p is "none" for a non-blocking read, "some" for a timeout, "endless" for -1.
HidRead(p) ==
  /\ main = "open"
  /\ \/ ReturnData
     \/ queue = <<>> /\ Gone /\ Return(-1) /\ UNCHANGED queue
     \/ queue = <<>> /\ ~Gone /\ p = "none" /\ Return(0) /\ UNCHANGED queue
     \/ /\ queue = <<>>
        /\ ~Gone
        /\ p # "none"
        /\ main' = "empty"
        /\ patience' = p
        /\ UNCHANGED <<reader, queue, outcome>>
  /\ UNCHANGED <<flags, sync, arrived, plugged>>

Sleep ==
  /\ MainGoes("empty", "asleep")
  /\ UNCHANGED <<flags, sync, data, plugged>>

\* A condition may wake its waiter unsignaled.
WakeSpuriously ==
  /\ MainGoes("asleep", "awake")
  /\ UNCHANGED <<flags, sync, data, plugged>>

\* Slip: a spurious wakeup is taken for the end of the device.
AwakeNoLoop ==
  /\ main = "awake"
  /\ \/ ReturnData
     \/ queue = <<>> /\ Return(-1) /\ UNCHANGED queue
  /\ UNCHANGED <<flags, sync, arrived, plugged>>

\* Once signaled, the device's end comes before a report, and neither means to
\* wait again.
Awake ==
  /\ main = "awake"
  /\ \/ Gone /\ Return(-1) /\ UNCHANGED queue
     \/ ~Gone /\ ReturnData
     \/ /\ ~Gone
        /\ queue = <<>>
        /\ main' = "empty"
        /\ UNCHANGED <<reader, queue, outcome, patience>>
  /\ UNCHANGED <<flags, sync, arrived, plugged>>

\* The time is up; a report may still come before main has the mutex again.
Expire ==
  /\ patience = "some"
  /\ MainGoes("asleep", "expired")
  /\ UNCHANGED <<flags, sync, data, plugged>>

ReturnNothing ==
  /\ main = "expired"
  /\ Return(0)
  /\ UNCHANGED <<flags, sync, queue, arrived, plugged>>

-----------------------------------------------------------------------------
(* hid_close.                                                               *)

HidClose ==
  /\ main = "open"
  /\ main' = IF disconnected THEN "shutting" ELSE "unregistering"
  /\ UNCHANGED <<reader, flags, sync, data, plugged>>

\* Removes both callbacks and takes the device from the reader's run loop.
Unregister ==
  /\ MainGoes("unregistering", "shutting")
  /\ registered' = FALSE
  /\ UNCHANGED <<disconnected, shutdown, signaled, sync, data, plugged>>

ShutDown ==
  /\ MainGoes("shutting", "signaling")
  /\ shutdown' = TRUE
  /\ UNCHANGED <<disconnected, registered, signaled, sync, data, plugged>>

\* Slip: main lets the reader go before it has used its run loop.
SignalLate ==
  /\ main = "signaling"
  /\ signaled' = TRUE
  /\ Arrive("shutdown", "main")
  /\ main' = Beyond("shutdown", "waking")
  /\ UNCHANGED <<reader, disconnected, shutdown, registered, data, plugged>>

SignalSource ==
  /\ MainGoes("signaling", "waking")
  /\ signaled' = TRUE
  /\ UNCHANGED <<disconnected, shutdown, registered, sync, data, plugged>>

\* A run loop that is asleep looks at its sources again.
WakeUp ==
  /\ MainGoes("waking", "leaving")
  /\ UNCHANGED <<flags, sync, data, plugged>>

AwaitShutdown ==
  /\ main = "leaving"
  /\ Arrive("shutdown", "main")
  /\ main' = Beyond("shutdown", "joining")
  /\ UNCHANGED <<reader, flags, data, plugged>>

ShutdownAgreed ==
  /\ "main" \notin waiting["shutdown"]
  /\ MainGoes("shutdown", "joining")
  /\ UNCHANGED <<flags, sync, data, plugged>>

\* pthread_join, and the test whether to close the device.
Join ==
  /\ main = "joining"
  /\ reader = "ended"
  /\ main' = IF disconnected THEN "freeing" ELSE "closing"
  /\ UNCHANGED <<reader, flags, sync, data, plugged>>

CloseDevice ==
  /\ MainGoes("closing", "freeing")
  /\ UNCHANGED <<flags, sync, data, plugged>>

Free ==
  /\ main = "freeing"
  /\ main' = "closed"
  /\ reader' = "none"
  /\ queue' = <<>>
  /\ UNCHANGED <<flags, sync, arrived, outcome, patience, plugged>>

-----------------------------------------------------------------------------
(* read_thread and the callbacks its run loop makes.                        *)

\* The device joins the reader's run loop, which is stored for main.
StartThread ==
  /\ ReaderGoes("starting", "started")
  /\ UNCHANGED <<flags, sync, data, plugged>>

Started ==
  /\ reader = "started"
  /\ Arrive("startup", "reader")
  /\ reader' = Beyond("startup", "looping")
  /\ UNCHANGED <<main, flags, data, plugged>>

Released ==
  /\ "reader" \notin waiting["startup"]
  /\ ReaderGoes("startup", "looping")
  /\ UNCHANGED <<flags, sync, data, plugged>>

TestFlags ==
  /\ reader = "looping"
  /\ reader' = IF Gone THEN "stopping" ELSE "running"
  /\ UNCHANGED <<main, flags, sync, data, plugged>>

\* Main wakes if it sleeps; nobody else waits for reports.
SignalMain == main' = IF main = "asleep" THEN "awake" ELSE main

\* Slip: one report too many is kept.
QueuedOneMore(s, r) ==
  LET all == Append(s, r) IN IF Len(all) > QueueMax + 1 THEN Tail(all) ELSE all

\* A full queue loses its oldest report.
Queued(s, r) ==
  LET all == Append(s, r) IN IF Len(all) > QueueMax THEN Tail(all) ELSE all

\* hid_report_callback.
ReportCallback ==
  /\ reader = "running"
  /\ registered
  /\ MutexFree
  /\ arrived < MaxReports
  /\ arrived' = arrived + 1
  /\ queue' = Queued(queue, arrived + 1)
  /\ SignalMain
  /\ UNCHANGED <<reader, flags, sync, outcome, patience, plugged>>

\* hid_device_removal_callback, which stops the run loop.
RemovalCallback ==
  /\ registered
  /\ ~plugged
  /\ ReaderGoes("running", "stopped")
  /\ disconnected' = TRUE
  /\ UNCHANGED <<shutdown, registered, signaled, sync, data, plugged>>

\* perform_signal_callback, which stops the run loop.
PerformSignal ==
  /\ signaled
  /\ ReaderGoes("running", "stopped")
  /\ signaled' = FALSE
  /\ UNCHANGED <<disconnected, shutdown, registered, sync, data, plugged>>

\* CFRunLoopRunInMode returns kCFRunLoopRunTimedOut.
RunTimedOut ==
  /\ ReaderGoes("running", "looping")
  /\ UNCHANGED <<flags, sync, data, plugged>>

\* It returns kCFRunLoopRunFinished: the device is no longer a source.
RunFinished ==
  /\ ~plugged
  /\ ReaderGoes("running", "stopping")
  /\ disconnected' = TRUE
  /\ UNCHANGED <<shutdown, registered, signaled, sync, data, plugged>>

\* It returns kCFRunLoopRunStopped.
RunStopped ==
  /\ ReaderGoes("stopped", "stopping")
  /\ shutdown' = TRUE
  /\ UNCHANGED <<disconnected, registered, signaled, sync, data, plugged>>

\* Slip: the reader does not take the mutex.
WakeMainUnlocked ==
  /\ reader = "stopping"
  /\ SignalMain
  /\ reader' = "stayed"
  /\ UNCHANGED <<flags, sync, data, plugged>>

\* Main is woken under the mutex: it either saw the flags or is asleep already.
WakeMain ==
  /\ reader = "stopping"
  /\ MutexFree
  /\ SignalMain
  /\ reader' = "stayed"
  /\ UNCHANGED <<flags, sync, data, plugged>>

\* Slip: a reader that the removal stopped does not wait for hid_close.
StayIfPlugged ==
  /\ reader = "stayed"
  /\ IF disconnected
       THEN reader' = "ended" /\ UNCHANGED sync
       ELSE Arrive("shutdown", "reader") /\ reader' = Beyond("shutdown", "ended")
  /\ UNCHANGED <<main, flags, data, plugged>>

Stay ==
  /\ reader = "stayed"
  /\ Arrive("shutdown", "reader")
  /\ reader' = Beyond("shutdown", "ended")
  /\ UNCHANGED <<main, flags, data, plugged>>

EndThread ==
  /\ "reader" \notin waiting["shutdown"]
  /\ ReaderGoes("shutdown", "ended")
  /\ UNCHANGED <<flags, sync, data, plugged>>

-----------------------------------------------------------------------------
(* The device.                                                              *)

Unplug ==
  /\ plugged
  /\ plugged' = FALSE
  /\ UNCHANGED <<places, flags, sync, data>>

\* A device that comes back is not the one a handle was opened for.
PlugIn ==
  /\ ~plugged
  /\ main \in {"closed", "found"}
  /\ plugged' = TRUE
  /\ UNCHANGED <<places, flags, sync, data>>

-----------------------------------------------------------------------------
\* What main does within a call.
MainStep ==
  \/ OpenPath \/ OpenFails \/ AwaitStart \/ Opened
  \/ Sleep \/ Awake \/ ReturnNothing
  \/ Unregister \/ ShutDown \/ SignalSource \/ WakeUp \/ AwaitShutdown
  \/ ShutdownAgreed \/ Join \/ CloseDevice \/ Free

ReaderStep ==
  \/ StartThread \/ Started \/ Released \/ TestFlags
  \/ RemovalCallback \/ PerformSignal \/ RunFinished \/ RunStopped
  \/ WakeMain \/ Stay \/ EndThread

Next ==
  \/ FindDevice \/ HidClose \/ \E p \in {"none", "some", "endless"} : HidRead(p)
  \/ MainStep \/ WakeSpuriously \/ Expire
  \/ ReaderStep \/ ReportCallback \/ RunTimedOut
  \/ Unplug \/ PlugIn

Spec == Init /\ [][Next]_vars

\* Both threads are scheduled, and a run loop that is run again after each timeout
\* some time makes the callback that is due.
FairSpec ==
  /\ Spec
  /\ WF_vars(MainStep)
  /\ WF_vars(ReaderStep)
  /\ SF_vars(RemovalCallback \/ PerformSignal)

-----------------------------------------------------------------------------
(* The same with early wakeups.                                             *)

\* pthread_barrier_wait calls pthread_cond_wait once, not in a loop: a wakeup that
\* nobody signaled lets a thread leave the barrier.
WakeEarly(b, t) ==
  /\ t \in waiting[b]
  /\ waiting' = [waiting EXCEPT ![b] = @ \ {t}]
  /\ UNCHANGED <<places, flags, count, data, plugged>>

EarlyNext == Next \/ \E b \in Barriers, t \in Threads : WakeEarly(b, t)

EarlySpec == Init /\ [][EarlyNext]_vars

-----------------------------------------------------------------------------
MainPlaces ==
  {"closed", "found", "opening", "startup", "open", "empty", "asleep", "awake",
   "expired", "unregistering", "shutting", "signaling", "waking", "leaving",
   "shutdown", "joining", "closing", "freeing"}

ReaderPlaces ==
  {"none", "starting", "started", "startup", "looping", "running", "stopped",
   "stopping", "stayed", "shutdown", "ended"}

\* Types; the queue keeps its bound, its reports are among those that arrived,
\* and a thread sleeps only in the barrier it is at.
TypeOK ==
  /\ main \in MainPlaces
  /\ reader \in ReaderPlaces
  /\ patience \in {"none", "some", "endless"}
  /\ {disconnected, shutdown, registered, signaled, plugged} \subseteq BOOLEAN
  /\ count \in [Barriers -> 0..TripCount - 1]
  /\ waiting \in [Barriers -> SUBSET Threads]
  /\ \A b \in Barriers : /\ "main" \in waiting[b] => main = b
                        /\ "reader" \in waiting[b] => reader = b
  /\ arrived \in 0..MaxReports
  /\ queue \in Seq(1..arrived)
  /\ Len(queue) <= QueueMax
  /\ outcome \in -1..MaxReports

Reports == INSTANCE ReportQueue WITH
  open  <- main \notin {"closed", "found"},
  Ahead <- 0

\* hid_read gives the reports of hid_report_callback in their order, loses only
\* the oldest of a full queue, and fails only after the device was unplugged,
\* whatever wakes it and whoever sets the flags meanwhile.
ImplementsReportQueue == Reports!Spec

\* "Ensures correct startup sequence": what hid_open returns has a run loop.
OpenAfterStart ==
  main \notin {"closed", "found", "opening", "startup"}
    => reader \notin {"none", "starting"}

\* hid_close calls CFRunLoopWakeUp on a run loop that is still there: "This thread
\* still needs to be valid when that function is called on the other thread."
ThreadOutlivesWakeUp == main = "waking" => reader # "ended"

\* hid_close closes the device "only if it's not been unplugged".
ClosesOnlyPlugged ==
  [][main = "joining" /\ main' = "closing" => plugged]_vars

\* Nobody sleeps on a device that is gone, also not one who found no report just
\* before it went: the reader's broadcast is not missed.
RemovalWakes ==
  main \in {"empty", "asleep"} /\ ~plugged
    ~> main \notin {"empty", "asleep", "awake"}

\* hid_close returns, whether the reader runs, has stopped by itself, or stops
\* while main is on its way to the barrier; and so does hid_open.
CallsEnd ==
  main \notin {"closed", "open", "empty", "asleep", "awake", "expired"}
    ~> main \in {"closed", "open"}
=============================================================================
