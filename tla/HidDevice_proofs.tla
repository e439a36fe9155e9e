-------------------------- MODULE HidDevice_proofs -------------------------
(***************************************************************************)
(* What holds of hid.c for every length of the report queue and any number *)
(* of reports.  Three invariants say in turn when the device counts as     *)
(* gone, who is in the startup barrier, and who is in the shutdown one.    *)
(***************************************************************************)
EXTENDS HidDevice, TLAPS

\* The places of main before hid_close tells the reader to stop.
InUse ==
  {"opening", "startup", "open", "empty", "asleep", "awake", "expired",
   "unregistering", "shutting"}

\* Without a handle there is no reader; while the device is in use, the flags and
\* a stopped run loop all mean that it was unplugged.
GoneInv ==
  /\ main \in {"closed", "found"} => reader = "none"
  /\ main \notin {"closed", "found"} => (disconnected => ~plugged)
  /\ main \in InUse => /\ ~signaled
                       /\ shutdown \/ reader = "stopped" => ~plugged

\* Also when a condition wakes unsignaled in a barrier.
LEMMA GoneInvariance == EarlySpec => []GoneInv
  <1>1. Init => GoneInv
    BY DEF Init, GoneInv, InUse
  <1>2. GoneInv /\ [EarlyNext]_vars => GoneInv'
    <2> SUFFICES ASSUME GoneInv, [EarlyNext]_vars PROVE GoneInv'
      OBVIOUS
    <2> USE DEF GoneInv, InUse, MainGoes, ReaderGoes, flags, data, sync, places
    <2>1. CASE FindDevice \/ OpenPath \/ OpenFails \/ AwaitStart \/ Opened
      BY <2>1 DEF FindDevice, OpenPath, OpenFails, AwaitStart, Opened, Arrive, Beyond
    <2>2. CASE \E p \in {"none", "some", "endless"} : HidRead(p)
      BY <2>2 DEF HidRead, ReturnData, Return
    <2>3. CASE Sleep \/ WakeSpuriously \/ Awake \/ Expire \/ ReturnNothing
      BY <2>3 DEF Sleep, WakeSpuriously, Awake, ReturnData, Return, Expire, ReturnNothing
    <2>4. CASE HidClose \/ Unregister \/ ShutDown \/ SignalSource \/ WakeUp
      BY <2>4 DEF HidClose, Unregister, ShutDown, SignalSource, WakeUp
    <2>5. CASE AwaitShutdown \/ ShutdownAgreed \/ Join \/ CloseDevice \/ Free
      BY <2>5 DEF AwaitShutdown, ShutdownAgreed, Join, CloseDevice, Free, Arrive, Beyond
    <2>6. CASE StartThread \/ Started \/ Released \/ TestFlags
      BY <2>6 DEF StartThread, Started, Released, TestFlags, Arrive, Beyond
    <2>7. CASE ReportCallback \/ RunTimedOut \/ WakeMain
      BY <2>7 DEF ReportCallback, RunTimedOut, WakeMain, SignalMain
    <2>8. CASE RemovalCallback \/ PerformSignal \/ RunFinished \/ RunStopped
      BY <2>8 DEF RemovalCallback, PerformSignal, RunFinished, RunStopped
    <2>9. CASE Stay \/ EndThread
      BY <2>9 DEF Stay, EndThread, Arrive, Beyond
    <2>10. CASE \E b \in Barriers, t \in Threads : WakeEarly(b, t)
      BY <2>10 DEF WakeEarly
    <2>11. CASE Unplug \/ PlugIn
      BY <2>11 DEF Unplug, PlugIn
    <2>12. CASE UNCHANGED vars
      BY <2>12 DEF vars
    <2> QED
      BY <2>1, <2>2, <2>3, <2>4, <2>5, <2>6, <2>7, <2>8, <2>9, <2>10, <2>11, <2>12
      DEF EarlyNext, Next, MainStep, ReaderStep
  <1> QED BY <1>1, <1>2, PTL DEF EarlySpec

-----------------------------------------------------------------------------
\* What hid_read promises, for every length of the queue and with barriers that
\* wake early as well as without.
THEOREM HidReadsCorrectly ==
  (Spec => ImplementsReportQueue) /\ (EarlySpec => ImplementsReportQueue)
  <1> USE DEF Reports!vars
  <1>1. Init => Reports!Init
    BY DEF Init, Reports!Init
  <1>2. GoneInv /\ [EarlyNext]_vars => [Reports!Next]_(Reports!vars)
    <2> SUFFICES ASSUME GoneInv, [EarlyNext]_vars
                 PROVE  [Reports!Next]_(Reports!vars)
      OBVIOUS
    <2> USE DEF Reports!Next, MainGoes, ReaderGoes, flags, data, sync, places
    <2>1. CASE OpenPath
      BY <2>1 DEF OpenPath, Reports!Open
    <2>2. CASE FindDevice \/ OpenFails \/ AwaitStart \/ Opened
      BY <2>2 DEF FindDevice, OpenFails, AwaitStart, Opened, Arrive, Beyond
    <2>3. ASSUME NEW p \in {"none", "some", "endless"}, HidRead(p)
          PROVE  [Reports!Next]_(Reports!vars)
      <3>1. CASE ReturnData
        BY <2>3, <3>1 DEF HidRead, ReturnData, Return, Reports!Read
      <3>2. CASE Gone /\ Return(-1) /\ UNCHANGED queue
        BY <2>3, <3>2 DEF HidRead, Return, Reports!Read, Gone, GoneInv, InUse
      <3>3. CASE Return(0) /\ UNCHANGED queue
        BY <2>3, <3>3 DEF HidRead, Return, Reports!Read
      <3>4. CASE main' = "empty" /\ UNCHANGED <<queue, outcome>>
        BY <2>3, <3>4 DEF HidRead
      <3> QED BY <2>3, <3>1, <3>2, <3>3, <3>4 DEF HidRead
    <2>4. CASE Awake
      <3>1. CASE ReturnData
        BY <2>4, <3>1 DEF Awake, ReturnData, Return, Reports!Read
      <3>2. CASE Gone /\ Return(-1) /\ UNCHANGED queue
        BY <2>4, <3>2 DEF Awake, Return, Reports!Read, Gone, GoneInv, InUse
      <3>3. CASE main' = "empty" /\ UNCHANGED <<queue, outcome>>
        BY <2>4, <3>3 DEF Awake
      <3> QED BY <2>4, <3>1, <3>2, <3>3 DEF Awake
    <2>5. CASE ReturnNothing
      BY <2>5 DEF ReturnNothing, Return, Reports!Read
    <2>6. CASE Sleep \/ WakeSpuriously \/ Expire
      BY <2>6 DEF Sleep, WakeSpuriously, Expire
    <2>7. CASE HidClose \/ Unregister \/ ShutDown \/ SignalSource \/ WakeUp
      BY <2>7 DEF HidClose, Unregister, ShutDown, SignalSource, WakeUp
    <2>8. CASE AwaitShutdown \/ ShutdownAgreed \/ Join \/ CloseDevice
      BY <2>8 DEF AwaitShutdown, ShutdownAgreed, Join, CloseDevice, Arrive, Beyond
    <2>9. CASE Free
      BY <2>9 DEF Free, Reports!Close
    <2>10. CASE ReportCallback
      <3>1. reader = "running" /\ main \notin {"closed", "found"}
        BY <2>10 DEF ReportCallback, GoneInv
      <3> DEFINE all == Append(queue, arrived + 1)
      <3>2. CASE Len(all) > QueueMax
        <4>1. queue' = Reports!Without(all, 1)
          BY <2>10, <3>2 DEF ReportCallback, Queued, Reports!Without
        <4>2. 1 \in 1..0 + 1
          OBVIOUS
        <4>3. \E i \in 1..0 + 1 : queue' = Reports!Without(all, i)
          BY <4>1, <4>2
        <4> QED BY <2>10, <3>1, <3>2, <4>3 DEF ReportCallback, SignalMain, Reports!Arrive
      <3>3. CASE ~(Len(all) > QueueMax)
        <4>1. queue' = all
          BY <2>10, <3>3 DEF ReportCallback, Queued
        <4>2. QueueMax + 0 = QueueMax
          BY CountsAssumption
        <4> QED BY <2>10, <3>1, <3>3, <4>1, <4>2 DEF ReportCallback, SignalMain, Reports!Arrive
      <3> QED BY <3>2, <3>3
    <2>11. CASE StartThread \/ Started \/ Released \/ TestFlags \/ RunTimedOut
      BY <2>11 DEF StartThread, Started, Released, TestFlags, RunTimedOut, Arrive, Beyond
    <2>12. CASE RemovalCallback \/ PerformSignal \/ RunFinished \/ RunStopped
      BY <2>12 DEF RemovalCallback, PerformSignal, RunFinished, RunStopped
    <2>13. CASE WakeMain \/ Stay \/ EndThread
      BY <2>13 DEF WakeMain, SignalMain, Stay, EndThread, Arrive, Beyond
    <2>14. CASE \E b \in Barriers, t \in Threads : WakeEarly(b, t)
      BY <2>14 DEF WakeEarly
    <2>15. CASE Unplug
      BY <2>15 DEF Unplug, Reports!Unplug
    <2>16. CASE PlugIn
      BY <2>16 DEF PlugIn, Reports!PlugIn
    <2>17. CASE UNCHANGED vars
      BY <2>17 DEF vars
    <2> QED
      BY <2>1, <2>2, <2>3, <2>4, <2>5, <2>6, <2>7, <2>8, <2>9, <2>10, <2>11, <2>12,
         <2>13, <2>14, <2>15, <2>16, <2>17
      DEF EarlyNext, Next, MainStep, ReaderStep
  <1>3. EarlySpec => ImplementsReportQueue
    BY <1>1, <1>2, GoneInvariance, PTL DEF EarlySpec, ImplementsReportQueue, Reports!Spec
  <1>4. Spec => EarlySpec
    <2>1. [Next]_vars => [EarlyNext]_vars
      BY DEF EarlyNext
    <2> QED BY <2>1, PTL DEF Spec, EarlySpec
  <1> QED BY <1>3, <1>4

-----------------------------------------------------------------------------
(* The barriers, when a thread in one sleeps until it is woken.             *)

\* Main does not leave the startup barrier before the reader is there.
StartupInv ==
  /\ main = "opening" /\ reader = "starting" => count["startup"] = 0
  /\ main = "startup" /\ reader = "starting" => "main" \in waiting["startup"]
  /\ main \in {"opening", "startup"} => reader # "none"
  /\ OpenAfterStart

\* The reader does not leave the shutdown barrier before main is there.
ShutdownInv ==
  main \notin {"closed", "found", "shutdown", "joining", "closing", "freeing"} =>
    /\ reader # "ended"
    /\ reader = "shutdown" => "reader" \in waiting["shutdown"]
    /\ reader # "shutdown" => count["shutdown"] = 0

BarrierTypes ==
  /\ count \in [Barriers -> Nat]
  /\ waiting \in [Barriers -> SUBSET Threads]

BarrierInv == BarrierTypes /\ StartupInv /\ ShutdownInv

LEMMA BarrierInvariance == Spec => []BarrierInv
  <1>1. Init => BarrierInv
    BY DEF Init, BarrierInv, BarrierTypes, StartupInv, ShutdownInv, OpenAfterStart, Barriers
  <1>2. BarrierInv /\ [Next]_vars => BarrierInv'
    <2> SUFFICES ASSUME BarrierInv, [Next]_vars PROVE BarrierInv'
      OBVIOUS
    <2> USE DEF BarrierInv, BarrierTypes, StartupInv, ShutdownInv, OpenAfterStart,
            MainGoes, ReaderGoes, flags, data, sync, places, Barriers, Threads,
            Trips, TripCount
    <2>1. CASE FindDevice \/ OpenPath \/ OpenFails
      BY <2>1 DEF FindDevice, OpenPath, OpenFails
    <2>2. CASE AwaitStart \/ Opened
      BY <2>2 DEF AwaitStart, Opened, Arrive, Beyond
    <2>3. CASE \E p \in {"none", "some", "endless"} : HidRead(p)
      BY <2>3 DEF HidRead, ReturnData, Return
    <2>4. CASE Sleep \/ WakeSpuriously \/ Awake \/ Expire \/ ReturnNothing
      BY <2>4 DEF Sleep, WakeSpuriously, Awake, ReturnData, Return, Expire, ReturnNothing
    <2>5. CASE HidClose \/ Unregister \/ ShutDown \/ SignalSource \/ WakeUp
      BY <2>5 DEF HidClose, Unregister, ShutDown, SignalSource, WakeUp
    <2>6. CASE AwaitShutdown \/ ShutdownAgreed \/ Join \/ CloseDevice \/ Free
      BY <2>6 DEF AwaitShutdown, ShutdownAgreed, Join, CloseDevice, Free, Arrive, Beyond
    <2>7. CASE StartThread \/ Started \/ Released \/ TestFlags
      BY <2>7 DEF StartThread, Started, Released, TestFlags, Arrive, Beyond
    <2>8. CASE ReportCallback \/ RunTimedOut \/ WakeMain
      BY <2>8 DEF ReportCallback, RunTimedOut, WakeMain, SignalMain
    <2>9. CASE RemovalCallback \/ PerformSignal \/ RunFinished \/ RunStopped
      BY <2>9 DEF RemovalCallback, PerformSignal, RunFinished, RunStopped
    <2>10. CASE Stay \/ EndThread
      BY <2>10 DEF Stay, EndThread, Arrive, Beyond
    <2>11. CASE Unplug \/ PlugIn
      BY <2>11 DEF Unplug, PlugIn
    <2>12. CASE UNCHANGED vars
      BY <2>12 DEF vars
    <2> QED
      BY <2>1, <2>2, <2>3, <2>4, <2>5, <2>6, <2>7, <2>8, <2>9, <2>10, <2>11, <2>12
      DEF Next, MainStep, ReaderStep
  <1> QED BY <1>1, <1>2, PTL DEF Spec

\* "Ensures correct startup sequence": hid_open returns a device whose reader has
\* stored its run loop, as long as no condition wakes unsignaled in the barrier.
THEOREM OpensAfterStart == Spec => []OpenAfterStart
  <1>1. BarrierInv => OpenAfterStart
    BY DEF BarrierInv, StartupInv
  <1> QED BY <1>1, BarrierInvariance, PTL

\* "This thread still needs to be valid": hid_close wakes the run loop of a thread
\* that has not ended, as long as no condition wakes unsignaled in the barrier.
THEOREM OutlivesWakeUp == Spec => []ThreadOutlivesWakeUp
  <1>1. BarrierInv => ThreadOutlivesWakeUp
    BY DEF BarrierInv, ShutdownInv, ThreadOutlivesWakeUp
  <1> QED BY <1>1, BarrierInvariance, PTL

-----------------------------------------------------------------------------
\* A queue of reports that arrived, one more, and the bound kept.
LEMMA QueuedTypes ==
  ASSUME NEW n \in Nat, NEW s \in Seq(1..n), Len(s) <= QueueMax
  PROVE  Queued(s, n + 1) \in Seq(1..(n + 1)) /\ Len(Queued(s, n + 1)) <= QueueMax
  <1> DEFINE all == Append(s, n + 1)
  <1>1. QueueMax \in Nat /\ QueueMax > 0
    BY CountsAssumption
  <1>2. s \in Seq(1..(n + 1)) /\ n + 1 \in 1..(n + 1)
    OBVIOUS
  <1>3. all \in Seq(1..(n + 1)) /\ Len(all) = Len(s) + 1 /\ Len(s) \in Nat
    BY <1>2
  <1> HIDE DEF all
  <1>4. CASE Len(all) > QueueMax
    <2>1. all # <<>>
      BY <1>1, <1>3, <1>4
    <2>2. Tail(all) \in Seq(1..(n + 1)) /\ Len(Tail(all)) = Len(all) - 1
      BY <1>3, <2>1
    <2>3. Queued(s, n + 1) = Tail(all)
      BY <1>4 DEF Queued, all
    <2>4. Len(Tail(all)) <= QueueMax
      BY <1>1, <1>3, <2>2
    <2> QED BY <2>2, <2>3, <2>4
  <1>5. CASE ~(Len(all) > QueueMax)
    <2>1. Queued(s, n + 1) = all
      BY <1>5 DEF Queued, all
    <2> QED BY <1>1, <1>3, <1>5, <2>1
  <1> QED BY <1>4, <1>5

\* The oldest report is one that arrived, and the rest are a queue.
LEMMA HeadTypes ==
  ASSUME NEW n \in Nat, NEW s \in Seq(1..n), Len(s) <= QueueMax, s # <<>>
  PROVE  /\ Head(s) \in 1..n
         /\ Tail(s) \in Seq(1..n)
         /\ Len(Tail(s)) <= QueueMax
  BY CountsAssumption

\* The part of TypeOK about the threads, the flags and the barriers.  A handle is
\* freed when its reader has ended: no freed barrier has a thread in it.
ThreadTypes ==
  /\ main \in MainPlaces
  /\ reader \in ReaderPlaces
  /\ patience \in {"none", "some", "endless"}
  /\ {disconnected, shutdown, registered, signaled, plugged} \subseteq BOOLEAN
  /\ count \in [Barriers -> 0..TripCount - 1]
  /\ waiting \in [Barriers -> SUBSET Threads]
  /\ \A b \in Barriers : /\ "main" \in waiting[b] => main = b
                         /\ "reader" \in waiting[b] => reader = b
  /\ main \in {"closing", "freeing"} => reader = "ended"

\* The part about the reports.
QueueTypes ==
  /\ arrived \in 0..MaxReports
  /\ queue \in Seq(1..arrived)
  /\ Len(queue) <= QueueMax
  /\ outcome \in -1..MaxReports

LEMMA ThreadInvariance == Spec => []ThreadTypes
  <1>1. Init => ThreadTypes
    <2> SUFFICES ASSUME Init PROVE ThreadTypes
      OBVIOUS
    <2>1. main \in MainPlaces
      BY DEF Init, MainPlaces
    <2>2. reader \in ReaderPlaces
      BY DEF Init, ReaderPlaces
    <2>3. /\ count \in [Barriers -> 0..TripCount - 1]
          /\ waiting \in [Barriers -> SUBSET Threads]
          /\ \A b \in Barriers : waiting[b] = {}
      BY DEF Init, TripCount
    <2>4. /\ {disconnected, shutdown, registered, signaled, plugged} \subseteq BOOLEAN
          /\ patience \in {"none", "some", "endless"}
      BY DEF Init
    <2> QED BY <2>1, <2>2, <2>3, <2>4 DEF ThreadTypes, Init
  <1>2. ThreadTypes /\ [Next]_vars => ThreadTypes'
    <2> SUFFICES ASSUME ThreadTypes, [Next]_vars PROVE ThreadTypes'
      OBVIOUS
    <2> USE DEF ThreadTypes, MainPlaces, ReaderPlaces, Barriers, Threads, Trips, TripCount,
            MainGoes, ReaderGoes, flags, data, sync, places
    <2>1. CASE FindDevice \/ OpenFails
      BY <2>1 DEF FindDevice, OpenFails
    <2>2. CASE AwaitStart \/ Opened
      BY <2>2 DEF AwaitStart, Opened, Arrive, Beyond
    <2>3. CASE \E p \in {"none", "some", "endless"} : HidRead(p)
      BY <2>3 DEF HidRead, ReturnData, Return
    <2>4. CASE Sleep \/ WakeSpuriously \/ Awake \/ Expire \/ ReturnNothing
      BY <2>4 DEF Sleep, WakeSpuriously, Awake, ReturnData, Return, Expire, ReturnNothing
    <2>5. CASE HidClose \/ Unregister \/ ShutDown \/ SignalSource \/ WakeUp
      BY <2>5, ZenonT(60) DEF HidClose, Unregister, ShutDown, SignalSource, WakeUp
    <2>6. CASE AwaitShutdown \/ ShutdownAgreed \/ Join \/ CloseDevice
      BY <2>6 DEF AwaitShutdown, ShutdownAgreed, Join, CloseDevice, Arrive, Beyond
    <2>7. CASE StartThread \/ Started \/ Released \/ TestFlags
      BY <2>7 DEF StartThread, Started, Released, TestFlags, Arrive, Beyond
    <2>8. CASE ReportCallback \/ RunTimedOut \/ WakeMain
      BY <2>8 DEF ReportCallback, RunTimedOut, WakeMain, SignalMain
    <2>9. CASE RemovalCallback \/ PerformSignal \/ RunFinished \/ RunStopped
      BY <2>9, ZenonT(60) DEF RemovalCallback, PerformSignal, RunFinished, RunStopped
    <2>10. CASE Stay \/ EndThread
      BY <2>10 DEF Stay, EndThread, Arrive, Beyond
    <2>11. CASE Unplug \/ PlugIn
      BY <2>11, ZenonT(60) DEF Unplug, PlugIn
    <2>12. CASE UNCHANGED vars
      BY <2>12 DEF vars
    <2>13. CASE OpenPath
      <3>1. /\ count' \in [Barriers -> 0..TripCount - 1]
            /\ waiting' \in [Barriers -> SUBSET Threads]
            /\ \A b \in Barriers : waiting'[b] = {}
        BY <2>13 DEF OpenPath
      <3>2. main' \in MainPlaces /\ reader' \in ReaderPlaces
        BY <2>13 DEF OpenPath
      <3> QED BY <2>13, <3>1, <3>2 DEF OpenPath
    <2>14. CASE Free
      BY <2>14 DEF Free
    <2> QED
      BY <2>1, <2>2, <2>3, <2>4, <2>5, <2>6, <2>7, <2>8, <2>9, <2>10, <2>11, <2>12,
         <2>13, <2>14
      DEF Next, MainStep, ReaderStep
  <1> QED BY <1>1, <1>2, PTL DEF Spec

LEMMA QueueInvariance == Spec => []QueueTypes
  <1>1. Init => QueueTypes
    BY CountsAssumption DEF Init, QueueTypes
  <1>2. QueueTypes /\ [Next]_vars => QueueTypes'
    <2> SUFFICES ASSUME QueueTypes, [Next]_vars PROVE QueueTypes'
      OBVIOUS
    <2>1. /\ MaxReports \in Nat /\ QueueMax \in Nat
          /\ arrived \in Nat /\ arrived <= MaxReports
          /\ queue \in Seq(1..arrived) /\ Len(queue) <= QueueMax
      BY CountsAssumption DEF QueueTypes
    <2>2. ASSUME ReturnData, arrived' = arrived
          PROVE  QueueTypes'
      <3>1. queue # <<>> /\ outcome' = Head(queue) /\ queue' = Tail(queue)
        BY <2>2 DEF ReturnData, Return
      <3>2. outcome' \in 1..arrived /\ queue' \in Seq(1..arrived) /\ Len(queue') <= QueueMax
        BY <2>1, <3>1, HeadTypes
      <3> QED BY <2>1, <2>2, <3>2 DEF QueueTypes
    <2>3. ASSUME UNCHANGED <<queue, arrived>>, outcome' \in {outcome, 0, -1}
          PROVE  QueueTypes'
      BY <2>1, <2>3 DEF QueueTypes
    <2>4. CASE OpenPath
      BY <2>1, <2>4 DEF OpenPath, QueueTypes
    <2>5. CASE Free
      BY <2>1, <2>5 DEF Free, QueueTypes
    <2>6. CASE ReportCallback
      <3>1. /\ arrived' = arrived + 1 /\ arrived < MaxReports
            /\ queue' = Queued(queue, arrived + 1)
            /\ outcome' = outcome
        BY <2>6 DEF ReportCallback
      <3>2. queue' \in Seq(1..(arrived + 1)) /\ Len(queue') <= QueueMax
        BY <2>1, <3>1, QueuedTypes
      <3> QED BY <2>1, <3>1, <3>2 DEF QueueTypes
    <2>7. CASE \E p \in {"none", "some", "endless"} : HidRead(p)
      BY <2>2, <2>3, <2>7 DEF HidRead, Return
    <2>8. CASE Awake
      BY <2>2, <2>3, <2>8 DEF Awake, Return
    <2>9. CASE ReturnNothing
      BY <2>3, <2>9 DEF ReturnNothing, Return
    <2>10. CASE Sleep \/ WakeSpuriously \/ Expire \/ FindDevice \/ OpenFails \/ AwaitStart \/ Opened
      BY <2>3, <2>10
      DEF Sleep, WakeSpuriously, Expire, FindDevice, OpenFails, AwaitStart, Opened, data
    <2>11. CASE HidClose \/ Unregister \/ ShutDown \/ SignalSource \/ WakeUp
      BY <2>3, <2>11 DEF HidClose, Unregister, ShutDown, SignalSource, WakeUp, data
    <2>12. CASE AwaitShutdown \/ ShutdownAgreed \/ Join \/ CloseDevice
      BY <2>3, <2>12 DEF AwaitShutdown, ShutdownAgreed, Join, CloseDevice, data
    <2>13. CASE StartThread \/ Started \/ Released \/ TestFlags \/ RunTimedOut
      BY <2>3, <2>13 DEF StartThread, Started, Released, TestFlags, RunTimedOut, data
    <2>14. CASE RemovalCallback \/ PerformSignal \/ RunFinished \/ RunStopped
      BY <2>3, <2>14 DEF RemovalCallback, PerformSignal, RunFinished, RunStopped, data
    <2>15. CASE WakeMain \/ Stay \/ EndThread \/ Unplug \/ PlugIn
      BY <2>3, <2>15 DEF WakeMain, Stay, EndThread, Unplug, PlugIn, data
    <2>16. CASE UNCHANGED vars
      BY <2>3, <2>16 DEF vars, data
    <2> QED
      BY <2>4, <2>5, <2>6, <2>7, <2>8, <2>9, <2>10, <2>11, <2>12, <2>13, <2>14, <2>15,
         <2>16
      DEF Next, MainStep, ReaderStep
  <1> QED BY <1>1, <1>2, PTL DEF Spec

\* Types, and the bounds of HIDAPI's queue and of its barriers.
THEOREM HidTypeCorrect == Spec => []TypeOK
  <1>1. ThreadTypes /\ QueueTypes => TypeOK
    BY DEF ThreadTypes, QueueTypes, TypeOK
  <1> QED BY <1>1, ThreadInvariance, QueueInvariance, PTL
=============================================================================
