-------------------------- MODULE HidWindows_proofs -------------------------
(***************************************************************************)
(* What holds of hid_win.c for every number of reports that the driver     *)
(* keeps.  The handle is in order at each place of the thread; the read    *)
(* given to the driver and its event are, however many calls timed out.    *)
(***************************************************************************)
EXTENDS HidWindows, SequenceTheorems, TLAPS

\* What hid_open_path has made when the thread is at p.
MadeAt(p) ==
  CASE p \in {"closed", "found"}    -> {}
    [] p = "created"                -> {"event"}
    [] p \in {"opened", "sized"}    -> {"event", "file"}
    [] p = "prepared"               -> {"event", "file", "preparsed"}
    [] OTHER                        -> {"event", "file", "buffer"}

Using == {"open", "waiting", "signaled", "writing"}

\* A read is given to the driver only by an open handle, runs only while there is no
\* report and fails only without a device; the event is never left of another.
ReadInv ==
  /\ held = MadeAt(place)
  /\ patience = "endless" => place = "waiting"
  /\ io \in {"none", "running", "done", "failed"}
  /\ pending = (io # "none")
  /\ place \notin Using => io = "none"
  /\ place = "waiting" => io # "none"
  /\ place = "signaled" => Finished
  /\ io = "running" => ~event /\ ring = <<>>
  /\ io = "failed" => ~plugged
  /\ WakesForData

\* The driver keeps no report of a file that is closed.
DataInv ==
  /\ arrived \in 0..MaxReports
  /\ buffer \in 0..arrived
  /\ outcome \in -1..MaxReports
  /\ ring \in Seq(1..arrived) /\ Len(ring) <= RingMax
  /\ "file" \notin held => ring = <<>> /\ buffer = 0

\* The variables no other depends on.
PlainTypes ==
  /\ place \in {"closed", "found", "created", "opened", "sized", "prepared"} \cup Using
  /\ patience \in {"none", "some", "endless"}
  /\ {blocking, event, plugged} \subseteq BOOLEAN

\* The steps of one call of hid_read_timeout, one by one.
LEMMA ReadSteps ==
  ASSUME NEW p, HidReadTimeout(p)
  PROVE  /\ place = "open" /\ UNCHANGED <<held, blocking, arrived, plugged>>
         /\ \/ pending /\ ContinueRead(p)
            \/ ~pending /\ ReadFile(p)
            \/ ~pending /\ ReadFileFails
  BY DEF HidReadTimeout

LEMMA ReadInvariance == Spec => []ReadInv
  <1>1. Init => ReadInv
    BY DEF Init, ReadInv, MadeAt, WakesForData, Finished, Using
  <1>2. ReadInv /\ [Next]_vars => ReadInv'
    <2> SUFFICES ASSUME ReadInv, [Next]_vars PROVE ReadInv'
      OBVIOUS
    <2> USE DEF ReadInv, MadeAt, WakesForData, Finished, Using, Goes, handlevars, callvars,
            drivervars
    <2>1. CASE FindDevice \/ NewDevice \/ CreateFile
      BY <2>1 DEF FindDevice, NewDevice, CreateFile
    <2>2. CASE SetNumInputBuffers \/ GetPreparsedData \/ GetCaps
      BY <2>2 DEF SetNumInputBuffers, GetPreparsedData, GetCaps
    <2>3. CASE OpenFails \/ HidClose
      BY <2>3 DEF OpenFails, HidClose, FreeDevice
    <2>4. ASSUME NEW p \in {"none", "some", "endless"}, HidReadTimeout(p) PROVE ReadInv'
      <3>1. place = "open" /\ UNCHANGED <<held, blocking, arrived, plugged>>
        BY <2>4, ReadSteps
      <3>2. CASE pending /\ ContinueRead(p)
        BY <3>1, <3>2 DEF ContinueRead
      <3>3. CASE ~pending /\ ReadFile(p)
        BY <3>1, <3>3 DEF ReadFile
      <3>4. CASE ~pending /\ ReadFileFails
        BY <3>1, <3>4 DEF ReadFileFails
      <3> QED BY <2>4, <3>2, <3>3, <3>4, ReadSteps
    <2>5. CASE HidRead
      BY <2>4, <2>5 DEF HidRead
    <2>6. CASE WaitObject \/ WaitTimeout
      BY <2>6 DEF WaitObject, WaitTimeout, Return
    <2>7. CASE GetResult
      BY <2>7 DEF GetResult, Return
    <2>8. CASE HidWrite \/ WriteDone \/ \E b \in BOOLEAN : HidSetNonblocking(b)
      BY <2>8 DEF HidWrite, WriteDone, HidSetNonblocking
    <2>9. CASE ReportArrives
      BY <2>9 DEF ReportArrives
    <2>10. CASE ReadFails
      BY <2>10 DEF ReadFails
    <2>11. CASE Unplug \/ PlugIn
      BY <2>11 DEF Unplug, PlugIn
    <2>12. CASE UNCHANGED vars
      BY <2>12 DEF vars
    <2> QED
      BY <2>1, <2>2, <2>3, <2>4, <2>5, <2>6, <2>7, <2>8, <2>9, <2>10, <2>11, <2>12
      DEF Next, MainStep
  <1> QED BY <1>1, <1>2, PTL DEF Spec

\* A read never waits for an event that was lost, however many calls of
\* hid_read_timeout gave up before the report came.
THEOREM ReadsWake == Spec => []WakesForData
  <1>1. ReadInv => WakesForData
    BY DEF ReadInv
  <1> QED BY <1>1, ReadInvariance, PTL

\* Whatever call of hid_open_path fails, nothing that was made before it is left.
THEOREM LeaksNothing == Spec => []NothingLeaks
  <1>1. ReadInv => NothingLeaks
    BY DEF ReadInv, NothingLeaks, MadeAt, Resources
  <1> QED BY <1>1, ReadInvariance, PTL

-----------------------------------------------------------------------------
(* The driver's reports.                                                    *)

\* The ring holds reports that arrived, and no more than it can.
LEMMA PushedTypes ==
  ASSUME NEW n \in Nat, NEW s \in Seq(1..n), Len(s) <= RingMax
  PROVE  Pushed(s, n + 1) \in Seq(1..(n + 1)) /\ Len(Pushed(s, n + 1)) <= RingMax
  <1> DEFINE all == Append(s, n + 1)
  <1>1. RingMax \in Nat /\ RingMax > 0
    BY RingAssumption
  <1>2. s \in Seq(1..(n + 1)) /\ n + 1 \in 1..(n + 1)
    OBVIOUS
  <1>3. all \in Seq(1..(n + 1)) /\ Len(all) = Len(s) + 1 /\ Len(s) \in Nat
    BY <1>2
  <1> HIDE DEF all
  <1>4. CASE Len(all) > RingMax
    <2>1. all # <<>>
      BY <1>1, <1>3, <1>4
    <2>2. Tail(all) \in Seq(1..(n + 1)) /\ Len(Tail(all)) = Len(all) - 1
      BY <1>3, <2>1
    <2>3. Pushed(s, n + 1) = Tail(all)
      BY <1>4 DEF Pushed, all
    <2>4. Len(Tail(all)) <= RingMax
      BY <1>1, <1>3, <2>2
    <2> QED BY <2>2, <2>3, <2>4
  <1>5. CASE ~(Len(all) > RingMax)
    <2>1. Pushed(s, n + 1) = all
      BY <1>5 DEF Pushed, all
    <2> QED BY <1>1, <1>3, <1>5, <2>1
  <1> QED BY <1>4, <1>5

LEMMA DataInvariance == Spec => []DataInv
  <1>1. Init => DataInv
    <2> SUFFICES ASSUME Init PROVE DataInv
      OBVIOUS
    <2>1. <<>> \in Seq(1..0) /\ Len(<<>>) = 0
      OBVIOUS
    <2> QED BY <2>1, RingAssumption DEF Init, DataInv
  <1>2. ReadInv /\ DataInv /\ [Next]_vars => DataInv'
    <2> SUFFICES ASSUME ReadInv, DataInv, [Next]_vars PROVE DataInv'
      OBVIOUS
    <2>1. /\ MaxReports \in Nat /\ RingMax \in Nat \ {0}
          /\ arrived \in Nat /\ arrived <= MaxReports
          /\ \A n \in Nat : <<>> \in Seq(1..n)
          /\ Len(<<>>) = 0
      <3>1. \A n \in Nat : <<>> \in Seq(1..n)
        OBVIOUS
      <3> QED BY <3>1, RingAssumption DEF DataInv
    <2> USE DEF Goes, handlevars, callvars, drivervars
    <2>2. ASSUME UNCHANGED <<arrived, ring>>, buffer' \in {buffer, 0},
                 outcome' \in {outcome, 0, -1, buffer},
                 "file" \in held => "file" \in held'
          PROVE  DataInv'
      BY <2>1, <2>2 DEF DataInv
    <2>3. CASE FindDevice \/ NewDevice
      BY <2>2, <2>3 DEF FindDevice, NewDevice, ReadInv, MadeAt
    <2>4. CASE CreateFile
      BY <2>1, <2>4 DEF CreateFile, ReadInv, MadeAt, DataInv
    <2>5. CASE SetNumInputBuffers \/ GetPreparsedData \/ GetCaps
      BY <2>2, <2>5 DEF SetNumInputBuffers, GetPreparsedData, GetCaps, ReadInv, MadeAt
    <2>6. CASE OpenFails \/ HidClose
      <3>1. ring' = <<>> /\ buffer' = 0 /\ UNCHANGED <<arrived, outcome>>
        BY <2>6 DEF OpenFails, HidClose, FreeDevice
      <3>2. ring' \in Seq(1..arrived) /\ Len(ring') <= RingMax
        BY <2>1, <3>1
      <3> QED BY <2>1, <3>1, <3>2 DEF DataInv
    <2>7. ASSUME NEW p \in {"none", "some", "endless"}, HidReadTimeout(p) PROVE DataInv'
      <3>1. UNCHANGED <<held, arrived>> /\ "file" \in held
        BY <2>7, ReadSteps DEF ReadInv, MadeAt
      <3>2. CASE ContinueRead(p) \/ ReadFileFails
        BY <2>2, <3>1, <3>2 DEF ContinueRead, ReadFileFails
      <3>3. CASE ReadFile(p) /\ ring = <<>>
        BY <2>2, <3>1, <3>3 DEF ReadFile
      <3>4. CASE ReadFile(p) /\ ring # <<>>
        <4>1. ring \in Seq(1..arrived) /\ Len(ring) <= RingMax
          BY DEF DataInv
        <4>2. /\ Head(ring) \in 1..arrived /\ Tail(ring) \in Seq(1..arrived)
              /\ Len(Tail(ring)) <= RingMax
          BY <2>1, <3>4, <4>1
        <4>3. buffer' = Head(ring) /\ ring' = Tail(ring) /\ outcome' = outcome
          BY <3>4 DEF ReadFile
        <4> QED BY <2>1, <3>1, <4>2, <4>3 DEF DataInv
      <3> QED BY <2>7, <3>2, <3>3, <3>4, ReadSteps
    <2>8. CASE HidRead
      BY <2>7, <2>8 DEF HidRead
    <2>9. CASE WaitObject \/ WaitTimeout
      BY <2>2, <2>9 DEF WaitObject, WaitTimeout, Return, ReadInv, MadeAt
    <2>10. CASE GetResult
      BY <2>2, <2>10 DEF GetResult, Return
    <2>11. CASE HidWrite \/ WriteDone \/ \E b \in BOOLEAN : HidSetNonblocking(b)
      BY <2>2, <2>11 DEF HidWrite, WriteDone, HidSetNonblocking, ReadInv, MadeAt
    <2>12. CASE ReportArrives
      <3>1. /\ "file" \in held /\ held' = held /\ outcome' = outcome
            /\ arrived' = arrived + 1 /\ arrived < MaxReports
        BY <2>12 DEF ReportArrives
      <3>2. ring \in Seq(1..arrived) /\ Len(ring) <= RingMax /\ buffer \in 0..arrived
        BY DEF DataInv
      <3>3. ring \in Seq(1..(arrived + 1))
        BY <2>1, <3>2
      <3>4. CASE buffer' = arrived + 1 /\ ring' = ring
        BY <2>1, <3>1, <3>2, <3>3, <3>4 DEF DataInv
      <3>5. CASE buffer' = buffer /\ ring' = Pushed(ring, arrived + 1)
        <4>1. ring' \in Seq(1..(arrived + 1)) /\ Len(ring') <= RingMax
          BY <2>1, <3>2, <3>5, PushedTypes
        <4> QED BY <2>1, <3>1, <3>2, <3>5, <4>1 DEF DataInv
      <3> QED BY <2>12, <3>1, <3>4, <3>5 DEF ReportArrives
    <2>13. CASE ReadFails \/ Unplug \/ PlugIn
      BY <2>2, <2>13 DEF ReadFails, Unplug, PlugIn
    <2>14. CASE UNCHANGED vars
      BY <2>2, <2>14 DEF vars
    <2> QED
      BY <2>3, <2>4, <2>5, <2>6, <2>7, <2>8, <2>9, <2>10, <2>11, <2>12, <2>13, <2>14
      DEF Next, MainStep
  <1> QED BY <1>1, <1>2, ReadInvariance, PTL DEF Spec

LEMMA PlainInvariance == Spec => []PlainTypes
  <1>1. Init => PlainTypes
    BY DEF Init, PlainTypes
  <1>2. PlainTypes /\ [Next]_vars => PlainTypes'
    <2> SUFFICES ASSUME PlainTypes, [Next]_vars PROVE PlainTypes'
      OBVIOUS
    <2> USE DEF PlainTypes, Using, Goes, handlevars, callvars, drivervars
    <2>1. CASE FindDevice \/ NewDevice \/ CreateFile
      BY <2>1 DEF FindDevice, NewDevice, CreateFile
    <2>2. CASE SetNumInputBuffers \/ GetPreparsedData \/ GetCaps
      BY <2>2 DEF SetNumInputBuffers, GetPreparsedData, GetCaps
    <2>3. CASE OpenFails \/ HidClose
      BY <2>3 DEF OpenFails, HidClose, FreeDevice
    <2>4. ASSUME NEW p \in {"none", "some", "endless"}, HidReadTimeout(p) PROVE PlainTypes'
      BY <2>4, ReadSteps DEF ContinueRead, ReadFile, ReadFileFails
    <2>5. CASE HidRead
      BY <2>4, <2>5 DEF HidRead
    <2>6. CASE WaitObject \/ WaitTimeout \/ GetResult
      BY <2>6 DEF WaitObject, WaitTimeout, GetResult, Return
    <2>7. CASE HidWrite \/ WriteDone
      BY <2>7 DEF HidWrite, WriteDone
    <2>8. CASE \E b \in BOOLEAN : HidSetNonblocking(b)
      BY <2>8 DEF HidSetNonblocking
    <2>9. CASE ReportArrives \/ ReadFails \/ Unplug \/ PlugIn
      BY <2>9 DEF ReportArrives, ReadFails, Unplug, PlugIn
    <2>10. CASE UNCHANGED vars
      BY <2>10 DEF vars
    <2> QED
      BY <2>1, <2>2, <2>3, <2>4, <2>5, <2>6, <2>7, <2>8, <2>9, <2>10 DEF Next, MainStep
  <1> QED BY <1>1, <1>2, PTL DEF Spec

\* Types; read_pending says what the driver does, and the ring keeps its bound.
THEOREM WindowsTypeCorrect == Spec => []TypeOK
  <1>1. ReadInv /\ DataInv /\ PlainTypes => TypeOK
    <2> SUFFICES ASSUME ReadInv, DataInv, PlainTypes PROVE TypeOK
      OBVIOUS
    <2>1. held \subseteq Resources
      BY DEF ReadInv, MadeAt, Resources
    <2>2. pending \in BOOLEAN /\ (pending <=> io # "none")
      BY DEF ReadInv
    <2> QED BY <2>1, <2>2 DEF ReadInv, DataInv, PlainTypes, Using, TypeOK
  <1> QED BY <1>1, ReadInvariance, DataInvariance, PlainInvariance, PTL

-----------------------------------------------------------------------------
(* What hid_read_timeout promises.                                          *)

\* The report in the buffer stays; the oldest of the ring behind it goes.
LEMMA SecondLost ==
  ASSUME NEW S, NEW s \in Seq(S), s # <<>>, NEW b \in S
  PROVE  /\ <<b>> \o s # <<>> /\ Len(<<b>> \o s) = Len(s) + 1
         /\ <<b>> \o Tail(s) = Reports!Without(<<b>> \o s, 2)
  <1> DEFINE all == <<b>> \o s
  <1>1. /\ s \in Seq(S) /\ Len(s) \in Nat \ {0}
        /\ Tail(s) \in Seq(S) /\ Len(Tail(s)) = Len(s) - 1
        /\ \A i \in 1..Len(s) - 1 : Tail(s)[i] = s[i + 1]
    BY HeadTailProperties, LenProperties, EmptySeq
  <1>2. /\ all \in Seq(S) /\ Len(all) = Len(s) + 1
        /\ \A i \in 1..Len(s) + 1 : all[i] = IF i = 1 THEN b ELSE s[i - 1]
    BY <1>1, ConcatProperties
  <1> HIDE DEF all
  <1>3. SubSeq(all, 1, 1) = <<b>>
    <2>1. \A i \in 1..1 : all[i] \in S
      BY <1>1, <1>2
    <2>2. /\ SubSeq(all, 1, 1) \in Seq(S) /\ Len(SubSeq(all, 1, 1)) = 1
          /\ SubSeq(all, 1, 1)[1] = b
      BY <1>1, <1>2, <2>1, SubSeqProperties
    <2>3. <<b>> \in Seq(S) /\ Len(<<b>>) = 1 /\ <<b>>[1] = b
      OBVIOUS
    <2>4. \A i \in 1..1 : SubSeq(all, 1, 1)[i] = <<b>>[i]
      BY <2>2, <2>3
    <2> QED BY <2>2, <2>3, <2>4, SeqEqual
  <1>4. SubSeq(all, 3, Len(all)) = Tail(s)
    <2> DEFINE rest == SubSeq(all, 3, Len(all))
    <2>1. \A i \in 3..Len(all) : all[i] \in S
      BY <1>1, <1>2
    <2>2. /\ rest \in Seq(S)
          /\ Len(rest) = IF 3 <= Len(all) THEN Len(all) - 3 + 1 ELSE 0
          /\ \A i \in 1..Len(all) - 3 + 1 : rest[i] = all[3 + i - 1]
      BY <1>1, <1>2, <2>1, SubSeqProperties
    <2> HIDE DEF rest
    <2>3. Len(rest) = Len(Tail(s))
      <3>1. \A n \in Nat \ {0} : (IF 3 <= n + 1 THEN (n + 1) - 3 + 1 ELSE 0) = n - 1
        OBVIOUS
      <3>2. Len(rest) = IF 3 <= Len(s) + 1 THEN (Len(s) + 1) - 3 + 1 ELSE 0
        BY <1>2, <2>2, SMTT(30)
      <3>3. Len(rest) = Len(s) - 1
        BY <1>1, <3>1, <3>2
      <3> QED BY <1>1, <3>3
    <2>4. \A i \in 1..Len(rest) : rest[i] = Tail(s)[i]
      <3> SUFFICES ASSUME NEW i \in 1..Len(s) - 1 PROVE rest[i] = Tail(s)[i]
        BY <1>1, <2>3
      <3>1. rest[i] = all[i + 2]
        <4>1. i \in 1..Len(all) - 3 + 1 /\ 3 + i - 1 = i + 2
          BY <1>1, <1>2
        <4> QED BY <2>2, <4>1
      <3>2. all[i + 2] = s[i + 1]
        BY <1>1, <1>2
      <3> QED BY <1>1, <3>1, <3>2
    <2>5. rest = Tail(s)
      BY <1>1, <2>2, <2>3, <2>4, SeqEqual
    <2> QED BY <2>5 DEF rest
  <1>5. Reports!Without(all, 2) = SubSeq(all, 1, 1) \o SubSeq(all, 3, Len(all))
    BY DEF Reports!Without
  <1>6. all # <<>>
    BY <1>1, <1>2
  <1> QED BY <1>2, <1>3, <1>4, <1>5, <1>6 DEF all

\* A report that arrives goes behind the others, and too many lose one.
LEMMA ArrivalRefines ==
  ASSUME ReadInv, DataInv, ReportArrives
  PROVE  Reports!Arrive
  <1> DEFINE r == arrived + 1
             all == Append(ring, r)
  <1>1. /\ "file" \in held /\ held' = held /\ UNCHANGED <<plugged, outcome>>
        /\ arrived' = r
        /\ IF io = "running"
             THEN io' = "done" /\ buffer' = r /\ ring' = ring
             ELSE ring' = Pushed(ring, r) /\ UNCHANGED <<io, buffer>>
    <2>1. arrived' = r
      BY DEF ReportArrives
    <2> HIDE DEF r
    <2> QED BY <2>1 DEF ReportArrives, callvars
  <1>2. /\ RingMax \in Nat \ {0} /\ r \in Nat
        /\ ring \in Seq(Nat) /\ buffer \in Nat /\ Len(ring) <= RingMax /\ Len(ring) \in Nat
    BY RingAssumption DEF DataInv
  <1>3. all \in Seq(Nat) /\ Len(all) = Len(ring) + 1 /\ all # <<>>
    BY <1>2
  <1>4. ASSUME \/ /\ ~(Len(Append(Taken \o ring, r)) > RingMax + 1)
                  /\ (Taken \o ring)' = Append(Taken \o ring, r)
               \/ /\ Len(Append(Taken \o ring, r)) > RingMax
                  /\ \E i \in 1..1 + 1 :
                       (Taken \o ring)' = Reports!Without(Append(Taken \o ring, r), i)
        PROVE  Reports!Arrive
    BY <1>1, <1>4 DEF Reports!Arrive
  <1>5. 1 \in 1..1 + 1 /\ 2 \in 1..1 + 1
    OBVIOUS
  <1> HIDE DEF r, all
  <1>6. CASE io = "running"
    <2>1. ring = <<>> /\ Taken = <<>> /\ Taken' = <<r>>
      BY <1>1, <1>6 DEF ReadInv, Taken
    <2>2. Append(Taken \o ring, r) = <<r>> /\ (Taken \o ring)' = <<r>>
      BY <1>1, <1>6, <2>1
    <2>3. Len(<<r>>) = 1 /\ ~(1 > RingMax + 1)
      BY <1>2
    <2> QED BY <1>4, <2>2, <2>3
  <1>7. CASE io # "running" /\ io # "done"
    <2>1. Taken = <<>> /\ Taken' = <<>>
      BY <1>1, <1>7 DEF Taken
    <2>2. Taken \o ring = ring /\ (Taken \o ring)' = Pushed(ring, r)
      BY <1>1, <1>2, <1>7, <2>1, ConcatEmptySeq
    <2>3. CASE Len(all) > RingMax
      <3>1. Pushed(ring, r) = Reports!Without(all, 1)
        BY <2>3 DEF Pushed, all, Reports!Without
      <3> QED BY <1>4, <1>5, <2>2, <2>3, <3>1 DEF all
    <2>4. CASE ~(Len(all) > RingMax)
      <3>1. Pushed(ring, r) = all
        BY <2>4 DEF Pushed, all
      <3>2. ~(Len(all) > RingMax + 1)
        BY <1>2, <1>3, <2>4
      <3> QED BY <1>4, <2>2, <3>1, <3>2 DEF all
    <2> QED BY <2>3, <2>4
  <1>8. CASE io = "done"
    <2>1. Taken = <<buffer>> /\ Taken' = <<buffer>>
      BY <1>1, <1>8 DEF Taken
    <2>2. (Taken \o ring)' = <<buffer>> \o Pushed(ring, r)
      BY <1>1, <1>8, <2>1
    <2>3. Append(Taken \o ring, r) = <<buffer>> \o all
      BY <1>2, <2>1 DEF all
    <2>4. Len(<<buffer>> \o all) = Len(ring) + 2
      BY <1>2, <1>3, SecondLost
    <2>5. CASE Len(all) > RingMax
      <3>1. Pushed(ring, r) = Tail(all)
        BY <2>5 DEF Pushed, all
      <3>2. (Taken \o ring)' = Reports!Without(<<buffer>> \o all, 2)
        BY <1>2, <1>3, <2>2, <3>1, SecondLost
      <3>3. Len(<<buffer>> \o all) > RingMax
        BY <1>2, <1>3, <2>4, <2>5
      <3> QED BY <1>4, <1>5, <2>3, <3>2, <3>3
    <2>6. CASE ~(Len(all) > RingMax)
      <3>1. Pushed(ring, r) = all
        BY <2>6 DEF Pushed, all
      <3>2. ~(Len(<<buffer>> \o all) > RingMax + 1)
        BY <1>2, <1>3, <2>4, <2>6
      <3> QED BY <1>4, <2>2, <2>3, <3>1, <3>2
    <2> QED BY <2>5, <2>6
  <1> QED BY <1>6, <1>7, <1>8

\* hid_read_timeout gives the reports in the order in which they arrived, also the
\* one that came while nobody waited, loses none but the oldest when there are too
\* many, and fails only when the device is gone.
THEOREM WindowsReadsCorrectly == Spec => ImplementsReportQueue
  <1> USE DEF Reports!vars
  <1>1. Init => Reports!Init
    BY DEF Init, Reports!Init, Taken
  <1>2. ReadInv /\ DataInv /\ [Next]_vars => [Reports!Next]_(Reports!vars)
    <2> SUFFICES ASSUME ReadInv, DataInv, [Next]_vars
                 PROVE  [Reports!Next]_(Reports!vars)
      OBVIOUS
    <2> USE DEF Reports!Next, Goes, handlevars, callvars, drivervars
    <2>0. ring \in Seq(Nat) /\ buffer \in Nat
      BY DEF DataInv
    <2>1. UNCHANGED <<io, buffer, ring>> \/ (UNCHANGED <<io, ring>> /\ io # "done") =>
            (Taken \o ring)' = Taken \o ring
      BY DEF Taken
    <2>2. ASSUME UNCHANGED <<plugged, arrived, outcome>>, ("file" \in held') = ("file" \in held),
                 (Taken \o ring)' = Taken \o ring
          PROVE  [Reports!Next]_(Reports!vars)
      BY <2>2
    <2>3. CASE FindDevice \/ NewDevice \/ SetNumInputBuffers \/ GetPreparsedData \/ GetCaps
      <3>1. UNCHANGED <<plugged, arrived, outcome, io, ring>> /\ io # "done"
        BY <2>3 DEF FindDevice, NewDevice, SetNumInputBuffers, GetPreparsedData, GetCaps,
                    ReadInv, Using
      <3>2. ("file" \in held') = ("file" \in held)
        BY <2>3 DEF FindDevice, NewDevice, SetNumInputBuffers, GetPreparsedData, GetCaps,
                    ReadInv, MadeAt
      <3> QED BY <2>1, <2>2, <3>1, <3>2
    <2>4. CASE CreateFile
      <3>1. (Taken \o ring)' = <<>>
        BY <2>4 DEF CreateFile, Taken
      <3> QED BY <2>4, <3>1 DEF CreateFile, ReadInv, MadeAt, Reports!Open
    <2>5. CASE OpenFails \/ HidClose
      <3>1. (Taken \o ring)' = <<>> /\ "file" \notin held' /\ UNCHANGED <<plugged, arrived, outcome>>
        BY <2>5 DEF OpenFails, HidClose, FreeDevice, Taken
      <3>2. CASE "file" \in held
        BY <3>1, <3>2 DEF Reports!Close
      <3>3. CASE "file" \notin held
        <4>1. Taken \o ring = <<>>
          BY <2>5, <3>3 DEF OpenFails, HidClose, ReadInv, MadeAt, Using, DataInv, Taken
        <4> QED BY <2>2, <3>1, <3>3, <4>1
      <3> QED BY <3>2, <3>3
    <2>6. ASSUME NEW p \in {"none", "some", "endless"}, HidReadTimeout(p)
          PROVE  [Reports!Next]_(Reports!vars)
      <3>1. /\ place = "open" /\ UNCHANGED <<held, arrived, plugged>>
            /\ "file" \in held /\ (~pending => io = "none")
        BY <2>6, ReadSteps DEF ReadInv, MadeAt
      <3>2. CASE ContinueRead(p)
        BY <2>1, <2>2, <3>1, <3>2 DEF ContinueRead
      <3>3. CASE ~pending /\ ReadFile(p)
        <4>1. outcome' = outcome
          BY <3>3 DEF ReadFile
        <4>2. Taken \o ring = ring
          BY <2>0, <3>1, <3>3 DEF Taken
        <4>3. CASE ring = <<>>
          BY <2>1, <2>2, <3>1, <3>3, <4>1, <4>2, <4>3 DEF ReadFile, Taken
        <4>4. CASE ring # <<>>
          <5>1. Taken' = <<Head(ring)>> /\ ring' = Tail(ring)
            BY <3>3, <4>4 DEF ReadFile, Taken
          <5>2. <<Head(ring)>> \o Tail(ring) = ring
            BY <2>0, <4>4
          <5> QED BY <2>2, <3>1, <4>1, <4>2, <5>1, <5>2
        <4> QED BY <4>3, <4>4
      <3>4. CASE ~pending /\ ReadFileFails
        <4>1. (Taken \o ring)' = Taken \o ring /\ ~plugged /\ outcome' = -1
          BY <2>1, <3>1, <3>4 DEF ReadFileFails
        <4> QED BY <3>1, <4>1 DEF Reports!Read
      <3> QED BY <2>6, <3>2, <3>3, <3>4, ReadSteps
    <2>7. CASE HidRead
      BY <2>6, <2>7 DEF HidRead
    <2>8. CASE WaitObject \/ HidWrite \/ WriteDone \/ \E b \in BOOLEAN : HidSetNonblocking(b)
      BY <2>1, <2>2, <2>8 DEF WaitObject, HidWrite, WriteDone, HidSetNonblocking
    <2>9. CASE WaitTimeout
      <3>1. "file" \in held
        BY <2>9 DEF WaitTimeout, ReadInv, MadeAt
      <3> QED BY <2>1, <2>9, <3>1 DEF WaitTimeout, Return, Reports!Read
    <2>10. CASE GetResult
      <3>1. "file" \in held /\ UNCHANGED <<held, plugged, arrived>>
        BY <2>10 DEF GetResult, ReadInv, MadeAt
      <3>2. CASE io = "done"
        <4>1. Taken = <<buffer>> /\ Taken' = <<>> /\ ring' = ring /\ outcome' = buffer
          BY <2>10, <3>2 DEF GetResult, Return, Taken
        <4>2. /\ <<buffer>> \o ring # <<>> /\ Head(<<buffer>> \o ring) = buffer
              /\ Tail(<<buffer>> \o ring) = ring /\ <<>> \o ring = ring
          BY <2>0
        <4> QED BY <3>1, <4>1, <4>2, Zenon DEF Reports!Read
      <3>3. CASE io = "failed"
        <4>1. Taken = <<>> /\ Taken' = <<>> /\ ring' = ring /\ outcome' = -1 /\ ~plugged
          BY <2>10, <3>3 DEF GetResult, Return, Taken, ReadInv
        <4> QED BY <3>1, <4>1 DEF Reports!Read
      <3> QED BY <2>10, <3>2, <3>3 DEF GetResult
    <2>11. CASE ReportArrives
      BY <2>11, ArrivalRefines
    <2>12. CASE ReadFails
      BY <2>2, <2>12 DEF ReadFails, Taken
    <2>13. CASE Unplug
      BY <2>1, <2>13 DEF Unplug, Reports!Unplug
    <2>14. CASE PlugIn
      BY <2>1, <2>14 DEF PlugIn, Reports!PlugIn
    <2>15. CASE UNCHANGED vars
      BY <2>1, <2>2, <2>15 DEF vars
    <2> QED
      BY <2>3, <2>4, <2>5, <2>6, <2>7, <2>8, <2>9, <2>10, <2>11, <2>12, <2>13, <2>14, <2>15
      DEF Next, MainStep
  <1> QED
    BY <1>1, <1>2, ReadInvariance, DataInvariance, PTL
    DEF Spec, ImplementsReportQueue, Reports!Spec
=============================================================================
