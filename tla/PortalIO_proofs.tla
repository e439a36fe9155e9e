--------------------------- MODULE PortalIO_proofs --------------------------
(***************************************************************************)
(* What holds of class PortalIO for any number of figures, blocks,         *)
(* attempts, retries and faults, and for every length of HIDAPI's queue.   *)
(***************************************************************************)
EXTENDS PortalIO, SequenceTheorems, FiniteSetTheorems, FunctionTheorems, TLAPS

-----------------------------------------------------------------------------
(* Types.                                                                   *)

Letters  == {"R", "A", "S", "C"}
Reads    == [op : {"read"}, place : Places]
Writes   == [op : {"write"}, place : Places, data : Data]
Errors   == {6, 8, 9, 11, 22}      \* what a method of an object may throw

\* The part of TypeOK about the thread.
HostTypes ==
  /\ handle \in {"closed", "opening", "open", "flashing", "closing"}
  /\ pc \in {"idle", "put", "send", "await"}
  /\ script \in Seq(Letters)
  /\ attempt \in 0..MaxAttempts - 1
  /\ retry \in 0..MaxRetries - 1
  /\ thrown \in {0, 4, 5, 6, 8, 9, 11, 22}
  /\ call \in Calls \cup {NoCall}
  /\ result \in [call : Calls, ok : BOOLEAN, data : Data \cup {NoData}] \cup {NoCall}
  /\ asked \in [Places -> Data \cup {NoData}]
  /\ OnBlock => Busy
  /\ pc = "put" => call \in Writes
  /\ Busy /\ ~OnBlock => script # <<>>

\* The part about the requests and the reports.
LinkTypes ==
  /\ requests \in Seq(Requests) /\ Len(requests) <= LinkMax
  /\ replies \in Seq(Reports) /\ Len(replies) <= QueueMax

\* The part about the portal.
PortalTypes ==
  /\ tag \in [Places -> Data]
  /\ present \subseteq Figures
  /\ plugged \in BOOLEAN
  /\ faults \in [FaultKinds -> Nat]
  /\ faultsLeft \in Nat
  /\ acks \in Nat

LEMMA TypeParts == TypeOK <=> HostTypes /\ LinkTypes /\ PortalTypes
  BY DEF TypeOK, HostTypes, LinkTypes, PortalTypes, Letters, Writes

LEMMA TypePartsNext == HostTypes' /\ LinkTypes' /\ PortalTypes' => TypeOK'
  BY DEF TypeOK, HostTypes, LinkTypes, PortalTypes, Letters, Writes

\* What is under way is a read or a write, and NoCall is neither.
LEMMA CallKinds ==
  /\ \A c \in Calls : c # NoCall /\ c.place \in Places
  /\ \A c \in Calls : c.op = "read" <=> c \in Reads
  /\ \A c \in Calls : c.op # "read" <=> c \in Writes
  BY NoCallAssumption DEF Calls, Reads, Writes

\* However a method ends, the thread is left in order.
LEMMA FinishTypes ==
  ASSUME HostTypes, NEW e \in Errors \cup {0}, NEW ok \in BOOLEAN, NEW d \in Data \cup {NoData},
         OnBlock, FinishBlock(ok, d, e)
  PROVE  HostTypes'
  <1>1. call \in Calls
    BY DEF HostTypes, OnBlock
  <1>2. /\ pc' = "idle" /\ script' = <<>> /\ attempt' = 0 /\ retry' = 0 /\ thrown' = e
        /\ call' = NoCall /\ handle' = handle /\ asked' = asked
        /\ result' = [call |-> call, ok |-> ok, data |-> d]
    BY DEF FinishBlock, Finish
  <1>3. attempt' \in 0..MaxAttempts - 1 /\ retry' \in 0..MaxRetries - 1
    BY <1>2, CountsAssumption
  <1>4. result' \in [call : Calls, ok : BOOLEAN, data : Data \cup {NoData}]
    BY <1>1, <1>2
  <1> QED BY <1>2, <1>3, <1>4 DEF HostTypes, OnBlock, Busy, Errors

LEMMA ThrowTypes ==
  ASSUME HostTypes, NEW e \in Errors, Throw(e)
  PROVE  HostTypes'
  <1>1. CASE ~OnBlock
    <2>1. /\ pc' = "idle" /\ script' = <<>> /\ attempt' = 0 /\ retry' = 0 /\ thrown' = e
          /\ UNCHANGED <<handle, asked, call, result>>
      BY <1>1 DEF Throw, Finish
    <2>2. attempt' \in 0..MaxAttempts - 1 /\ retry' \in 0..MaxRetries - 1
      BY <2>1, CountsAssumption
    <2> QED BY <1>1, <2>1, <2>2 DEF HostTypes, OnBlock, Busy, Errors
  <1>2. CASE OnBlock /\ FinishBlock(FALSE, NoData, e)
    BY <1>2, FinishTypes
  <1>3. CASE OnBlock /\ FinishBlock(FALSE, NoData, 22)
    BY <1>3, FinishTypes DEF Errors
  <1>4. CASE /\ OnBlock /\ call.op # "read" /\ retry + 1 # MaxRetries
             /\ retry' = retry + 1
             /\ attempt' = 0
             /\ pc' = "put"
             /\ UNCHANGED <<handle, script, thrown, asked, call, result>>
    <2>1. retry' \in 0..MaxRetries - 1 /\ attempt' \in 0..MaxAttempts - 1
      BY <1>4, CountsAssumption DEF HostTypes
    <2>2. call \in Writes
      BY <1>4, CallKinds DEF HostTypes, OnBlock
    <2> QED BY <1>4, <2>1, <2>2 DEF HostTypes, OnBlock, Busy
  <1> QED BY <1>1, <1>2, <1>3, <1>4 DEF Throw

LEMMA NextCommandTypes ==
  ASSUME HostTypes, ~OnBlock, NextCommand
  PROVE  HostTypes'
  <1>1. script \in Seq(Letters)
    BY DEF HostTypes
  <1>2. CASE Len(script) > 1
    <2>1. script # <<>>
      BY <1>2
    <2>2. Tail(script) \in Seq(Letters) /\ Len(Tail(script)) = Len(script) - 1
      BY <1>1, <2>1, HeadTailProperties
    <2>3. Tail(script) # <<>>
      <3>0. Len(script) \in Nat
        BY <1>1
      <3>1. Len(script) - 1 # 0
        BY <1>2, <3>0, SMTT(30)
      <3>2. Len(<<>>) = 0
        OBVIOUS
      <3> QED BY <2>2, <3>1, <3>2
    <2> QED BY <1>2, <2>2, <2>3 DEF HostTypes, NextCommand, OnBlock, Busy
  <1>3. CASE ~(Len(script) > 1) /\ handle = "flashing"
    <2>1. Blink \in Seq(Letters) /\ Blink # <<>>
      BY DEF Blink, Letters
    <2> QED BY <1>3, <2>1 DEF HostTypes, NextCommand, OnBlock, Busy
  <1>4. CASE ~(Len(script) > 1 \/ handle = "flashing")
    BY <1>4 DEF HostTypes, NextCommand, OnBlock, Busy
  <1> QED BY <1>2, <1>3, <1>4

LEMMA RespondTypes ==
  ASSUME HostTypes, pc = "await", NEW r \in Reports, Respond(r)
  PROVE  HostTypes'
  <1>1. CASE Throw(9) \/ Throw(11) \/ Throw(22) \/ Throw(8)
    BY <1>1, ThrowTypes DEF Errors
  <1>2. CASE OnBlock /\ r.letter = "Q" /\ FinishBlock(TRUE, r.data, 0)
    <2>1. r.data \in Data
      BY <1>2 DEF Reports
    <2> QED BY <1>2, <2>1, FinishTypes
  <1>3. CASE attempt # MaxAttempts - 1 /\ attempt' = attempt + 1 /\ pc' = "send"
             /\ UNCHANGED <<handle, script, retry, thrown, asked, call, result>>
    <2>1. attempt' \in 0..MaxAttempts - 1
      BY <1>3, CountsAssumption DEF HostTypes
    <2> QED BY <1>3, <2>1 DEF HostTypes, OnBlock, Busy
  <1>4. CASE ~OnBlock /\ NextCommand
    BY <1>4, NextCommandTypes
  <1>5. CASE Resend
    BY <1>5 DEF Resend, HostTypes, OnBlock, Busy
  <1> QED
    BY <1>1, <1>2, <1>3, <1>4, <1>5 DEF Respond, GotData, NextAttempt, AttemptAgain

\* A queue that takes one more request, and one that gives up its first.
LEMMA PutTypes ==
  ASSUME NEW S, NEW s \in Seq(S), NEW r \in S, NEW n \in Nat, Len(s) < n
  PROVE  Append(s, r) \in Seq(S) /\ Len(Append(s, r)) <= n
  OBVIOUS

LEMMA TakeTypes ==
  ASSUME NEW S, NEW s \in Seq(S), s # <<>>
  PROVE  /\ Head(s) \in S
         /\ Tail(s) \in Seq(S)
         /\ Len(Tail(s)) = Len(s) - 1
         /\ Len(s) \in Nat \ {0}
  BY HeadTailProperties

\* HIDAPI's queue holds reports that were delivered, and no more than it can.
LEMMA DeliverTypes ==
  ASSUME NEW S, replies \in Seq(S), Len(replies) <= QueueMax, NEW r \in S, Deliver(r)
  PROVE  replies' \in Seq(S) /\ Len(replies') <= QueueMax
  <1>1. QueueMax \in Nat /\ QueueMax > 0
    BY CountsAssumption
  <1>2. CASE replies' = replies
    BY <1>2
  <1>3. CASE Len(replies) = QueueMax /\ replies' = Append(Tail(replies), r)
    <2>1. replies # <<>>
      BY <1>1, <1>3
    <2>2. Tail(replies) \in Seq(S) /\ Len(Tail(replies)) = Len(replies) - 1
      BY <2>1, TakeTypes
    <2>3. Len(Tail(replies)) < QueueMax
      BY <1>1, <1>3, <2>2
    <2> QED BY <1>1, <1>3, <2>2, <2>3, PutTypes
  <1>4. CASE Len(replies) # QueueMax /\ replies' = Append(replies, r)
    <2>1. Len(replies) \in Nat
      OBVIOUS
    <2>2. Len(replies) < QueueMax
      BY <1>1, <1>4, <2>1
    <2> QED BY <1>1, <1>4, <2>2, PutTypes
  <1> QED BY <1>2, <1>3, <1>4 DEF Deliver

\* Any report is either a letter or an answer.
LEMMA ReportKinds ==
  /\ \A l \in {"R", "A", "S", "W", "Z"} : Report(l) \in Reports
  /\ \A p \in Places, s \in {"ok", "empty", "error"}, d \in Data :
       [letter |-> "Q", place |-> p, status |-> s, data |-> d] \in Reports
  BY DEF Report, Reports

LEMMA RequestKinds ==
  /\ \A r \in Requests : r.letter \in {"Q", "W"} => r.place \in Places
  /\ \A r \in Requests : r.letter = "W" => r.data \in Data
  BY DEF Requests

LEMMA AnswerTypes ==
  ASSUME TypeOK, NEW q \in Requests, q.letter = "Q", NEW s \in {"ok", "empty", "error"},
         Answer(q, s)
  PROVE  replies' \in Seq(Reports) /\ Len(replies') <= QueueMax
  <1>1. q.place \in Places
    BY RequestKinds
  <1>2. tag[q.place] \in Data
    BY <1>1 DEF TypeOK
  <1>3. [letter |-> "Q", place |-> q.place, status |-> s, data |-> tag[q.place]] \in Reports
    BY <1>1, <1>2, ReportKinds
  <1>4. replies \in Seq(Reports) /\ Len(replies) <= QueueMax
    BY DEF TypeOK
  <1> QED BY <1>3, <1>4, DeliverTypes DEF Answer

LEMMA AcknowledgeTypes ==
  ASSUME TypeOK, Acknowledge
  PROVE  acks' \in Nat /\ replies' \in Seq(Reports) /\ Len(replies') <= QueueMax
  <1>1. Report("W") \in Reports
    BY ReportKinds
  <1>2. replies \in Seq(Reports) /\ Len(replies) <= QueueMax /\ acks \in Nat
    BY DEF TypeOK
  <1> QED BY <1>1, <1>2, DeliverTypes DEF Acknowledge

LEMMA SendTypes ==
  ASSUME TypeOK, NEW r \in Requests, Send(r)
  PROVE  requests' \in Seq(Requests) /\ Len(requests') <= LinkMax
  <1>1. LinkMax \in Nat
    BY CountsAssumption
  <1>2. requests \in Seq(Requests)
    BY DEF TypeOK
  <1> QED BY <1>1, <1>2, PutTypes DEF Send

LEMMA FaultTypes ==
  ASSUME TypeOK, NEW k \in FaultKinds, Fault(k)
  PROVE  faults' \in [FaultKinds -> Nat] /\ faultsLeft' \in Nat
  BY DEF TypeOK, Fault

\* The thread, its queues and the portal stay what they should be: the loop counters
\* below their limits, and the reports kept no more than HIDAPI has room for.
THEOREM TypeInvariance == Spec => []TypeOK
  <1>1. Init => TypeOK
    <2> SUFFICES ASSUME Init PROVE TypeOK
      OBVIOUS
    <2>1. HostTypes
      <3>1. attempt \in 0..MaxAttempts - 1 /\ retry \in 0..MaxRetries - 1
        BY CountsAssumption DEF Init
      <3> QED BY <3>1 DEF Init, HostTypes, OnBlock, Busy
    <2>2. LinkTypes
      BY CountsAssumption DEF Init, LinkTypes
    <2>3. PortalTypes
      BY CountsAssumption, DataAssumption DEF Init, PortalTypes
    <2> QED BY <2>1, <2>2, <2>3, TypeParts
  <1>2. TypeOK /\ [Next]_vars => TypeOK'
    <2> SUFFICES ASSUME TypeOK, [Next]_vars PROVE TypeOK'
      OBVIOUS
    <2>1. HostTypes /\ LinkTypes /\ PortalTypes
      BY TypeParts
    <2>2. UNCHANGED hostvars => HostTypes'
      BY <2>1 DEF hostvars, HostTypes, OnBlock, Busy
    <2>3. UNCHANGED linkvars => LinkTypes'
      BY <2>1 DEF linkvars, LinkTypes
    <2>4. UNCHANGED portalvars => PortalTypes'
      BY <2>1 DEF portalvars, PortalTypes
    <2>5. requests # <<>> =>
            /\ Head(requests) \in Requests
            /\ Tail(requests) \in Seq(Requests) /\ Len(Tail(requests)) <= LinkMax
      <3> SUFFICES ASSUME requests # <<>>
                   PROVE  /\ Head(requests) \in Requests
                          /\ Tail(requests) \in Seq(Requests)
                          /\ Len(Tail(requests)) <= LinkMax
        OBVIOUS
      <3>1. requests \in Seq(Requests) /\ Len(requests) <= LinkMax
        BY <2>1 DEF LinkTypes
      <3>2. /\ Head(requests) \in Requests
            /\ Tail(requests) \in Seq(Requests)
            /\ Len(Tail(requests)) = Len(requests) - 1
            /\ Len(requests) \in Nat
        BY <3>1, TakeTypes
      <3>3. Len(Tail(requests)) <= LinkMax
        BY <3>1, <3>2, CountsAssumption
      <3> QED BY <3>2, <3>3
    <2>6. OnBlock => call \in Calls
      BY <2>1 DEF HostTypes, OnBlock
    <2>7. CASE Open
      <3>1. HostTypes'
        <4>1. <<"R", "A", "C", "S">> \in Seq(Letters) /\ <<"R", "A", "C", "S">> # <<>>
          BY DEF Letters
        <4> QED BY <2>1, <2>7, <4>1 DEF Open, HostTypes, OnBlock, Busy
      <3> QED BY <2>3, <2>4, <2>7, <3>1, TypePartsNext DEF Open
    <2>8. CASE OpenFails
      <3>1. HostTypes'
        BY <2>1, <2>8 DEF OpenFails, HostTypes, OnBlock, Busy
      <3> QED BY <2>3, <2>4, <2>8, <3>1, TypePartsNext DEF OpenFails
    <2>9. CASE Close
      <3>1. HostTypes'
        <4>1. <<"A">> \in Seq(Letters) /\ <<"A">> # <<>>
          BY DEF Letters
        <4> QED BY <2>1, <2>9, <4>1 DEF Close, HostTypes, OnBlock, Busy
      <3> QED BY <2>3, <2>4, <2>9, <3>1, TypePartsNext DEF Close
    <2>10. CASE Flash
      <3>1. HostTypes'
        <4>1. Blink \in Seq(Letters) /\ Blink # <<>>
          BY DEF Letters, Blink
        <4> QED BY <2>1, <2>10, <4>1 DEF Flash, HostTypes, OnBlock, Busy
      <3> QED BY <2>3, <2>4, <2>10, <3>1, TypePartsNext DEF Flash
    <2>11. CASE SetPortalColor
      <3>1. HostTypes'
        <4>1. <<"C">> \in Seq(Letters) /\ <<"C">> # <<>>
          BY DEF Letters
        <4> QED BY <2>1, <2>11, <4>1 DEF SetPortalColor, HostTypes, OnBlock, Busy
      <3> QED BY <2>3, <2>4, <2>11, <3>1, TypePartsNext DEF SetPortalColor
    <2>12. ASSUME NEW p \in Places, ReadBlock(p) PROVE TypeOK'
      <3>1. HostTypes'
        <4>1. [op |-> "read", place |-> p] \in Reads
          BY <2>12 DEF Reads
        <4>2. call' \in Calls /\ call' # NoCall
          BY <2>12, <4>1, CallKinds DEF ReadBlock, Calls, Reads
        <4> QED BY <2>1, <2>12, <4>2 DEF ReadBlock, HostTypes, OnBlock, Busy
      <3> QED BY <2>3, <2>4, <2>12, <3>1, TypePartsNext DEF ReadBlock
    <2>13. ASSUME NEW p \in Places, NEW d \in Data, WriteBlock(p, d) PROVE TypeOK'
      <3>1. HostTypes'
        <4>1. [op |-> "write", place |-> p, data |-> d] \in Writes
          BY <2>13 DEF Writes
        <4>2. call' \in Writes
          BY <2>13, <4>1 DEF WriteBlock
        <4>3. call' \in Calls /\ call' # NoCall
          BY <4>2, CallKinds DEF Calls, Writes
        <4>4. asked' \in [Places -> Data \cup {NoData}]
          BY <2>1, <2>13 DEF WriteBlock, HostTypes
        <4> QED BY <2>1, <2>13, <4>2, <4>3, <4>4 DEF WriteBlock, HostTypes, OnBlock, Busy
      <3> QED BY <2>3, <2>4, <2>13, <3>1, TypePartsNext DEF WriteBlock
    <2>14. CASE SendFails
      <3>1. HostTypes'
        BY <2>1, <2>14, ThrowTypes DEF SendFails, Errors
      <3>2. CASE UNCHANGED portalvars
        BY <2>3, <2>4, <2>14, <3>1, <3>2, TypePartsNext DEF SendFails
      <3>3. CASE Fault("unsent") /\ UNCHANGED <<tag, present, plugged, acks>>
        <4>1. PortalTypes'
          BY <2>1, <3>3, FaultTypes DEF PortalTypes, FaultKinds
        <4> QED BY <2>3, <2>14, <3>1, <4>1, TypePartsNext DEF SendFails
      <3> QED BY <2>14, <3>2, <3>3 DEF SendFails
    <2>15. CASE SendWrite
      <3>1. HostTypes'
        BY <2>1, <2>15 DEF SendWrite, HostTypes, OnBlock, Busy
      <3>2. [letter |-> "W", place |-> call.place, data |-> call.data] \in Requests
        BY <2>1, <2>15 DEF SendWrite, HostTypes, Writes, Requests
      <3>3. LinkTypes'
        BY <2>1, <2>15, <3>2, SendTypes DEF SendWrite, LinkTypes
      <3> QED BY <2>4, <2>15, <3>1, <3>3, TypePartsNext DEF SendWrite
    <2>16. CASE SendQuery
      <3>1. HostTypes'
        BY <2>1, <2>16 DEF SendQuery, HostTypes, OnBlock, Busy
      <3>2. Query \in Requests
        BY <2>6, <2>16, CallKinds DEF SendQuery, Query, Requests
      <3>3. LinkTypes'
        BY <2>1, <2>16, <3>2, SendTypes DEF SendQuery, LinkTypes
      <3> QED BY <2>4, <2>16, <3>1, <3>3, TypePartsNext DEF SendQuery
    <2>17. CASE SendCommand
      <3>1. script # <<>> /\ script \in Seq(Letters)
        BY <2>1, <2>17 DEF SendCommand, HostTypes, Busy
      <3>2. HostTypes'
        <4>1. CASE NextCommand
          BY <2>1, <2>17, <4>1, NextCommandTypes DEF SendCommand
        <4>2. CASE pc' = "await" /\ UNCHANGED <<handle, script, attempt, retry, thrown, asked, call, result>>
          BY <2>1, <3>1, <4>2 DEF HostTypes, OnBlock, Busy
        <4> QED BY <2>17, <4>1, <4>2 DEF SendCommand
      <3>3. Head(script) \in Letters
        BY <3>1, TakeTypes
      <3>4. [letter |-> Head(script)] \in Requests
        BY <3>3 DEF Letters, Requests
      <3>5. LinkTypes'
        BY <2>1, <2>17, <3>4, SendTypes DEF SendCommand, LinkTypes
      <3> QED BY <2>4, <2>17, <3>2, <3>5, TypePartsNext DEF SendCommand
    <2>18. CASE Receive
      <3>1. replies # <<>> /\ replies \in Seq(Reports) /\ Len(replies) <= QueueMax
        BY <2>1, <2>18 DEF Receive, LinkTypes
      <3>2. /\ Head(replies) \in Reports
            /\ Tail(replies) \in Seq(Reports)
            /\ Len(Tail(replies)) = Len(replies) - 1
            /\ Len(replies) \in Nat
        BY <3>1, TakeTypes
      <3>3. HostTypes'
        BY <2>1, <2>18, <3>2, RespondTypes DEF Receive
      <3>4. replies' \in Seq(Reports) /\ Len(replies') <= QueueMax
        BY <2>18, <3>1, <3>2, CountsAssumption DEF Receive
      <3>5. LinkTypes'
        BY <2>1, <2>18, <3>4 DEF Receive, LinkTypes
      <3> QED BY <2>4, <2>18, <3>3, <3>5, TypePartsNext DEF Receive
    <2>19. CASE TimedOut
      <3>1. HostTypes'
        <4>1. CASE Resend
          BY <2>1, <2>19, <4>1 DEF TimedOut, Resend, HostTypes, OnBlock, Busy
        <4>2. CASE ~OnBlock /\ NextCommand
          BY <2>1, <4>2, NextCommandTypes
        <4>3. CASE Throw(9) \/ Throw(11)
          BY <2>1, <4>3, ThrowTypes DEF Errors
        <4> QED BY <2>19, <4>1, <4>2, <4>3 DEF TimedOut
      <3>2. PortalTypes'
        <4>1. faults' \in [FaultKinds -> Nat]
          BY <2>1, <2>19 DEF TimedOut, PortalTypes, FaultKinds
        <4>2. faultsLeft' \in Nat
          BY <2>1, <2>19 DEF TimedOut, PortalTypes
        <4> QED BY <2>1, <2>19, <4>1, <4>2 DEF TimedOut, PortalTypes
      <3> QED BY <2>3, <2>19, <3>1, <3>2, TypePartsNext DEF TimedOut
    <2>20. CASE ReceiveFails
      <3>1. HostTypes'
        BY <2>1, <2>20, ThrowTypes DEF ReceiveFails, Errors
      <3> QED BY <2>3, <2>4, <2>20, <3>1, TypePartsNext DEF ReceiveFails
    <2>21. CASE AnswerQuery
      <3>1. LinkTypes'
        BY <2>5, <2>21, AnswerTypes DEF AnswerQuery, Take, LinkTypes
      <3> QED BY <2>2, <2>4, <2>21, <3>1, TypePartsNext DEF AnswerQuery
    <2>22. CASE StoreWrite
      <3>1. LinkTypes'
        BY <2>5, <2>22, AcknowledgeTypes DEF StoreWrite, Take, LinkTypes
      <3>2. Head(requests).place \in Places /\ Head(requests).data \in Data
        BY <2>5, <2>22, RequestKinds DEF StoreWrite, Take
      <3>3. tag' \in [Places -> Data]
        BY <2>1, <2>22, <3>2 DEF StoreWrite, PortalTypes
      <3>4. PortalTypes'
        BY <2>1, <2>22, <3>3, AcknowledgeTypes DEF StoreWrite, PortalTypes
      <3> QED BY <2>2, <2>22, <3>1, <3>4, TypePartsNext DEF StoreWrite
    <2>23. CASE AnswerCommand \/ Stray \/ NotReady
      <3>1. PICK l \in {"R", "A", "S", "W", "Z"} : Deliver(Report(l))
        BY <2>23 DEF AnswerCommand, Stray, NotReady
      <3>2. replies' \in Seq(Reports) /\ Len(replies') <= QueueMax
        <4>1. Report(l) \in Reports
          BY <3>1, ReportKinds
        <4> QED BY <2>1, <3>1, <4>1, DeliverTypes DEF LinkTypes
      <3>3. LinkTypes'
        BY <2>1, <2>5, <2>23, <3>2 DEF LinkTypes, AnswerCommand, Stray, NotReady, Take
      <3>4. PortalTypes'
        <4>1. CASE AnswerCommand
          BY <2>4, <4>1 DEF AnswerCommand
        <4>2. CASE Stray
          BY <2>1, <4>2, FaultTypes DEF Stray, PortalTypes, FaultKinds
        <4>3. CASE NotReady
          BY <2>1, <4>3, FaultTypes DEF NotReady, PortalTypes, FaultKinds
        <4> QED BY <2>23, <4>1, <4>2, <4>3
      <3> QED BY <2>2, <2>23, <3>3, <3>4, TypePartsNext DEF AnswerCommand, Stray, NotReady
    <2>24. CASE SetColor
      <3>1. LinkTypes'
        BY <2>1, <2>5, <2>24 DEF SetColor, Take, LinkTypes
      <3> QED BY <2>2, <2>4, <2>24, <3>1, TypePartsNext DEF SetColor
    <2>25. CASE Lose
      <3>1. LinkTypes'
        BY <2>1, <2>5, <2>25 DEF Lose, Take, LinkTypes
      <3>2. PortalTypes'
        BY <2>1, <2>25, FaultTypes DEF Lose, PortalTypes, FaultKinds
      <3> QED BY <2>2, <2>25, <3>1, <3>2, TypePartsNext DEF Lose
    <2>26. CASE Misread
      <3>1. LinkTypes'
        BY <2>5, <2>26, AnswerTypes DEF Misread, Take, LinkTypes
      <3>2. PortalTypes'
        BY <2>1, <2>26, FaultTypes DEF Misread, PortalTypes, FaultKinds
      <3> QED BY <2>2, <2>26, <3>1, <3>2, TypePartsNext DEF Misread
    <2>27. CASE Miswrite
      <3>1. LinkTypes'
        BY <2>5, <2>27, AcknowledgeTypes DEF Miswrite, Take, LinkTypes
      <3>2. PortalTypes'
        BY <2>1, <2>27, FaultTypes, AcknowledgeTypes DEF Miswrite, PortalTypes, FaultKinds
      <3> QED BY <2>2, <2>27, <3>1, <3>2, TypePartsNext DEF Miswrite
    <2>28. ASSUME NEW f \in Figures, Remove(f) \/ PutBack(f) PROVE TypeOK'
      <3>1. PortalTypes'
        BY <2>1, <2>28, FaultTypes DEF Remove, PutBack, PortalTypes, FaultKinds
      <3> QED BY <2>2, <2>3, <2>28, <3>1, TypePartsNext DEF Remove, PutBack
    <2>29. CASE Unplug
      <3>1. LinkTypes'
        BY <2>1, <2>29, CountsAssumption DEF Unplug, LinkTypes
      <3>2. PortalTypes'
        BY <2>1, <2>29, FaultTypes DEF Unplug, PortalTypes, FaultKinds
      <3> QED BY <2>2, <2>29, <3>1, <3>2, TypePartsNext DEF Unplug
    <2>30. CASE UNCHANGED vars
      BY <2>2, <2>3, <2>4, <2>30, TypePartsNext DEF vars
    <2> QED
      BY <2>7, <2>8, <2>9, <2>10, <2>11, <2>12, <2>13, <2>14, <2>15, <2>16, <2>17, <2>18,
         <2>19, <2>20, <2>21, <2>22, <2>23, <2>24, <2>25, <2>26, <2>27, <2>28, <2>29, <2>30
      DEF Next, HostStep, PortalStep, PortalFault
  <1> QED BY <1>1, <1>2, PTL DEF Spec

-----------------------------------------------------------------------------
(* The memory that the portal is to SkylanderIO.                            *)

\* The requests that write what was asked, and the reports that tell of a block
\* what it held at first or holds now.
AsAsked  == {r \in Requests : r.letter = "W" => asked[r.place] = r.data}
Truthful == {r \in Reports : r.letter = "Q" => r.data \in {Original[r.place], tag[r.place]}}

\* Every block is as it was or as it was asked to be, and what is under way and
\* what succeeded last agree with that.
MemoryInv ==
  /\ \A p \in Places : tag[p] \in {Original[p], asked[p]}
  /\ OnBlock /\ call.op = "read" => asked[call.place] = NoData
  /\ OnBlock /\ call.op # "read" => /\ asked[call.place] = call.data
                                   /\ call.data # Original[call.place]
  /\ result # NoCall /\ result.ok /\ result.call.op = "write" =>
       /\ asked[result.call.place] = result.data
       /\ tag[result.call.place] = result.data

\* Whatever is on its way, however late and how often, fits the memory.
LinkInv == requests \in Seq(AsAsked) /\ replies \in Seq(Truthful)

StoreInv == MemoryInv /\ LinkInv

StoreStep == [Store!Next]_(Store!vars)

LEMMA ThrowReturns ==
  ASSUME NEW e, Throw(e), UNCHANGED tag
  PROVE  StoreStep
  BY DEF Throw, Finish, FinishBlock, OnBlock, StoreStep, Store!Next, Store!Return, Store!vars

\* An answer that ReadBlock takes is what the block holds, and lets WriteBlock
\* return true only if that is what it wrote.
LEMMA RespondReturns ==
  ASSUME TypeOK, MemoryInv, NEW r \in Truthful, Respond(r), UNCHANGED tag
  PROVE  StoreStep
  <1> USE DEF StoreStep, Store!Next, Store!Return, Store!vars
  <1>1. CASE Throw(9) \/ Throw(11) \/ Throw(22) \/ Throw(8)
    BY <1>1, ThrowReturns
  <1>2. CASE /\ OnBlock /\ r.letter = "Q" /\ Accepts(r)
             /\ ~(call.op = "write" /\ r.data # call.data)
             /\ FinishBlock(TRUE, r.data, 0)
    <2>1. call \in Calls /\ call.place \in Places /\ r.place = call.place
      BY <1>2, CallKinds DEF TypeOK, OnBlock, Accepts
    <2>2. tag[call.place] \in {Original[call.place], asked[call.place]}
      BY <2>1 DEF MemoryInv
    <2>3. r.data \in {Original[call.place], tag[call.place]}
      BY <1>2, <2>1 DEF Truthful
    <2>4. tag[call.place] \in Data
      BY <2>1 DEF TypeOK
    <2>5. CASE call.op = "read"
      <3>1. asked[call.place] = NoData
        BY <1>2, <2>5 DEF MemoryInv
      <3>2. r.data = tag[call.place]
        BY <2>2, <2>3, <2>4, <3>1, DataAssumption
      <3> QED BY <1>2, <2>5, <3>2 DEF FinishBlock, OnBlock
    <2>6. CASE call.op # "read"
      <3>1. call.op = "write"
        BY <2>1, <2>6 DEF Calls
      <3>2. r.data = call.data /\ call.data # Original[call.place]
        BY <1>2, <2>6, <3>1 DEF MemoryInv
      <3>3. tag[call.place] = call.data
        BY <2>3, <3>2
      <3> QED BY <1>2, <3>1, <3>2, <3>3 DEF FinishBlock, OnBlock
    <2> QED BY <2>5, <2>6
  <1>3. CASE UNCHANGED <<asked, call, result>>
    BY <1>3
  <1> QED
    BY <1>1, <1>2, <1>3
    DEF Respond, GotData, NextAttempt, AttemptAgain, NextCommand, Resend

\* Each step of the program and the portal is one of the memory, or none.
LEMMA StepRefines == TypeOK /\ StoreInv /\ [Next]_vars => StoreStep
  <1> SUFFICES ASSUME TypeOK, StoreInv, [Next]_vars PROVE StoreStep
    OBVIOUS
  <1> USE DEF Store!Next, Store!vars
  <1>1. MemoryInv /\ requests \in Seq(AsAsked) /\ replies \in Seq(Truthful)
    BY DEF StoreInv, LinkInv
  <1>2. CASE Open \/ OpenFails \/ Close \/ Flash \/ SetPortalColor
    BY <1>2 DEF Open, OpenFails, Close, Flash, SetPortalColor, portalvars, StoreStep
  <1>3. ASSUME NEW p \in Places, ReadBlock(p) PROVE StoreStep
    <2>1. call = NoCall
      BY <1>3 DEF ReadBlock, Ready, TypeOK, OnBlock
    <2>2. Store!BeginRead(p)
      BY <1>3, <2>1 DEF ReadBlock, Store!BeginRead, Store!ReadCall, portalvars
    <2> QED BY <1>3, <2>2 DEF StoreStep, Places, Store!Places
  <1>4. ASSUME NEW p \in Places, NEW d \in Data, WriteBlock(p, d) PROVE StoreStep
    <2>1. call = NoCall
      BY <1>4 DEF WriteBlock, Ready, TypeOK, OnBlock
    <2>2. Store!BeginWrite(p, d)
      BY <1>4, <2>1 DEF WriteBlock, Store!BeginWrite, Store!WriteCall, portalvars
    <2> QED BY <1>4, <2>2 DEF StoreStep, Places, Store!Places
  <1>5. CASE SendFails \/ ReceiveFails
    BY <1>5, ThrowReturns DEF SendFails, ReceiveFails, portalvars
  <1>6. CASE SendWrite \/ SendQuery \/ SendCommand
    BY <1>6 DEF SendWrite, SendQuery, SendCommand, NextCommand, portalvars, StoreStep
  <1>7. CASE Receive
    <2>1. replies # <<>> /\ Respond(Head(replies)) /\ UNCHANGED tag
      BY <1>7 DEF Receive, portalvars
    <2>2. Head(replies) \in Truthful
      BY <1>1, <2>1, TakeTypes
    <2> QED BY <1>1, <2>1, <2>2, RespondReturns
  <1>8. CASE TimedOut
    <2>1. CASE Throw(9) \/ Throw(11)
      BY <1>8, <2>1, ThrowReturns DEF TimedOut
    <2>2. CASE Resend \/ NextCommand
      BY <1>8, <2>2 DEF TimedOut, Resend, NextCommand, StoreStep
    <2> QED BY <1>8, <2>1, <2>2 DEF TimedOut
  <1>9. CASE StoreWrite
    <2> DEFINE w == Head(requests)
    <2>1. w \in AsAsked /\ w.letter = "W"
      BY <1>1, <1>9, TakeTypes DEF StoreWrite, Take
    <2>2. w.place \in Places /\ w.data \in Data /\ asked[w.place] = w.data
      BY <2>1, RequestKinds DEF AsAsked
    <2>3. UNCHANGED <<asked, call, result>>
      BY <1>9 DEF StoreWrite, hostvars
    <2>4. tag' = [tag EXCEPT ![w.place] = asked[w.place]] \/ tag' = tag
      BY <1>9, <2>2 DEF StoreWrite
    <2>5. asked[w.place] # NoData
      BY <2>2, DataAssumption
    <2> HIDE DEF w
    <2> QED
      BY <2>2, <2>3, <2>4, <2>5 DEF StoreStep, Store!TakeEffect, Places, Store!Places
  <1>10. CASE AnswerQuery \/ AnswerCommand \/ SetColor \/ Stray \/ NotReady \/ Lose
    BY <1>10
    DEF AnswerQuery, AnswerCommand, SetColor, Stray, NotReady, Lose, hostvars, portalvars, StoreStep
  <1>11. CASE Misread \/ Miswrite \/ Unplug \/ (\E f \in Figures : Remove(f) \/ PutBack(f))
    BY <1>11 DEF Misread, Miswrite, Unplug, Remove, PutBack, hostvars, StoreStep
  <1>12. CASE UNCHANGED vars
    BY <1>12 DEF vars, hostvars, portalvars, StoreStep
  <1> QED
    BY <1>2, <1>3, <1>4, <1>5, <1>6, <1>7, <1>8, <1>9, <1>10, <1>11, <1>12
    DEF Next, HostStep, PortalStep, PortalFault

\* The memory alone keeps MemoryInv, and what is on its way still fits it: no block
\* is asked for twice, and none goes back to what it was.
LEMMA StepKeepsMemory ==
  ASSUME TypeOK, MemoryInv, StoreStep
  PROVE  MemoryInv' /\ AsAsked \subseteq AsAsked' /\ Truthful \subseteq Truthful'
  <1> USE DEF StoreStep, Store!Next, Store!vars
  <1>1. /\ asked \in [Places -> Data \cup {NoData}] /\ tag \in [Places -> Data]
        /\ OnBlock => call \in Calls /\ call.place \in Places
        /\ result # NoCall => /\ result.call \in Calls /\ result.call.place \in Places
    BY CallKinds DEF TypeOK, OnBlock
  <1>2. \A r \in Requests : r.letter = "W" => r.place \in Places /\ r.data \in Data
    BY RequestKinds
  <1>3. \A r \in Reports : r.letter = "Q" => r.place \in Places /\ r.data \in Data
    BY DEF Reports
  <1>4. ASSUME NEW p \in Store!Places, Store!BeginRead(p)
        PROVE  MemoryInv' /\ AsAsked \subseteq AsAsked' /\ Truthful \subseteq Truthful'
    <2>1. UNCHANGED <<tag, asked, result>> /\ call' = Store!ReadCall(p) /\ asked[p] = NoData
      BY <1>4 DEF Store!BeginRead
    <2>2. call'.op = "read" /\ call'.place = p
      BY <2>1 DEF Store!ReadCall
    <2>3. MemoryInv'
      BY <2>1, <2>2 DEF MemoryInv, OnBlock
    <2> QED BY <2>1, <2>3 DEF AsAsked, Truthful
  <1>5. ASSUME NEW p \in Store!Places, NEW d \in Data, Store!BeginWrite(p, d)
        PROVE  MemoryInv' /\ AsAsked \subseteq AsAsked' /\ Truthful \subseteq Truthful'
    <2>1. /\ UNCHANGED <<tag, result>> /\ call' = Store!WriteCall(p, d)
          /\ asked' = [asked EXCEPT ![p] = d] /\ asked[p] = NoData /\ d # Original[p]
      BY <1>5 DEF Store!BeginWrite
    <2>2. call'.op = "write" /\ call'.place = p /\ call'.data = d
      BY <2>1 DEF Store!WriteCall
    <2>3. p \in Places /\ asked'[p] = d /\ \A q \in Places : q # p => asked'[q] = asked[q]
      BY <1>1, <2>1 DEF Places, Store!Places
    <2>4. \A q \in Places : tag'[q] \in {Original[q], asked'[q]}
      <3>1. tag[p] = Original[p]
        BY <1>1, <2>1, <2>3, DataAssumption DEF MemoryInv
      <3> QED BY <2>1, <2>3, <3>1 DEF MemoryInv
    <2>5. result # NoCall /\ result.ok /\ result.call.op = "write" =>
            asked'[result.call.place] = result.data /\ tag[result.call.place] = result.data
      BY <1>1, <2>1, <2>3, DataAssumption DEF MemoryInv
    <2>6. MemoryInv'
      BY <2>1, <2>2, <2>3, <2>4, <2>5 DEF MemoryInv, OnBlock
    <2>7. AsAsked \subseteq AsAsked'
      BY <1>2, <2>1, <2>3, DataAssumption DEF AsAsked
    <2> QED BY <2>1, <2>6, <2>7 DEF Truthful
  <1>6. ASSUME NEW p \in Store!Places, Store!TakeEffect(p)
        PROVE  MemoryInv' /\ AsAsked \subseteq AsAsked' /\ Truthful \subseteq Truthful'
    <2>1. /\ UNCHANGED <<asked, call, result>> /\ tag' = [tag EXCEPT ![p] = asked[p]]
          /\ asked[p] # NoData
      BY <1>6 DEF Store!TakeEffect
    <2>2. p \in Places /\ tag'[p] = asked[p] /\ \A q \in Places : q # p => tag'[q] = tag[q]
      BY <1>1, <2>1 DEF Places, Store!Places
    <2>3. MemoryInv'
      BY <1>1, <2>1, <2>2 DEF MemoryInv, OnBlock
    <2>4. \A q \in Places : {Original[q], tag[q]} \subseteq {Original[q], tag'[q]}
      BY <2>2 DEF MemoryInv
    <2>5. Truthful \subseteq Truthful'
      BY <1>3, <2>4 DEF Truthful
    <2> QED BY <2>1, <2>3, <2>5 DEF AsAsked
  <1>7. CASE Store!Return
    <2>1. UNCHANGED <<tag, asked>> /\ call # NoCall /\ call' = NoCall
      BY <1>7 DEF Store!Return
    <2>2. result' # NoCall /\ result'.ok /\ result'.call.op = "write" =>
            asked[result'.call.place] = result'.data /\ tag[result'.call.place] = result'.data
      BY <1>7 DEF Store!Return, MemoryInv, OnBlock
    <2>3. MemoryInv'
      BY <2>1, <2>2 DEF MemoryInv, OnBlock
    <2> QED BY <2>1, <2>3 DEF AsAsked, Truthful
  <1>8. CASE UNCHANGED <<tag, asked, call, result>>
    BY <1>8 DEF MemoryInv, OnBlock, AsAsked, Truthful
  <1> QED
    BY <1>4, <1>5, <1>6, <1>7, <1>8

\* What is put on its way fits the memory of that moment.
LEMMA StepKeepsLink ==
  ASSUME TypeOK, StoreInv, [Next]_vars
  PROVE  requests' \in Seq(AsAsked) /\ replies' \in Seq(Truthful)
  <1>1. MemoryInv /\ requests \in Seq(AsAsked) /\ replies \in Seq(Truthful)
    BY DEF StoreInv, LinkInv
  <1>2. Take => requests' \in Seq(AsAsked) /\ Head(requests) \in AsAsked
    BY <1>1, TakeTypes DEF Take
  <1>3. Len(replies) <= QueueMax
    BY DEF TypeOK
  <1>4. \A l \in {"R", "A", "S", "W", "Z"} : Report(l) \in Truthful
    BY ReportKinds DEF Truthful, Report
  <1>5. ASSUME NEW l \in {"R", "A", "S", "W", "Z"}, Deliver(Report(l))
        PROVE  replies' \in Seq(Truthful)
    <2>1. Report(l) \in Truthful
      BY <1>4, <1>5
    <2> QED BY <1>1, <1>3, <1>5, <2>1, DeliverTypes
  <1>6. ASSUME NEW q \in Requests, q.letter = "Q", NEW s \in {"ok", "empty", "error"},
               Answer(q, s)
        PROVE  replies' \in Seq(Truthful)
    <2>1. q.place \in Places /\ tag[q.place] \in Data
      BY <1>6, RequestKinds DEF TypeOK
    <2>2. [letter |-> "Q", place |-> q.place, status |-> s, data |-> tag[q.place]] \in Truthful
      BY <1>6, <2>1, ReportKinds DEF Truthful
    <2> QED BY <1>1, <1>3, <1>6, <2>2, DeliverTypes DEF Answer
  <1>7. Acknowledge => replies' \in Seq(Truthful)
    BY <1>1, <1>5 DEF Acknowledge
  <1>8. ASSUME NEW r \in AsAsked, Send(r)
        PROVE  requests' \in Seq(AsAsked)
    BY <1>1, <1>8 DEF Send
  <1>9. CASE Open \/ OpenFails \/ Close \/ Flash \/ SetPortalColor
    BY <1>1, <1>9 DEF Open, OpenFails, Close, Flash, SetPortalColor, linkvars
  <1>10. CASE \E p \in Places : ReadBlock(p) \/ \E d \in Data : WriteBlock(p, d)
    BY <1>1, <1>10 DEF ReadBlock, WriteBlock, linkvars
  <1>11. CASE SendFails \/ ReceiveFails \/ TimedOut
    BY <1>1, <1>11 DEF SendFails, ReceiveFails, TimedOut, linkvars
  <1>12. CASE SendWrite
    <2>1. call \in Writes /\ OnBlock
      BY <1>12, CallKinds DEF SendWrite, TypeOK, Writes, OnBlock, Calls
    <2>2. asked[call.place] = call.data
      BY <1>1, <2>1 DEF MemoryInv, Writes
    <2>3. [letter |-> "W", place |-> call.place, data |-> call.data] \in AsAsked
      BY <2>1, <2>2 DEF Writes, AsAsked, Requests
    <2> QED BY <1>1, <1>8, <1>12, <2>3 DEF SendWrite
  <1>13. CASE SendQuery
    <2>1. call.place \in Places
      BY <1>13, CallKinds DEF SendQuery, TypeOK, OnBlock
    <2>2. Query \in AsAsked
      BY <2>1 DEF Query, AsAsked, Requests
    <2> QED BY <1>1, <1>8, <1>13, <2>2 DEF SendQuery
  <1>14. CASE SendCommand
    <2>1. script # <<>> /\ script \in Seq(Letters)
      BY <1>14 DEF SendCommand, TypeOK, Busy, Letters
    <2>2. Head(script) \in Letters
      BY <2>1, TakeTypes
    <2>3. [letter |-> Head(script)] \in AsAsked
      BY <2>2 DEF Letters, AsAsked, Requests
    <2>4. Send([letter |-> Head(script)]) /\ UNCHANGED replies
      BY <1>14 DEF SendCommand
    <2> QED BY <1>1, <1>8, <2>3, <2>4
  <1>15. CASE Receive
    <2>1. replies # <<>> /\ UNCHANGED requests
      BY <1>15 DEF Receive
    <2>2. replies' = <<>> \/ replies' = Tail(replies)
      BY <1>15 DEF Receive
    <2>3. Tail(replies) \in Seq(Truthful)
      BY <1>1, <2>1, TakeTypes
    <2>4. <<>> \in Seq(Truthful)
      OBVIOUS
    <2> QED BY <1>1, <2>1, <2>2, <2>3, <2>4
  <1>16. CASE AnswerQuery \/ Misread
    <2>1. Head(requests) \in Requests
      BY <1>2, <1>16 DEF AnswerQuery, Misread, AsAsked
    <2> QED BY <1>2, <1>6, <1>16, <2>1 DEF AnswerQuery, Misread
  <1>17. CASE StoreWrite \/ Miswrite
    BY <1>2, <1>7, <1>17 DEF StoreWrite, Miswrite
  <1>18. CASE AnswerCommand
    BY <1>2, <1>5, <1>18 DEF AnswerCommand
  <1>19. CASE SetColor \/ Lose
    BY <1>1, <1>2, <1>19 DEF SetColor, Lose
  <1>20. CASE Stray \/ NotReady
    BY <1>1, <1>5, <1>20 DEF Stray, NotReady
  <1>21. CASE \E f \in Figures : Remove(f) \/ PutBack(f)
    BY <1>1, <1>21 DEF Remove, PutBack, linkvars
  <1>22. CASE Unplug
    BY <1>1, <1>22 DEF Unplug
  <1>23. CASE UNCHANGED vars
    BY <1>1, <1>23 DEF vars, linkvars
  <1> QED
    BY <1>9, <1>10, <1>11, <1>12, <1>13, <1>14, <1>15, <1>16, <1>17, <1>18, <1>19, <1>20,
       <1>21, <1>22, <1>23
    DEF Next, HostStep, PortalStep, PortalFault

LEMMA StoreInvariance == Spec => []StoreInv
  <1>1. Init => StoreInv
    <2> SUFFICES ASSUME Init PROVE StoreInv
      OBVIOUS
    <2>1. MemoryInv
      BY DEF Init, MemoryInv, OnBlock
    <2>2. requests \in Seq(AsAsked) /\ replies \in Seq(Truthful)
      BY DEF Init
    <2> QED BY <2>1, <2>2 DEF StoreInv, LinkInv
  <1>2. TypeOK /\ StoreInv /\ [Next]_vars => StoreInv'
    <2> SUFFICES ASSUME TypeOK, StoreInv, [Next]_vars PROVE StoreInv'
      OBVIOUS
    <2>1. StoreStep
      BY StepRefines
    <2>2. MemoryInv' /\ AsAsked \subseteq AsAsked' /\ Truthful \subseteq Truthful'
      BY <2>1, StepKeepsMemory DEF StoreInv
    <2>3. requests' \in Seq(AsAsked) /\ replies' \in Seq(Truthful)
      BY StepKeepsLink
    <2>4. requests' \in Seq(AsAsked')
      BY <2>2, <2>3, SeqMonotonic
    <2>5. replies' \in Seq(Truthful')
      BY <2>2, <2>3, SeqMonotonic
    <2> QED BY <2>2, <2>4, <2>5 DEF StoreInv, LinkInv
  <1> QED BY <1>1, <1>2, TypeInvariance, PTL DEF Spec

\* ReadBlock returns what the tag holds and WriteBlock true only once the tag holds
\* the block, for any number of blocks, attempts, retries and faults.
THEOREM KeepsBlockStore == Spec => ImplementsBlockStore
  <1>1. Init => Store!Init
    BY DEF Init, Store!Init, Places, Store!Places
  <1>2. TypeOK /\ StoreInv /\ [Next]_vars => [Store!Next]_(Store!vars)
    BY StepRefines DEF StoreStep
  <1> QED
    BY <1>1, <1>2, TypeInvariance, StoreInvariance, PTL
    DEF Spec, ImplementsBlockStore, Store!Spec

\* A block that WriteBlock reported as written keeps its data for good, although
\* copies of the request may still be on their way.
THEOREM WritesStay == Spec => WritesLast
  <1>1. TypeOK /\ StoreInv /\ [Next]_vars =>
          [\A p \in Places :
             result # NoCall /\ result.ok /\ result.call.op = "write" /\ result.call.place = p
               => tag'[p] = result.data]_vars
    <2> SUFFICES ASSUME TypeOK, StoreInv, [Next]_vars, NEW p \in Places,
                        result # NoCall, result.ok, result.call.op = "write",
                        result.call.place = p
                 PROVE  tag'[p] = result.data
      OBVIOUS
    <2>1. asked[p] = result.data /\ tag[p] = result.data
      BY DEF StoreInv, MemoryInv
    <2>2. tag' = tag \/ \E q \in Places : tag' = [tag EXCEPT ![q] = asked[q]]
      BY StepRefines
      DEF StoreStep, Store!Next, Store!vars, Store!BeginRead, Store!BeginWrite,
          Store!TakeEffect, Store!Return, Places, Store!Places
    <2> QED BY <2>1, <2>2 DEF TypeOK
  <1> QED BY <1>1, TypeInvariance, StoreInvariance, PTL DEF Spec, WritesLast

-----------------------------------------------------------------------------
(* Counting in the queues.                                                  *)

\* The positions in s of the members of P.
At(s, P) == {i \in DOMAIN s : s[i] \in P}

LEMMA IndexSets ==
  ASSUME NEW n \in Nat, NEW A \in SUBSET (1..n)
  PROVE  /\ IsFiniteSet(A) /\ Cardinality(A) \in Nat /\ Cardinality(A) <= n
         /\ Cardinality(A \cup {n + 1}) = Cardinality(A) + 1
  <1>1. IsFiniteSet(1..n) /\ Cardinality(1..n) = n
    BY FS_Interval
  <1>2. IsFiniteSet(A) /\ Cardinality(A) <= n
    BY <1>1, FS_Subset
  <1>3. n + 1 \notin A
    OBVIOUS
  <1> QED BY <1>2, <1>3, FS_AddElement, FS_CardinalityType

\* When the first is taken away, all others move up.
LEMMA Shifted ==
  ASSUME NEW n \in Nat, NEW A \in SUBSET (1..n), NEW B, B = {i \in 1..n - 1 : i + 1 \in A}
  PROVE  /\ Cardinality(B) \in Nat
         /\ Cardinality(A) = Cardinality(B) + IF 1 \in A THEN 1 ELSE 0
  <1>1. IsFiniteSet(A) /\ Cardinality(A) \in Nat
    BY IndexSets
  <1>2. /\ IsFiniteSet(A \ {1})
        /\ Cardinality(A) = Cardinality(A \ {1}) + IF 1 \in A THEN 1 ELSE 0
    <2>1. IsFiniteSet(A \ {1})
      BY <1>1, FS_RemoveElement
    <2>2. Cardinality(A \ {1}) = IF 1 \in A THEN Cardinality(A) - 1 ELSE Cardinality(A)
      BY <1>1, FS_RemoveElement
    <2> QED BY <1>1, <2>1, <2>2
  <1> DEFINE f == [i \in A \ {1} |-> i - 1]
  <1>3. ExistsBijection(A \ {1}, B)
    <2>1. f \in [A \ {1} -> B]
      OBVIOUS
    <2>2. \A i, j \in A \ {1} : f[i] = f[j] => i = j
      OBVIOUS
    <2>3. \A k \in B : \E i \in A \ {1} : f[i] = k
      <3> SUFFICES ASSUME NEW k \in B PROVE \E i \in A \ {1} : f[i] = k
        OBVIOUS
      <3>1. k + 1 \in A \ {1} /\ f[k + 1] = k
        OBVIOUS
      <3> QED BY <3>1
    <2>4. f \in Bijection(A \ {1}, B)
      BY <2>1, <2>2, <2>3, Fun_IsBij
    <2> QED BY <2>4 DEF ExistsBijection
  <1>4. IsFiniteSet(B) /\ Cardinality(B) = Cardinality(A \ {1})
    BY <1>2, <1>3, FS_Bijection
  <1>5. Cardinality(B) \in Nat
    BY <1>4, FS_CardinalityType
  <1> QED BY <1>2, <1>4, <1>5

LEMMA CountTypes ==
  ASSUME NEW S, NEW s \in Seq(S), NEW P
  PROVE  /\ At(s, P) \in SUBSET (1..Len(s))
         /\ IsFiniteSet(At(s, P)) /\ Cardinality(At(s, P)) \in Nat
         /\ Cardinality(At(s, P)) <= Len(s) /\ Len(s) \in Nat
  <1>1. At(s, P) \in SUBSET (1..Len(s)) /\ Len(s) \in Nat
    BY LenProperties DEF At
  <1> QED BY <1>1, IndexSets

LEMMA CountAppend ==
  ASSUME NEW S, NEW s \in Seq(S), NEW r \in S, NEW P
  PROVE  Cardinality(At(Append(s, r), P)) = Cardinality(At(s, P)) + IF r \in P THEN 1 ELSE 0
  <1>1. /\ Append(s, r) \in Seq(S)
        /\ Len(Append(s, r)) = Len(s) + 1
        /\ \A i \in 1..Len(s) : Append(s, r)[i] = s[i]
        /\ Append(s, r)[Len(s) + 1] = r
    BY AppendProperties
  <1>2. DOMAIN s = 1..Len(s) /\ DOMAIN Append(s, r) = 1..Len(Append(s, r)) /\ Len(s) \in Nat
    BY <1>1, LenProperties
  <1>3. 1..Len(s) + 1 = (1..Len(s)) \cup {Len(s) + 1}
    BY <1>2
  <1>4. At(Append(s, r), P) = IF r \in P THEN At(s, P) \cup {Len(s) + 1} ELSE At(s, P)
    BY <1>1, <1>2, <1>3 DEF At
  <1> QED BY <1>2, <1>4, CountTypes, IndexSets

LEMMA CountTail ==
  ASSUME NEW S, NEW s \in Seq(S), s # <<>>, NEW P
  PROVE  Cardinality(At(s, P)) = Cardinality(At(Tail(s), P)) + IF Head(s) \in P THEN 1 ELSE 0
  <1>1. /\ Tail(s) \in Seq(S)
        /\ Len(Tail(s)) = Len(s) - 1
        /\ \A i \in 1..Len(Tail(s)) : Tail(s)[i] = s[i + 1]
    BY HeadTailProperties
  <1>2. Head(s) = s[1]
    OBVIOUS
  <1>3. DOMAIN s = 1..Len(s) /\ DOMAIN Tail(s) = 1..Len(s) - 1 /\ Len(s) \in Nat \ {0}
    BY <1>1, LenProperties, TakeTypes
  <1>4. At(Tail(s), P) = {i \in 1..Len(s) - 1 : i + 1 \in At(s, P)}
    BY <1>1, <1>3 DEF At
  <1>5. 1 \in At(s, P) <=> Head(s) \in P
    BY <1>2, <1>3 DEF At
  <1> QED BY <1>3, <1>4, <1>5, CountTypes, Shifted

LEMMA DeliverCounts ==
  ASSUME NEW S, replies \in Seq(S), NEW r \in S, Deliver(r)
  PROVE  /\ Len(replies') <= Len(replies) + 1
         /\ \A P : Cardinality(At(replies', P)) <=
                    Cardinality(At(replies, P)) + IF r \in P THEN 1 ELSE 0
  <1>1. \A P : Cardinality(At(replies, P)) \in Nat
    BY CountTypes
  <1>2. CASE replies' = replies
    BY <1>1, <1>2, LenProperties
  <1>3. CASE Len(replies) = QueueMax /\ replies' = Append(Tail(replies), r)
    <2>1. Len(replies) > 0
      BY <1>3, CountsAssumption
    <2>2. replies # <<>>
      BY <2>1
    <2>3. Tail(replies) \in Seq(S) /\ Len(Tail(replies)) = Len(replies) - 1
      BY <2>2, TakeTypes
    <2>4. ASSUME NEW P
          PROVE  Cardinality(At(replies', P)) <=
                 Cardinality(At(replies, P)) + IF r \in P THEN 1 ELSE 0
      <3>1. Cardinality(At(replies, P)) =
              Cardinality(At(Tail(replies), P)) + IF Head(replies) \in P THEN 1 ELSE 0
        BY <2>2, CountTail
      <3>2. Cardinality(At(replies', P)) =
              Cardinality(At(Tail(replies), P)) + IF r \in P THEN 1 ELSE 0
        BY <1>3, <2>3, CountAppend
      <3>3. Cardinality(At(Tail(replies), P)) \in Nat
        BY <2>3, CountTypes
      <3> QED BY <3>1, <3>2, <3>3
    <2>5. Len(replies') = Len(replies)
      BY <1>3, <2>1, <2>3, AppendProperties, LenProperties
    <2> QED BY <2>4, <2>5, LenProperties
  <1>4. CASE replies' = Append(replies, r)
    <2>1. Len(replies') = Len(replies) + 1
      BY <1>4, AppendProperties
    <2>2. \A P : Cardinality(At(replies', P)) =
                 Cardinality(At(replies, P)) + IF r \in P THEN 1 ELSE 0
      BY <1>4, CountAppend
    <2> QED BY <1>1, <2>1, <2>2, LenProperties
  <1> QED BY <1>2, <1>3, <1>4 DEF Deliver

\* The requests that the portal answers.
Answered == {r \in Requests : r.letter \in {"Q", "R", "A", "S"}}

Owed == Cardinality(At(requests, Answered))

Behind == faults["stray"] + faults["notready"] + faults["late"] + acks

Awaited == IF pc = "await" THEN 1 ELSE 0

LagInv == plugged => Owed + Len(replies) <= Behind + Awaited

LEMMA LagIs == TypeOK => (LagIsAccountedFor <=> LagInv)
  <1> SUFFICES ASSUME TypeOK PROVE LagIsAccountedFor <=> LagInv
    OBVIOUS
  <1>1. \A i \in DOMAIN requests : requests[i] \in Requests
    BY LenProperties, ElementOfSeq DEF TypeOK
  <1>2. ToAnswer = At(requests, Answered)
    BY <1>1 DEF ToAnswer, At, Answered
  <1> QED BY <1>2 DEF LagIsAccountedFor, LagInv, Owed, Behind, Awaited

LEMMA CountsAreNaturals ==
  TypeOK => /\ Owed \in Nat /\ Len(replies) \in Nat
            /\ faults["stray"] \in Nat /\ faults["notready"] \in Nat
            /\ faults["late"] \in Nat /\ acks \in Nat
            /\ Behind \in Nat
  BY CountTypes, LenProperties, SMTT(30) DEF TypeOK, Owed, FaultKinds, Behind

\* What puts the program behind, and what does not.
LEMMA BehindCounts ==
  ASSUME TypeOK, acks' \in Nat, NEW k \in FaultKinds,
         faults' = [faults EXCEPT ![k] = @ + 1]
  PROVE  Behind' = Behind + (acks' - acks) +
                     IF k \in {"stray", "notready", "late"} THEN 1 ELSE 0
  <1>1. faults \in [FaultKinds -> Nat] /\ acks \in Nat
    BY DEF TypeOK
  <1>2. \A j \in FaultKinds : faults[j] \in Nat /\ faults'[j] = faults[j] + IF j = k THEN 1 ELSE 0
    BY <1>1
  <1>3. {"stray", "notready", "late"} \subseteq FaultKinds
    BY DEF FaultKinds
  <1> QED BY <1>1, <1>2, <1>3 DEF Behind

LEMMA TakeCounts ==
  ASSUME TypeOK, Take
  PROVE  /\ Owed' = Owed - IF Head(requests) \in Answered THEN 1 ELSE 0
         /\ Owed' <= Owed
         /\ Head(requests) \in Requests
  <1>1. requests # <<>> /\ requests \in Seq(Requests) /\ requests' = Tail(requests)
    BY DEF TypeOK, Take
  <1>2. Tail(requests) \in Seq(Requests) /\ Head(requests) \in Requests
    BY <1>1, TakeTypes
  <1>3. Owed \in Nat /\ Cardinality(At(Tail(requests), Answered)) \in Nat
    BY <1>1, <1>2, CountTypes DEF Owed
  <1>4. Owed = Cardinality(At(Tail(requests), Answered)) +
                 IF Head(requests) \in Answered THEN 1 ELSE 0
    BY <1>1, CountTail DEF Owed
  <1>5. Owed' = Cardinality(At(Tail(requests), Answered))
    BY <1>1 DEF Owed
  <1> QED BY <1>2, <1>3, <1>4, <1>5

LEMMA SendCounts ==
  ASSUME TypeOK, NEW r \in Requests, Send(r)
  PROVE  Owed' = Owed + IF r \in Answered THEN 1 ELSE 0
  BY CountAppend DEF TypeOK, Send, Owed

LEMMA LagInvariance == Spec => []LagInv
  <1>1. Init => LagInv
    <2> SUFFICES ASSUME Init PROVE LagInv
      OBVIOUS
    <2>1. At(requests, Answered) = {}
      BY DEF Init, At
    <2>2. Owed = 0
      BY <2>1, FS_EmptySet DEF Owed
    <2>3. Behind = 0
      BY DEF Init, Behind, FaultKinds
    <2> QED BY <2>2, <2>3 DEF Init, LagInv, Awaited
  <1>2. TypeOK /\ TypeOK' /\ LagInv /\ [Next]_vars => LagInv'
    <2> SUFFICES ASSUME TypeOK, TypeOK', LagInv, [Next]_vars, plugged'
                 PROVE  Owed' + Len(replies') <= Behind' + Awaited'
      BY DEF LagInv
    <2>1. /\ Owed \in Nat /\ Len(replies) \in Nat /\ Behind \in Nat
          /\ Awaited \in {0, 1}
          /\ plugged => Owed + Len(replies) <= Behind + Awaited
      BY CountsAreNaturals DEF Awaited, LagInv
    <2>2. /\ Owed' \in Nat /\ Len(replies') \in Nat /\ Behind' \in Nat
          /\ Awaited' \in {0, 1}
      <3>1. Owed' \in Nat
        BY CountTypes DEF TypeOK, Owed
      <3>2. Len(replies') \in Nat
        BY LenProperties DEF TypeOK
      <3>3. Behind' \in Nat
        <4>1. faults' \in [FaultKinds -> Nat] /\ acks' \in Nat
          BY DEF TypeOK
        <4> QED BY <4>1 DEF FaultKinds, Behind
      <3> QED BY <3>1, <3>2, <3>3 DEF Awaited
    <2>3. /\ UNCHANGED <<requests, replies>> => Owed' = Owed /\ Len(replies') = Len(replies)
          /\ UNCHANGED <<faults, acks>> => Behind' = Behind
          /\ UNCHANGED requests => Owed' = Owed
      BY DEF Owed, Behind
    <2>4. UNCHANGED hostvars => Awaited' = Awaited
      BY DEF hostvars, Awaited
    <2>5. pc # "await" => Awaited = 0
      BY DEF Awaited
    <2>6. pc = "await" => Awaited = 1
      BY DEF Awaited
    <2>7. pc' = "await" => Awaited' = 1
      BY DEF Awaited
    <2>8. replies \in Seq(Reports)
      BY DEF TypeOK
    <2>9. ASSUME NEW l \in {"R", "A", "S", "W", "Z"}, Deliver(Report(l))
          PROVE  Len(replies') <= Len(replies) + 1
      BY <2>8, <2>9, ReportKinds, DeliverCounts
    <2>10. ASSUME NEW q \in Requests, q.letter = "Q", NEW s \in {"ok", "empty", "error"},
                  Answer(q, s)
           PROVE  Len(replies') <= Len(replies) + 1
      <3>1. q.place \in Places /\ tag[q.place] \in Data
        BY <2>10, RequestKinds DEF TypeOK
      <3>2. [letter |-> "Q", place |-> q.place, status |-> s, data |-> tag[q.place]] \in Reports
        BY <2>10, <3>1, ReportKinds
      <3> QED BY <2>8, <2>10, <3>2, DeliverCounts DEF Answer
    <2>11. CASE Open \/ OpenFails \/ Close \/ Flash \/ SetPortalColor
      <3>1. pc # "await" /\ UNCHANGED <<requests, replies, faults, acks, plugged>>
        BY <2>11 DEF Open, OpenFails, Close, Flash, SetPortalColor, Ready, Busy, linkvars, portalvars
      <3> QED BY <2>1, <2>2, <2>3, <2>5, <3>1
    <2>12. CASE \E p \in Places : ReadBlock(p) \/ \E d \in Data : WriteBlock(p, d)
      <3>1. pc # "await" /\ UNCHANGED <<requests, replies, faults, acks, plugged>>
        BY <2>12 DEF ReadBlock, WriteBlock, Ready, Busy, linkvars, portalvars
      <3> QED BY <2>1, <2>2, <2>3, <2>5, <3>1
    <2>13. CASE SendFails \/ ReceiveFails
      <3>1. CASE UNCHANGED portalvars /\ ~plugged
        BY <3>1 DEF portalvars
      <3>2. CASE SendFails /\ Fault("unsent") /\ UNCHANGED <<tag, present, plugged, acks>>
        <4>1. pc # "await" /\ UNCHANGED <<requests, replies, acks, plugged>>
          BY <3>2 DEF SendFails, linkvars
        <4>2. acks' = acks /\ acks \in Nat
          BY <4>1 DEF TypeOK
        <4>3. Behind' = Behind
          BY <2>1, <3>2, <4>2, BehindCounts DEF Fault, FaultKinds
        <4> QED BY <2>1, <2>2, <2>3, <2>5, <4>1, <4>3
      <3> QED BY <2>13, <3>1, <3>2 DEF SendFails, ReceiveFails
    <2>14. CASE SendWrite
      <3>1. /\ pc # "await" /\ UNCHANGED <<replies, faults, acks, plugged>>
            /\ Send([letter |-> "W", place |-> call.place, data |-> call.data])
        BY <2>14 DEF SendWrite, portalvars
      <3>2. [letter |-> "W", place |-> call.place, data |-> call.data] \in Requests \ Answered
        BY <2>14 DEF SendWrite, TypeOK, Requests, Answered
      <3>3. Owed' = Owed
        BY <2>1, <3>1, <3>2, SendCounts
      <3> QED BY <2>1, <2>2, <2>3, <2>5, <3>1, <3>3
    <2>15. CASE SendQuery
      <3>1. /\ pc # "await" /\ pc' = "await" /\ UNCHANGED <<replies, faults, acks, plugged>>
            /\ Send(Query)
        BY <2>15 DEF SendQuery, portalvars
      <3>2. Query \in Requests
        BY <2>15, CallKinds DEF SendQuery, Query, Requests, TypeOK, OnBlock
      <3>3. Owed' <= Owed + 1
        BY <2>1, <3>1, <3>2, SendCounts
      <3> QED BY <2>1, <2>2, <2>3, <2>5, <2>7, <3>1, <3>3
    <2>16. CASE SendCommand
      <3>1. /\ pc # "await" /\ UNCHANGED <<replies, faults, acks, plugged>>
            /\ Send([letter |-> Head(script)])
            /\ Head(script) # "C" => pc' = "await"
        BY <2>16 DEF SendCommand, portalvars
      <3>2. script # <<>> /\ script \in Seq(Letters)
        BY <2>16 DEF SendCommand, TypeOK, Busy, Letters
      <3>3. Head(script) \in Letters
        BY <3>2, TakeTypes
      <3>4. [letter |-> Head(script)] \in Requests
        BY <3>3 DEF Letters, Requests
      <3>5. Head(script) = "C" => [letter |-> Head(script)] \notin Answered
        BY DEF Answered
      <3>6. Owed' <= Owed + IF Head(script) = "C" THEN 0 ELSE 1
        BY <2>1, <3>1, <3>4, <3>5, SendCounts
      <3> QED BY <2>1, <2>2, <2>3, <2>5, <2>7, <3>1, <3>6
    <2>17. CASE Receive
      <3>1. /\ pc = "await" /\ replies # <<>> /\ UNCHANGED <<requests, faults, acks, plugged>>
            /\ replies' = <<>> \/ replies' = Tail(replies)
        BY <2>17 DEF Receive, portalvars
      <3>2. Len(Tail(replies)) = Len(replies) - 1 /\ Len(replies) > 0
        BY <2>8, <3>1, TakeTypes
      <3>3. Len(replies') <= Len(replies) - 1
        BY <2>1, <3>1, <3>2, EmptySeq
      <3> QED BY <2>1, <2>2, <2>3, <2>6, <3>1, <3>3
    <2>18. CASE TimedOut
      <3>1. pc = "await" /\ UNCHANGED <<requests, replies, plugged>>
        BY <2>18 DEF TimedOut, linkvars
      <3>2. Behind' = Behind + 1
        <4>1. "late" \in FaultKinds
          BY DEF FaultKinds
        <4>2. faults' = [faults EXCEPT !["late"] = @ + 1] /\ acks' = acks /\ acks \in Nat
          BY <2>18 DEF TimedOut, TypeOK
        <4>3. Behind' = Behind + (acks' - acks) + 1
          BY <4>1, <4>2, BehindCounts
        <4> QED BY <2>1, <4>2, <4>3
      <3> QED BY <2>1, <2>2, <2>3, <2>6, <3>1, <3>2
    <2>19. CASE AnswerQuery
      <3>1. /\ Take /\ UNCHANGED <<faults, acks, plugged>> /\ UNCHANGED hostvars
            /\ Head(requests).letter = "Q"
        BY <2>19 DEF AnswerQuery, portalvars
      <3>2. Head(requests) \in Answered
        BY <3>1, TakeCounts DEF Answered
      <3>3. Owed' = Owed - 1
        BY <3>1, <3>2, TakeCounts
      <3>4. Len(replies') <= Len(replies) + 1
        BY <2>10, <2>19, <3>1, TakeCounts DEF AnswerQuery
      <3> QED BY <2>1, <2>2, <2>3, <2>4, <3>1, <3>3, <3>4
    <2>20. CASE StoreWrite \/ Miswrite
      <3>1. Take /\ UNCHANGED plugged /\ UNCHANGED hostvars /\ Acknowledge
        BY <2>20 DEF StoreWrite, Miswrite
      <3>2. Owed' <= Owed
        BY <2>1, <2>2, <3>1, TakeCounts
      <3>3. acks' \in Nat /\ acks \in Nat
        BY DEF TypeOK
      <3>4. Behind' = Behind + (acks' - acks)
        <4>1. CASE StoreWrite
          <5>1. faults' = faults /\ faults \in [FaultKinds -> Nat]
            BY <4>1 DEF StoreWrite, TypeOK
          <5> QED BY <3>3, <5>1 DEF Behind, FaultKinds
        <4>2. CASE Miswrite
          BY <2>1, <3>3, <4>2, BehindCounts DEF Miswrite, Fault, FaultKinds
        <4> QED BY <2>20, <4>1, <4>2
      <3>5. Len(replies') <= Len(replies) + (acks' - acks)
        BY <2>1, <2>9, <3>1, <3>3 DEF Acknowledge
      <3> QED BY <2>1, <2>2, <2>4, <3>1, <3>2, <3>3, <3>4, <3>5, SMTT(30)
    <2>21. CASE AnswerCommand
      <3>1. /\ Take /\ UNCHANGED <<faults, acks, plugged>> /\ UNCHANGED hostvars
            /\ Head(requests).letter \in {"R", "A", "S"}
            /\ Deliver(Report(Head(requests).letter))
        BY <2>21 DEF AnswerCommand, portalvars
      <3>2. Head(requests) \in Answered
        BY <3>1, TakeCounts DEF Answered
      <3>3. Owed' = Owed - 1
        BY <3>1, <3>2, TakeCounts
      <3>4. Len(replies') <= Len(replies) + 1
        BY <2>9, <3>1
      <3> QED BY <2>1, <2>2, <2>3, <2>4, <3>1, <3>3, <3>4
    <2>22. CASE SetColor
      <3>1. Take /\ UNCHANGED <<replies, faults, acks, plugged>> /\ UNCHANGED hostvars
        BY <2>22 DEF SetColor, portalvars
      <3>2. Owed' <= Owed
        BY <2>1, <2>2, <3>1, TakeCounts
      <3> QED BY <2>1, <2>2, <2>3, <2>4, <3>1, <3>2
    <2>23. CASE Stray \/ NotReady
      <3>1. /\ UNCHANGED <<requests, acks, plugged>> /\ UNCHANGED hostvars
            /\ Fault("stray") \/ Fault("notready")
        BY <2>23 DEF Stray, NotReady
      <3>2. Behind' = Behind + 1
        <4>1. acks' = acks /\ acks \in Nat
          BY <3>1 DEF TypeOK
        <4> QED BY <2>1, <3>1, <4>1, BehindCounts DEF Fault, FaultKinds
      <3>3. Len(replies') <= Len(replies) + 1
        BY <2>9, <2>23 DEF Stray, NotReady
      <3> QED BY <2>1, <2>2, <2>3, <2>4, <3>1, <3>2, <3>3
    <2>24. CASE Lose
      <3>1. Take /\ UNCHANGED <<replies, acks, plugged>> /\ UNCHANGED hostvars /\ Fault("lost")
        BY <2>24 DEF Lose
      <3>2. Owed' <= Owed
        BY <2>1, <2>2, <3>1, TakeCounts
      <3>3. Behind' = Behind
        <4>1. acks' = acks /\ acks \in Nat
          BY <3>1 DEF TypeOK
        <4> QED BY <2>1, <3>1, <4>1, BehindCounts DEF Fault, FaultKinds
      <3> QED BY <2>1, <2>2, <2>3, <2>4, <3>1, <3>2, <3>3
    <2>25. CASE Misread
      <3>1. /\ Take /\ UNCHANGED <<acks, plugged>> /\ UNCHANGED hostvars
            /\ Head(requests).letter = "Q" /\ Fault("misread")
        BY <2>25 DEF Misread
      <3>2. Head(requests) \in Answered
        BY <3>1, TakeCounts DEF Answered
      <3>3. Owed' = Owed - 1
        BY <3>1, <3>2, TakeCounts
      <3>4. Len(replies') <= Len(replies) + 1
        BY <2>10, <2>25, <3>1, TakeCounts DEF Misread
      <3>5. Behind' = Behind
        <4>1. acks' = acks /\ acks \in Nat
          BY <3>1 DEF TypeOK
        <4> QED BY <2>1, <3>1, <4>1, BehindCounts DEF Fault, FaultKinds
      <3> QED BY <2>1, <2>2, <2>4, <3>1, <3>3, <3>4, <3>5
    <2>26. ASSUME NEW f \in Figures, Remove(f) \/ PutBack(f)
           PROVE  Owed' + Len(replies') <= Behind' + Awaited'
      <3>1. UNCHANGED <<requests, replies, acks, plugged>> /\ UNCHANGED hostvars
        BY <2>26 DEF Remove, PutBack, linkvars
      <3>2. Behind' = Behind
        <4>1. acks' = acks /\ acks \in Nat
          BY <3>1 DEF TypeOK
        <4>2. CASE Remove(f)
          BY <2>1, <4>1, <4>2, BehindCounts DEF Remove, Fault, FaultKinds
        <4>3. CASE PutBack(f)
          BY <4>1, <4>3 DEF PutBack, Behind
        <4> QED BY <2>26, <4>2, <4>3
      <3> QED BY <2>1, <2>2, <2>3, <2>4, <3>1, <3>2
    <2>27. CASE Unplug
      BY <2>27 DEF Unplug
    <2>28. CASE UNCHANGED vars
      <3>1. UNCHANGED <<requests, replies, faults, acks, plugged>> /\ UNCHANGED hostvars
        BY <2>28 DEF vars, linkvars, portalvars
      <3> QED BY <2>1, <2>3, <2>4, <3>1
    <2> QED
      BY <2>11, <2>12, <2>13, <2>14, <2>15, <2>16, <2>17, <2>18, <2>19, <2>20, <2>21, <2>22,
         <2>23, <2>24, <2>25, <2>26, <2>27, <2>28
      DEF Next, HostStep, PortalStep, PortalFault
  <1> QED BY <1>1, <1>2, TypeInvariance, PTL DEF Spec

\* The program is never further behind the portal than the timeouts and the reports
\* that it did not ask for explain, for every length of the queues.
THEOREM NothingPilesUp == Spec => []LagIsAccountedFor
  BY LagInvariance, TypeInvariance, LagIs, PTL

-----------------------------------------------------------------------------
(* Why blocks are reported unreadable or unwritten.                         *)

\* Nothing worse happened than timeouts and reports nobody asked for.
Clean == \A k \in RealFaults : faults[k] = 0

\* What may happen while that is so.
CleanNext ==
  \/ Open \/ OpenFails \/ Close \/ Flash \/ SetPortalColor
  \/ \E p \in Places : ReadBlock(p)
  \/ \E p \in Places, d \in Data : WriteBlock(p, d)
  \/ HostStep \/ PortalStep \/ Stray
  \/ \E f \in Figures : PutBack(f)

LEMMA StaysClean ==
  ASSUME TypeOK, [Next]_vars, Clean'
  PROVE  Clean /\ [CleanNext]_vars /\ ~Fault("unsent")
  <1>1. faults \in [FaultKinds -> Nat]
    BY DEF TypeOK
  <1>2. RealFaults \subseteq FaultKinds /\ \A k \in RealFaults : faults'[k] = 0
    BY DEF RealFaults, Clean
  <1>3. ASSUME NEW k \in RealFaults, Fault(k) PROVE FALSE
    BY <1>1, <1>2, <1>3 DEF Fault
  <1>4. ~(NotReady \/ Lose \/ Misread \/ Miswrite \/ Unplug \/ \E f \in Figures : Remove(f))
    BY <1>3 DEF NotReady, Lose, Misread, Miswrite, Unplug, Remove, RealFaults, FaultKinds
  <1>5. ~Fault("unsent") /\ [CleanNext]_vars
    <2>1. ~Fault("unsent")
      BY <1>3 DEF RealFaults, FaultKinds
    <2> QED BY <1>4, <2>1 DEF Next, PortalFault, CleanNext
  <1>6. CASE UNCHANGED faults
    BY <1>2, <1>5, <1>6 DEF Clean
  <1>7. CASE Stray \/ TimedOut
    <2>1. \A k \in RealFaults : faults'[k] = faults[k]
      BY <1>1, <1>2, <1>7 DEF Stray, TimedOut, Fault, RealFaults
    <2> QED BY <1>2, <1>5, <2>1 DEF Clean
  <1>8. UNCHANGED faults \/ Stray \/ TimedOut
    <2>1. CASE Open \/ OpenFails \/ Close \/ Flash \/ SetPortalColor
      BY <2>1 DEF Open, OpenFails, Close, Flash, SetPortalColor, portalvars
    <2>2. CASE \E p \in Places : ReadBlock(p) \/ \E d \in Data : WriteBlock(p, d)
      BY <2>2 DEF ReadBlock, WriteBlock, portalvars
    <2>3. CASE SendFails \/ SendWrite \/ SendQuery \/ SendCommand \/ Receive \/ ReceiveFails
      BY <1>5, <2>3
      DEF SendFails, SendWrite, SendQuery, SendCommand, Receive, ReceiveFails, portalvars
    <2>4. CASE AnswerQuery \/ StoreWrite \/ AnswerCommand \/ SetColor
      BY <2>4 DEF AnswerQuery, StoreWrite, AnswerCommand, SetColor, portalvars
    <2>5. CASE \E f \in Figures : PutBack(f)
      BY <2>5 DEF PutBack
    <2>6. CASE UNCHANGED vars
      BY <2>6 DEF vars, portalvars
    <2> QED
      BY <1>5, <2>1, <2>2, <2>3, <2>4, <2>5, <2>6 DEF CleanNext, HostStep, PortalStep
  <1> QED BY <1>5, <1>6, <1>7, <1>8

\* Then the portal and the figures are there, and no report tells otherwise.
CleanReports == {r \in Reports : r.letter # "Z" /\ (r.letter = "Q" => r.status = "ok")}

CleanInv ==
  Clean => plugged /\ present = Figures /\ replies \in Seq(CleanReports)

LEMMA CleanInvariance == Spec => []CleanInv
  <1>1. Init => CleanInv
    <2> SUFFICES ASSUME Init PROVE plugged /\ present = Figures /\ replies \in Seq(CleanReports)
      BY DEF CleanInv
    <2>1. <<>> \in Seq(CleanReports)
      OBVIOUS
    <2> QED BY <2>1 DEF Init
  <1>2. TypeOK /\ CleanInv /\ [Next]_vars => CleanInv'
    <2> SUFFICES ASSUME TypeOK, CleanInv, [Next]_vars, Clean'
                 PROVE  plugged' /\ present' = Figures /\ replies' \in Seq(CleanReports)
      BY DEF CleanInv
    <2>1. /\ [CleanNext]_vars /\ plugged /\ present = Figures
          /\ replies \in Seq(CleanReports) /\ Len(replies) <= QueueMax
      BY StaysClean DEF CleanInv, TypeOK
    <2>2. ASSUME NEW l \in {"R", "A", "S", "W"}, Deliver(Report(l))
          PROVE  replies' \in Seq(CleanReports)
      <3>1. Report(l) \in CleanReports
        BY <2>2 DEF CleanReports, Report, Reports
      <3> QED BY <2>1, <2>2, <3>1, DeliverTypes
    <2>3. CASE Open \/ OpenFails \/ Close \/ Flash \/ SetPortalColor
      BY <2>1, <2>3 DEF Open, OpenFails, Close, Flash, SetPortalColor, linkvars, portalvars
    <2>4. CASE \E p \in Places : ReadBlock(p) \/ \E d \in Data : WriteBlock(p, d)
      BY <2>1, <2>4 DEF ReadBlock, WriteBlock, linkvars, portalvars
    <2>5. CASE SendFails \/ ReceiveFails \/ TimedOut
      BY <2>1, <2>5 DEF SendFails, ReceiveFails, TimedOut, linkvars, portalvars
    <2>6. CASE SendWrite \/ SendQuery \/ SendCommand
      BY <2>1, <2>6 DEF SendWrite, SendQuery, SendCommand, portalvars
    <2>7. CASE Receive
      <3>1. replies # <<>> /\ (replies' = <<>> \/ replies' = Tail(replies))
        BY <2>7 DEF Receive
      <3>2. Tail(replies) \in Seq(CleanReports)
        BY <2>1, <3>1, TakeTypes
      <3>3. <<>> \in Seq(CleanReports)
        OBVIOUS
      <3>4. UNCHANGED <<plugged, present>>
        BY <2>7 DEF Receive, portalvars
      <3> QED BY <2>1, <3>1, <3>2, <3>3, <3>4
    <2>8. CASE AnswerQuery
      <3> DEFINE q == Head(requests)
      <3>1. q \in Requests /\ q.letter = "Q"
        BY <2>8, TakeTypes DEF AnswerQuery, Take, TypeOK
      <3>2. q.place \in Places /\ tag[q.place] \in Data
        BY <3>1, RequestKinds DEF TypeOK
      <3>3. OnPortal(q)
        BY <2>1, <3>2 DEF OnPortal, Places
      <3>4. Answer(q, "ok") /\ UNCHANGED <<plugged, present>>
        BY <2>8, <3>3 DEF AnswerQuery, portalvars
      <3>5. [letter |-> "Q", place |-> q.place, status |-> "ok", data |-> tag[q.place]] \in CleanReports
        BY <3>2 DEF CleanReports, Reports
      <3> HIDE DEF q
      <3>6. replies' \in Seq(CleanReports)
        BY <2>1, <3>4, <3>5, DeliverTypes DEF Answer
      <3> QED BY <2>1, <3>4, <3>6
    <2>9. CASE StoreWrite
      BY <2>1, <2>2, <2>9 DEF StoreWrite, Acknowledge
    <2>10. CASE AnswerCommand
      BY <2>1, <2>2, <2>10 DEF AnswerCommand, portalvars
    <2>11. CASE SetColor
      BY <2>1, <2>11 DEF SetColor, portalvars
    <2>12. CASE Stray
      BY <2>1, <2>2, <2>12 DEF Stray
    <2>13. CASE \E f \in Figures : PutBack(f)
      BY <2>1, <2>13 DEF PutBack
    <2>14. CASE UNCHANGED vars
      BY <2>1, <2>14 DEF vars, linkvars, portalvars
    <2> QED
      BY <2>1, <2>3, <2>4, <2>5, <2>6, <2>7, <2>8, <2>9, <2>10, <2>11, <2>12, <2>13, <2>14
      DEF CleanNext, HostStep, PortalStep
  <1> QED BY <1>1, <1>2, TypeInvariance, PTL DEF Spec

\* A 'W' for the block that WriteBlock is writing.
OwnWrite(r) == r.letter = "W" /\ r.place = call.place

\* The block under way will hold what it should before request i is answered.
Settled(i) ==
  \/ call.op = "read"
  \/ tag[call.place] = call.data
  \/ \E j \in 1..i - 1 : OwnWrite(requests[j])

\* So it is for a query that has yet to be sent: its 'W' went before it.
SentInv == Clean /\ OnBlock /\ pc # "put" => Settled(Len(requests) + 1)

\* The answers on their way that ReadBlock or WriteBlock will not take: those to
\* an earlier query.
StaleRequests ==
  {i \in DOMAIN requests :
     requests[i].letter = "Q" /\ ~(OnBlock /\ requests[i].place = call.place /\ Settled(i))}

StaleReports ==
  {r \in Reports :
     /\ r.letter = "Q"
     /\ ~(OnBlock /\ r.place = call.place /\ (call.op = "write" => r.data = call.data))}

Stale == Cardinality(StaleRequests) + Cardinality(At(replies, StaleReports))

Delay == faults["stray"] + faults["late"] + acks

\* Each of them, and each attempt and retry so far, was paid for by a delay.
OnPace == Stale <= Delay - attempt - retry

StaleInv == Clean => OnPace

LoopInv == ~OnBlock => attempt = 0 /\ retry = 0

Cause ==
  Clean => (thrown = 8 => Delay >= MaxAttempts) /\ (thrown = 22 => Delay >= MaxRetries)

LEMMA StaleTypes ==
  TypeOK => /\ StaleRequests \in SUBSET (1..Len(requests)) /\ Len(requests) \in Nat
            /\ IsFiniteSet(StaleRequests) /\ Cardinality(StaleRequests) \in Nat
            /\ Cardinality(At(replies, StaleReports)) \in Nat
            /\ Stale \in Nat /\ Delay \in Nat /\ attempt \in Nat /\ retry \in Nat
  <1> SUFFICES ASSUME TypeOK
      PROVE /\ StaleRequests \in SUBSET (1..Len(requests)) /\ Len(requests) \in Nat
            /\ IsFiniteSet(StaleRequests) /\ Cardinality(StaleRequests) \in Nat
            /\ Cardinality(At(replies, StaleReports)) \in Nat
            /\ Stale \in Nat /\ Delay \in Nat /\ attempt \in Nat /\ retry \in Nat
    OBVIOUS
  <1>1. StaleRequests \in SUBSET (1..Len(requests)) /\ Len(requests) \in Nat
    BY LenProperties DEF TypeOK, StaleRequests
  <1>2. IsFiniteSet(StaleRequests) /\ Cardinality(StaleRequests) \in Nat
    BY <1>1, IndexSets
  <1>3. Cardinality(At(replies, StaleReports)) \in Nat
    BY CountTypes DEF TypeOK
  <1>4. attempt \in Nat /\ retry \in Nat /\ acks \in Nat /\ faults \in [FaultKinds -> Nat]
    BY CountsAssumption DEF TypeOK
  <1>5. Delay \in Nat
    BY <1>4 DEF Delay, FaultKinds
  <1> QED BY <1>1, <1>2, <1>3, <1>4, <1>5 DEF Stale

\* The same after a step.
LEMMA StaleTypesNext ==
  ASSUME TypeOK'
  PROVE  /\ StaleRequests' \in SUBSET (1..Len(requests'))
         /\ Cardinality(StaleRequests') \in Nat
         /\ Cardinality(At(replies', StaleReports')) \in Nat
         /\ attempt' \in Nat /\ retry' \in Nat
  <1>1. StaleRequests' \in SUBSET (1..Len(requests')) /\ Len(requests') \in Nat
    BY LenProperties DEF TypeOK, StaleRequests
  <1>2. Cardinality(StaleRequests') \in Nat
    BY <1>1, IndexSets
  <1>3. Cardinality(At(replies', StaleReports')) \in Nat
    BY CountTypes DEF TypeOK
  <1>4. attempt' \in Nat /\ retry' \in Nat
    BY CountsAssumption DEF TypeOK
  <1> QED BY <1>1, <1>2, <1>3, <1>4

\* A request that is sent after the 'W' it depends on is not stale.
LEMMA StaleSend ==
  ASSUME TypeOK, NEW r \in Requests, Send(r), UNCHANGED <<call, tag>>,
         r.letter = "Q" => OnBlock /\ r.place = call.place /\ Settled(Len(requests) + 1)
  PROVE  /\ Cardinality(StaleRequests') <= Cardinality(StaleRequests)
         /\ Settled(Len(requests) + 1) \/ OwnWrite(r) => Settled(Len(requests) + 1)'
  <1>1. /\ requests \in Seq(Requests) /\ requests' = Append(requests, r)
        /\ Len(requests') = Len(requests) + 1 /\ Len(requests) \in Nat
        /\ \A i \in 1..Len(requests) : requests'[i] = requests[i]
        /\ requests'[Len(requests) + 1] = r
        /\ DOMAIN requests = 1..Len(requests) /\ DOMAIN requests' = 1..Len(requests) + 1
    BY AppendProperties, LenProperties DEF TypeOK, Send
  <1>2. \A i \in 1..Len(requests) + 1 : Settled(i)' <=> Settled(i)
    BY <1>1 DEF Settled, OwnWrite
  <1>3. StaleRequests' \subseteq StaleRequests
    <2> SUFFICES ASSUME NEW i \in StaleRequests' PROVE i \in StaleRequests
      OBVIOUS
    <2>1. /\ i \in 1..Len(requests) + 1 /\ requests'[i].letter = "Q"
          /\ ~(OnBlock /\ requests'[i].place = call.place /\ Settled(i))
      BY <1>1, <1>2 DEF StaleRequests, OnBlock
    <2>2. i # Len(requests) + 1
      BY <1>1, <2>1
    <2> QED BY <1>1, <2>1, <2>2 DEF StaleRequests
  <1>4. Settled(Len(requests) + 1) \/ OwnWrite(r) => Settled(Len(requests) + 1)'
    BY <1>1 DEF Settled, OwnWrite
  <1> QED BY <1>3, <1>4, StaleTypes, FS_Subset

\* What the first request does to the tags.
Effect ==
  IF Head(requests).letter = "W"
    THEN tag' = [tag EXCEPT ![Head(requests).place] = Head(requests).data]
    ELSE tag' = tag

\* Taking a request makes no other stale.
LEMMA StaleTake ==
  ASSUME TypeOK, StoreInv, Take, Effect, UNCHANGED call
  PROVE  /\ Cardinality(StaleRequests') + (IF 1 \in StaleRequests THEN 1 ELSE 0)
              <= Cardinality(StaleRequests)
         /\ OnBlock /\ Settled(Len(requests) + 1) => Settled(Len(requests) + 1)'
  <1>1. /\ requests \in Seq(Requests) /\ requests # <<>> /\ requests' = Tail(requests)
        /\ requests' \in Seq(Requests) /\ Len(requests') = Len(requests) - 1
        /\ Len(requests) \in Nat \ {0}
        /\ \A i \in 1..Len(requests) - 1 : requests'[i] = requests[i + 1]
        /\ DOMAIN requests = 1..Len(requests) /\ DOMAIN requests' = 1..Len(requests) - 1
        /\ Head(requests) = requests[1]
    BY HeadTailProperties, LenProperties, TakeTypes DEF TypeOK, Take
  <1>2. ASSUME OnBlock, NEW i \in 1..Len(requests), Settled(i + 1) PROVE Settled(i)'
    <2>1. call \in Calls /\ call.place \in Places
      BY <1>2, CallKinds DEF TypeOK, OnBlock
    <2>2. CASE call.op = "read"
      BY <2>2 DEF Settled
    <2>3. CASE call.op # "read" /\ OwnWrite(Head(requests))
      <3>1. Head(requests) \in AsAsked
        BY <1>1, TakeTypes DEF StoreInv, LinkInv
      <3>2. Head(requests).data = call.data
        BY <1>2, <2>3, <3>1 DEF AsAsked, OwnWrite, StoreInv, MemoryInv
      <3>3. tag'[call.place] = call.data
        BY <2>1, <2>3, <3>2 DEF Effect, OwnWrite, TypeOK
      <3> QED BY <3>3 DEF Settled
    <2>4. CASE call.op # "read" /\ ~OwnWrite(Head(requests))
      <3>1. tag'[call.place] = tag[call.place]
        BY <2>1, <2>4 DEF Effect, OwnWrite, TypeOK
      <3>2. CASE tag[call.place] = call.data
        BY <3>1, <3>2 DEF Settled
      <3>3. ASSUME NEW j \in 1..i, OwnWrite(requests[j]) PROVE Settled(i)'
        <4>1. j # 1
          BY <1>1, <2>4, <3>3
        <4>2. j - 1 \in 1..i - 1 /\ j - 1 \in 1..Len(requests) - 1
          BY <1>1, <4>1
        <4>3. requests'[j - 1] = requests[j]
          BY <1>1, <4>2
        <4> QED BY <3>3, <4>2, <4>3 DEF Settled, OwnWrite
      <3> QED BY <1>2, <2>4, <3>2, <3>3 DEF Settled
    <2> QED BY <2>2, <2>3, <2>4
  <1> DEFINE Moved == {i \in 1..Len(requests) - 1 : i + 1 \in StaleRequests}
  <1>3. StaleRequests' \subseteq Moved
    <2> SUFFICES ASSUME NEW i \in StaleRequests' PROVE i \in Moved
      OBVIOUS
    <2>1. /\ i \in 1..Len(requests) - 1 /\ requests[i + 1].letter = "Q"
          /\ ~(OnBlock /\ requests[i + 1].place = call.place /\ Settled(i)')
      BY <1>1 DEF StaleRequests, OnBlock
    <2>2. i \in 1..Len(requests) /\ i + 1 \in 1..Len(requests)
      BY <1>1, <2>1
    <2>3. ~(OnBlock /\ requests[i + 1].place = call.place /\ Settled(i + 1))
      BY <1>2, <2>1, <2>2
    <2>4. i + 1 \in StaleRequests
      BY <1>1, <2>1, <2>2, <2>3 DEF StaleRequests
    <2> QED BY <2>1, <2>4
  <1>4. StaleRequests \in SUBSET (1..Len(requests))
    BY StaleTypes
  <1> HIDE DEF Moved
  <1>5. /\ Cardinality(Moved) \in Nat
        /\ Cardinality(StaleRequests) = Cardinality(Moved) + IF 1 \in StaleRequests THEN 1 ELSE 0
    BY <1>1, <1>4, Shifted DEF Moved
  <1>6. IsFiniteSet(Moved)
    <2>1. Moved \in SUBSET (1..Len(requests))
      BY <1>1 DEF Moved
    <2> QED BY <1>1, <2>1, IndexSets
  <1>7. Cardinality(StaleRequests') <= Cardinality(Moved) /\ Cardinality(StaleRequests') \in Nat
    BY <1>3, <1>6, FS_Subset, FS_CardinalityType
  <1>8. OnBlock /\ Settled(Len(requests) + 1) => Settled(Len(requests) + 1)'
    <2>0. Len(requests) \in 1..Len(requests)
      BY <1>1
    <2>1. PICK n \in 1..Len(requests) : n = Len(requests)
      BY <2>0
    <2>2. OnBlock /\ Settled(n + 1) => Settled(n)'
      BY <1>2
    <2>3. Len(requests') + 1 = n
      BY <1>1, <2>1
    <2> QED BY <2>1, <2>2, <2>3 DEF Settled
  <1> QED BY <1>5, <1>7, <1>8

\* Whoever answers, the block under way is the same until its method ends.
LEMMA CallStays ==
  ASSUME [CleanNext]_vars, TypeOK, OnBlock'
  PROVE  \/ call' = call /\ OnBlock
         \/ \E p \in Places : ReadBlock(p)
         \/ \E p \in Places, d \in Data : WriteBlock(p, d)
  <1>1. CASE Open \/ OpenFails \/ Close \/ Flash \/ SetPortalColor
    BY <1>1 DEF Open, OpenFails, Close, Flash, SetPortalColor, OnBlock
  <1>2. CASE SendFails \/ ReceiveFails
    BY <1>2 DEF SendFails, ReceiveFails, Throw, Finish, FinishBlock, OnBlock
  <1>3. CASE SendWrite \/ SendQuery \/ SendCommand
    BY <1>3 DEF SendWrite, SendQuery, SendCommand, NextCommand, OnBlock
  <1>4. CASE Receive
    BY <1>4 DEF Receive, Respond, GotData, NextAttempt, AttemptAgain, Throw, Finish,
                FinishBlock, NextCommand, Resend, OnBlock
  <1>5. CASE TimedOut
    BY <1>5 DEF TimedOut, Throw, Finish, FinishBlock, NextCommand, Resend, OnBlock
  <1>6. CASE PortalStep \/ Stray \/ \E f \in Figures : PutBack(f)
    BY <1>6 DEF PortalStep, AnswerQuery, StoreWrite, AnswerCommand, SetColor, Stray, PutBack,
                hostvars, OnBlock
  <1>7. CASE UNCHANGED vars
    BY <1>7 DEF vars, hostvars, OnBlock
  <1> QED BY <1>1, <1>2, <1>3, <1>4, <1>5, <1>6, <1>7 DEF CleanNext, HostStep

LEMMA SentInvariance == Spec => []SentInv
  <1>1. Init => SentInv
    BY DEF Init, SentInv, OnBlock
  <1>2. TypeOK /\ StoreInv /\ CleanInv /\ SentInv /\ [Next]_vars => SentInv'
    <2> SUFFICES ASSUME TypeOK, StoreInv, CleanInv, SentInv, [Next]_vars,
                        Clean', OnBlock', pc' # "put"
                 PROVE  Settled(Len(requests) + 1)'
      BY DEF SentInv
    <2>1. Clean /\ [CleanNext]_vars /\ ~Fault("unsent") /\ plugged
      BY StaysClean DEF CleanInv
    <2>2. CASE \E p \in Places : ReadBlock(p)
      BY <2>2 DEF ReadBlock, Settled
    <2>3. CASE \E p \in Places, d \in Data : WriteBlock(p, d)
      BY <2>3 DEF WriteBlock
    <2>4. CASE call' = call /\ OnBlock
      <3>1. Busy /\ (pc # "put" => Settled(Len(requests) + 1))
        BY <2>1, <2>4 DEF SentInv, TypeOK
      <3>2. UNCHANGED <<requests, tag>> /\ pc # "put" => Settled(Len(requests) + 1)'
        BY <2>4, <3>1 DEF Settled, OwnWrite
      <3>3. CASE \/ Open \/ OpenFails \/ Close \/ Flash \/ SetPortalColor
                 \/ \E p \in Places : ReadBlock(p)
                 \/ \E p \in Places, d \in Data : WriteBlock(p, d)
        BY <3>1, <3>3
        DEF Open, OpenFails, Close, Flash, SetPortalColor, ReadBlock, WriteBlock, Ready
      <3>4. CASE SendFails \/ ReceiveFails \/ SendCommand
        BY <2>1, <2>4, <3>4 DEF SendFails, ReceiveFails, SendCommand
      <3>5. CASE Receive \/ TimedOut
        BY <3>2, <3>5 DEF Receive, TimedOut, portalvars, linkvars
      <3>6. CASE SendWrite
        <4> DEFINE w == [letter |-> "W", place |-> call.place, data |-> call.data]
        <4>1. w \in Requests
          <5>1. call \in [op : {"write"}, place : Places, data : Data]
            BY <3>6 DEF SendWrite, TypeOK
          <5> QED BY <5>1 DEF Requests
        <4>2. Send(w) /\ UNCHANGED <<call, tag>> /\ OwnWrite(w) /\ w.letter # "Q"
          BY <3>6 DEF SendWrite, portalvars, OwnWrite
        <4> QED BY <4>1, <4>2, StaleSend
      <3>7. CASE SendQuery
        <4>1. call.place \in Places
          BY <2>4, CallKinds DEF TypeOK, OnBlock
        <4>2. Query \in Requests /\ Query.letter = "Q" /\ Query.place = call.place
          BY <4>1 DEF Query, Requests
        <4>3. Send(Query) /\ UNCHANGED <<call, tag>> /\ Settled(Len(requests) + 1)
          BY <3>1, <3>7 DEF SendQuery, portalvars
        <4> QED BY <2>4, <4>2, <4>3, StaleSend
      <3>8. CASE PortalStep
        <4>1. Take /\ Effect /\ UNCHANGED hostvars
          <5>1. CASE AnswerQuery \/ AnswerCommand \/ SetColor
            BY <5>1 DEF AnswerQuery, AnswerCommand, SetColor, Effect, portalvars
          <5>2. CASE StoreWrite
            <6>1. Head(requests) \in Requests /\ Head(requests).place \in Places
              BY <5>2, TakeTypes, RequestKinds DEF StoreWrite, Take, TypeOK
            <6>2. OnPortal(Head(requests))
              BY <2>1, <6>1 DEF CleanInv, OnPortal, Places
            <6> QED BY <5>2, <6>2 DEF StoreWrite, Effect
          <5> QED BY <3>8, <5>1, <5>2 DEF PortalStep
        <4>2. pc # "put"
          BY <4>1 DEF hostvars
        <4> QED BY <2>4, <3>1, <4>1, <4>2, StaleTake
      <3>9. CASE Stray \/ (\E f \in Figures : PutBack(f)) \/ UNCHANGED vars
        BY <3>2, <3>9 DEF Stray, PutBack, vars, hostvars, linkvars, portalvars
      <3> QED
        BY <2>1, <3>3, <3>4, <3>5, <3>6, <3>7, <3>8, <3>9 DEF CleanNext, HostStep
    <2> QED BY <2>1, <2>2, <2>3, <2>4, CallStays
  <1> QED BY <1>1, <1>2, TypeInvariance, StoreInvariance, CleanInvariance, PTL DEF Spec

LEMMA LoopInvariance == Spec => []LoopInv
  <1>1. Init => LoopInv
    BY DEF Init, LoopInv
  <1>2. TypeOK /\ LoopInv /\ [Next]_vars => LoopInv'
    <2> SUFFICES ASSUME TypeOK, LoopInv, [Next]_vars PROVE LoopInv'
      OBVIOUS
    <2>1. CASE Open \/ OpenFails \/ Close \/ Flash \/ SetPortalColor
      BY <2>1 DEF Open, OpenFails, Close, Flash, SetPortalColor, LoopInv, OnBlock
    <2>2. CASE \/ \E p \in Places : ReadBlock(p)
               \/ \E p \in Places, d \in Data : WriteBlock(p, d)
      <3>1. attempt' = 0 /\ retry' = 0
        BY <2>2 DEF ReadBlock, WriteBlock, LoopInv, OnBlock, Ready, TypeOK
      <3> QED BY <3>1 DEF LoopInv
    <2>3. CASE SendFails \/ ReceiveFails
      BY <2>3 DEF SendFails, ReceiveFails, Throw, Finish, FinishBlock, LoopInv, OnBlock
    <2>4. CASE SendWrite \/ SendQuery \/ SendCommand
      BY <2>4 DEF SendWrite, SendQuery, SendCommand, NextCommand, LoopInv, OnBlock
    <2>5. CASE Receive
      BY <2>5 DEF Receive, Respond, GotData, NextAttempt, AttemptAgain, Throw, Finish,
                  FinishBlock, NextCommand, Resend, LoopInv, OnBlock
    <2>6. CASE TimedOut
      BY <2>6 DEF TimedOut, Throw, Finish, FinishBlock, NextCommand, Resend, LoopInv, OnBlock
    <2>7. CASE PortalStep \/ PortalFault
      BY <2>7 DEF PortalStep, AnswerQuery, StoreWrite, AnswerCommand, SetColor, PortalFault,
                  Stray, NotReady, Lose, Misread, Miswrite, Remove, PutBack, Unplug,
                  hostvars, LoopInv, OnBlock
    <2>8. CASE UNCHANGED vars
      BY <2>8 DEF vars, hostvars, LoopInv, OnBlock
    <2> QED BY <2>1, <2>2, <2>3, <2>4, <2>5, <2>6, <2>7, <2>8 DEF Next, HostStep
  <1> QED BY <1>1, <1>2, TypeInvariance, PTL DEF Spec

\* When a method is over nothing more is behind than what the delays explain.
LEMMA StaleAtEnd ==
  ASSUME TypeOK', Clean', CleanInv', LagInv', pc' # "await", attempt' = 0, retry' = 0
  PROVE  OnPace'
  <1>1. plugged' /\ faults'["notready"] = 0
    BY DEF CleanInv, Clean, RealFaults, FaultKinds
  <1>2. Owed' + Len(replies') <= Behind' + Awaited' /\ Awaited' = 0
    BY <1>1 DEF LagInv, Awaited
  <1>3. Behind' = Delay'
    <2>1. faults' \in [FaultKinds -> Nat] /\ acks' \in Nat
      BY DEF TypeOK
    <2> QED BY <1>1, <2>1 DEF Behind, Delay, FaultKinds
  <1>4. Cardinality(StaleRequests') <= Owed' /\ Owed' \in Nat
    <2>1. requests' \in Seq(Requests)
      BY DEF TypeOK
    <2>2. IsFiniteSet(At(requests', Answered)) /\ Cardinality(At(requests', Answered)) \in Nat
      BY <2>1, CountTypes
    <2>3. \A i \in DOMAIN requests' : requests'[i] \in Requests
      BY <2>1, LenProperties, ElementOfSeq
    <2>4. StaleRequests' \subseteq At(requests', Answered)
      BY <2>3 DEF StaleRequests, At, Answered
    <2> QED BY <2>2, <2>4, FS_Subset DEF Owed
  <1>5. Cardinality(At(replies', StaleReports')) <= Len(replies') /\ Len(replies') \in Nat
    BY CountTypes, LenProperties DEF TypeOK
  <1>6. Delay' \in Nat
    <2>1. faults' \in [FaultKinds -> Nat] /\ acks' \in Nat
      BY DEF TypeOK
    <2> QED BY <2>1 DEF Delay, FaultKinds
  <1> QED BY <1>2, <1>3, <1>4, <1>5, <1>6, StaleTypesNext DEF Stale, OnPace

\* What a method makes of a report, while nothing but delays happened.
LEMMA StaleReceive ==
  ASSUME TypeOK, TypeOK', Clean, Clean', CleanInv, CleanInv', LagInv', LoopInv, LoopInv',
         StaleInv, Cause, Receive
  PROVE  OnPace' /\ Cause'
  <1> DEFINE r == Head(replies)
  <1>1. /\ pc = "await" /\ replies # <<>> /\ Respond(r)
        /\ replies' = <<>> \/ replies' = Tail(replies)
        /\ UNCHANGED <<requests, portalvars>>
    BY DEF Receive
  <1>2. replies \in Seq(CleanReports) /\ replies \in Seq(Reports)
    BY DEF CleanInv, TypeOK
  <1>3. r \in CleanReports /\ r \in Reports
    BY <1>1, <1>2, TakeTypes
  <1>4. Delay' = Delay /\ Delay \in Nat /\ attempt \in Nat /\ retry \in Nat
    BY <1>1, StaleTypes DEF Delay, portalvars
  <1>5. Stale <= Delay - attempt - retry
    BY DEF StaleInv, OnPace
  <1>6. /\ Stale \in Nat /\ Cardinality(StaleRequests) \in Nat
        /\ Cardinality(At(replies, StaleReports)) \in Nat
    BY StaleTypes
  <1>7. /\ Cardinality(At(replies, StaleReports)) =
              Cardinality(At(Tail(replies), StaleReports)) + IF r \in StaleReports THEN 1 ELSE 0
        /\ Cardinality(At(Tail(replies), StaleReports)) \in Nat
    <2>1. Tail(replies) \in Seq(Reports)
      BY <1>1, <1>2, TakeTypes
    <2> QED BY <1>1, <1>2, <2>1, CountTail, CountTypes
  <1> HIDE DEF r
  <1>8. call' = call => Stale' <= Stale - (IF r \in StaleReports THEN 1 ELSE 0)
    <2> SUFFICES ASSUME call' = call
                 PROVE  Stale' <= Stale - (IF r \in StaleReports THEN 1 ELSE 0)
      OBVIOUS
    <2>1. StaleRequests' = StaleRequests /\ StaleReports' = StaleReports
      BY <1>1 DEF StaleRequests, StaleReports, Settled, OwnWrite, OnBlock, portalvars
    <2>2. CASE replies' = <<>>
      <3>1. At(replies', StaleReports') = {}
        BY <2>2 DEF At
      <3>2. Cardinality(At(replies', StaleReports')) = 0
        BY <3>1, FS_EmptySet
      <3> QED BY <1>6, <1>7, <2>1, <3>2 DEF Stale
    <2>3. CASE replies' = Tail(replies)
      <3>1. At(replies', StaleReports') = At(Tail(replies), StaleReports)
        BY <2>1, <2>3
      <3> QED BY <1>6, <1>7, <2>1, <3>1 DEF Stale
    <2> QED BY <1>1, <2>2, <2>3
  <1>9. r \in StaleReports => Stale >= 1
    BY <1>6, <1>7 DEF Stale
  <1>10. Stale' \in Nat
    BY StaleTypesNext DEF Stale
  <1>11. thrown' = thrown => Cause'
    BY <1>4 DEF Cause
  <1>12. ASSUME OnBlock, NEW ok, NEW d, NEW e, FinishBlock(ok, d, e)
         PROVE  OnPace'
    BY <1>12, StaleAtEnd DEF FinishBlock, Finish
  <1>13. CASE Resend \/ (~OnBlock /\ NextCommand)
    <2>1. UNCHANGED <<call, attempt, retry, thrown>>
      BY <1>13 DEF Resend, NextCommand
    <2>2. Stale' <= Stale
      BY <1>6, <1>8, <1>10, <2>1
    <2>3. OnPace'
      BY <1>4, <1>5, <1>6, <1>10, <2>1, <2>2 DEF OnPace
    <2> QED BY <1>11, <2>1, <2>3
  <1>14. ASSUME OnBlock, NEW d, FinishBlock(TRUE, d, 0)
         PROVE  OnPace' /\ Cause'
    BY <1>12, <1>14 DEF FinishBlock, Finish, Cause
  <1>15. ASSUME OnBlock, r \in StaleReports,
                call.op = "read" => attempt = MaxAttempts - 1,
                NEW e \in {8, 22}, call.op = "read" => e = 8, Throw(e)
         PROVE  OnPace' /\ Cause'
    <2>1. CASE call.op = "read"
      <3>1. FinishBlock(FALSE, NoData, 8) /\ thrown' = 8
        BY <1>15, <2>1 DEF Throw, FinishBlock, Finish
      <3>2. Delay >= MaxAttempts
        BY <1>4, <1>5, <1>6, <1>9, <1>15, <2>1, CountsAssumption
      <3>3. OnPace'
        BY <1>12, <1>15, <3>1
      <3>4. Cause'
        BY <1>4, <3>1, <3>2 DEF Cause
      <3> QED BY <3>3, <3>4
    <2>2. CASE call.op # "read" /\ retry + 1 = MaxRetries
      <3>1. FinishBlock(FALSE, NoData, 22) /\ thrown' = 22
        BY <1>15, <2>2 DEF Throw, FinishBlock, Finish
      <3>2. Delay >= MaxRetries
        BY <1>4, <1>5, <1>6, <1>9, <1>15, <2>2, CountsAssumption
      <3>3. OnPace'
        BY <1>12, <1>15, <3>1
      <3>4. Cause'
        BY <1>4, <3>1, <3>2 DEF Cause
      <3> QED BY <3>3, <3>4
    <2>3. CASE call.op # "read" /\ retry + 1 # MaxRetries
      <3>1. /\ retry' = retry + 1 /\ attempt' = 0
            /\ UNCHANGED <<call, thrown>>
        BY <1>15, <2>3 DEF Throw
      <3> QED BY <1>4, <1>5, <1>6, <1>8, <1>10, <1>11, <1>15, <3>1 DEF OnPace
    <2> QED BY <2>1, <2>2, <2>3
  <1>16. CASE OnBlock /\ r.letter = "Q" /\ ~Accepts(r) /\ NextAttempt
    <2>1. r \in StaleReports
      BY <1>3, <1>16 DEF StaleReports, CleanReports, Accepts
    <2>2. CASE attempt = MaxAttempts - 1 /\ Throw(8)
      BY <1>15, <1>16, <2>1, <2>2
    <2>3. CASE attempt' = attempt + 1 /\ UNCHANGED <<retry, thrown, call>>
      BY <1>4, <1>5, <1>6, <1>8, <1>10, <1>11, <2>1, <2>3 DEF OnPace
    <2> QED BY <1>16, <2>2, <2>3 DEF NextAttempt, AttemptAgain
  <1>17. CASE OnBlock /\ r.letter = "Q" /\ Accepts(r) /\ GotData(r.data)
    <2>1. CASE call.op = "write" /\ r.data # call.data /\ Throw(22)
      <3>1. r \in StaleReports
        BY <1>3, <1>17, <2>1 DEF StaleReports
      <3> QED BY <1>15, <1>17, <2>1, <3>1
    <2> QED BY <1>14, <1>17, <2>1 DEF GotData
  <1>18. \/ Resend
         \/ (~OnBlock /\ NextCommand)
         \/ OnBlock /\ r.letter = "Q" /\ Accepts(r) /\ GotData(r.data)
         \/ OnBlock /\ r.letter = "Q" /\ ~Accepts(r) /\ NextAttempt
    <2>1. r.letter # "Z" /\ (r.letter = "Q" => r.status # "empty")
      BY <1>3 DEF CleanReports
    <2> QED BY <1>1, <2>1 DEF Respond
  <1> QED BY <1>13, <1>16, <1>17, <1>18

\* The sums of the next lemmas.
LEMMA Balance ==
  \A m, n, p, q \in Nat, c \in {0, 1} : p <= m - c /\ q <= n + c => p + q <= m + n
  OBVIOUS

LEMMA LaterStill ==
  \A m, n, d, e, a, b \in Nat : m <= d - a - b /\ n <= m /\ d <= e => n <= e - a - b
  OBVIOUS

LEMMA Growth ==
  \A a, b, c, d, e, f \in Nat : a <= d /\ b <= e /\ c <= f => a + b + c <= d + e + f
  OBVIOUS

\* A portal step that takes the first request and may answer it, on the books.
LEMMA StaleAnswer ==
  ASSUME TypeOK, TypeOK', StoreInv, Take, Effect, UNCHANGED call,
         \/ UNCHANGED replies
         \/ \E r \in Reports : Deliver(r) /\ (r \in StaleReports => 1 \in StaleRequests)
  PROVE  Stale' <= Stale
  <1>1. StaleReports' = StaleReports /\ replies \in Seq(Reports)
    BY DEF StaleReports, OnBlock, TypeOK
  <1>2. /\ Cardinality(StaleRequests) \in Nat /\ Cardinality(StaleRequests') \in Nat
        /\ Cardinality(At(replies, StaleReports)) \in Nat
        /\ Cardinality(At(replies', StaleReports')) \in Nat
    BY StaleTypes, StaleTypesNext
  <1>3. Cardinality(StaleRequests') <=
          Cardinality(StaleRequests) - (IF 1 \in StaleRequests THEN 1 ELSE 0)
    BY <1>2, StaleTake
  <1>4. CASE UNCHANGED replies
    <2>1. Cardinality(At(replies', StaleReports')) = Cardinality(At(replies, StaleReports))
      BY <1>1, <1>4
    <2> QED BY <1>2, <1>3, <2>1 DEF Stale
  <1>5. ASSUME NEW r \in Reports, Deliver(r), r \in StaleReports => 1 \in StaleRequests
        PROVE  Stale' <= Stale
    <2>1. Cardinality(At(replies', StaleReports)) <=
            Cardinality(At(replies, StaleReports)) + IF r \in StaleReports THEN 1 ELSE 0
      BY <1>1, <1>5, DeliverCounts
    <2>2. Cardinality(At(replies', StaleReports')) = Cardinality(At(replies', StaleReports))
      BY <1>1
    <2>3. Cardinality(At(replies', StaleReports')) <=
            Cardinality(At(replies, StaleReports)) + IF 1 \in StaleRequests THEN 1 ELSE 0
      BY <1>2, <1>5, <2>1, <2>2
    <2>4. PICK c \in {0, 1} : c = IF 1 \in StaleRequests THEN 1 ELSE 0
      OBVIOUS
    <2>5. Cardinality(StaleRequests') <= Cardinality(StaleRequests) - c
      BY <1>3, <2>4
    <2>6. Cardinality(At(replies', StaleReports')) <= Cardinality(At(replies, StaleReports)) + c
      BY <2>3, <2>4
    <2> QED BY <1>2, <2>5, <2>6, Balance DEF Stale
  <1> QED BY <1>4, <1>5

\* What was behind when a call begins is behind for it, or else in its favour.
LEMMA StaleBegin ==
  ASSUME TypeOK, TypeOK', ~OnBlock, UNCHANGED <<requests, replies>>
  PROVE  Stale' <= Stale
  <1>1. StaleRequests' \subseteq StaleRequests
    BY DEF StaleRequests
  <1>2. Cardinality(StaleRequests') <= Cardinality(StaleRequests)
    BY <1>1, StaleTypes, FS_Subset
  <1>3. At(replies', StaleReports') \subseteq At(replies, StaleReports)
    BY DEF At, StaleReports
  <1>4. IsFiniteSet(At(replies, StaleReports))
    BY CountTypes DEF TypeOK
  <1>5. Cardinality(At(replies', StaleReports')) <= Cardinality(At(replies, StaleReports))
    BY <1>3, <1>4, FS_Subset
  <1> QED BY <1>2, <1>5, StaleTypes, StaleTypesNext DEF Stale

LEMMA PaceInvariance == Spec => [](StaleInv /\ Cause)
  <1>1. Init => StaleInv /\ Cause
    <2> SUFFICES ASSUME Init PROVE OnPace /\ Cause
      BY DEF StaleInv
    <2>1. StaleRequests = {} /\ At(replies, StaleReports) = {}
      BY DEF Init, StaleRequests, At
    <2>2. Stale = 0
      BY <2>1, FS_EmptySet DEF Stale
    <2>3. Delay = 0
      BY DEF Init, Delay, FaultKinds
    <2> QED BY <2>2, <2>3 DEF Init, OnPace, Cause
  <1>2. TypeOK /\ TypeOK' /\ StoreInv /\ CleanInv /\ CleanInv' /\ LagInv' /\ SentInv
          /\ LoopInv /\ LoopInv' /\ StaleInv /\ Cause /\ [Next]_vars
        => (StaleInv /\ Cause)'
    <2> SUFFICES ASSUME TypeOK, TypeOK', StoreInv, CleanInv, CleanInv', LagInv', SentInv,
                        LoopInv, LoopInv', StaleInv, Cause, [Next]_vars, Clean'
                 PROVE  OnPace' /\ Cause'
      BY DEF StaleInv, Cause
    <2>1. Clean /\ [CleanNext]_vars /\ ~Fault("unsent") /\ plugged /\ OnPace
      BY StaysClean DEF CleanInv, StaleInv
    <2>2. /\ Stale \in Nat /\ Delay \in Nat /\ attempt \in Nat /\ retry \in Nat
          /\ Stale <= Delay - attempt - retry
      BY <2>1, StaleTypes DEF OnPace
    <2>3. Stale' \in Nat /\ Delay' \in Nat
      <3>1. faults' \in [FaultKinds -> Nat] /\ acks' \in Nat
        BY DEF TypeOK
      <3> QED BY <3>1, StaleTypesNext, SMTT(30) DEF Stale, Delay, FaultKinds
    <2>4. UNCHANGED <<requests, replies, call, tag>> => Stale' = Stale
      BY DEF Stale, StaleRequests, StaleReports, Settled, OwnWrite, OnBlock
    <2>5. /\ UNCHANGED <<faults, acks>> => Delay' = Delay
          /\ UNCHANGED portalvars => Delay' = Delay
      BY DEF Delay, portalvars
    <2>6. UNCHANGED <<attempt, retry>> /\ Stale' <= Stale /\ Delay' >= Delay => OnPace'
      <3> SUFFICES ASSUME UNCHANGED <<attempt, retry>>, Stale' <= Stale, Delay' >= Delay
                   PROVE  Stale' <= Delay' - attempt - retry
        BY DEF OnPace
      <3>1. Delay <= Delay'
        BY <2>2, <2>3
      <3> QED BY <2>2, <2>3, <3>1, LaterStill
    <2>7. /\ thrown' = thrown /\ Delay' >= Delay => Cause'
          /\ thrown' \notin {8, 22} => Cause'
      BY <2>1, <2>2, <2>3, CountsAssumption DEF Cause
    <2>8. UNCHANGED hostvars => UNCHANGED <<attempt, retry, thrown, call>>
      BY DEF hostvars
    <2>9. CASE \/ Open \/ OpenFails \/ Close \/ Flash \/ SetPortalColor
               \/ (\E f \in Figures : PutBack(f)) \/ UNCHANGED vars
      <3>1. /\ UNCHANGED <<requests, replies, call, tag, faults, acks, attempt, retry>>
            /\ thrown' \in {thrown, 4, 5}
        BY <2>9 DEF Open, OpenFails, Close, Flash, SetPortalColor, PutBack, vars, hostvars,
                    linkvars, portalvars
      <3>2. OnPace'
        BY <2>2, <2>4, <2>5, <2>6, <3>1
      <3> QED BY <2>2, <2>5, <2>7, <3>1, <3>2
    <2>10. CASE \/ \E p \in Places : ReadBlock(p)
                \/ \E p \in Places, d \in Data : WriteBlock(p, d)
      <3>1. ~OnBlock /\ UNCHANGED <<requests, replies, faults, acks, attempt, retry, thrown>>
        BY <2>10 DEF ReadBlock, WriteBlock, Ready, TypeOK, linkvars, portalvars
      <3>2. Stale' <= Stale
        BY <3>1, StaleBegin
      <3>3. OnPace'
        BY <2>2, <2>5, <2>6, <3>1, <3>2
      <3> QED BY <2>2, <2>5, <2>7, <3>1, <3>3
    <2>11. CASE SendFails \/ ReceiveFails
      BY <2>1, <2>11 DEF SendFails, ReceiveFails
    <2>12. ASSUME NEW r \in Requests, Send(r), UNCHANGED <<replies, portalvars>>,
                  UNCHANGED <<attempt, retry, thrown, call>>,
                  r.letter = "Q" => OnBlock /\ r.place = call.place /\ Settled(Len(requests) + 1)
           PROVE  OnPace' /\ Cause'
      <3>1. UNCHANGED tag /\ Delay' = Delay
        BY <2>5, <2>12 DEF portalvars
      <3>2. Cardinality(StaleRequests') <= Cardinality(StaleRequests)
        BY <2>12, <3>1, StaleSend
      <3>3. At(replies', StaleReports') = At(replies, StaleReports)
        BY <2>12 DEF StaleReports, OnBlock
      <3>4. Stale' <= Stale
        BY <3>2, <3>3, StaleTypes, StaleTypesNext DEF Stale
      <3>5. OnPace'
        BY <2>2, <2>6, <2>12, <3>1, <3>4
      <3> QED BY <2>2, <2>7, <2>12, <3>1, <3>5
    <2>13. CASE SendWrite
      <3>1. call \in [op : {"write"}, place : Places, data : Data]
        BY <2>13 DEF SendWrite, TypeOK
      <3>2. [letter |-> "W", place |-> call.place, data |-> call.data] \in Requests
        BY <3>1 DEF Requests
      <3> QED BY <2>12, <2>13, <3>2 DEF SendWrite
    <2>14. CASE SendQuery
      <3>1. OnBlock /\ pc # "put" /\ Send(Query)
        BY <2>14 DEF SendQuery
      <3>2. Settled(Len(requests) + 1)
        BY <2>1, <3>1 DEF SentInv
      <3>3. call.place \in Places
        BY <3>1, CallKinds DEF TypeOK, OnBlock
      <3>4. Query \in Requests /\ Query.place = call.place
        BY <3>3 DEF Query, Requests
      <3> QED BY <2>12, <2>14, <3>1, <3>2, <3>4 DEF SendQuery
    <2>15. CASE SendCommand
      <3>1. Head(script) \in Letters
        <4>1. script \in Seq(Letters) /\ script # <<>>
          BY <2>15 DEF SendCommand, TypeOK, Letters, Busy
        <4> QED BY <4>1, TakeTypes
      <3>2. [letter |-> Head(script)] \in Requests /\ Head(script) # "Q"
        BY <3>1 DEF Requests, Letters
      <3>3. UNCHANGED <<attempt, retry, thrown, call>>
        BY <2>15 DEF SendCommand, NextCommand
      <3> QED BY <2>12, <2>15, <3>2, <3>3 DEF SendCommand
    <2>16. CASE Receive
      BY <2>1, <2>16, StaleReceive
    <2>17. CASE TimedOut
      <3>1. UNCHANGED <<requests, replies, tag, acks, call>>
        BY <2>17 DEF TimedOut, linkvars, Resend, NextCommand, Throw, Finish
      <3>2. Delay' >= Delay
        <4>1. faults \in [FaultKinds -> Nat] /\ faults' = [faults EXCEPT !["late"] = @ + 1]
          BY <2>17 DEF TimedOut, TypeOK
        <4>2. \A k \in FaultKinds : faults[k] \in Nat /\ faults'[k] \in Nat /\ faults[k] <= faults'[k]
          BY <4>1
        <4>3. acks \in Nat /\ acks <= acks' /\ {"stray", "late"} \subseteq FaultKinds
          BY <3>1 DEF TypeOK, FaultKinds
        <4>4. Delay <= Delay'
          BY <3>1, <4>2, <4>3, Growth DEF Delay
        <4> QED BY <2>2, <2>3, <4>4
      <3>3. /\ UNCHANGED <<attempt, retry>>
            /\ thrown' = thrown \/ thrown' \notin {8, 22}
        <4>1. CASE Resend \/ (~OnBlock /\ NextCommand)
          BY <4>1 DEF Resend, NextCommand
        <4>2. CASE ~OnBlock /\ (Throw(9) \/ Throw(11))
          <5>1. attempt = 0 /\ retry = 0 /\ attempt' = 0 /\ retry' = 0 /\ thrown' \in {9, 11}
            BY <4>2 DEF Throw, Finish, LoopInv
          <5> QED BY <5>1
        <4> QED BY <2>17, <4>1, <4>2 DEF TimedOut
      <3>4. OnPace'
        BY <2>2, <2>4, <2>6, <3>1, <3>2, <3>3
      <3> QED BY <2>7, <3>2, <3>3, <3>4
    <2>18. ASSUME StoreInv, Take, Effect, UNCHANGED <<hostvars, faults>>, acks' >= acks,
                  \/ UNCHANGED replies
                  \/ \E r \in Reports : Deliver(r) /\ (r \in StaleReports => 1 \in StaleRequests)
           PROVE  OnPace' /\ Cause'
      <3>1. Stale' <= Stale
        BY <2>8, <2>18, StaleAnswer
      <3>2. Delay' >= Delay
        <4>1. {faults["stray"], faults["late"], acks, acks'} \subseteq Nat
          BY DEF TypeOK, FaultKinds
        <4>2. Delay <= Delay'
          BY <2>18, <4>1, Growth DEF Delay
        <4> QED BY <2>2, <2>3, <4>2
      <3> QED BY <2>6, <2>7, <2>8, <2>18, <3>1, <3>2
    <2>19. CASE AnswerQuery
      <3> DEFINE q == Head(requests)
                 a == [letter |-> "Q", place |-> q.place, status |-> "ok", data |-> tag[q.place]]
      <3>1. Take /\ q.letter = "Q" /\ UNCHANGED <<hostvars, portalvars>>
        BY <2>19 DEF AnswerQuery
      <3>2. q \in Requests /\ q.place \in Places /\ tag[q.place] \in Data
        BY <3>1, TakeTypes, RequestKinds DEF Take, TypeOK
      <3>3. OnPortal(q)
        BY <2>1, <3>2 DEF CleanInv, OnPortal, Places
      <3>4. Deliver(a)
        BY <2>19, <3>3 DEF AnswerQuery, Answer
      <3>5. a \in Reports
        BY <3>2, ReportKinds
      <3>6. requests[1] = q /\ 1 \in DOMAIN requests
        BY <3>1, TakeTypes, LenProperties, SMTT(30) DEF Take, TypeOK
      <3>7. a \in StaleReports => 1 \in StaleRequests
        <4> SUFFICES ASSUME a \in StaleReports, OnBlock, q.place = call.place, Settled(1)
                     PROVE  FALSE
          BY <3>1, <3>6 DEF StaleRequests
        <4>1. call.op = "write" /\ tag[call.place] # call.data
          BY DEF StaleReports
        <4> QED BY <4>1 DEF Settled
      <3>8. Effect /\ UNCHANGED <<faults, acks>> /\ acks \in Nat
        BY <3>1 DEF Effect, portalvars, TypeOK
      <3> HIDE DEF q, a
      <3>9. acks' >= acks
        BY <3>8
      <3> QED BY <2>18, <3>1, <3>4, <3>5, <3>7, <3>8, <3>9
    <2>20. CASE StoreWrite
      <3>1. Take /\ Head(requests).letter = "W" /\ UNCHANGED <<hostvars, faults>>
        BY <2>20 DEF StoreWrite
      <3>2. Head(requests) \in Requests /\ Head(requests).place \in Places
        BY <3>1, TakeTypes, RequestKinds DEF Take, TypeOK
      <3>3. OnPortal(Head(requests))
        BY <2>1, <3>2 DEF CleanInv, OnPortal, Places
      <3>4. Effect
        BY <2>20, <3>3 DEF StoreWrite, Effect
      <3>5. Report("W") \in Reports /\ Report("W") \notin StaleReports
        BY ReportKinds DEF StaleReports, Report
      <3>6. /\ acks' >= acks
            /\ UNCHANGED replies \/ Deliver(Report("W"))
        BY <2>20 DEF StoreWrite, Acknowledge, TypeOK
      <3> QED BY <2>18, <3>1, <3>4, <3>5, <3>6
    <2>21. CASE AnswerCommand \/ SetColor
      <3>1. Take /\ Head(requests).letter # "W" /\ UNCHANGED <<hostvars, portalvars>>
        BY <2>21 DEF AnswerCommand, SetColor
      <3>2. Effect /\ UNCHANGED <<faults, acks>> /\ acks' >= acks
        BY <3>1 DEF Effect, portalvars, TypeOK
      <3>3. CASE SetColor
        BY <2>18, <3>1, <3>2, <3>3 DEF SetColor
      <3>4. CASE AnswerCommand
        <4>1. PICK l \in {"R", "A", "S"} : Deliver(Report(l))
          BY <3>4 DEF AnswerCommand
        <4>2. Report(l) \in Reports /\ Report(l) \notin StaleReports
          BY <4>1, ReportKinds DEF StaleReports, Report
        <4> QED BY <2>18, <3>1, <3>2, <4>1, <4>2
      <3> QED BY <2>21, <3>3, <3>4
    <2>22. CASE Stray
      <3>1. /\ UNCHANGED hostvars /\ UNCHANGED <<requests, tag, acks>>
            /\ Fault("stray") /\ Deliver(Report("S"))
        BY <2>22 DEF Stray
      <3>2. Report("S") \in Reports /\ Report("S") \notin StaleReports
        BY ReportKinds DEF StaleReports, Report
      <3>3. StaleRequests' = StaleRequests /\ StaleReports' = StaleReports
        BY <2>8, <3>1 DEF StaleRequests, StaleReports, Settled, OwnWrite, OnBlock
      <3>4. replies \in Seq(Reports)
        BY DEF TypeOK
      <3>5. Cardinality(At(replies', StaleReports')) <= Cardinality(At(replies, StaleReports))
        BY <3>1, <3>2, <3>3, <3>4, DeliverCounts, StaleTypes
      <3>6. Stale' <= Stale
        BY <3>3, <3>5, StaleTypes, StaleTypesNext DEF Stale
      <3>7. Delay <= Delay'
        <4>1. faults \in [FaultKinds -> Nat] /\ faults' = [faults EXCEPT !["stray"] = @ + 1]
          BY <3>1 DEF Fault, TypeOK
        <4>2. \A k \in FaultKinds : faults[k] \in Nat /\ faults'[k] \in Nat /\ faults[k] <= faults'[k]
          BY <4>1
        <4>3. acks \in Nat /\ acks <= acks' /\ {"stray", "late"} \subseteq FaultKinds
          BY <3>1 DEF TypeOK, FaultKinds
        <4> QED BY <3>1, <4>2, <4>3, Growth DEF Delay
      <3>8. Delay' >= Delay
        BY <2>2, <2>3, <3>7
      <3> QED BY <2>6, <2>7, <2>8, <3>1, <3>6, <3>8
    <2> QED
      BY <2>1, <2>9, <2>10, <2>11, <2>13, <2>14, <2>15, <2>16, <2>17, <2>19, <2>20, <2>21, <2>22
      DEF CleanNext, HostStep, PortalStep
  <1> QED
    BY <1>1, <1>2, TypeInvariance, StoreInvariance, CleanInvariance, LagInvariance,
       SentInvariance, LoopInvariance, PTL DEF Spec

\* Without a real fault a block is only reported unreadable once as many answers are
\* behind as ReadBlock makes attempts, and only reported unwritten once as many are
\* as WriteBlock makes retries, whatever the two limits are.
THEOREM FailuresExplained == Spec => []FailuresHaveACause
  <1>1. TypeOK /\ Cause => FailuresHaveACause
    <2> SUFFICES ASSUME TypeOK, Cause, \A k \in RealFaults : ~(faults[k] > 0)
                 PROVE  /\ thrown = 8 => Delay >= MaxAttempts
                        /\ thrown = 22 => Delay >= MaxRetries
      BY DEF FailuresHaveACause, Delay
    <2>1. \A k \in RealFaults : faults[k] \in Nat
      BY DEF TypeOK, RealFaults
    <2>2. Clean
      BY <2>1 DEF Clean
    <2> QED BY <2>2 DEF Cause
  <1> QED BY <1>1, TypeInvariance, PaceInvariance, PTL
=============================================================================
