------------------------------ MODULE PortalIO ------------------------------
(***************************************************************************)
(* Class PortalIO over HIDAPI (portalio_hidapi.cpp), one thread of one     *)
(* process, talking to a portal.  Requests and reports travel in order and *)
(* are not numbered; reports nobody read yet wait in HIDAPI's queue, which *)
(* drops its oldest when full.                                             *)
(*                                                                         *)
(* The portal and the figures are not part of the repository: their        *)
(* actions say what the code expects of them, and the faults it handles.   *)
(* A request carries the first byte of its report as "letter".             *)
(***************************************************************************)
EXTENDS Integers, Sequences, FiniteSets

CONSTANTS
  Figures,       \* places on the portal
  Blocks,        \* block numbers
  Data,          \* what a block may hold
  Original,      \* what each block of each figure holds at first
  NoData,        \* not the content of a block
  NoCall,        \* not a call
  MaxAttempts,   \* queries ReadBlock makes: 15
  MaxRetries,    \* writes WriteBlock makes: 3
  QueueMax,      \* reports HIDAPI keeps: 32
  LinkMax,       \* requests the portal takes ahead of answering them
  MaxFaults      \* how many faults may happen, the model's bound

FaultKinds == {"stray", "late", "lost", "misread", "miswritten", "notready",
               "removed", "unplugged", "unsent"}

Places == Figures \X Blocks

\* The calls of ReadBlock and WriteBlock.
Calls == [op : {"read"}, place : Places] \cup
         [op : {"write"}, place : Places, data : Data]

ASSUME DataAssumption == Original \in [Places -> Data] /\ NoData \notin Data

ASSUME NoCallAssumption == NoCall \notin Calls

ASSUME CountsAssumption ==
  /\ MaxAttempts \in Nat \ {0}
  /\ MaxRetries \in Nat \ {0}
  /\ QueueMax \in Nat \ {0}
  /\ LinkMax \in Nat \ {0}
  /\ MaxFaults \in Nat

VARIABLES
  handle,     \* the life of the PortalIO object
  pc,         \* "idle", or the next statement: "put", "send", "await"
  script,     \* the commands that a method other than a block's still has to send
  attempt,    \* ReadBlock's loop counter
  retry,      \* WriteBlock's loop counter
  thrown,     \* the exception that left a method of the object, or 0
  call,       \* the block method under way and its arguments
  result,     \* what the last block method returned
  asked,      \* what each block was asked to hold, NoData if never written
  requests,   \* sent and not yet handled by the portal
  replies,    \* HIDAPI's queue of reports
  tag,        \* what the blocks of each figure hold
  present,    \* the figures on the portal
  plugged,    \* the portal is connected
  faults,     \* the faults so far, by kind
  faultsLeft, \* how many more may happen
  acks        \* the reports of 'W's so far

hostvars == <<handle, pc, script, attempt, retry, thrown, asked, call, result>>
linkvars == <<requests, replies>>
portalvars == <<tag, present, plugged, faults, faultsLeft, acks>>
vars == <<hostvars, linkvars, portalvars>>

Busy == pc # "idle"
OnBlock == call # NoCall      \* inside ReadBlock or WriteBlock

Init ==
  /\ call = NoCall
  /\ result = NoCall
  /\ asked = [p \in Places |-> NoData]
  /\ tag = Original
  /\ handle = "closed"
  /\ pc = "idle"
  /\ script = <<>>
  /\ attempt = 0
  /\ retry = 0
  /\ thrown = 0
  /\ requests = <<>>
  /\ replies = <<>>
  /\ present = Figures
  /\ plugged = TRUE
  /\ faults = [k \in FaultKinds |-> 0]
  /\ faultsLeft = MaxFaults
  /\ acks = 0

-----------------------------------------------------------------------------
(* How a method ends.                                                       *)

Finish(e) ==
  /\ pc' = "idle"
  /\ script' = <<>>
  /\ attempt' = 0
  /\ retry' = 0
  /\ thrown' = e

\* A block method returns to its caller with true or an exception.
FinishBlock(ok, d, e) ==
  /\ Finish(e)
  /\ call' = NoCall
  /\ result' = [call |-> call, ok |-> ok, data |-> d]
  /\ UNCHANGED <<handle, asked>>

\* Slip: WriteBlock does not count its retries.
ThrowUncounted(e) ==
  IF ~OnBlock
    THEN Finish(e) /\ UNCHANGED <<handle, asked, call, result>>
  ELSE IF call.op = "read"
    THEN FinishBlock(FALSE, NoData, e)
  ELSE
    /\ attempt' = 0
    /\ pc' = "put"
    /\ UNCHANGED <<handle, script, retry, thrown, asked, call, result>>

\* An exception of Write, CheckResponse or ReadBlock.  WriteBlock swallows every
\* one of them, and throws 22 when its retries are used up.
Throw(e) ==
  IF ~OnBlock
    THEN Finish(e) /\ UNCHANGED <<handle, asked, call, result>>
  ELSE IF call.op = "read"
    THEN FinishBlock(FALSE, NoData, e)
  ELSE IF retry + 1 = MaxRetries
    THEN FinishBlock(FALSE, NoData, 22)
  ELSE
    /\ retry' = retry + 1
    /\ attempt' = 0
    /\ pc' = "put"
    /\ UNCHANGED <<handle, script, thrown, asked, call, result>>

\* ActivatePortal(1), ActivatePortal(0)
Blink == <<"A", "A">>

\* The next command of the method.  hid_close ends the destructor and frees the
\* reports nobody read; nothing ends flash.
NextCommand ==
  /\ UNCHANGED <<attempt, retry, thrown, asked, call, result>>
  /\ IF Len(script) > 1 \/ handle = "flashing"
       THEN /\ script' = IF Len(script) > 1 THEN Tail(script) ELSE Blink
            /\ pc' = "send"
            /\ UNCHANGED handle
       ELSE /\ script' = <<>>
            /\ pc' = "idle"
            /\ handle' = IF handle = "closing" THEN "closed" ELSE "open"

-----------------------------------------------------------------------------
(* The methods SkylanderIO calls.  After an exception it calls none but the *)
(* destructor; it reads a block before it writes it, never after, and writes *)
(* it once, to change it.                                                   *)

Ready == handle = "open" /\ ~Busy /\ thrown = 0

\* PortalIO::PortalIO: RestartPortal, ActivatePortal(1), SetPortalColor,
\* PortalStatus.
Open ==
  /\ handle = "closed"
  /\ ~Busy
  /\ thrown = 0
  /\ handle' = "opening"
  /\ script' = <<"R", "A", "C", "S">>
  /\ pc' = "send"
  /\ UNCHANGED <<attempt, retry, thrown, asked, call, result, linkvars, portalvars>>

\* OpenPortalHandle finds no HID device at all (4), or none that it can open as a
\* portal (5), be it that another process has it: no object is made.
OpenFails ==
  /\ handle = "closed"
  /\ ~Busy
  /\ thrown = 0
  /\ thrown' \in IF plugged THEN {5} ELSE {4, 5}
  /\ UNCHANGED <<handle, pc, script, attempt, retry, asked, call, result, linkvars, portalvars>>

\* PortalIO::~PortalIO: ActivatePortal(0) and hid_close.
Close ==
  /\ handle = "open"
  /\ ~Busy
  /\ handle' = "closing"
  /\ script' = <<"A">>
  /\ pc' = "send"
  /\ UNCHANGED <<attempt, retry, thrown, asked, call, result, linkvars, portalvars>>

\* PortalIO::SetPortalColor, as ReadPortal calls it.
SetPortalColor ==
  /\ Ready
  /\ script' = <<"C">>
  /\ pc' = "send"
  /\ UNCHANGED <<handle, attempt, retry, thrown, asked, call, result, linkvars, portalvars>>

\* PortalIO::flash, which main() calls on a new object and nothing after it.
Flash ==
  /\ Ready
  /\ result = NoCall
  /\ handle' = "flashing"
  /\ script' = Blink
  /\ pc' = "send"
  /\ UNCHANGED <<attempt, retry, thrown, asked, call, result, linkvars, portalvars>>

ReadBlock(p) ==
  /\ Ready
  /\ asked[p] = NoData
  /\ call' = [op |-> "read", place |-> p]
  /\ pc' = "send"
  /\ UNCHANGED <<handle, script, attempt, retry, thrown, asked, result, linkvars, portalvars>>

WriteBlock(p, d) ==
  /\ Ready
  /\ asked[p] = NoData
  /\ d # Original[p]
  /\ asked' = [asked EXCEPT ![p] = d]
  /\ call' = [op |-> "write", place |-> p, data |-> d]
  /\ pc' = "put"
  /\ UNCHANGED <<handle, script, attempt, retry, thrown, result, linkvars, portalvars>>

-----------------------------------------------------------------------------
(* Requests.  Write throws 6 when hid_write fails; hid_write returns when the *)
(* portal has taken the report.                                             *)

Query == [letter |-> "Q", place |-> call.place]   \* res.buf is cleared

Send(request) ==
  /\ plugged
  /\ Len(requests) < LinkMax
  /\ requests' = Append(requests, request)

\* Something goes wrong that need not.
Fault(k) ==
  /\ plugged
  /\ faultsLeft > 0
  /\ faultsLeft' = faultsLeft - 1
  /\ faults' = [faults EXCEPT ![k] = @ + 1]

\* hid_write fails, always so once the portal is gone: the report is not sent.
SendFails ==
  /\ pc \in {"put", "send"}
  /\ Throw(6)
  /\ \/ ~plugged /\ UNCHANGED portalvars
     \/ Fault("unsent") /\ UNCHANGED <<tag, present, plugged, acks>>
  /\ UNCHANGED linkvars

\* WriteBlock sends its 'W' and waits 0.1 seconds, for nothing in particular.
SendWrite ==
  /\ pc = "put"
  /\ Send([letter |-> "W", place |-> call.place, data |-> call.data])
  /\ pc' = "send"
  /\ UNCHANGED <<handle, script, attempt, retry, thrown, asked, call, result, replies, portalvars>>

SendQuery ==
  /\ pc = "send"
  /\ OnBlock
  /\ Send(Query)
  /\ pc' = "await"
  /\ UNCHANGED <<handle, script, attempt, retry, thrown, asked, call, result, replies, portalvars>>

\* Slip: no command waits for its response.
SendCommandOnly ==
  /\ pc = "send"
  /\ ~OnBlock
  /\ Send([letter |-> Head(script)])
  /\ NextCommand
  /\ UNCHANGED <<replies, portalvars>>

\* Only SetPortalColor does not wait for a response.
SendCommand ==
  /\ pc = "send"
  /\ ~OnBlock
  /\ Send([letter |-> Head(script)])
  /\ IF Head(script) = "C"
       THEN NextCommand
       ELSE /\ pc' = "await"
            /\ UNCHANGED <<handle, script, attempt, retry, thrown, asked, call, result>>
  /\ UNCHANGED <<replies, portalvars>>

-----------------------------------------------------------------------------
(* Responses: CheckResponse, and the tests ReadBlock and WriteBlock make.   *)

Resend ==
  /\ pc' = "send"
  /\ UNCHANGED <<handle, script, attempt, retry, thrown, asked, call, result>>

\* Slip: an answer for another block will do.
AcceptsAny(r) == r.status = "ok"

\* ReadBlock takes an answer for its own block and figure, without an error.
Accepts(r) == r.place = call.place /\ r.status = "ok"

\* Slip: WriteBlock is content to have read something.
GotAnyData(d) == FinishBlock(TRUE, d, 0)

\* ReadBlock has data: WriteBlock compares it with what it wrote.
GotData(d) ==
  IF call.op = "write" /\ d # call.data THEN Throw(22) ELSE FinishBlock(TRUE, d, 0)

\* The end of ReadBlock's loop body, for the last attempt and the others.
AttemptAgain(last) ==
  IF attempt = last THEN Throw(8)
  ELSE /\ attempt' = attempt + 1
       /\ pc' = "send"
       /\ UNCHANGED <<handle, script, retry, thrown, asked, call, result>>

\* Slips: one attempt too many, one too few.
OneMoreAttempt  == AttemptAgain(MaxAttempts)
OneAttemptFewer == AttemptAgain(MaxAttempts - 2)

\* An answer to some query that is not the one to take.
NextAttempt == AttemptAgain(MaxAttempts - 1)

Respond(r) ==
  CASE r.letter = "Z" -> Throw(9)
    [] r.letter = "Q" /\ r.status = "empty" -> Throw(11)
    [] r.letter = "Q" /\ r.status # "empty" /\ OnBlock ->
         IF Accepts(r) THEN GotData(r.data) ELSE NextAttempt
    [] ~OnBlock /\ r.letter = Head(script) -> NextCommand
    [] OTHER -> Resend

\* hid_read_timeout returns a report.  Closing frees the ones left behind.
Receive ==
  /\ pc = "await"
  /\ replies # <<>>
  /\ Respond(Head(replies))
  /\ replies' = IF handle' = "closed" THEN <<>> ELSE Tail(replies)
  /\ UNCHANGED <<requests, portalvars>>

\* hid_read_timeout returns 0 after 30 seconds: because nothing is on its way,
\* or because the portal is slow.  ReadBlock finds no 'Q' in its buffer and asks
\* again.  The buffer of the other methods is not initialised, so CheckResponse
\* may see any letter in it.
TimedOut ==
  /\ pc = "await"
  /\ plugged
  /\ replies = <<>>
  /\ faults' = [faults EXCEPT !["late"] = @ + 1]
  /\ IF requests = <<>> THEN UNCHANGED faultsLeft
     ELSE faultsLeft > 0 /\ faultsLeft' = faultsLeft - 1
  /\ \/ Resend
     \/ ~OnBlock /\ (NextCommand \/ Throw(9) \/ Throw(11))
  /\ UNCHANGED <<linkvars, tag, present, plugged, acks>>

\* hid_read_timeout fails: the portal is gone.  A caller that was asleep is told
\* so even if a report came in just before.
ReceiveFails ==
  /\ pc = "await"
  /\ ~plugged
  /\ Throw(8)
  /\ UNCHANGED <<linkvars, portalvars>>

HostStep ==
  \/ SendFails
  \/ SendWrite
  \/ SendQuery
  \/ SendCommand
  \/ Receive
  \/ TimedOut
  \/ ReceiveFails

-----------------------------------------------------------------------------
(* The portal.                                                              *)

Report(letter) == [letter |-> letter]

\* HIDAPI queues a report for an open handle, and drops the oldest for it.
Deliver(r) ==
  replies' = IF handle = "closed" THEN replies
             ELSE IF Len(replies) = QueueMax THEN Append(Tail(replies), r)
             ELSE Append(replies, r)

Take == requests # <<>> /\ plugged /\ requests' = Tail(requests)

Answer(q, status) ==
  Deliver([letter |-> "Q", place |-> q.place, status |-> status, data |-> tag[q.place]])

OnPortal(q) == q.place[1] \in present

AnswerQuery ==
  /\ Take
  /\ Head(requests).letter = "Q"
  /\ Answer(Head(requests), IF OnPortal(Head(requests)) THEN "ok" ELSE "empty")
  /\ UNCHANGED <<hostvars, portalvars>>

Acknowledge ==
  \/ acks' = acks + 1 /\ Deliver(Report("W"))
  \/ UNCHANGED <<acks, replies>>

StoreWrite ==
  /\ Take
  /\ Head(requests).letter = "W"
  /\ LET w == Head(requests)
     IN tag' = IF OnPortal(w) THEN [tag EXCEPT ![w.place] = w.data] ELSE tag
  /\ Acknowledge
  /\ UNCHANGED <<hostvars, present, plugged, faults, faultsLeft>>

AnswerCommand ==
  /\ Take
  /\ Head(requests).letter \in {"R", "A", "S"}
  /\ Deliver(Report(Head(requests).letter))
  /\ UNCHANGED <<hostvars, portalvars>>

SetColor ==
  /\ Take
  /\ Head(requests).letter = "C"
  /\ UNCHANGED <<hostvars, replies, portalvars>>

PortalStep == AnswerQuery \/ StoreWrite \/ AnswerCommand \/ SetColor

\* A status report nobody asked for.
Stray ==
  /\ Fault("stray")
  /\ Deliver(Report("S"))
  /\ UNCHANGED <<hostvars, requests, tag, present, plugged, acks>>

\* A wireless portal that is not in reach of its receiver.
NotReady ==
  /\ Fault("notready")
  /\ Deliver(Report("Z"))
  /\ UNCHANGED <<hostvars, requests, tag, present, plugged, acks>>

\* A request that has no effect and no answer.
Lose ==
  /\ Fault("lost")
  /\ Take
  /\ UNCHANGED <<hostvars, replies, tag, present, plugged, acks>>

\* The figure could not be read.
Misread ==
  /\ Fault("misread")
  /\ Take
  /\ Head(requests).letter = "Q"
  /\ Answer(Head(requests), "error")
  /\ UNCHANGED <<hostvars, tag, present, plugged, acks>>

\* The figure could not be written; the portal does not say so.
Miswrite ==
  /\ Fault("miswritten")
  /\ Take
  /\ Head(requests).letter = "W"
  /\ Acknowledge
  /\ UNCHANGED <<hostvars, tag, present, plugged>>

Remove(f) ==
  /\ Fault("removed")
  /\ f \in present
  /\ present' = present \ {f}
  /\ UNCHANGED <<hostvars, linkvars, tag, plugged, acks>>

PutBack(f) ==
  /\ f \in Figures \ present
  /\ present' = present \cup {f}
  /\ UNCHANGED <<hostvars, linkvars, tag, plugged, faults, faultsLeft, acks>>

Unplug ==
  /\ Fault("unplugged")
  /\ plugged' = FALSE
  /\ requests' = <<>>
  /\ UNCHANGED <<hostvars, replies, tag, present, acks>>

PortalFault ==
  \/ Stray
  \/ NotReady
  \/ Lose
  \/ Misread
  \/ Miswrite
  \/ \E f \in Figures : Remove(f) \/ PutBack(f)
  \/ Unplug

Next ==
  \/ Open
  \/ OpenFails
  \/ Close
  \/ Flash
  \/ SetPortalColor
  \/ \E p \in Places : ReadBlock(p)
  \/ \E p \in Places, d \in Data : WriteBlock(p, d)
  \/ HostStep
  \/ PortalStep
  \/ PortalFault

Spec == Init /\ [][Next]_vars

\* The process runs while it has something to do, and the portal answers.
FairSpec == Spec /\ WF_vars(HostStep) /\ WF_vars(PortalStep)

-----------------------------------------------------------------------------
(* Properties.                                                              *)

Requests ==
  [letter : {"R", "A", "S", "C"}] \cup [letter : {"Q"}, place : Places] \cup
  [letter : {"W"}, place : Places, data : Data]

Reports ==
  [letter : {"R", "A", "S", "W", "Z"}] \cup
  [letter : {"Q"}, place : Places, status : {"ok", "empty", "error"}, data : Data]

\* The variables have their types, the loop counters stay below their limits
\* and HIDAPI's queue within its own.
TypeOK ==
  /\ handle \in {"closed", "opening", "open", "flashing", "closing"}
  /\ pc \in {"idle", "put", "send", "await"}
  /\ script \in Seq({"R", "A", "S", "C"})
  /\ attempt \in 0..MaxAttempts - 1
  /\ retry \in 0..MaxRetries - 1
  /\ thrown \in {0, 4, 5, 6, 8, 9, 11, 22}
  /\ call \in Calls \cup {NoCall}
  /\ result \in [call : Calls, ok : BOOLEAN, data : Data \cup {NoData}] \cup {NoCall}
  /\ asked \in [Places -> Data \cup {NoData}]
  /\ requests \in Seq(Requests)
  /\ Len(requests) <= LinkMax
  /\ replies \in Seq(Reports) /\ Len(replies) <= QueueMax
  /\ tag \in [Places -> Data]
  /\ present \subseteq Figures
  /\ plugged \in BOOLEAN
  /\ faults \in [FaultKinds -> Nat]
  /\ faultsLeft \in Nat
  /\ acks \in Nat
  /\ OnBlock => Busy
  /\ pc = "put" => call \in [op : {"write"}, place : Places, data : Data]
  /\ Busy /\ ~OnBlock => script # <<>>

Store == INSTANCE BlockStore WITH store <- tag

\* PortalIO keeps the promise of BlockStore: whatever is late, lost, repeated or
\* read as the answer to another query, ReadBlock returns what the tag holds and
\* WriteBlock returns true only once the tag holds the block.
ImplementsBlockStore == Store!Spec

\* The same, for good: a block whose write was reported to succeed keeps the new
\* data, although copies of the request may still be on their way.
WritesLast ==
  [][\A p \in Places :
       result # NoCall /\ result.ok /\ result.call.op = "write" /\ result.call.place = p
         => tag'[p] = result.data]_vars

RealFaults == FaultKinds \ {"stray", "late"}

\* The requests that the portal still has to answer, by their place in the queue.
ToAnswer == {i \in DOMAIN requests : requests[i].letter \in {"Q", "R", "A", "S"}}

\* Each report nobody asked for and each timeout puts every later answer one
\* report behind.  That is all that can be behind: nothing piles up while the
\* program runs.
LagIsAccountedFor ==
  plugged =>
    Cardinality(ToAnswer) + Len(replies)
    <= faults["stray"] + faults["notready"] + faults["late"] + acks
       + (IF pc = "await" THEN 1 ELSE 0)

\* A block is only reported unreadable or unwritten for a reason: a real fault, or
\* answers that are behind; to use up ReadBlock's attempts there must be as many of
\* them as it makes, and as many as WriteBlock makes retries to use up those.
FailuresHaveACause ==
  \/ \E k \in RealFaults : faults[k] > 0
  \/ LET behind == faults["stray"] + faults["late"] + acks
     IN (thrown = 8 => behind >= MaxAttempts) /\ (thrown = 22 => behind >= MaxRetries)

\* Every method but flash returns or throws, if the portal answers all but finitely
\* many requests: the loops that send again have no bound of their own.
MethodsEnd == Busy /\ handle # "flashing" ~> ~Busy
=============================================================================
