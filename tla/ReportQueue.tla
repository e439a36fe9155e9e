---------------------------- MODULE ReportQueue ----------------------------
(***************************************************************************)
(* What HIDAPI promises to class PortalIO about the reports of a device:   *)
(* they are read in the order in which they arrived; when nobody reads,    *)
(* old ones are lost; a read fails only when the device is gone.           *)
(* The reports since the opening are numbered from 1.                      *)
(***************************************************************************)
EXTENDS Integers, Sequences

CONSTANTS
  QueueMax,    \* reports kept for a reader
  Ahead        \* reports a read may have taken before its caller asks for them

VARIABLES
  open,      \* is there a handle?
  plugged,   \* is the device connected?
  arrived,   \* reports received since the handle was opened
  queue,     \* the reports nobody read yet
  outcome    \* of the last read: a report, 0 for none in time, -1 for an error

vars == <<open, plugged, arrived, queue, outcome>>

\* The reports s without the i-th.
Without(s, i) ==
  IF i = 1 THEN Tail(s) ELSE SubSeq(s, 1, i - 1) \o SubSeq(s, i + 1, Len(s))

Init ==
  /\ open = FALSE
  /\ plugged = TRUE
  /\ arrived = 0
  /\ queue = <<>>
  /\ outcome = 0

Open ==
  /\ ~open
  /\ plugged
  /\ open' = TRUE
  /\ arrived' = 0
  /\ queue' = <<>>
  /\ outcome' = 0
  /\ UNCHANGED plugged

\* Too many reports lose the oldest one, apart from those taken already.
Arrive ==
  /\ open
  /\ arrived' = arrived + 1
  /\ LET all == Append(queue, arrived + 1)
     IN \/ ~(Len(all) > QueueMax + Ahead) /\ queue' = all
        \/ Len(all) > QueueMax /\ \E i \in 1..Ahead + 1 : queue' = Without(all, i)
  /\ UNCHANGED <<open, plugged, outcome>>

Read ==
  /\ open
  /\ \/ /\ queue # <<>>
        /\ outcome' = Head(queue)
        /\ queue' = Tail(queue)
     \/ /\ outcome' = 0
        /\ UNCHANGED queue
     \/ /\ ~plugged
        /\ outcome' = -1
        /\ UNCHANGED queue
  /\ UNCHANGED <<open, plugged, arrived>>

Close ==
  /\ open
  /\ open' = FALSE
  /\ queue' = <<>>
  /\ UNCHANGED <<plugged, arrived, outcome>>

Unplug ==
  /\ plugged
  /\ plugged' = FALSE
  /\ UNCHANGED <<open, arrived, queue, outcome>>

PlugIn ==
  /\ ~open
  /\ plugged' = TRUE
  /\ UNCHANGED <<open, arrived, queue, outcome>>

Next == Open \/ Arrive \/ Read \/ Close \/ Unplug \/ PlugIn

Spec == Init /\ [][Next]_vars
=============================================================================
