----------------------------- MODULE BlockStore -----------------------------
(***************************************************************************)
(* What class PortalIO promises to class SkylanderIO: the blocks of the    *)
(* figures on the portal as a memory that is read and written one call at  *)
(* a time.  A call may fail; a write that was asked for may then still     *)
(* take effect, at any later moment.  A call that succeeds tells the truth *)
(* for good, because no block is written twice.                            *)
(***************************************************************************)
CONSTANTS
  Figures,    \* places on the portal
  Blocks,     \* block numbers
  Data,       \* what a block may hold
  Original,   \* what each block of each figure holds at first
  NoData,     \* not the content of a block
  NoCall      \* not a call

Places == Figures \X Blocks

VARIABLES
  store,    \* what each block holds
  asked,    \* what each block was asked to hold, NoData if never written
  call,     \* the call under way
  result    \* what the last call returned

vars == <<store, asked, call, result>>

ReadCall(p)     == [op |-> "read", place |-> p]
WriteCall(p, d) == [op |-> "write", place |-> p, data |-> d]

Init ==
  /\ store = Original
  /\ asked = [p \in Places |-> NoData]
  /\ call = NoCall
  /\ result = NoCall

\* A block is not read any more once it was asked to change.
BeginRead(p) ==
  /\ call = NoCall
  /\ asked[p] = NoData
  /\ call' = ReadCall(p)
  /\ UNCHANGED <<store, asked, result>>

\* A block is written at most once, and only to change it.
BeginWrite(p, d) ==
  /\ call = NoCall
  /\ asked[p] = NoData
  /\ d # Original[p]
  /\ asked' = [asked EXCEPT ![p] = d]
  /\ call' = WriteCall(p, d)
  /\ UNCHANGED <<store, result>>

\* A write takes effect, at the earliest when it is asked for.
TakeEffect(p) ==
  /\ asked[p] # NoData
  /\ store' = [store EXCEPT ![p] = asked[p]]
  /\ UNCHANGED <<asked, call, result>>

Return ==
  /\ call # NoCall
  /\ call' = NoCall
  /\ \/ /\ call.op = "read"
        /\ result' = [call |-> call, ok |-> TRUE, data |-> store[call.place]]
     \/ /\ call.op = "write"
        /\ store[call.place] = call.data
        /\ result' = [call |-> call, ok |-> TRUE, data |-> call.data]
     \/ result' = [call |-> call, ok |-> FALSE, data |-> NoData]
  /\ UNCHANGED <<store, asked>>

Next ==
  \/ \E p \in Places : BeginRead(p) \/ TakeEffect(p)
  \/ \E p \in Places, d \in Data : BeginWrite(p, d)
  \/ Return

Spec == Init /\ [][Next]_vars
=============================================================================
