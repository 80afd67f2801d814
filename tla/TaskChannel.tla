---------------------------- MODULE TaskChannel ----------------------------
(***************************************************************************)
(* What a grid_worker promises the state machines that post tasks to it   *)
(* (spec.md 3 and 4.1): one FIFO channel of postings, delivered one at a  *)
(* time; cancel is best effort and may remove a posting that has not been *)
(* delivered yet; the stop sentinel closes the channel, and whatever is   *)
(* behind it or posted later is never delivered.                          *)
(***************************************************************************)
EXTENDS Sequences, SequencesExt

CONSTANTS Jobs, Stop

VARIABLES
  pending,    \* postings not yet delivered, in order, possibly with Stop
  closed,     \* the stop sentinel has been consumed
  delivered   \* postings delivered, in order

vars == <<pending, closed, delivered>>

Init ==
  /\ pending = <<>>
  /\ closed = FALSE
  /\ delivered = <<>>

Post(j) ==
  /\ pending' = IF closed THEN pending ELSE Append(pending, j)
  /\ UNCHANGED <<closed, delivered>>

PostStop ==
  /\ ~closed
  /\ ~Contains(pending, Stop)
  /\ pending' = Append(pending, Stop)
  /\ UNCHANGED <<closed, delivered>>

(* The owner's handler runs as part of the delivery and may post again. *)
Deliver ==
  /\ pending # <<>>
  /\ Head(pending) # Stop
  /\ delivered' = Append(delivered, Head(pending))
  /\ \/ pending' = Tail(pending)
     \/ \E j \in Jobs : pending' = Append(Tail(pending), j)
  /\ UNCHANGED closed

Close ==
  /\ pending # <<>>
  /\ Head(pending) = Stop
  /\ pending' = <<>>
  /\ closed' = TRUE
  /\ UNCHANGED delivered

Cancel(j) ==
  /\ j # Stop
  /\ pending' = SelectSeq(pending, LAMBDA i : i # j)
  /\ UNCHANGED <<closed, delivered>>

Next ==
  \/ \E j \in Jobs : Post(j) \/ Cancel(j)
  \/ PostStop \/ Deliver \/ Close

Spec == Init /\ [][Next]_vars /\ WF_vars(Deliver \/ Close)

=============================================================================
