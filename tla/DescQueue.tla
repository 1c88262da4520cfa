----------------------------- MODULE DescQueue -----------------------------
(***************************************************************************)
(* What a system-mode pipe promises its client: a bounded queue of         *)
(* descriptors.  They are completed and handed back in the order they were *)
(* submitted, none is lost, none is handed back twice or before it is      *)
(* complete.                                                               *)
(***************************************************************************)
EXTENDS Naturals, Sequences, SequencesExt

CONSTANT Capacity
VARIABLES pending,   \* submitted, not yet completed by the hardware
          ready,     \* completed, not yet handed back
          count      \* number of descriptors submitted so far; they are numbered

Init == pending = <<>> /\ ready = <<>> /\ count = 0

Submit == \E k \in 1 .. Capacity :
  /\ Len(pending) + Len(ready) + k <= Capacity
  /\ pending' = pending \o [i \in 1 .. k |-> count + i]
  /\ count' = count + k
  /\ UNCHANGED ready

Complete == \E k \in 1 .. Len(pending) :
  /\ ready' = ready \o SubSeq(pending, 1, k)
  /\ pending' = SubSeq(pending, k + 1, Len(pending))
  /\ UNCHANGED count

HandBack == /\ ready # <<>> /\ ready' = Tail(ready)
            /\ UNCHANGED <<pending, count>>

Next == Submit \/ Complete \/ HandBack
Spec == Init /\ [][Next]_<<pending, ready, count>>
=============================================================================
