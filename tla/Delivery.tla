------------------------------ MODULE Delivery ------------------------------
(***************************************************************************)
(* What the retained feed promises, without connections, records and       *)
(* commands: epochs of numbered units, of which the relay keeps those from *)
(* `first' up to, not including, `next'.                                   *)
(*                                                                         *)
(* Units are given to a decoder as an unbroken run from the first one of   *)
(* their epoch, and none is given up before a decoder has had it, other    *)
(* than with its whole epoch.  Being given a unit again, after a lost      *)
(* connection, is a stuttering step here.                                  *)
(***************************************************************************)
EXTENDS Integers

VARIABLES
    epoch,   \* the current epoch
    first,   \* the oldest unit that is kept
    next,    \* the number the next unit gets
    seen     \* the newest unit a decoder was given: [epoch, seq]

vars == <<epoch, first, next, seen>>

Init == epoch = 1 /\ first = 0 /\ next = 0 /\ seen = [epoch |-> 0, seq |-> 0]

Produce == next' = next + 1 /\ UNCHANGED <<epoch, first, seen>>

Free ==
    /\ seen.epoch = epoch
    /\ first' \in (first + 1)..(seen.seq + 1)
    /\ UNCHANGED <<epoch, next, seen>>

\* What was kept is dropped; the unit that caused it may begin the new epoch.
NewEpoch ==
    /\ epoch' > epoch
    /\ first' = 0 /\ next' \in {0, 1}
    /\ UNCHANGED seen

\* The next unit of the epoch, also of one the relay has left meanwhile.
DeliverNext ==
    /\ seen' = [seen EXCEPT !.seq = @ + 1]
    /\ seen.epoch \in 1..epoch
    /\ seen.epoch = epoch => seen'.seq < next
    /\ UNCHANGED <<epoch, first, next>>

\* The first unit of a later epoch.
DeliverFirst ==
    /\ \E e \in (seen.epoch + 1)..epoch :
          /\ e = epoch => next > 0
          /\ seen' = [epoch |-> e, seq |-> 0]
    /\ UNCHANGED <<epoch, first, next>>

Next == Produce \/ Free \/ NewEpoch \/ DeliverNext \/ DeliverFirst

Spec == Init /\ [][Next]_vars

=============================================================================
