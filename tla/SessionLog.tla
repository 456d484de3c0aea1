----------------------------- MODULE SessionLog -----------------------------
(***************************************************************************)
(* What one hop of a shared session promises (sharer to server, server to  *)
(* viewer): a log that only grows, and a reader who always holds an        *)
(* initial segment of it: nothing out of order, nothing skipped, nothing   *)
(* taken back, however often the connection between the two is replaced.   *)
(***************************************************************************)
EXTENDS Integers, Sequences

VARIABLES
    produced,    \* the events of the session, in order; event n is produced[n + 1]
    delivered    \* the numbers of the events that the reader has

logVars == <<produced, delivered>>

Init == produced = <<>> /\ delivered = {}

Produce ==
    /\ Len(produced') > Len(produced)
    /\ \A k \in 1..Len(produced) : produced'[k] = produced[k]
    /\ UNCHANGED delivered

(* The reader may be handed several events at once. *)
Deliver ==
    /\ UNCHANGED produced
    /\ \E k \in 1..Len(produced) :
        /\ delivered' = 0..(k - 1)
        /\ delivered \subseteq delivered'

Next == Produce \/ Deliver

Spec == Init /\ [][Next]_logVars
=============================================================================
