------------------------------ MODULE StateFeed ------------------------------
(***************************************************************************)
(* What a host may rely on when it reads the state of a control            *)
(* connection: the view is always the effect of a prefix of the server's   *)
(* history, with nothing left out of the middle, and it only moves         *)
(* forward.  How the prefix advances (one event at a time, by a snapshot,  *)
(* over any number of reconnects) is not the host's concern.               *)
(***************************************************************************)
EXTENDS Naturals, Sequences

CONSTANT Kinds

VARIABLES
    history,   \* kinds of the events the server has committed
    view       \* the events the host's state reflects

\* The visible events of the first n of the history.
Prefix(n) == {g \in 1..n : history[g] # "hidden"}

Init == history = <<>> /\ view = {}

Publish == \E k \in Kinds : history' = Append(history, k) /\ UNCHANGED view

Advance ==
    /\ \E n \in 0..Len(history) : view' = Prefix(n)
    /\ view \subseteq view'
    /\ UNCHANGED history

Next == Publish \/ Advance

Spec == Init /\ [][Next]_<<history, view>>

==============================================================================
