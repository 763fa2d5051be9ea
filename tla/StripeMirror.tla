------------------------------ MODULE StripeMirror ------------------------------
(***************************************************************************)
(* What the webhook handler promises, with no requests, no retries and no  *)
(* events table: Stripe writes a log of the states its subscriptions take, *)
(* and the local copy of a subscription is always one of these states, or  *)
(* what it said at first.  It moves to newer ones; where two saves cross   *)
(* it may be taken back, and is then known to be astray until it says the  *)
(* newest state again.                                                     *)
(***************************************************************************)
EXTENDS Integers, Sequences

CONSTANTS Keys,     \* the subscriptions
          States    \* what a state of a subscription can be

VARIABLES log,      \* the states of all subscriptions, in the order they were taken
          shown,    \* where in the log the local copy of each one is, 0 for nowhere
          view,     \* what the local copies say
          astray    \* the subscriptions whose copy was taken back

mirror == <<log, shown, view, astray>>

Init ==
    /\ log = <<>> /\ shown = [k \in Keys |-> 0] /\ view \in [Keys -> States]
    /\ astray = {}

\* Stripe takes a new state.
Write ==
    /\ UNCHANGED <<shown, view, astray>>
    /\ Len(log') = Len(log) + 1 /\ SubSeq(log', 1, Len(log)) = log
    /\ log' \in Seq([key : Keys, state : States])

Newest(k, i) == \A j \in (i + 1)..Len(log) : log[j].key # k

\* The local copy says the i-th state.
Say(k, i) ==
    /\ log[i].key = k
    /\ shown' = [shown EXCEPT ![k] = i]
    /\ view' = [view EXCEPT ![k] = log[i].state]
    /\ UNCHANGED log

\* It jumps forward, and may skip states.  Only the newest one ends its going astray.
Show(k) ==
    \E i \in (shown[k] + 1)..Len(log) :
        /\ Say(k, i)
        /\ astray' = IF Newest(k, i) THEN astray \ {k} ELSE astray

\* It is taken back, maybe to what it said at first.
Overtake(k) ==
    /\ astray' = astray \cup {k}
    /\ \/ \E i \in 1..(shown[k] - 1) : Say(k, i)
       \/ /\ shown[k] > 0
          /\ shown' = [shown EXCEPT ![k] = 0]
          /\ \E s \in States : view' = [view EXCEPT ![k] = s]
          /\ UNCHANGED log

Next == Write \/ \E k \in Keys : Show(k) \/ Overtake(k)

Spec == Init /\ [][Next]_mirror
================================================================================
