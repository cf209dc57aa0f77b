----------------------------- MODULE Broadcast -----------------------------
(***************************************************************************)
(* What TenantEvents::subscribe promises: every subscriber sees every      *)
(* event, broadcast-style, in one order.  Publishing is atomic; each       *)
(* subscriber takes the events published since it subscribed one by one.   *)
(***************************************************************************)
EXTENDS Sequences

CONSTANTS Subs, Events

VARIABLES
    live,   \* current subscribers
    q       \* events published to a subscriber and not yet taken

vars == <<live, q>>

Init == live = {} /\ q = [s \in Subs |-> <<>>]

Subscribe(s) ==
    /\ s \notin live /\ q[s] = <<>>
    /\ live' = live \cup {s}
    /\ UNCHANGED q

Publish(e) ==
    /\ q' = [s \in Subs |-> IF s \in live THEN Append(q[s], e) ELSE q[s]]
    /\ UNCHANGED live

Take(s) ==
    /\ q[s] # <<>>
    /\ q' = [q EXCEPT ![s] = Tail(@)]
    /\ UNCHANGED live

\* The subscriber goes away and its queue with it.
Leave(s) ==
    /\ live' = live \ {s}
    /\ q' = [q EXCEPT ![s] = <<>>]

\* The publisher goes away; what it published can still be taken.
Hangup ==
    /\ live' = {}
    /\ UNCHANGED q

\* Publisher and subscribers live in one process and die together.
Crash ==
    /\ live' = {}
    /\ q' = [s \in Subs |-> <<>>]

Next ==
    \/ \E s \in Subs : Subscribe(s) \/ Take(s) \/ Leave(s)
    \/ \E e \in Events : Publish(e)
    \/ Hangup
    \/ Crash

Spec == Init /\ [][Next]_vars
=============================================================================
