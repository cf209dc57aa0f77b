---------------------------- MODULE EventStream ----------------------------
(***************************************************************************)
(* EventFilter and EventStream of skeg-rigging/src/events.rs: the          *)
(* receiving half of a std::sync::mpsc channel with a filter in front of   *)
(* the consumer.  The sending half belongs to the tenant that produces the *)
(* events; the modules that extend this one append to chan.                *)
(***************************************************************************)
EXTENDS Sequences

CONSTANTS
    Subs,      \* event streams, each subscribed once
    Filters,   \* the EventFilters in use: sets of event kinds
    Calls      \* the receive calls in use: recv, try_recv, recv_timeout

VARIABLES
    st,        \* of each stream: not subscribed yet, "live" or "dropped"
    filter,    \* EventStream.filter
    chan,      \* the channel of each stream
    call,      \* the receive call a consumer is in
    late       \* the deadline of that call has passed

streamVars == <<st, filter, chan, call, late>>

Kinds == {"RecordInserted", "RecordDeleted"}

ASSUME CallsAssumption == Calls \subseteq {"recv", "try_recv", "recv_timeout"}
ASSUME FiltersAssumption == Filters \subseteq SUBSET Kinds

StreamsInit ==
    /\ st = [s \in Subs |-> "none"]
    /\ filter = [s \in Subs |-> {}]
    /\ chan = [s \in Subs |-> <<>>]
    /\ call = [s \in Subs |-> "idle"]
    /\ late = [s \in Subs |-> FALSE]

\* EventFilter::accepts
Rejects(f, e) == e.kind \notin f               \* mutant: the test is inverted
Accepts(f, e) == e.kind \in f

NewStream(s, f) ==
    /\ st[s] = "none"
    /\ st' = [st EXCEPT ![s] = "live"]
    /\ filter' = [filter EXCEPT ![s] = f]
    /\ UNCHANGED <<chan, call, late>>

Begin(s, c) ==
    /\ st[s] = "live" /\ call[s] = "idle"
    /\ call' = [call EXCEPT ![s] = c]
    /\ UNCHANGED <<st, filter, chan, late>>

\* The call returns, with an event or without.
EndCall(s) ==
    /\ call' = [call EXCEPT ![s] = "idle"]
    /\ late' = [late EXCEPT ![s] = FALSE]

\* Every receive call loops: take an event; one the filter rejects is gone ...
SkipEvent(s) ==
    /\ call[s] # "idle" /\ chan[s] # <<>>
    /\ ~Accepts(filter[s], Head(chan[s]))
    /\ chan' = [chan EXCEPT ![s] = Tail(@)]
    /\ UNCHANGED <<st, filter, call, late>>

\* ... one it accepts is returned.
TakeEvent(s) ==
    /\ call[s] # "idle" /\ chan[s] # <<>>
    /\ Accepts(filter[s], Head(chan[s]))
    /\ chan' = [chan EXCEPT ![s] = Tail(@)]
    /\ EndCall(s)
    /\ UNCHANGED <<st, filter>>

\* The clock of recv_timeout: the deadline is fixed when the call begins.
Deadline(s) ==
    /\ call[s] = "recv_timeout" /\ ~late[s]
    /\ late' = [late EXCEPT ![s] = TRUE]
    /\ UNCHANGED <<st, filter, chan, call>>

\* Only an empty channel ends a call without an event: try_recv at once,
\* recv_timeout after its deadline, and every call when the sender is gone.
OnlyNonBlocking(s, connected) ==               \* mutant: recv never disconnects
    call[s] = "try_recv" \/ late[s]
NoDeadline(s, connected) ==                    \* mutant: the deadline is not looked at
    call[s] = "try_recv" \/ ~connected
CanGiveUp(s, connected) ==
    call[s] = "try_recv" \/ late[s] \/ ~connected

GiveUp(s, connected) ==
    /\ call[s] # "idle" /\ chan[s] = <<>>
    /\ CanGiveUp(s, connected)
    /\ EndCall(s)
    /\ UNCHANGED <<st, filter, chan>>

\* Dropping the stream unsubscribes; its sender is pruned by a later emit.
DropStream(s) ==
    /\ st[s] = "live" /\ call[s] = "idle"
    /\ st' = [st EXCEPT ![s] = "dropped"]
    /\ filter' = [filter EXCEPT ![s] = {}]
    /\ chan' = [chan EXCEPT ![s] = <<>>]
    /\ UNCHANGED <<call, late>>

\* Every variable of the streams has its type: a deadline passes only during
\* a recv_timeout (events.rs:198-203), and the filter is one that was asked for.
StreamTypeOK(Events) ==
    /\ st \in [Subs -> {"none", "live", "dropped"}]
    /\ filter \in [Subs -> Filters \cup {{}}]
    /\ chan \in [Subs -> Seq(Events)]
    /\ call \in [Subs -> Calls \cup {"idle"}]
    /\ late \in [Subs -> BOOLEAN]
    /\ \A s \in Subs : late[s] => call[s] = "recv_timeout"
=============================================================================
