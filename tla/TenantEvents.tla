---------------------------- MODULE TenantEvents ----------------------------
(***************************************************************************)
(* TenantStore composed with its event surface: Tenant::subscribe and      *)
(* Tenant::emit (skeg-rigging-skeg/src/tenant.rs) over the receiving half  *)
(* of EventStream (skeg-rigging/src/events.rs).                            *)
(*                                                                         *)
(* insert and delete release the inner lock before they emit, and emit     *)
(* walks the senders one by one under a lock of its own.                   *)
(***************************************************************************)
EXTENDS TenantStore, EventStream, Selection

VARIABLES
    subs,      \* Tenant.subscribers: the registered senders, in order
    em,        \* the emission that holds the subscribers lock, None when free
    got,       \* history: events returned to the consumer
    owed,      \* history: events emitted while the stream was registered
    seen       \* history: the records as the consumer knows them, None at first

Emissions == [thread : Threads, at : Nat, dead : SUBSET Subs]

ASSUME EmissionAssumption == None \notin Emissions

history == <<got, owed, seen>>
allVars == <<vars, streamVars, subs, em, history>>

EventsInit ==
    /\ StreamsInit
    /\ subs = <<>>
    /\ em = None
    /\ got = [s \in Subs |-> <<>>]
    /\ owed = [s \in Subs |-> <<>>]
    /\ seen = [s \in Subs |-> None]

-----------------------------------------------------------------------------
(* The tenant's side.                                                      *)

SubscribersFree == em = None
NoLock          == TRUE                        \* mutant: the lock is not taken

\* Tenant::subscribe takes the subscribers lock to push the sender.
CanRegister == SubscribersFree

Subscribe(s, f) ==
    /\ h # None /\ CanRegister
    /\ NewStream(s, f)
    /\ subs' = Append(subs, s)
    /\ UNCHANGED <<vars, em, history>>

\* Tenant::emit takes the subscribers lock and starts to walk the senders.
EmitStart(t) ==
    /\ pc[t] = "emit" /\ SubscribersFree
    /\ em' = [thread |-> t, at |-> 1, dead |-> {s \in Subs : st[s] = "dropped"}]
    /\ owed' = [s \in Subs |-> IF s \in ToSet(subs) /\ st[s] = "live"
                               THEN Append(owed[s], ev[t]) ELSE owed[s]]
    /\ UNCHANGED <<vars, streamVars, subs, got, seen>>

\* Vec::retain: a sender whose receiver is gone is removed ...
KeepDead(i)   == subs                          \* mutant: dead senders stay
DropSender(i) == RemoveAt(subs, i)

\* ... and the walk goes on with the next one.
StopAtDead(i)  == Len(subs) + 1                \* mutant: first error ends the walk
AfterDead(i)   == i

EmitSend(t) ==
    /\ em # None /\ em.thread = t /\ em.at <= Len(subs)
    /\ LET s == subs[em.at]
       IN \/ /\ st[s] = "live"
             /\ chan' = [chan EXCEPT ![s] = Append(@, ev[t])]
             /\ em' = [em EXCEPT !.at = @ + 1]
             /\ UNCHANGED subs
          \/ /\ st[s] = "dropped"
             /\ subs' = DropSender(em.at)
             /\ em' = [em EXCEPT !.at = IF Len(subs') < Len(subs)
                                        THEN AfterDead(@) ELSE @ + 1]
             /\ UNCHANGED chan
    /\ UNCHANGED <<vars, st, filter, call, late, history>>

\* The walk is over: the lock is released and insert or delete returns.
EmitEnd(t) ==
    /\ em # None /\ em.thread = t /\ em.at > Len(subs)
    /\ EmitDone(t)
    /\ em' = None
    /\ UNCHANGED <<streamVars, subs, history>>

Emit(t) == EmitStart(t) \/ EmitSend(t) \/ EmitEnd(t)

-----------------------------------------------------------------------------
(* The consumer's side: EventStream, connected while its sender is there.  *)

\* The records of the open tenant about one id, and a consumer's after it has
\* looked that id up.  It does so when an event about the id arrives.
About(recs, i) == {e \in recs : e.id = i}
Held(i)        == IF h = None THEN {} ELSE About(h.side.recs, i)
LookedUp(s, i) ==
    IF seen[s] = None THEN None ELSE Without(seen[s], i) \cup Held(i)

Receive(s) ==
    \/ /\ SkipEvent(s) \/ GiveUp(s, s \in ToSet(subs))
       /\ UNCHANGED <<vars, subs, em, history>>
    \/ /\ TakeEvent(s)
       /\ got' = [got EXCEPT ![s] = Append(@, Head(chan[s]))]
       /\ seen' = [seen EXCEPT ![s] = LookedUp(s, Head(chan[s]).id)]
       /\ UNCHANGED <<vars, subs, em, owed>>

StartCall(s) ==
    /\ \E c \in Calls : Begin(s, c)
    /\ UNCHANGED <<vars, subs, em, history>>

TimePasses(s) ==
    /\ Deadline(s)
    /\ UNCHANGED <<vars, subs, em, history>>

\* A subscribed consumer reads all records, under the inner lock.
ReadAll(s) ==
    /\ st[s] = "live" /\ call[s] = "idle"
    /\ h # None /\ lock = None
    /\ seen' = [seen EXCEPT ![s] = h.side.recs]
    /\ UNCHANGED <<vars, streamVars, subs, em, got, owed>>

\* What was received, owed and seen is forgotten with the stream.
Forget(s) ==
    /\ got' = [got EXCEPT ![s] = <<>>]
    /\ owed' = [owed EXCEPT ![s] = <<>>]
    /\ seen' = [seen EXCEPT ![s] = None]

Unsubscribe(s) ==
    /\ DropStream(s)
    /\ Forget(s)
    /\ UNCHANGED <<vars, subs, em>>

Consume(s) == StartCall(s) \/ Receive(s) \/ TimePasses(s)

-----------------------------------------------------------------------------
\* A step of the store.  When the tenant is dropped so are all its senders.
Store ==
    /\ SilentNext
    /\ IF h # None /\ h' = None THEN subs' = <<>> ELSE UNCHANGED subs
    /\ UNCHANGED <<streamVars, em, history>>

\* The streams live in the process of the tenant and die with it.
Die ==
    /\ Crash
    /\ subs' = <<>>
    /\ em' = None
    /\ st' = [s \in Subs |-> IF st[s] = "live" THEN "dropped" ELSE st[s]]
    /\ filter' = [s \in Subs |-> {}]
    /\ chan' = [s \in Subs |-> <<>>]
    /\ call' = [s \in Subs |-> "idle"]
    /\ late' = [s \in Subs |-> FALSE]
    /\ got' = [s \in Subs |-> <<>>]
    /\ owed' = [s \in Subs |-> <<>>]
    /\ seen' = [s \in Subs |-> None]

EventsNext ==
    \/ Store
    \/ Die
    \/ \E t \in Threads : Emit(t)
    \/ \E s \in Subs :
          \/ \E f \in Filters : Subscribe(s, f)
          \/ Consume(s)
          \/ ReadAll(s)
          \/ Unsubscribe(s)

EventsSpec == Init /\ EventsInit /\ [][EventsNext]_allVars

\* A thread inside emit is scheduled again, and a consumer keeps receiving.
Fairness ==
    /\ \A t \in Threads : WF_allVars(Emit(t))
    /\ \A s \in Subs : WF_allVars(Receive(s)) /\ WF_allVars(StartCall(s))

-----------------------------------------------------------------------------
\* Every variable of the event surface has its type.
EventsTypeOK ==
    /\ StreamTypeOK(Event)
    /\ subs \in Seq(Subs)
    /\ em = None \/ em \in [thread : Threads, at : 1 .. Len(subs) + 1, dead : SUBSET Subs]
    /\ {got, owed} \subseteq [Subs -> Seq(Event)]
    /\ seen \in [Subs -> (SUBSET Entry) \cup {None}]

\* The event an emission in progress has still to send to a stream.
InFlight(s) ==
    IF em # None /\ st[s] = "live"
       /\ \E j \in em.at .. Len(subs) : subs[j] = s
    THEN <<ev[em.thread]>> ELSE <<>>

\* Every subscriber sees every event that passes its own filter, once and in
\* the order of emission (events.rs:220-222): what it received, what waits in
\* its channel and what is being sent add up to what was emitted.
EveryEventOnce ==
    \A s \in Subs : st[s] = "live" =>
        LET Pass(q) == Selected(q, {e \in Event : Accepts(filter[s], e)})
        IN got[s] \o Pass(chan[s] \o InFlight(s)) = Pass(owed[s])

\* Events are sent after the change they tell of (events.rs:31-34,
\* tenant.rs:290-292), so a subscriber that has read the records since it
\* subscribed and looks an id up whenever an event about it arrives keeps up
\* with the tenant: where it does not agree, an event about that id is still on
\* its way.  That much holds although the events of two writers of one id may
\* come in the other order (tenant.rs:261-265, 283-285), which makes replaying
\* them, instead of looking up, go wrong.
CacheFollows ==
    h # None => \A s \in ToSet(subs), i \in Ids :
        st[s] = "live" /\ filter[s] = Kinds /\ seen[s] # None =>
            \/ About(seen[s], i) = Held(i)
            \/ \E e \in ToSet(chan[s] \o InFlight(s)) : e.id = i
            \/ \E t \in Threads : /\ pc[t] = "emit" /\ ev[t].id = i
                                  /\ em = None \/ em.thread # t

\* An emission prunes every sender whose receiver was gone when it started
\* (tenant.rs:290-296): dead senders do not pile up on a tenant in use.
DeadPruned ==
    [][\A t \in Threads : EmitEnd(t) => ToSet(subs) \cap em.dead = {}]_allVars

\* Who is subscribed to the broadcast, and what was published to whom.
Listening == {s \in ToSet(subs) : st[s] = "live"}
Pending   == [s \in Subs |-> chan[s] \o InFlight(s)]

B == INSTANCE Broadcast WITH
        Events <- [kind : Kinds, id : Ids, ver : 1 .. MaxVer],
        live   <- Listening,
        q      <- Pending

\* The events refine an atomic broadcast: a stream subscribed or dropped in
\* the middle of an emission sees all of it or nothing.
BroadcastSpec == B!Spec

\* A change a live subscriber asked for reaches it once the writer has made
\* it, unless the stream is dropped or the process dies (tenant.rs:293-296).
ChangeDelivered ==
    \A t \in Threads, s \in Subs, v \in 1 .. MaxVer, k \in Kinds :
        (/\ pc[t] = "emit" /\ em = None /\ ev[t].ver = v /\ ev[t].kind = k
         /\ s \in ToSet(subs) /\ st[s] = "live" /\ k \in filter[s])
        ~> (st[s] # "live" \/ \E j \in DOMAIN got[s] : got[s][j].ver = v /\ got[s][j].kind = k)

\* "Block until an event arrives or the producer disconnects"
\* (events.rs:170-171): once the tenant is gone every receive call returns.
CallsReturn ==
    \A s \in Subs : (call[s] # "idle" /\ s \notin ToSet(subs)) ~> call[s] = "idle"
=============================================================================
