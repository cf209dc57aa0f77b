----------------------------- MODULE MockTenant -----------------------------
(***************************************************************************)
(* skeg_rigging::mock::MockTenant: records in memory under a quota, with   *)
(* an event for every change.  insert and delete take &mut self, so the    *)
(* borrow checker lets no other call of the tenant overlap them: each is   *)
(* one step, its emission included.  The streams are consumed by other     *)
(* threads meanwhile.                                                      *)
(*                                                                         *)
(* A record is its id, its flag and its estimated size; embedding, tags    *)
(* and payload only matter for that size.                                  *)
(***************************************************************************)
EXTENDS EventStream, Selection, Naturals

CONSTANTS
    Ids,       \* record ids
    Sizes,     \* what estimate_size may give
    Caps,      \* the caps a quota may set
    NoCap,     \* None: that dimension is not capped
    ChanMax    \* bound: events waiting in a channel

MockRecord == [id : Ids, shareable : BOOLEAN, size : Sizes]
Quota      == [records : Caps \cup {NoCap}, bytes : Caps \cup {NoCap}]
Usage      == [records : Nat, bytes : Nat]
Inserted   == [kind : {"RecordInserted"}, id : Ids, shareable : BOOLEAN]
Deleted    == [kind : {"RecordDeleted"}, id : Ids]

ASSUME MockAssumption ==
    /\ Sizes \subseteq Nat
    /\ Caps \subseteq Nat
    /\ NoCap \notin Nat
    /\ ChanMax \in Nat \ {0}

VARIABLES
    open,      \* the tenant has not been dropped
    records,   \* MockTenant.records
    quota,     \* MockTenant.quota
    subs,      \* MockTenant.subscribers: the registered senders, in order
    entitled,  \* history: the usage no refusal can take back (see UsageWithinQuota)
    replica    \* history: the records each consumer believes in

tenant == <<open, records, quota, subs, entitled>>
vars   == <<streamVars, tenant, replica>>

Init ==
    /\ StreamsInit
    /\ open = TRUE
    /\ records = <<>>
    /\ quota = [records |-> NoCap, bytes |-> NoCap]
    /\ subs = <<>>
    /\ entitled = [records |-> 0, bytes |-> 0]
    /\ replica = [s \in Subs |-> {}]

-----------------------------------------------------------------------------
AtMost(m, n)  == IF m <= n THEN m ELSE n
AtLeast(m, n) == IF m >= n THEN m ELSE n

\* TenantStats::bytes_on_disk, TenantQuota::current_usage
Bytes(recs) == FoldLeft(LAMBDA sum, r : sum + r.size, 0, recs)
CurrentUsage(recs) == [records |-> Len(recs), bytes |-> Bytes(recs)]

Flags(recs) == {[id |-> r.id, shareable |-> r.shareable] : r \in ToSet(recs)}

Has(i) == \E r \in ToSet(records) : r.id = i

\* The caps are compared with what the tenant would hold after the write.
Exceeds(cap, used) == cap # NoCap /\ used > cap

\* A new record is refused past either cap, an overwrite never is.
NotCounted(r) ==                      \* mutant: the new record is not counted
    Has(r.id) \/ ~(Exceeds(quota.records, Len(records)) \/ Exceeds(quota.bytes, Bytes(records)))
Allowed(r) ==
    \/ Has(r.id)
    \/ /\ ~Exceeds(quota.records, Len(records) + 1)
       /\ ~Exceeds(quota.bytes, Bytes(records) + r.size)

\* Overwrite in place, or push.
KeepFirst(r) == IF Has(r.id) THEN records ELSE Append(records, r)  \* mutant: not overwritten
PushAlways(r) == Append(records, r)                               \* mutant: never replaced
Stored(r) ==
    IF Has(r.id) THEN [k \in DOMAIN records |-> IF records[k].id = r.id THEN r ELSE records[k]]
    ELSE Append(records, r)

\* MockTenant::emit sends to every stream still there and drops the rest.
Live == {s \in Subs : st[s] = "live"}

Emit(e) ==
    /\ subs' = Selected(subs, Live)
    /\ chan' = [s \in Subs |-> IF s \in ToSet(subs') THEN Append(chan[s], e) ELSE chan[s]]

Room == \A s \in Subs : Len(chan[s]) < ChanMax

-----------------------------------------------------------------------------
\* A refused insert changes nothing and is no step.
Insert(r) ==
    /\ open /\ Room
    /\ Allowed(r)
    /\ records' = Stored(r)
    /\ Emit([kind |-> "RecordInserted", id |-> r.id, shareable |-> r.shareable])
    /\ entitled' = IF Has(r.id)
                   THEN [entitled EXCEPT !.bytes = AtLeast(@, Bytes(records'))] ELSE entitled
    /\ UNCHANGED <<st, filter, call, late, open, quota, replica>>

Without(i) == Selected(records, {r \in MockRecord : r.id # i})

Delete(i) ==
    /\ open /\ Room
    /\ Has(i)
    /\ records' = Without(i)
    /\ Emit([kind |-> "RecordDeleted", id |-> i])
    /\ entitled' = [records |-> AtMost(entitled.records, Len(records')),
                    bytes |-> AtMost(entitled.bytes, Bytes(records'))]
    /\ UNCHANGED <<st, filter, call, late, open, quota, replica>>

\* TenantQuota::set_quota takes any quota, stricter than the usage or not.
SetQuota(q) ==
    /\ open
    /\ quota' = q
    /\ entitled' = CurrentUsage(records)
    /\ UNCHANGED <<streamVars, open, records, subs, replica>>

\* The consumer subscribes, then copies what the tenant holds.
Subscribe(s, f) ==
    /\ open
    /\ NewStream(s, f)
    /\ subs' = Append(subs, s)
    /\ replica' = [replica EXCEPT ![s] = Flags(records)]
    /\ UNCHANGED <<open, records, quota, entitled>>

\* Dropping the tenant drops its senders.
Drop ==
    /\ open
    /\ open' = FALSE
    /\ subs' = <<>>
    /\ UNCHANGED <<streamVars, records, quota, entitled, replica>>

-----------------------------------------------------------------------------
(* The consumers.                                                          *)

\* A copy of the tenant brought up to date with one event.
Apply(recs, e) ==
    LET others == {r \in recs : r.id # e.id}
    IN IF e.kind = "RecordDeleted" THEN others
       ELSE others \cup {[id |-> e.id, shareable |-> e.shareable]}

Receive(s) ==
    /\ \/ (SkipEvent(s) \/ GiveUp(s, s \in ToSet(subs))) /\ UNCHANGED replica
       \/ TakeEvent(s) /\ replica' = [replica EXCEPT ![s] = Apply(@, Head(chan[s]))]
    /\ UNCHANGED tenant

StartCall(s) == (\E c \in Calls : Begin(s, c)) /\ UNCHANGED <<tenant, replica>>

TimePasses(s) == Deadline(s) /\ UNCHANGED <<tenant, replica>>

Unsubscribe(s) ==
    /\ DropStream(s)
    /\ replica' = [replica EXCEPT ![s] = {}]
    /\ UNCHANGED tenant

-----------------------------------------------------------------------------
Change == (\E r \in MockRecord : Insert(r)) \/ (\E i \in Ids : Delete(i))

Next ==
    \/ Change
    \/ \E q \in Quota : SetQuota(q)
    \/ Drop
    \/ \E s \in Subs :
          \/ \E f \in Filters : Subscribe(s, f)
          \/ StartCall(s)
          \/ Receive(s)
          \/ TimePasses(s)
          \/ Unsubscribe(s)

\* A consumer inside a call goes on with it, and time passes.
Spec ==
    /\ Init /\ [][Next]_vars
    /\ \A s \in Subs : WF_vars(Receive(s)) /\ WF_vars(TimePasses(s))

-----------------------------------------------------------------------------
\* Every variable has its type, and records holds an id once.
TypeOK ==
    /\ StreamTypeOK(Inserted \cup Deleted)
    /\ open \in BOOLEAN
    /\ records \in Seq(MockRecord)
    /\ \A j, k \in DOMAIN records : records[j].id = records[k].id => j = k
    /\ quota \in Quota
    /\ subs \in Seq(Subs)
    /\ entitled \in Usage
    /\ replica \in [Subs -> SUBSET [id : Ids, shareable : BOOLEAN]]

Within(cap, used, entitledTo) == cap # NoCap => used <= AtLeast(cap, entitledTo)

\* "passing a stricter quota than the current usage is allowed ... existing
\* rows are untouched" (accounting.rs:60-63): above the record cap a tenant can
\* only shrink, and never grow back what was deleted, whatever calls follow;
\* above the byte cap only overwrites can make it grow (mock.rs:93-94,
\* 111-112).
UsageWithinQuota ==
    /\ Within(quota.records, Len(records), entitled.records)
    /\ Within(quota.bytes, Bytes(records), entitled.bytes)

\* A consumer that copied the tenant when it subscribed and applies every event
\* it receives ends up with the tenant's records: the copy, brought up to date
\* with what still waits in the channel, is what the tenant holds
\* (mock.rs:152-155, 166-169).
ReplicaFollows ==
    \A s \in Subs : st[s] = "live" /\ filter[s] = Kinds =>
        FoldLeft(Apply, replica[s], chan[s]) = Flags(records)

\* "Pull an event waiting at most timeout" (events.rs:196): after its deadline
\* recv_timeout returns, unless the tenant never stops to emit.
TimedOutUnlessBusy ==
    \A s \in Subs :
        []<>(call[s] # "recv_timeout") \/ []<><<Change>>_vars
=============================================================================
