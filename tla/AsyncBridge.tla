---------------------------- MODULE AsyncBridge ----------------------------
(***************************************************************************)
(* SyncToAsync of skeg-rigging/src/asyncs.rs over a skeg_rigging_skeg      *)
(* Tenant: query_filtered_async clones the Arc of the tenant into a task   *)
(* of tokio's blocking pool and awaits it.  TenantQuery is the loop of the *)
(* task that holds the tenant's inner lock; writers reach the same tenant  *)
(* through SyncToAsync::inner or an Arc of their own.                      *)
(*                                                                         *)
(* Dropping a future that awaits a blocking task does not stop the task.   *)
(* A filter is caller code: it may panic, or call the tenant again, whose  *)
(* lock is not reentrant.                                                  *)
(***************************************************************************)
EXTENDS TenantQuery

CONSTANTS
    Bridges,   \* SyncToAsync values around one Arc (SyncToAsync::from_arc)
    Requests,  \* calls of query_filtered_async
    Accepts,   \* what the filters' accept does: "returns", "panics", "reenters"
    PoolSizes, \* how many threads the blocking pool may have
    None       \* the lock is free

ASSUME BridgeAssumption ==
    /\ IsFiniteSet(Bridges) /\ Bridges # {} /\ IsFiniteSet(Requests)
    /\ Accepts \subseteq {"returns", "panics", "reenters"}
    /\ PoolSizes \subseteq Nat \ {0}
    /\ None \notin Requests \cup Bridges

VARIABLES
    bridges,   \* the SyncToAsync values not closed or dropped yet
    strong,    \* Arc::strong_count of the tenant
    dropped,   \* the tenant's Drop has run
    lock,      \* the task that holds the inner lock
    future,    \* the future of each call
    via,       \* the bridge a pending future borrows (&self)
    workers,   \* threads of the blocking pool
    task,      \* the call's task in the pool
    accept     \* its filter

query == <<ranking, topK, pos, out, done>>
arc   == <<strong, dropped>>
pool  == <<workers, task, accept, lock>>
async == <<bridges, future, via>>
bridgeVars == <<query, arc, pool, async>>

BridgeInit ==
    /\ Init
    /\ bridges = Bridges
    /\ strong = Cardinality(Bridges)
    /\ dropped = FALSE
    /\ lock = None
    /\ workers \in PoolSizes
    /\ future = [c \in Requests |-> "none"]
    /\ via = [c \in Requests |-> None]
    /\ task = [c \in Requests |-> "none"]
    /\ accept = [c \in Requests |-> "none"]

\* Dropping an Arc; with the last one goes the tenant.
DropEarly ==                          \* mutant: the task's Arc is not counted
    /\ strong' = strong - 1
    /\ dropped' = (strong' <= 1)

Release ==
    /\ strong' = strong - 1
    /\ dropped' = (strong' = 0)

-----------------------------------------------------------------------------
(* The async side.                                                         *)

\* query_filtered_async, first poll: clone the Arc, spawn_blocking.
Call(c, b, a) ==
    /\ future[c] = "none" /\ b \in bridges
    /\ strong' = strong + 1
    /\ future' = [future EXCEPT ![c] = "awaits"]
    /\ via' = [via EXCEPT ![c] = b]
    /\ task' = [task EXCEPT ![c] = "queued"]
    /\ accept' = [accept EXCEPT ![c] = a]
    /\ UNCHANGED <<query, bridges, dropped, lock, workers>>

\* The future is gone, and with it the borrow of its bridge.
EndFuture(c, how) ==
    /\ future[c] = "awaits"
    /\ future' = [future EXCEPT ![c] = how]
    /\ via' = [via EXCEPT ![c] = None]
    /\ UNCHANGED <<query, arc, pool, bridges>>

\* The task is over: the future yields its result, or expect panics.
Resolve(c) ==
    \/ task[c] = "over" /\ EndFuture(c, "resolved")
    \/ task[c] = "failed" /\ EndFuture(c, "panicked")

\* The caller drops the future (a timeout, a select): the task is detached.
Cancel(c) == EndFuture(c, "cancelled")

\* close_async takes the bridge by value, so no future may borrow it.
Anytime(b)    == TRUE                 \* mutant: closed under a pending call
Unborrowed(b) == \A c \in Requests : via[c] # b

\* close_async, or a drop: it only lets go of the Arc.
Close(b) ==
    /\ b \in bridges /\ Unborrowed(b)
    /\ bridges' = bridges \ {b}
    /\ Release
    /\ UNCHANGED <<query, pool, future, via>>

-----------------------------------------------------------------------------
(* The blocking pool.                                                      *)

\* Lock taken, loop entered; "stuck" is a task that waits for its own lock.
Running    == {c \in Requests : task[c] \in {"locking", "looping", "stuck"}}
Unfinished == Running \cup {c \in Requests : task[c] = "queued"}

Start(c) ==
    /\ task[c] = "queued" /\ Cardinality(Running) < workers
    /\ task' = [task EXCEPT ![c] = "locking"]
    /\ UNCHANGED <<query, arc, async, accept, lock, workers>>

\* An embedding of another dimension is refused without the lock.
Mismatch(c) ==
    /\ task[c] = "queued" /\ Cardinality(Running) < workers
    /\ task' = [task EXCEPT ![c] = "over"]
    /\ accept' = [accept EXCEPT ![c] = "none"]
    /\ Release
    /\ UNCHANGED <<query, async, lock, workers>>

\* Tenant::query_filtered locks Inner and searches; which records pass is for
\* the call's own filter to say.
NoLock   == TRUE                      \* mutant: the lock is not taken
LockFree == lock = None

SameVectors(r) ==
    /\ DOMAIN r = DOMAIN ranking
    /\ \A p \in DOMAIN r : r[p] = "ghost" <=> ranking[p] = "ghost"

Lock(c) ==
    /\ task[c] = "locking" /\ LockFree
    /\ lock' = c
    /\ topK' \in TopKs
    /\ ranking' \in {r \in Rankings : SameVectors(r)}
    /\ task' = [task EXCEPT ![c] = "looping"]
    /\ UNCHANGED <<pos, out, done, arc, async, accept, workers>>

\* The filter is asked about every candidate that has a record.
Asks == Looping /\ ranking[pos] # "ghost"

Loop(c) ==
    /\ lock = c /\ task[c] = "looping"
    /\ Asks => accept[c] = "returns"
    /\ Next
    /\ UNCHANGED <<arc, pool, async>>

\* query_filtered returns or unwinds: its locals are gone, the guard unlocks
\* without poisoning, and the closure drops its Arc.
KeepLock(c) == c                      \* mutant: the lock stays held
Unlocked(c) == None

End(c, how) ==
    /\ lock = c /\ task[c] = "looping"
    /\ pos' = 1 /\ out' = <<>> /\ done' = FALSE
    /\ lock' = Unlocked(c)
    /\ task' = [task EXCEPT ![c] = how]
    /\ accept' = [accept EXCEPT ![c] = "none"]
    /\ Release
    /\ UNCHANGED <<ranking, topK, async, workers>>

Finish(c) == done /\ End(c, "over")

SearchError(c) == ~done /\ pos = 1 /\ End(c, "over")

Unwind(c) == Asks /\ accept[c] = "panics" /\ End(c, "failed")

\* The filter waits for the lock its own task holds, for ever.
Reenter(c) ==
    /\ lock = c /\ task[c] = "looping"
    /\ Asks /\ accept[c] = "reenters"
    /\ task' = [task EXCEPT ![c] = "stuck"]
    /\ UNCHANGED <<query, arc, async, accept, lock, workers>>

Work(c) ==
    \/ Start(c)
    \/ Mismatch(c)
    \/ Lock(c)
    \/ SearchError(c)
    \/ Loop(c)
    \/ Finish(c)
    \/ Unwind(c)
    \/ Reenter(c)

-----------------------------------------------------------------------------
\* A writer on SyncToAsync::inner, under the lock.  An insert ranks the new
\* vector, and the old one of its id is gone; a delete leaves a ghost.
Inserted ==
    LET Kept == {ranking} \cup {RemoveAt(ranking, p) : p \in DOMAIN ranking}
    IN UNION {{InsertAt(r, p, c) : p \in 1 .. Len(r) + 1, c \in Classes \ {"ghost"}} : r \in Kept}

Deleted == {[ranking EXCEPT ![p] = "ghost"] : p \in DOMAIN ranking}

Write ==
    /\ bridges # {} /\ LockFree
    /\ ranking' \in Rankings \cap (Inserted \cup Deleted)
    /\ UNCHANGED <<topK, pos, out, done, arc, pool, async>>

BridgeNext ==
    \/ \E c \in Requests :
          \/ \E b \in Bridges, a \in Accepts : Call(c, b, a)
          \/ Resolve(c)
          \/ Cancel(c)
          \/ Work(c)
    \/ \E b \in Bridges : Close(b)
    \/ Write

\* While some task of the pool can go on, one does; while some future was
\* woken, the executor polls one.
BridgeSpec ==
    /\ BridgeInit /\ [][BridgeNext]_bridgeVars
    /\ WF_bridgeVars(\E c \in Requests : Work(c))
    /\ WF_bridgeVars(\E c \in Requests : Resolve(c))

-----------------------------------------------------------------------------
\* Every variable has its type, and the lock is held by the task in the loop.
BridgeTypeOK ==
    /\ TypeOK
    /\ bridges \subseteq Bridges
    /\ strong \in Nat /\ workers \in PoolSizes
    /\ dropped \in BOOLEAN
    /\ future \in [Requests -> {"none", "awaits", "resolved", "panicked", "cancelled"}]
    /\ via \in [Requests -> bridges \cup {None}]
    /\ task \in [Requests -> {"none", "queued", "locking", "looping", "stuck", "over", "failed"}]
    /\ accept \in [Requests -> Accepts \cup {"none"}]
    /\ lock \in Requests \cup {None}
    /\ \A c \in Requests : lock = c <=> task[c] \in {"looping", "stuck"}

\* "The wrapped tenant's own Drop runs when the last reference goes"
\* (asyncs.rs:213-215): never under a task that still uses the tenant, even if
\* its caller has cancelled and closed, and not later either.
DroppedWithLast == dropped <=> bridges = {} /\ Unfinished = {}

\* close_async returns without waiting for the pool (asyncs.rs:108-116): a
\* tenant can be in use after the last close, but only by calls whose caller
\* gave up on them.
OnlyCancelledOutlive ==
    bridges = {} => \A c \in Unfinished : future[c] = "cancelled"

NeverReenters == [](\A c \in Requests : accept[c] # "reenters")

\* Unless a filter calls the tenant it filters for (tenant.rs:536, 557), every
\* call ends, awaited or detached, and lets go of the tenant: whatever other
\* filters panic, callers cancel and writers write, and with a single blocking
\* thread too.
Busy(c) == future[c] = "awaits" \/ c \in Unfinished

CallsEnd == NeverReenters => \A c \in Requests : Busy(c) ~> ~Busy(c)
=============================================================================
