--------------------------- MODULE MCTenantEvents ---------------------------
(* Model values, symmetry and the small instances of TenantEvents.         *)
EXTENDS TenantEvents, TLC

CONSTANTS d1, i1, i2, a1, t1, t2, s1, s2

OneDir     == {d1}
OneId      == {i1}
TwoIds     == {i1, i2}
OneTid     == {a1}
OneDim     == {4}
OneThread  == {t1}
TwoThreads == {t1, t2}
NoReader   == {}
OneStream  == {s1}
TwoStreams == {s1, s2}
AnyFilter  == {Kinds, {"RecordDeleted"}}
AllOnly    == {Kinds}

Blocking   == {"recv"}
AllCalls   == {"recv", "try_recv", "recv_timeout"}

\* A tenant just opened by a create: what the store holds, and the empty rest.
Opened(d, tid, dim) ==
    /\ dir = [[x \in Dirs |-> Gone] EXCEPT ![d] = [meta |-> EmptySidecar(tid, dim), kind |-> Present,
                                   graph |-> [dim |-> dim, vec |-> NoVecs], delta |-> NoVecs]]
    /\ h = [dir |-> d, tid |-> tid, side |-> EmptySidecar(tid, dim), since |-> 1]
    /\ lock = None
    /\ pc = [t \in Threads |-> "idle"]
    /\ ev = [t \in Threads |-> None]
    /\ cp = [t \in Threads |-> None]
    /\ req = None
    /\ ro = [r \in Readers |-> [pc |-> "idle"]]
    /\ nextVer = 1
    /\ saved = [x \in Dirs |-> {}]

\* Sessions: the tenant exists, and of its steps only the ones events come
\* from, consolidation, closing, crashing and reopening are taken.
InSession == \A t \in Threads : pc[t] \in {"idle", "indexed", "emit"}

SessionInit ==
    /\ \E d \in Dirs, tid \in Tids, dim \in Dims : Opened(d, tid, dim)
    /\ EventsInit

SessionNext == EventsNext /\ InSession'

SessionSpec == SessionInit /\ [][SessionNext]_allVars
FairSession == SessionSpec /\ Fairness

\* The same with consumers that only follow the events.
WritersSpec == SessionInit /\ [][SessionNext /\ seen' = seen]_allVars

Symm == Permutations(Ids) \cup Permutations(Threads) \cup Permutations(Subs)
=============================================================================
