----------------------------- MODULE DurableMap -----------------------------
(***************************************************************************)
(* What a tenant promises about its records, whatever files it keeps them  *)
(* in.  An open tenant is a map; insert and delete are atomic.  The vector *)
(* of an insert is durable at once.  The metadata of a record is durable   *)
(* from a flush on: a flush that is cut loses the earlier one, and a       *)
(* tenant whose metadata is lost does not open.  Without a flush, closing  *)
(* or crashing falls back to the metadata flushed last.  Only a directory  *)
(* that is asked for as a target of a copy or a removal loses anything     *)
(* else.                                                                   *)
(***************************************************************************)
EXTENDS Naturals

CONSTANTS
    Dirs, Ids,
    Vers,      \* versions: the data of one insert each, all of them positive
    None       \* no tenant is open

VARIABLES
    open,      \* the directory of the open tenant
    vol,       \* its records: id and version of the metadata
    dur,       \* the durable metadata of each directory
    vec,       \* the durable vectors of each directory, 0 for none
    targets    \* directories being copied over or removed

\* The metadata of a directory: the records of a whole one, none, or some that
\* cannot be read.
Whole(recs) == [is |-> "whole", recs |-> recs]
Absent      == [is |-> "absent", recs |-> {}]
Lost        == [is |-> "lost", recs |-> {}]

mapVars == <<open, vol, dur, vec, targets>>

Init ==
    /\ open = None
    /\ vol = {}
    /\ dur = [d \in Dirs |-> Absent]
    /\ vec = [d \in Dirs |-> [i \in Ids |-> 0]]
    /\ targets = {}

\* Metadata is created only where there is none, beside whatever vectors ...
Create(d) ==
    /\ open = None /\ dur[d] = Absent
    /\ open' = d
    /\ vol' = {}
    /\ dur' = [dur EXCEPT ![d] = Whole({})]
    /\ UNCHANGED vec

\* ... and is lost when that is cut.
CutCreate(d) ==
    /\ open = None /\ dur[d] = Absent
    /\ dur' = [dur EXCEPT ![d] = Lost]
    /\ UNCHANGED <<open, vol, vec>>

Open(d) ==
    /\ open = None /\ dur[d].is = "whole"
    /\ open' = d
    /\ vol' = dur[d].recs
    /\ UNCHANGED <<dur, vec>>

Others(i) == {r \in vol : r.id # i}

Insert(i, v) ==
    /\ open # None
    /\ vol' = Others(i) \cup {[id |-> i, ver |-> v]}
    /\ vec' = [vec EXCEPT ![open] = [@ EXCEPT ![i] = v]]
    /\ UNCHANGED <<open, dur>>

Delete(i) ==
    /\ open # None
    /\ vol' = Others(i)
    /\ UNCHANGED <<open, dur, vec>>

\* A flush begins to overwrite the metadata ...
Cut ==
    /\ open # None
    /\ dur' = [dur EXCEPT ![open] = Lost]
    /\ UNCHANGED <<open, vol, vec>>

\* ... and completes.
Flush ==
    /\ open # None
    /\ dur' = [dur EXCEPT ![open] = Whole(vol)]
    /\ UNCHANGED <<open, vol, vec>>

\* The metadata of a target is never a mixture; of its vectors nothing is
\* promised.
Disturb ==
    \E d \in targets :
        /\ dur'[d] \in {dur[s] : s \in Dirs} \cup {Absent, Lost}
        /\ dur' = [dur EXCEPT ![d] = dur'[d]]
        /\ vec' = [vec EXCEPT ![d] = vec'[d]]

Elsewhere == Disturb \/ UNCHANGED <<dur, vec>>

\* Closed, crashed or about to be destroyed.
Leave ==
    /\ open # None
    /\ open' = None
    /\ vol' = {}
    /\ Elsewhere

Step ==
    \/ \E d \in Dirs : Create(d) \/ CutCreate(d) \/ Open(d)
    \/ \E i \in Ids : Delete(i) \/ \E v \in Vers : Insert(i, v)
    \/ Cut
    \/ Flush
    \/ Elsewhere /\ UNCHANGED <<open, vol>>
    \/ Leave

\* Any step may begin or end a copy or a removal, but not of the open tenant.
Next == Step /\ targets' \in SUBSET (Dirs \ {open'})

Spec == Init /\ [][Next]_mapVars
=============================================================================
