---------------------------- MODULE FencedStore ----------------------------
(***************************************************************************)
(* What the state store promises the service about ONE session record      *)
(* (control-plane/internal/store/store.go, interface StateStore).          *)
(*                                                                         *)
(* Lifecycle operations queue for the occupancy lock; the order in which   *)
(* they take it is their rank.  An operation becomes the record's owner    *)
(* (the fence) before Lock returns to it, and the fence only ever moves to *)
(* a later rank.  Only the owner commits or removes the record, and a      *)
(* commit never overwrites a lifecycle field that the committer has not    *)
(* seen.  Recording an access needs no lock and touches nothing else.      *)
(***************************************************************************)
EXTENDS Naturals

CONSTANTS Ops,      \* lifecycle operations; an operation is its lock token
          States,   \* session.State values
          Pods,     \* values of Session.Pod
          Times,    \* values of Session.LastAccess
          None      \* nothing: no owner, no transaction, no record

VARIABLES record,   \* the stored session, or None
          owner,    \* the operation that fences the record, or None
          clock,    \* how often the occupancy lock has been taken
          rank,     \* rank[p]: when p took the occupancy lock; 0 = not yet
          locked,   \* the operations whose Lock has returned and not yet ended
          view      \* view[p]: the record as p last read or wrote it

vars == <<record, owner, clock, rank, locked, view>>

Sessions == [state: States, txn: Ops \cup {None}, pod: Pods, access: Times]

\* The rank of the current fence; an unfenced record precedes everyone.
FenceRank == IF owner = None THEN 0 ELSE rank[owner]

\* The fields that only a lifecycle operation changes.
Lifecycle(r) == <<r.state, r.txn, r.pod>>

Init == /\ record \in [state: States, txn: {None}, pod: Pods, access: Times]
        /\ owner = None
        /\ clock = 0
        /\ rank = [p \in Ops |-> 0]
        /\ locked = {}
        /\ view = [p \in Ops |-> None]

\* p takes the occupancy lock, behind everyone who took it before.
Queue(p) == /\ rank[p] = 0
            /\ clock' = clock + 1
            /\ rank' = [rank EXCEPT ![p] = clock']
            /\ UNCHANGED <<record, owner, locked, view>>

\* The fence moves forward to p.
Fence(p) == /\ record # None
            /\ FenceRank < rank[p]
            /\ owner' = p
            /\ UNCHANGED <<record, clock, rank, locked, view>>

\* Lock returns to p: p is the fence, or there is nothing left to fence.
Grant(p) == /\ p \notin locked
            /\ owner = p \/ record = None
            /\ locked' = locked \cup {p}
            /\ UNCHANGED <<record, owner, clock, rank, view>>

Release(p) == /\ p \in locked
              /\ locked' = locked \ {p}
              /\ view' = [view EXCEPT ![p] = None]
              /\ UNCHANGED <<record, owner, clock, rank>>

Read(p) == /\ p \in locked
           /\ view' = [view EXCEPT ![p] = record]
           /\ UNCHANGED <<record, owner, clock, rank, locked>>

\* The owner replaces the lifecycle fields it has seen; accesses recorded
\* meanwhile survive.
Commit(p) == /\ p \in locked /\ owner = p /\ record # None /\ view[p] # None
             /\ Lifecycle(view[p]) = Lifecycle(record)
             /\ record' \in Sessions
             /\ record'.access >= record.access
             /\ view' = [view EXCEPT ![p] = record']
             /\ UNCHANGED <<owner, clock, rank, locked>>

\* The owner deletes the record and is done with it.
Remove(p) == /\ p \in locked /\ owner = p
             /\ record' = None
             /\ owner' = None
             /\ locked' = locked \ {p}
             /\ view' = [view EXCEPT ![p] = None]
             /\ UNCHANGED <<clock, rank>>

\* Any replica records an access: it only moves forward.
Touch == /\ record # None
         /\ \E t \in Times : t > record.access /\ record' = [record EXCEPT !.access = t]
         /\ UNCHANGED <<owner, clock, rank, locked, view>>

\* Any replica reactivates an idle session; no lock is needed for that.
Reactivate == /\ record # None /\ record.state = "idle"
              /\ record' = [record EXCEPT !.state = "active"]
              /\ UNCHANGED <<owner, clock, rank, locked, view>>

Next == \/ \E p \in Ops : \/ Queue(p) \/ Fence(p) \/ Grant(p) \/ Release(p)
                          \/ Read(p) \/ Commit(p) \/ Remove(p)
        \/ Touch \/ Reactivate

Spec == Init /\ [][Next]_vars

=============================================================================
