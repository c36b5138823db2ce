----------------------------- MODULE LeaseStore -----------------------------
(***************************************************************************)
(* The ConfigMap + Lease state store, for ONE session record               *)
(* (control-plane/internal/adapter/configmap/store.go), one action per     *)
(* request to the Kubernetes API.                                          *)
(*                                                                         *)
(* A resourceVersion serves one purpose here: an Update or Delete that     *)
(* carries it fails unless the object is still the one the caller read.    *)
(* cmFresh (leaseFresh) is the set of callers whose last Get of the        *)
(* ConfigMap (Lease) is still current, so every write empties it.          *)
(*                                                                         *)
(* Whether a Lease has expired is left open: a holder may stall and clocks *)
(* may disagree, so the store must be safe when any holder is overtaken.   *)
(***************************************************************************)
EXTENDS Naturals

CONSTANTS Ops,            \* lifecycle operations; the token is the operation
          Clients,        \* requests that work without the lock
          States,         \* session.State values
          Pods,           \* values of Session.Pod
          Times,          \* values of Session.LastAccess
          putMaxRetries,  \* bound of the optimistic retry loops
          None            \* nothing: no holder, no owner, no record

ASSUME OpsAssumption == None \notin Ops /\ Ops \cap Clients = {}
ASSUME RecordAssumption ==
    /\ Times \subseteq Nat
    /\ "active" \in States
    /\ None \notin [state: States, txn: Ops \cup {None}, pod: Pods, access: Times]
ASSUME RetriesAssumption == putMaxRetries \in Nat

VARIABLES
    record,      \* the session encoded in the ConfigMap, None = no ConfigMap
    owner,       \* annotation lifecycle-owner of the ConfigMap
    cmFresh,     \* callers whose last Get of the ConfigMap is current
    holder,      \* spec.holderIdentity of the Lease, None = no Lease
    leaseFresh,  \* callers whose last Get of the Lease is current
    clock,       \* how often the Lease has been taken (history)
    rank,        \* rank[p]: clock when p took it, 0 = never (history)
    pc,          \* the next request of each caller
    tries,       \* attempt, in the retry loops
    seen,        \* the session as the caller's service code knows it
    want         \* the object the caller is about to write

cm    == <<record, owner, cmFresh>>
lease == <<holder, leaseFresh, clock, rank>>
local == <<tries, seen, want>>
vars  == <<record, owner, cmFresh, holder, leaseFresh, clock, rank, pc, tries, seen, want>>

Callers  == Ops \cup Clients
Sessions == [state: States, txn: Ops \cup {None}, pod: Pods, access: Times]
Locking  == {"leaseGet", "takeOver"}
Claiming == {"claimGet", "renewGet", "renewPut", "claimPut", "confirmGet", "confirmPut"}
Holding  == {"held", "swapPut", "removeGet", "removePut"}
Leaving  == {"unlockGet", "unlockDel", "done"}
Writing  == {"touchPut", "restatePut"}
Labels   == {"idle"} \cup Locking \cup Claiming \cup Holding \cup Leaving \cup Writing

At(p, label) == pc[p] = label
Goto(p, label) == pc' = [pc EXCEPT ![p] = label]

Init ==
    /\ record \in [state: States, txn: {None}, pod: Pods, access: Times]
    /\ owner = None
    /\ holder = None
    /\ cmFresh = {} /\ leaseFresh = {}
    /\ clock = 0
    /\ rank = [p \in Ops |-> 0]
    /\ pc = [p \in Callers |-> "idle"]
    /\ tries = [p \in Callers |-> 0]
    /\ seen = [p \in Callers |-> None]
    /\ want = [p \in Callers |-> None]

-----------------------------------------------------------------------------
\* Lock.

\* The Lease becomes p's, whoever held it.
TakeLease(p) == /\ holder' = p
                /\ leaseFresh' = {}
                /\ clock' = clock + 1
                /\ rank' = [rank EXCEPT ![p] = clock + 1]

\* Creating the Lease is the atomic claim; AlreadyExists sends p to look at it.
LeaseCreate(p) ==
    /\ At(p, "idle")
    /\ \/ holder = None /\ TakeLease(p) /\ Goto(p, "claimGet")
       \/ holder # None /\ Goto(p, "leaseGet") /\ UNCHANGED lease
    /\ UNCHANGED <<cm, local>>

\* A Lease that is gone or not expired is a conflict; an expired one may be taken.
LeaseGet(p) ==
    /\ At(p, "leaseGet")
    /\ \/ Goto(p, "done") /\ UNCHANGED leaseFresh
       \/ holder # None /\ Goto(p, "takeOver") /\ leaseFresh' = leaseFresh \cup {p}
    /\ UNCHANGED <<cm, holder, clock, rank, local>>

TakeOver(p) ==
    /\ At(p, "takeOver")
    /\ \/ p \in leaseFresh /\ TakeLease(p) /\ Goto(p, "claimGet")
       \/ p \notin leaseFresh /\ Goto(p, "done") /\ UNCHANGED lease
    /\ UNCHANGED <<cm, local>>

\* claimLifecycleOwner: read the record, renew the Lease, fence the record,
\* renew the Lease again.
ClaimGet(p) ==
    /\ At(p, "claimGet")
    /\ cmFresh' = IF record = None THEN cmFresh ELSE cmFresh \cup {p}
    /\ Goto(p, CASE record = None -> "held"
                 [] record # None /\ owner = p -> "confirmGet"
                 [] OTHER -> "renewGet")
    /\ UNCHANGED <<record, owner, lease, local>>

\* Renew, first request: only the holder goes on.
RenewGet(p) ==
    /\ pc[p] \in {"renewGet", "confirmGet"}
    /\ IF holder = p
         THEN /\ leaseFresh' = leaseFresh \cup {p}
              /\ Goto(p, IF At(p, "renewGet") THEN "renewPut" ELSE "confirmPut")
         ELSE Goto(p, "unlockGet") /\ UNCHANGED leaseFresh
    /\ UNCHANGED <<cm, holder, clock, rank, local>>

\* Renew, second request: writes the Lease back as it was read, with p's name.
RenewPut(p) ==
    /\ pc[p] \in {"renewPut", "confirmPut"}
    /\ IF p \in leaseFresh
         THEN /\ holder' = p
              /\ leaseFresh' = {}
              /\ Goto(p, IF At(p, "renewPut") THEN "claimPut" ELSE "held")
         ELSE Goto(p, "unlockGet") /\ UNCHANGED <<holder, leaseFresh>>
    /\ UNCHANGED <<cm, clock, rank, local>>

\* Mutation: the annotation is patched without a resourceVersion.
ClaimPutUnguarded(p) ==
    /\ At(p, "claimPut")
    /\ owner' = IF record = None THEN owner ELSE p
    /\ cmFresh' = {}
    /\ Goto(p, IF record = None THEN "held" ELSE "confirmGet")
    /\ UNCHANGED <<record, lease, local>>

ClaimPut(p) ==
    /\ At(p, "claimPut")
    /\ \/ /\ record # None /\ p \in cmFresh
          /\ owner' = p /\ cmFresh' = {}
          /\ Goto(p, "confirmGet")
          /\ UNCHANGED tries
       \/ /\ record # None /\ p \notin cmFresh
          /\ IF tries[p] < putMaxRetries
               THEN tries' = [tries EXCEPT ![p] = @ + 1] /\ Goto(p, "claimGet")
               ELSE Goto(p, "unlockGet") /\ UNCHANGED tries
          /\ UNCHANGED <<owner, cmFresh>>
       \/ record = None /\ Goto(p, "held") /\ UNCHANGED <<owner, cmFresh, tries>>
    /\ UNCHANGED <<record, lease, seen, want>>

-----------------------------------------------------------------------------
\* Requests of a lock holder.

\* The service's renewLeaseContext goroutine, in the background of p.
Heartbeat(p) ==
    /\ pc[p] \in Holding
    /\ holder = p /\ leaseFresh' = {}
    /\ UNCHANGED <<cm, holder, clock, rank, pc, local>>

Get(p) ==
    /\ At(p, "held")
    /\ seen' = [seen EXCEPT ![p] = record]
    /\ UNCHANGED <<cm, lease, pc, tries, want>>

\* What may be replaced: the record p knows, as far as state and transaction tell.
SameExpected(p) == record.state = seen[p].state /\ record.txn = seen[p].txn

Later(s, t) == IF s > t THEN s ELSE t

\* Mutation: the caller's LastAccess wins.
ReplacementUnmerged(p, state, txn, pod) ==
    [state |-> state, txn |-> txn, pod |-> pod, access |-> seen[p].access]

\* The replacement keeps the later of the two recorded accesses.
Replacement(p, state, txn, pod) ==
    [state |-> state, txn |-> txn, pod |-> pod, access |-> Later(record.access, seen[p].access)]

\* Mutation: only state and transaction are compared, not the owner.
SwapGetUnfenced(p) ==
    /\ At(p, "held") /\ seen[p] # None
    /\ record # None /\ SameExpected(p)
    /\ \E state \in States, txn \in {None, p}, pod \in Pods :
          want' = [want EXCEPT ![p] = Replacement(p, state, txn, pod)]
    /\ cmFresh' = cmFresh \cup {p}
    /\ Goto(p, "swapPut")
    /\ UNCHANGED <<record, owner, lease, tries, seen>>

\* CompareAndSwapSession, first request.
SwapGet(p) ==
    /\ At(p, "held") /\ seen[p] # None
    /\ record # None /\ owner = p /\ SameExpected(p)
    /\ \E state \in States, txn \in {None, p}, pod \in Pods :
          want' = [want EXCEPT ![p] = Replacement(p, state, txn, pod)]
    /\ cmFresh' = cmFresh \cup {p}
    /\ Goto(p, "swapPut")
    /\ UNCHANGED <<record, owner, lease, tries, seen>>

SwapPut(p) ==
    /\ At(p, "swapPut")
    /\ IF p \in cmFresh
         THEN /\ record' = want[p] /\ cmFresh' = {}
              /\ seen' = [seen EXCEPT ![p] = want[p]]
         ELSE UNCHANGED <<record, cmFresh, seen>>
    /\ want' = [want EXCEPT ![p] = None]
    /\ Goto(p, "held")
    /\ UNCHANGED <<owner, lease, tries>>

\* Delete, with its retry loop; a record that is gone counts as deleted.
RemoveStart(p) == /\ At(p, "held")
                  /\ Goto(p, "removeGet")
                  /\ tries' = [tries EXCEPT ![p] = 0]
                  /\ UNCHANGED <<cm, lease, seen, want>>

\* Mutation: Delete does not ask who owns the record.
RemoveGetUnfenced(p) ==
    /\ At(p, "removeGet")
    /\ IF record # None
         THEN Goto(p, "removePut") /\ cmFresh' = cmFresh \cup {p}
         ELSE Goto(p, "unlockGet") /\ UNCHANGED cmFresh
    /\ UNCHANGED <<record, owner, lease, local>>

RemoveGet(p) ==
    /\ At(p, "removeGet")
    /\ IF record # None /\ owner = p
         THEN Goto(p, "removePut") /\ cmFresh' = cmFresh \cup {p}
         ELSE Goto(p, "unlockGet") /\ UNCHANGED cmFresh
    /\ UNCHANGED <<record, owner, lease, local>>

RemovePut(p) ==
    /\ At(p, "removePut")
    /\ \/ /\ p \in cmFresh
          /\ record' = None /\ owner' = None /\ cmFresh' = {}
          /\ Goto(p, "unlockGet")
          /\ UNCHANGED tries
       \/ /\ p \notin cmFresh
          /\ IF record # None /\ tries[p] < putMaxRetries
               THEN tries' = [tries EXCEPT ![p] = @ + 1] /\ Goto(p, "removeGet")
               ELSE Goto(p, "unlockGet") /\ UNCHANGED tries
          /\ UNCHANGED <<record, owner, cmFresh>>
    /\ UNCHANGED <<lease, seen, want>>

-----------------------------------------------------------------------------
\* Unlock, and the ways an operation ends early.

\* The call's local variables die with it.
Forget(p) == /\ seen' = [seen EXCEPT ![p] = None]
             /\ want' = [want EXCEPT ![p] = None]

\* The operation is over, or its context was cancelled, or a request failed
\* with or without effect: the deferred Unlock runs on its own context.
Leave(p) ==
    /\ pc[p] \in Claiming \cup Holding
    /\ Goto(p, "unlockGet")
    /\ Forget(p)
    /\ UNCHANGED <<cm, lease, tries>>

\* The replica dies, or Lock's own Lease request is lost: nothing is cleaned up.
Crash(p) ==
    /\ pc[p] \notin {"idle", "done"}
    /\ Goto(p, "done")
    /\ Forget(p)
    /\ UNCHANGED <<cm, lease, tries>>

UnlockGet(p) ==
    /\ At(p, "unlockGet")
    /\ IF holder = p
         THEN Goto(p, "unlockDel") /\ leaseFresh' = leaseFresh \cup {p}
         ELSE Goto(p, "done") /\ UNCHANGED leaseFresh
    /\ UNCHANGED <<cm, holder, clock, rank, local>>

UnlockDel(p) ==
    /\ At(p, "unlockDel")
    /\ IF p \in leaseFresh THEN holder' = None /\ leaseFresh' = {}
                           ELSE UNCHANGED <<holder, leaseFresh>>
    /\ Goto(p, "done")
    /\ UNCHANGED <<cm, clock, rank, local>>

-----------------------------------------------------------------------------
\* Requests that take no lock.

\* Touch: only a later access than the recorded one is written.
TouchGet(c) ==
    /\ At(c, "idle") /\ record # None
    /\ \E t \in Times : /\ t > record.access
                        /\ want' = [want EXCEPT ![c] = [record EXCEPT !.access = t]]
    /\ cmFresh' = cmFresh \cup {c}
    /\ Goto(c, "touchPut")
    /\ UNCHANGED <<record, owner, lease, tries, seen>>

\* CompareAndSwapState(idle, active), the only way the service calls it.
RestateGet(c) ==
    /\ At(c, "idle") /\ record # None /\ record.state = "idle"
    /\ want' = [want EXCEPT ![c] = [record EXCEPT !.state = "active"]]
    /\ cmFresh' = cmFresh \cup {c}
    /\ Goto(c, "restatePut")
    /\ UNCHANGED <<record, owner, lease, tries, seen>>

\* The Update of either; a lost race makes Touch start over and the state
\* change report a conflict.
ClientPut(c) ==
    /\ pc[c] \in Writing
    /\ IF c \in cmFresh THEN record' = want[c] /\ cmFresh' = {}
                        ELSE UNCHANGED <<record, cmFresh>>
    /\ want' = [want EXCEPT ![c] = None]
    /\ Goto(c, "idle")
    /\ UNCHANGED <<owner, lease, tries, seen>>

-----------------------------------------------------------------------------
OpNext(p) ==
    \/ LeaseCreate(p) \/ LeaseGet(p) \/ TakeOver(p)
    \/ ClaimGet(p) \/ RenewGet(p) \/ RenewPut(p) \/ ClaimPut(p)
    \/ Heartbeat(p) \/ Get(p) \/ SwapGet(p) \/ SwapPut(p)
    \/ RemoveStart(p) \/ RemoveGet(p) \/ RemovePut(p)
    \/ Leave(p) \/ Crash(p) \/ UnlockGet(p) \/ UnlockDel(p)

ClientNext(c) == TouchGet(c) \/ RestateGet(c) \/ ClientPut(c)

Next == (\E p \in Ops : OpNext(p)) \/ (\E c \in Clients : ClientNext(c))

Spec == Init /\ [][Next]_vars

-----------------------------------------------------------------------------
\* Properties.

\* Every variable holds a value of its kind.
TypeOK ==
    /\ record \in Sessions \cup {None}
    /\ owner \in Ops \cup {None}
    /\ cmFresh \subseteq Callers
    /\ holder \in Ops \cup {None}
    /\ leaseFresh \subseteq Ops
    /\ clock \in Nat
    /\ rank \in [Ops -> Nat]
    /\ pc \in [Callers -> Labels]
    /\ tries \in [Callers -> Nat]
    /\ seen \in [Callers -> Sessions \cup {None}]
    /\ want \in [Callers -> Sessions \cup {None}]

FenceRank == IF owner = None THEN 0 ELSE rank[owner]

\* The store keeps what FencedStore promises the service.
Fenced == INSTANCE FencedStore
            WITH locked <- {p \in Ops : pc[p] \in Holding},
                 view <- [p \in Ops |-> IF pc[p] \in Holding THEN seen[p] ELSE None]

\* FencedStore!Spec: every run of requests is, seen through the record, the
\* fence and the calls that have returned, a run of the atomic fenced store.
ImplementsFencedStore == Fenced!Spec

\* Lock's promise to the service (claimLifecycleOwner): from the moment Lock
\* returns to p until p leaves, no operation that took the Lease before p is
\* the owner that CompareAndSwapSession and Delete ask for.
LockedIsFenced ==
    \A p \in Ops : pc[p] \in Holding /\ record # None => rank[p] <= FenceRank

\* The operation that commits or deletes in this step took the Lease after
\* every operation whose Lock has returned.
CommitterIsLatest ==
    \A p \in Ops : pc[p] \in {"swapPut", "removePut"} /\ pc'[p] # pc[p] /\ record' # record
                   => \A q \in Ops : pc[q] \in Holding => rank[q] <= rank[p]

\* An overtaken holder that wakes up late commits and deletes nothing
\* (the annotation check in CompareAndSwapSession and Delete).
NoStaleCommit == [][CommitterIsLatest]_vars

\* The lifecycle owner annotation moves only towards later takers of the Lease.
FenceMovesForward ==
    [][ record' # None => FenceRank <= FenceRank' ]_vars

\* Unlock deletes only the caller's Lease: the Lease of a successor that took
\* over between the Get and the Delete survives (Unlock's precondition).
UnlockSparesSuccessor ==
    [][ holder' = None => (holder = None \/ (At(holder, "unlockDel") /\ pc'[holder] = "done")) ]_vars

\* LastAccess never goes back, whatever CompareAndSwapSession writes over a
\* Touch that it has not seen.
AccessMonotone ==
    [][ record # None /\ record' # None => record'.access >= record.access ]_vars

\* CompareAndSwapSession compares only state and transaction, and yet never
\* overwrites a lifecycle field (the pod) that p has not seen.
NoLostUpdate ==
    \A p \in Ops : At(p, "swapPut") /\ p \in cmFresh => record.pod = seen[p].pod

-----------------------------------------------------------------------------
\* The inductive invariant behind these properties, by part.

\* Takers of the Lease are ranked in order, and its holder is the last of them.
RankInv ==
    /\ \A p \in Ops : rank[p] <= clock
    /\ \A p, q \in Ops : p # q /\ rank[p] = rank[q] => rank[p] = 0
    /\ \A p \in Ops : pc[p] \in {"idle"} \cup Locking => rank[p] = 0
    /\ \A p \in Ops : pc[p] \in Claiming \cup Holding => rank[p] > 0
    /\ holder # None => rank[holder] = clock /\ clock > 0
    /\ owner # None => rank[owner] > 0

\* Whoever is about to write back a Lease it read as its own still holds it,
\* unless the write is going to fail.
LeaseInv ==
    \A p \in leaseFresh : pc[p] \in {"renewPut", "confirmPut", "unlockDel"} => holder = p

\* An annotation Update that will succeed moves the fence forward, and who has
\* made it is fenced for as long as it stays.
FenceInv ==
    \A p \in Ops :
       /\ pc[p] \in {"renewGet", "renewPut", "claimPut"} /\ p \in cmFresh => owner # p
       /\ pc[p] = "claimPut" /\ p \in cmFresh => FenceRank <= rank[p]
       /\ pc[p] \in {"confirmGet", "confirmPut"} \cup Holding /\ record # None => rank[p] <= FenceRank

\* The owner knows the pod of the record; a write that will succeed replaces
\* exactly what its caller read.
WriteInv ==
    /\ \A p \in Ops :
         /\ pc[p] \in {"idle"} \cup Locking \cup Claiming => seen[p] = None
         /\ pc[p] \in Holding /\ owner = p /\ record # None /\ seen[p] # None => record.pod = seen[p].pod
         /\ pc[p] = "swapPut" /\ p \in cmFresh =>
              /\ record # None /\ owner = p
              /\ seen[p] # None /\ SameExpected(p)
              /\ want[p] # None /\ want[p].access >= record.access
         /\ pc[p] = "removePut" /\ p \in cmFresh => record # None /\ owner = p
    /\ \A c \in Clients : pc[c] \in Writing /\ c \in cmFresh =>
         /\ record # None /\ want[c] # None
         /\ pc[c] = "touchPut" => want[c].access > record.access
                                 /\ want[c] = [record EXCEPT !.access = want[c].access]
         /\ pc[c] = "restatePut" => record.state = "idle" /\ want[c] = [record EXCEPT !.state = "active"]

\* Everything the store relies on between two requests of the same call.
Inv == TypeOK /\ RankInv /\ LeaseInv /\ FenceInv /\ WriteInv

=============================================================================
