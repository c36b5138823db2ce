------------------------------ MODULE AuthPool ------------------------------
(***************************************************************************)
(* The pool of login slots (control-plane/internal/adapter/k8s/auth_pool.go)*)
(* as the session service uses it: Create and Restore lease a slot before  *)
(* their pods exist, a freeze and Terminate give it back once the deletion *)
(* of the pods was accepted, and a lease left behind is reclaimed after a  *)
(* grace period.  A pod whose deletion was accepted runs on for its own    *)
(* grace period; nothing waits for its end.                                *)
(*                                                                         *)
(* A call is one run of Create, Snapshot (from its commit on), Restore or  *)
(* Terminate on some replica.  The Leases of the pool are shared, every    *)
(* write of one carries the resourceVersion it was read at: seen[c] is the *)
(* set of slots whose Lease nobody wrote since call c listed the pool, so  *)
(* a write of c succeeds exactly on those.                                 *)
(***************************************************************************)
EXTENDS Naturals, FiniteSets

CONSTANTS Sessions, Calls, None,
          N,           \* slots in the pool
          MaxFaults,   \* bound on failed requests and crashes
          Overtaking,  \* TRUE: a session's lock may expire under a live call
          LostReply,   \* TRUE: the write of a Lease may take effect and report an error
          Leaks        \* TRUE: a call may fail or die between the creation of its
                       \* pods and the record, and leave the pods behind

ASSUME PoolAssumption ==
    /\ N \in Nat \ {0} /\ MaxFaults \in Nat
    /\ None \notin Sessions /\ None \notin Calls
    /\ Overtaking \in BOOLEAN /\ LostReply \in BOOLEAN /\ Leaks \in BOOLEAN

VARIABLES
    lease,    \* lease[t]: the Lease of slot t, None while there is none
    rec,      \* rec[s]: the stored session and the round of pods it names
    fence,    \* fence[s]: the call that locked the session last
    pods,     \* the workload pods that run, with the slot each one mounts
    dying,    \* pods that were told to stop and still run
    pc, kind, sess,
    round,    \* the pods the call found in the record
    slot,     \* the slot the call holds, renews or releases
    seen, cand, cursor,
    faults

service == <<rec, fence, pods, dying>>
call    == <<kind, sess, round>>
picking == <<slot, cand, cursor>>
vars    == <<lease, rec, fence, pods, dying, pc, kind, sess, round, slot, seen, cand, cursor, faults>>

Slots  == 0 .. N - 1
States == {"signed-in", "unknown", "signed-out"}
Leases == [holder: Sessions \cup {None}, auth: States, old: BOOLEAN]
Pods   == [round: Calls, session: Sessions, slot: Slots]
Kinds  == {"create", "freeze", "restore", "terminate"}
Labels == {"idle", "commit", "stop", "finalize", "delete", "release", "releasePut", "list", "renew",
           "judge", "claim", "ensure", "provision", "publish", "discard", "done"}

ASSUME NoLeaseAssumption == None \notin Leases

Init ==
    /\ lease = [t \in Slots |-> None]
    /\ rec = [s \in Sessions |-> [state |-> "new", round |-> None]]
    /\ fence = [s \in Sessions |-> None]
    /\ pods = {} /\ dying = {}
    /\ pc = [c \in Calls |-> "idle"]
    /\ kind = [c \in Calls |-> None] /\ sess = [c \in Calls |-> None]
    /\ round = [c \in Calls |-> None]
    /\ slot = [c \in Calls |-> 0]
    /\ seen = [c \in Calls |-> {}]
    /\ cand = [c \in Calls |-> {}] /\ cursor = [c \in Calls |-> 0]
    /\ faults = 0

At(c, label)   == pc[c] = label
Goto(c, label) == pc' = [pc EXCEPT ![c] = label]
Live(c)        == pc[c] \notin {"idle", "done"}
Fault          == faults < MaxFaults /\ faults' = faults + 1

Holder(t) == IF lease[t] = None THEN None ELSE lease[t].holder
Held(s)   == {t \in Slots : Holder(t) = s}
Least(S)  == CHOOSE t \in S : \A u \in S : t <= u

\* Nobody else's copy of slot t's Lease is current any more.
Written(t) == [d \in Calls |-> seen[d] \ {t}]

\* Call c reads every Lease of the pool.
Listed(c)  == [seen EXCEPT ![c] = Slots]

-----------------------------------------------------------------------------
\* The calls of the service.

Create(c) ==
    /\ At(c, "idle")
    /\ \E s \in Sessions :
         /\ rec[s].state = "new" /\ \A d \in Calls : sess[d] # s
         /\ kind' = [kind EXCEPT ![c] = "create"] /\ sess' = [sess EXCEPT ![c] = s]
    /\ Goto(c, "list")
    /\ UNCHANGED <<lease, seen, faults, round, service, picking>>

\* Where a call of kind k goes on with the record it loaded under the lock.
Plan(k, state) ==
    CASE k = "terminate" -> "stop"
      [] state = "committing" -> "stop"
      [] k = "freeze" /\ state = "active" -> "commit"
      [] k = "restore" /\ state = "frozen" -> "list"
      [] OTHER -> "done"

Begin(c) ==
    /\ At(c, "idle")
    /\ \E s \in Sessions, k \in Kinds \ {"create"} :
         /\ rec[s].state \notin {"new", "gone"}
         /\ Overtaking \/ \A d \in Calls : sess[d] = s => ~Live(d)
         /\ kind' = [kind EXCEPT ![c] = k] /\ sess' = [sess EXCEPT ![c] = s]
         /\ round' = [round EXCEPT ![c] = rec[s].round]
         /\ fence' = [fence EXCEPT ![s] = c]
         /\ Goto(c, Plan(k, rec[s].state))
    /\ UNCHANGED <<lease, seen, faults, rec, pods, dying, picking>>

Fenced(c) == fence[sess[c]] = c

\* The archive is durable and the freeze is committed in the record.
Commit(c) ==
    /\ At(c, "commit")
    /\ IF Fenced(c) THEN /\ rec' = [rec EXCEPT ![sess[c]].state = "committing"]
                         /\ Goto(c, "stop")
                    ELSE Goto(c, "done") /\ UNCHANGED rec
    /\ UNCHANGED <<lease, seen, faults, fence, pods, dying, call, picking>>

\* The deletion of round r's pods is accepted.
Told(r) ==
    /\ pods' = {p \in pods : p.round # r}
    /\ dying' = dying \cup (pods \ pods')

Stop(c) ==
    /\ At(c, "stop")
    /\ Told(round[c])
    /\ Goto(c, IF kind[c] = "terminate" THEN "delete" ELSE "finalize")
    /\ UNCHANGED <<lease, seen, faults, rec, fence, call, picking>>

\* Someone else may have finished the freeze: that counts as success too.
Finalize(c) ==
    LET s == sess[c]
    IN  /\ At(c, "finalize")
        /\ IF Fenced(c)
             THEN /\ rec' = [rec EXCEPT ![s] = [state |-> "frozen", round |-> None]]
                  /\ Goto(c, "release")
             ELSE Goto(c, IF rec[s].state = "frozen" THEN "release" ELSE "done") /\ UNCHANGED rec
        /\ UNCHANGED <<lease, seen, faults, fence, pods, dying, call, picking>>

Delete(c) ==
    /\ At(c, "delete")
    /\ IF Fenced(c) THEN /\ rec' = [rec EXCEPT ![sess[c]] = [state |-> "gone", round |-> None]]
                         /\ Goto(c, "release")
                    ELSE Goto(c, "done") /\ UNCHANGED rec
    /\ UNCHANGED <<lease, seen, faults, fence, pods, dying, call, picking>>

-----------------------------------------------------------------------------
\* Release: it knows the session, not the lease it is about.

\* A restore that first finished an interrupted freeze goes on to acquire.
AfterRelease(c) == /\ Goto(c, IF kind[c] = "restore" /\ round[c] # None THEN "list" ELSE "done")
                   /\ round' = [round EXCEPT ![c] = None]

ReleaseList(c) ==
    /\ At(c, "release")
    /\ seen' = Listed(c)
    /\ IF Held(sess[c]) = {}
         THEN AfterRelease(c) /\ UNCHANGED slot
         ELSE /\ slot' = [slot EXCEPT ![c] = Least(Held(sess[c]))]
              /\ Goto(c, "releasePut") /\ UNCHANGED round
    /\ UNCHANGED <<lease, faults, service, kind, sess, cand, cursor>>

\* What the agent said of its login is recorded; "unknown" leaves the old word.
ReleasePut(c) ==
    /\ At(c, "releasePut")
    /\ IF slot[c] \in seen[c]
         THEN /\ \E a \in States :
                   lease' = [lease EXCEPT ![slot[c]] =
                               [holder |-> None, auth |-> IF a = "unknown" THEN @.auth ELSE a, old |-> FALSE]]
              /\ seen' = Written(slot[c])
              /\ AfterRelease(c)
         ELSE Goto(c, "release") /\ UNCHANGED <<lease, seen, round>>
    /\ UNCHANGED <<faults, service, kind, sess, picking>>

-----------------------------------------------------------------------------
\* Acquire.

\* Mutation: a slot the session still holds is not looked for.
ListAnew(c) ==
    /\ At(c, "list")
    /\ seen' = Listed(c)
    /\ cand' = [cand EXCEPT ![c] = {}] /\ cursor' = [cursor EXCEPT ![c] = 0]
    /\ Goto(c, "judge")
    /\ UNCHANGED <<lease, faults, slot, service, call>>

List(c) ==
    /\ At(c, "list")
    /\ seen' = Listed(c)
    /\ IF Held(sess[c]) # {}
         THEN slot' = [slot EXCEPT ![c] = Least(Held(sess[c]))] /\ Goto(c, "renew") /\ UNCHANGED <<cand, cursor>>
         ELSE /\ cand' = [cand EXCEPT ![c] = {}] /\ cursor' = [cursor EXCEPT ![c] = 0]
              /\ Goto(c, "judge") /\ UNCHANGED slot
    /\ UNCHANGED <<lease, faults, service, call>>

\* Mutation: a held slot is used again without a write of its Lease.
RenewNothing(c) ==
    /\ At(c, "renew")
    /\ Goto(c, "provision")
    /\ UNCHANGED <<lease, seen, faults, service, call, picking>>

\* Mutation: a conflict counts as a renewal.
RenewAnyway(c) ==
    /\ At(c, "renew")
    /\ lease' = IF slot[c] \in seen[c] THEN [lease EXCEPT ![slot[c]].old = FALSE] ELSE lease
    /\ seen' = Written(slot[c])
    /\ Goto(c, "provision")
    /\ UNCHANGED <<faults, service, call, picking>>

Renew(c) ==
    /\ At(c, "renew")
    /\ IF slot[c] \in seen[c]
         THEN /\ lease' = [lease EXCEPT ![slot[c]].old = FALSE]
              /\ seen' = Written(slot[c])
              /\ Goto(c, "provision")
         ELSE Goto(c, "list") /\ UNCHANGED <<lease, seen>>
    /\ UNCHANGED <<faults, service, call, picking>>

\* StaleHolder: the record is gone (or not written yet) or frozen.
Stale(s) == rec[s].state \in {"new", "gone", "frozen"}

Reclaimable(t) == Holder(t) = None \/ (lease[t].old /\ Stale(Holder(t)))

\* One slot is judged; a slot whose Lease has moved on is never won, whatever
\* the verdict, and one whose holder cannot be read is skipped.
Judge(c) ==
    /\ At(c, "judge")
    /\ cursor' = [cursor EXCEPT ![c] = @ + 1]
    /\ \/ /\ cand' = IF Reclaimable(cursor[c]) THEN [cand EXCEPT ![c] = @ \cup {cursor[c]}] ELSE cand
          /\ UNCHANGED faults
       \/ Holder(cursor[c]) # None /\ Fault /\ UNCHANGED cand
    /\ Goto(c, IF cursor[c] + 1 = N THEN "claim" ELSE "judge")
    /\ UNCHANGED <<lease, seen, slot, service, call>>

Rank(t) == IF lease[t] = None THEN 2
           ELSE CASE lease[t].auth = "signed-in" -> 0
                  [] lease[t].auth = "unknown" -> 1
                  [] OTHER -> 2

Best(S) == CHOOSE t \in S : \A u \in S : Rank(t) < Rank(u) \/ (Rank(t) = Rank(u) /\ t <= u)

Claimed(c, t) ==
    /\ lease' = [lease EXCEPT ![t] = [holder |-> sess[c], old |-> FALSE,
                                     auth |-> IF lease[t] = None THEN "unknown" ELSE lease[t].auth]]
    /\ seen' = Written(t)

\* Candidates are tried in order; those that moved on are lost without effect,
\* and one whose write reports an error is skipped, whatever it did.
Claim(c) ==
    LET open == cand[c] \cap seen[c]
        t == Best(open)
    IN  /\ At(c, "claim")
        /\ \/ open = {} /\ Goto(c, "done") /\ UNCHANGED <<lease, seen, slot, cand, faults>>
           \/ /\ open # {} /\ Claimed(c, t) /\ slot' = [slot EXCEPT ![c] = t]
              /\ Goto(c, "ensure") /\ UNCHANGED <<cand, faults>>
           \/ /\ open # {} /\ Fault /\ cand' = [cand EXCEPT ![c] = @ \ {t}]
              /\ UNCHANGED <<lease, seen>> \/ (LostReply /\ Claimed(c, t))
              /\ UNCHANGED <<pc, slot>>
        /\ UNCHANGED <<cursor, service, call>>

\* The slot's volume claim exists or is created; if not, the slot is given back.
Ensure(c) ==
    /\ At(c, "ensure")
    /\ \/ Goto(c, "provision") /\ UNCHANGED faults
       \/ Fault /\ Goto(c, "release")
    /\ UNCHANGED <<lease, seen, service, call, picking>>

-----------------------------------------------------------------------------
\* The pods that use the slot.

\* Start or RestoreInto; pods that do not come up are cleaned up there.
Provision(c) ==
    /\ At(c, "provision")
    /\ \/ /\ pods' = pods \cup {[round |-> c, session |-> sess[c], slot |-> slot[c]]}
          /\ Goto(c, "publish") /\ UNCHANGED faults
       \/ Fault /\ Goto(c, "release") /\ UNCHANGED pods
    /\ UNCHANGED <<lease, seen, rec, fence, dying, call, picking>>

\* Create stores the session; Restore swaps it from frozen to active, and when
\* its outcome cannot be learnt the slot stays held and the pods stay.
Publish(c) ==
    LET s == sess[c]
        written == [rec EXCEPT ![s] = [state |-> "active", round |-> c]]
    IN  /\ At(c, "publish")
        /\ \/ /\ kind[c] = "create" \/ Fenced(c)
              /\ rec' = written /\ Goto(c, "done") /\ UNCHANGED faults
           \/ kind[c] = "restore" /\ ~Fenced(c) /\ Goto(c, "discard") /\ UNCHANGED <<rec, faults>>
           \/ Fault /\ Goto(c, "discard") /\ UNCHANGED rec
           \/ kind[c] = "create" /\ Fault /\ Goto(c, "discard") /\ rec' = written
           \/ kind[c] = "restore" /\ Leaks /\ Fault /\ Goto(c, "done") /\ UNCHANGED rec
        /\ UNCHANGED <<lease, seen, fence, pods, dying, call, picking>>

\* The failed call deletes its pods.  Create does so on the request's context:
\* when that is what was cancelled, the deletion fails and nobody notices.
Discard(c) ==
    /\ At(c, "discard")
    /\ \/ Told(c) /\ UNCHANGED faults
       \/ Leaks /\ Fault /\ UNCHANGED <<pods, dying>>
    /\ Goto(c, "release")
    /\ UNCHANGED <<lease, seen, rec, fence, call, picking>>

-----------------------------------------------------------------------------
\* A request fails for good or the replica dies.
Crash(c) ==
    /\ Live(c)
    /\ At(c, "publish") \/ At(c, "discard") => Leaks
    /\ Fault
    /\ Goto(c, "done")
    /\ UNCHANGED <<lease, seen, service, call, picking>>

\* A pod that was told to stop ends.
PodGone(p) ==
    /\ dying' = dying \ {p}
    /\ UNCHANGED <<lease, rec, fence, pods, pc, call, picking, seen, faults>>

\* DefaultAuthPoolReclaimGrace passes; it outlasts one create or restore.
Age(t) ==
    /\ Holder(t) # None /\ ~lease[t].old
    /\ \A c \in Calls : sess[c] = Holder(t) /\ kind[c] \in {"create", "restore"} =>
          pc[c] \notin {"ensure", "provision", "publish", "discard"}
    /\ lease' = [lease EXCEPT ![t].old = TRUE]
    /\ UNCHANGED <<seen, faults, pc, service, call, picking>>

Step(c) ==
    \/ Create(c) \/ Begin(c) \/ Commit(c) \/ Stop(c) \/ Finalize(c) \/ Delete(c)
    \/ ReleaseList(c) \/ ReleasePut(c)
    \/ List(c) \/ Renew(c) \/ Judge(c) \/ Claim(c) \/ Ensure(c)
    \/ Provision(c) \/ Publish(c) \/ Discard(c)

Next == (\E c \in Calls : Step(c) \/ Crash(c)) \/ (\E t \in Slots : Age(t)) \/ (\E p \in dying : PodGone(p))

Spec == Init /\ [][Next]_vars

-----------------------------------------------------------------------------
\* Every variable holds a value of its kind; a call that has pods in the making
\* has a slot (acquireAuthSlot).
TypeOK ==
    /\ lease \in [Slots -> Leases \cup {None}]
    /\ rec \in [Sessions -> [state: {"new", "active", "committing", "frozen", "gone"},
                             round: Calls \cup {None}]]
    /\ fence \in [Sessions -> Calls \cup {None}]
    /\ pods \subseteq Pods /\ dying \subseteq Pods
    /\ pc \in [Calls -> Labels] /\ kind \in [Calls -> Kinds \cup {None}]
    /\ sess \in [Calls -> Sessions \cup {None}]
    /\ round \in [Calls -> Calls \cup {None}]
    /\ slot \in [Calls -> Slots] /\ cursor \in [Calls -> 0 .. N]
    /\ seen \in [Calls -> SUBSET Slots] /\ cand \in [Calls -> SUBSET Slots]
    /\ faults \in 0 .. MaxFaults

\* Two pods mount the same login slot only while at least one of them was already
\* told to stop: a refresh token that two pods renew breaks one of the logins
\* (LeaseAuthPool, "leases login slots exclusively").
SlotExclusive ==
    \A p, q \in pods \cup dying : p.slot = q.slot /\ p # q => p \in dying \/ q \in dying

\* What docs/prd/agent-auth-pool.md says of running pods, the terminating ones
\* included: no two of them use one slot at a time.
OnePodPerSlot == \A p, q \in pods \cup dying : p.slot = q.slot => p = q

\* The pods of two stored, active sessions never share a slot, however late the
\* release of an earlier freeze comes (Release frees the session's own slot only).
SessionsKeepApart ==
    \A p, q \in pods : p.slot = q.slot /\ rec[p.session] = [state |-> "active", round |-> p.round]
                      /\ rec[q.session] = [state |-> "active", round |-> q.round] => p = q

\* A Lease changes hands, or is freed, only when every pod of its holder that
\* mounts the slot was told to stop: neither a reclaim that judged the holder
\* earlier nor a late release takes the slot of a session that came back meanwhile.
RunningKeepsLease ==
    [][ \A p \in pods : Holder(p.slot) = p.session =>
           Holder(p.slot)' = p.session \/ p \notin pods' ]_vars

\* A session never holds two slots, so that its one Release frees all it has.
OneSlotPerSession == \A s \in Sessions : Cardinality(Held(s)) <= 1

=============================================================================
