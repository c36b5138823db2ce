------------------------- MODULE SnapshotLifecycle -------------------------
(***************************************************************************)
(* The life of ONE session across control-plane replicas                   *)
(* (control-plane/internal/service/manager.go): snapshot, idle reaping,    *)
(* recovery of an interrupted snapshot, restore, termination and client    *)
(* writes, over the fenced state store, the pods of the cluster and the    *)
(* data-plane agent's admission gate.                                      *)
(*                                                                         *)
(* An operation is one call of the service; its lock token, the archive    *)
(* generation it writes and the pods it restores into all carry its name.  *)
(* The store is the atomic one of FencedStore (which LeaseStore            *)
(* implements): Lock makes the operation the record's fence, and a live    *)
(* holder may be overtaken when Overtaking allows it.                      *)
(*                                                                         *)
(* Each pod set ("round") has a workload pod and a helper pod.  Writes a   *)
(* client got acknowledged are counted, not spelled out: an agent's        *)
(* content is the number of acknowledged writes its filesystem holds.      *)
(***************************************************************************)
EXTENDS Naturals

CONSTANTS Ops,          \* calls of the service that take the session lock
          Writers,      \* client writes; each is acknowledged at most once
          First,        \* the round Create provisioned
          None,
          Kinds,        \* which calls are made
          MaxFaults,    \* bound on crashes, cancellations, failed requests and restarts
          MaxRestarts,  \* how many of them restart an agent's container
          Overtaking,   \* TRUE: a Lease may expire under a live holder, or
                        \* under a request that its holder has sent
          LostReply     \* TRUE: Restore's commit may succeed and report an error

AllKinds == {"snapshot", "reap", "recover", "restore", "terminate"}

ASSUME LifecycleAssumption ==
    /\ None \notin Ops /\ First \notin Ops /\ First # None
    /\ Kinds \subseteq AllKinds
    /\ MaxFaults \in Nat /\ MaxRestarts \in Nat
    /\ Overtaking \in BOOLEAN /\ LostReply \in BOOLEAN

VARIABLES
    rec,       \* the stored session, None once deleted
    fence,     \* the operation whose token the record's owner annotation holds
    pods,      \* the pods that exist
    agent,     \* per round: admission gate, generation that closed it, content
    archive,   \* archive[g]: content in the archive of generation g
    call,      \* call[g]: the /checkpoint request of generation g
    accepted,  \* how many writes clients got acknowledged
    pc, kind,  \* where each operation is, and which call it is
    sess,      \* the operation's copy of the session
    writer,    \* where each client write is
    faults, restarts

store == <<rec, fence>>
plane == <<pods, agent, archive, call>>
ops   == <<pc, kind, sess>>
env   == <<accepted, writer>>
count == <<faults, restarts>>
vars  == <<rec, fence, pods, agent, archive, call, accepted, pc, kind, sess, writer, faults, restarts>>

Rounds   == Ops \cup {First}
Workload(r) == <<r, "workload">>
Helper(r)   == <<r, "helper">>
Txns     == [gen: Ops, owner: Ops, src: Rounds, phase: {"preparing", "committing"}]
Sessions == [state: {"active", "snapshot"}, pod: Rounds \cup {None}, ckpt: Ops \cup {None},
             accessed: {0, 1}, txn: Txns \cup {None}]
Gates    == {"awaiting", "open", "streaming", "ready"}
Labels   == {"idle", "load", "recover", "abort", "clear", "cutoff", "holding", "hold", "prepare",
             "send", "await", "commit", "rollback", "rollbackClear", "stop", "stopHelper", "finalize",
             "provision", "provisionWorkload", "apply", "activate", "verify",
             "discard", "discardHelper", "adopt", "delete", "done"}

\* What a client's write has come to, once an agent took it.
Fates    == {"served", "touched", "unrecorded"}

ASSUME NamesAssumption == None \notin Sessions /\ None \notin Txns /\ (Rounds \cup {None}) \cap Fates = {}

\* A session that Create has just stored, not accessed since the reaper's cutoff.
Init ==
    /\ rec = [state |-> "active", pod |-> First, ckpt |-> None, accessed |-> 0, txn |-> None]
    /\ fence = None
    /\ pods = {Workload(First), Helper(First)}
    /\ agent = [r \in Rounds |-> [gate |-> IF r = First THEN "open" ELSE "awaiting",
                                  gen |-> None, content |-> 0]]
    /\ archive = [g \in Ops |-> 0]
    /\ call = [g \in Ops |-> "none"]
    /\ accepted = 0
    /\ pc = [p \in Ops |-> "idle"]
    /\ kind \in [Ops -> Kinds]
    /\ sess = [p \in Ops |-> None]
    /\ writer = [w \in Writers |-> None]
    /\ faults = 0 /\ restarts = 0

At(p, label)   == pc[p] = label
Goto(p, label) == pc' = [pc EXCEPT ![p] = label]
Ended(p)       == pc[p] = "done"

\* Something goes wrong that the code has to live with.
Fault == faults < MaxFaults /\ faults' = faults + 1

-----------------------------------------------------------------------------
\* The state store, as the service sees it.

\* Where operation p goes on with the session r in hand and nothing to recover.
Plan(p, r) ==
    IF r.txn # None THEN IF kind[p] = "terminate" THEN "adopt" ELSE "recover"
    ELSE CASE kind[p] = "terminate" -> "stop"
           [] kind[p] = "restore"   -> IF r.state = "snapshot" THEN "provision" ELSE "done"
           [] kind[p] = "reap"      -> "cutoff"
           [] kind[p] = "snapshot"  -> IF r.state = "snapshot" THEN "done" ELSE "prepare"
           [] OTHER                 -> "done"

Lock(p) ==
    /\ At(p, "idle")
    /\ Overtaking \/ \A q \in Ops : pc[q] \in {"idle", "done"}
    /\ fence' = IF rec = None THEN fence ELSE p
    /\ Goto(p, "load")
    /\ UNCHANGED <<rec, kind, sess, plane, env, count>>

Load(p) ==
    /\ At(p, "load")
    /\ IF rec = None THEN Goto(p, "done") /\ UNCHANGED sess
                     ELSE Goto(p, Plan(p, rec)) /\ sess' = [sess EXCEPT ![p] = rec]
    /\ UNCHANGED <<kind, store, plane, env, count>>

CanSwap(p) == /\ rec # None /\ fence = p
              /\ rec.state = sess[p].state /\ rec.txn = sess[p].txn

\* Mutation: the swap writes the access time of the holder's copy.
SwapForgets(p, next, label) ==
    /\ CanSwap(p)
    /\ rec' = next
    /\ sess' = [sess EXCEPT ![p] = next]
    /\ Goto(p, label)
    /\ UNCHANGED <<fence, kind, faults, restarts>>

\* CompareAndSwapSession succeeds: an access recorded meanwhile survives.
Swap(p, next, label) ==
    /\ CanSwap(p)
    /\ rec' = [next EXCEPT !.accessed = IF rec.accessed > @ THEN rec.accessed ELSE @]
    /\ sess' = [sess EXCEPT ![p] = next]
    /\ Goto(p, label)
    /\ UNCHANGED <<fence, kind, faults, restarts>>

\* It reports a conflict: it must, or a Touch came in between its two requests.
Conflict(p, label) ==
    /\ \/ ~CanSwap(p) /\ UNCHANGED faults
       \/ CanSwap(p) /\ Fault
    /\ Goto(p, label)
    /\ UNCHANGED <<rec, fence, kind, sess, restarts>>

-----------------------------------------------------------------------------
\* The data plane, as the service calls it.

Reachable(r) == Workload(r) \in pods

\* Mutation: an abort that finds nothing to abort is an error.
AbortAcceptedOnce(r, g) == Reachable(r) /\ agent[r].gate = "ready" /\ agent[r].gen = g

\* /checkpoint/abort of generation g answers with success.
AbortAccepted(r, g) ==
    Reachable(r) /\ (\/ agent[r].gate = "open"
                     \/ agent[r].gate = "ready" /\ agent[r].gen = g)

Reopened(r) == [agent EXCEPT ![r].gate = "open", ![r].gen = None]

AbortCall(p, label) ==
    LET t == sess[p].txn
    IN  /\ \/ AbortAccepted(t.src, t.gen) /\ agent' = Reopened(t.src) /\ Goto(p, label)
           \/ ~AbortAccepted(t.src, t.gen) /\ Goto(p, "done") /\ UNCHANGED agent
        /\ UNCHANGED <<pods, archive, call, kind, sess, store, env, count>>

\* The agent takes the /checkpoint request of generation g: it closes the gate
\* and drains, or refuses.
AgentBegin(g) ==
    LET r == sess[g].pod
    IN  /\ call[g] = "sent"
        /\ IF Reachable(r) /\ agent[r].gate = "open" /\ (Overtaking \/ ~Ended(g))
             THEN /\ agent' = [agent EXCEPT ![r].gate = "streaming", ![r].gen = g]
                  /\ call' = [call EXCEPT ![g] = "taken"]
             ELSE call' = [call EXCEPT ![g] = "failed"] /\ UNCHANGED agent
        /\ UNCHANGED <<pods, archive, store, ops, env, count>>

\* Mutation: the gate opens again once the archive is out.
AgentFinishReopens(g) ==
    LET r == sess[g].pod
    IN  /\ call[g] = "taken" /\ Reachable(r) /\ agent[r].gate = "streaming" /\ agent[r].gen = g
        /\ agent' = Reopened(r)
        /\ archive' = [archive EXCEPT ![g] = agent[r].content]
        /\ call' = [call EXCEPT ![g] = "answered"]
        /\ UNCHANGED <<pods, store, ops, env, count>>

\* The whole archive has been streamed; the gate stays closed.
AgentFinish(g) ==
    LET r == sess[g].pod
    IN  /\ call[g] = "taken" /\ Reachable(r) /\ agent[r].gate = "streaming" /\ agent[r].gen = g
        /\ agent' = [agent EXCEPT ![r].gate = "ready"]
        /\ archive' = [archive EXCEPT ![g] = agent[r].content]
        /\ call' = [call EXCEPT ![g] = "answered"]
        /\ UNCHANGED <<pods, store, ops, env, count>>

\* Streaming fails, or its reader went away: the agent reopens by itself.
AgentFail(g) ==
    LET r == sess[g].pod
    IN  /\ call[g] = "taken"
        /\ Fault \/ (UNCHANGED faults /\ (Ended(g) \/ ~Reachable(r) \/ agent[r].gen # g))
        /\ call' = [call EXCEPT ![g] = "failed"]
        /\ agent' = IF agent[r].gate = "streaming" /\ agent[r].gen = g THEN Reopened(r) ELSE agent
        /\ UNCHANGED <<pods, archive, restarts, store, ops, env>>

\* A container restart forgets the gate; an agent started for a restore waits
\* for an archive again.
AgentRestart(r) ==
    /\ Fault
    /\ restarts < MaxRestarts /\ restarts' = restarts + 1
    /\ Reachable(r)
    /\ agent' = [agent EXCEPT ![r].gate = IF r = First THEN "open" ELSE "awaiting", ![r].gen = None]
    /\ UNCHANGED <<pods, archive, call, store, ops, env>>

-----------------------------------------------------------------------------
\* Snapshot.

\* SnapshotIfIdle reloads under the lock; an access after the cutoff calls the
\* freeze off.
Cutoff(p) ==
    /\ At(p, "cutoff")
    /\ IF rec = None
         THEN Goto(p, "done") /\ UNCHANGED sess
         ELSE /\ sess' = [sess EXCEPT ![p] = rec]
              /\ Goto(p, IF rec.accessed = 1 \/ rec.state = "snapshot" THEN "done" ELSE "holding")
    /\ UNCHANGED <<kind, store, plane, env, count>>

\* holdingForApproval asks the agent whether it waits for a human; a workload
\* without an approval gate, or an error, is a no.
Holding(p) ==
    /\ At(p, "holding")
    /\ Goto(p, "prepare") \/ Goto(p, "hold")
    /\ UNCHANGED <<kind, sess, store, plane, env, count>>

\* It does: the platform records an access of its own, best effort.
Hold(p) ==
    /\ At(p, "hold")
    /\ UNCHANGED rec \/ (rec # None /\ rec' = [rec EXCEPT !.accessed = 1])
    /\ Goto(p, "done")
    /\ UNCHANGED <<fence, kind, sess, plane, env, count>>

Prepare(p) ==
    /\ At(p, "prepare")
    /\ LET txn == [gen |-> p, owner |-> p, src |-> sess[p].pod, phase |-> "preparing"]
       IN  \/ Swap(p, [sess[p] EXCEPT !.txn = txn], "send")
           \/ Conflict(p, "done")
    /\ UNCHANGED <<plane, env>>

Send(p) ==
    /\ At(p, "send")
    /\ call' = [call EXCEPT ![p] = "sent"]
    /\ Goto(p, "await")
    /\ UNCHANGED <<pods, agent, archive, kind, sess, store, env, count>>

\* The archive is durable, or the request or the upload failed.
Await(p) ==
    /\ At(p, "await")
    /\ \/ call[p] = "answered" /\ Goto(p, "commit") /\ UNCHANGED faults
       \/ call[p] = "answered" /\ Fault /\ Goto(p, "rollback")
       \/ call[p] = "failed" /\ Goto(p, "rollback") /\ UNCHANGED faults
    /\ UNCHANGED <<restarts, kind, sess, store, plane, env>>

\* Mutation: the conflict is ignored and the pods are reclaimed.
CommitIgnoresConflict(p) ==
    /\ At(p, "commit")
    /\ \/ Swap(p, [sess[p] EXCEPT !.txn.phase = "committing"], "stop")
       \/ Conflict(p, "stop")
    /\ UNCHANGED <<plane, env>>

Commit(p) ==
    /\ At(p, "commit")
    /\ \/ Swap(p, [sess[p] EXCEPT !.txn.phase = "committing"], "stop")
       \/ Conflict(p, "rollback")
    /\ UNCHANGED <<plane, env>>

\* Mutation: the record is rolled back without telling the agent.
RollbackSilent(p) == /\ At(p, "rollback") /\ Goto(p, "rollbackClear")
                     /\ UNCHANGED <<kind, sess, store, plane, env, count>>

Rollback(p) == At(p, "rollback") /\ AbortCall(p, "rollbackClear")

RollbackClear(p) ==
    /\ At(p, "rollbackClear")
    /\ \/ Swap(p, [sess[p] EXCEPT !.txn = None], "done")
       \/ Conflict(p, "done")
    /\ UNCHANGED <<plane, env>>

\* Stop deletes the workload pod first, then the helper pod.
Stop(p) ==
    /\ At(p, "stop")
    /\ pods' = pods \ {Workload(sess[p].pod)}
    /\ Goto(p, IF sess[p].pod = None THEN "delete" ELSE "stopHelper")
    /\ UNCHANGED <<agent, archive, call, kind, sess, store, env, count>>

StopHelper(p) ==
    /\ At(p, "stopHelper")
    /\ pods' = pods \ {Helper(sess[p].pod)}
    /\ Goto(p, IF kind[p] = "terminate" THEN "delete" ELSE "finalize")
    /\ UNCHANGED <<agent, archive, call, kind, sess, store, env, count>>

Frozen(s) == [s EXCEPT !.state = "snapshot", !.pod = None, !.ckpt = s.txn.gen, !.txn = None]

\* A recovering operation goes on with its own business, a snapshot is over.
Finalize(p) ==
    LET next == Frozen(sess[p])
        After(r) == IF sess[p].txn.gen = p THEN "done" ELSE Plan(p, r)
        DoneByOther == rec # None /\ rec.state = "snapshot" /\ rec.txn = None
    IN  /\ At(p, "finalize")
        /\ \/ Swap(p, next, After(next))
           \/ /\ ~CanSwap(p) /\ DoneByOther
              /\ sess' = [sess EXCEPT ![p] = rec] /\ Goto(p, After(rec))
              /\ UNCHANGED <<rec, fence, kind, count>>
           \/ ~DoneByOther /\ Conflict(p, "done")
        /\ UNCHANGED <<plane, env>>

-----------------------------------------------------------------------------
\* Recovery of an interrupted snapshot.

\* Mutation: recovery takes a committed snapshot's pods for reclaimed.
RecoverSkipsStop(p) ==
    /\ At(p, "recover")
    /\ \/ /\ sess[p].txn.phase = "preparing"
          /\ \/ Swap(p, [sess[p] EXCEPT !.txn.owner = p], "abort")
             \/ Conflict(p, "load")
       \/ /\ sess[p].txn.phase = "committing"
          /\ Goto(p, "finalize")
          /\ UNCHANGED <<store, kind, sess, count>>
    /\ UNCHANGED <<plane, env>>

\* A prepare is claimed in the record before the agent is touched; a commit is
\* carried on.
Recover(p) ==
    /\ At(p, "recover")
    /\ \/ /\ sess[p].txn.phase = "preparing"
          /\ \/ Swap(p, [sess[p] EXCEPT !.txn.owner = p], "abort")
             \/ Conflict(p, "load")
       \/ /\ sess[p].txn.phase = "committing"
          /\ Goto(p, "stop")
          /\ UNCHANGED <<store, kind, sess, count>>
    /\ UNCHANGED <<plane, env>>

Abort(p) == At(p, "abort") /\ AbortCall(p, "clear")

Clear(p) ==
    /\ At(p, "clear")
    /\ LET next == [sess[p] EXCEPT !.txn = None]
       IN  Swap(p, next, Plan(p, next)) \/ Conflict(p, "done")
    /\ UNCHANGED <<plane, env>>

-----------------------------------------------------------------------------
\* Restore.

\* RestoreInto: the helper pod, then the workload pod, under a fresh name.
Provision(p) ==
    /\ At(p, "provision")
    /\ pods' = pods \cup {Helper(p)}
    /\ Goto(p, "provisionWorkload")
    /\ UNCHANGED <<agent, archive, call, kind, sess, store, env, count>>

ProvisionWorkload(p) ==
    /\ At(p, "provisionWorkload")
    /\ pods' = pods \cup {Workload(p)}
    /\ Goto(p, "apply")
    /\ UNCHANGED <<agent, archive, call, kind, sess, store, env, count>>

Apply(p) ==
    /\ At(p, "apply")
    /\ IF Reachable(p)
         THEN /\ agent' = [agent EXCEPT ![p] = [gate |-> "open", gen |-> None,
                                               content |-> archive[sess[p].ckpt]]]
              /\ Goto(p, "activate")
         ELSE Goto(p, "discard") /\ UNCHANGED agent
    /\ UNCHANGED <<pods, archive, call, kind, sess, store, env, count>>

Activate(p) ==
    /\ At(p, "activate")
    /\ LET next == [sess[p] EXCEPT !.state = "active", !.pod = p, !.ckpt = None, !.accessed = 1]
       IN  \/ Swap(p, next, "done")
           \/ LostReply /\ Swap(p, next, "verify")
           \/ Conflict(p, "verify")
    /\ UNCHANGED <<plane, env>>

\* Mutation: a restore that lost leaves its pods behind.
VerifyLeaks(p) == /\ At(p, "verify") /\ Goto(p, "done")
                  /\ UNCHANGED <<kind, sess, store, plane, env, count>>

\* After an error the record is read again: only a record that says exactly
\* what this restore wrote saves its pods, or one that cannot be read when the
\* commit was not refused outright.
Verify(p) ==
    /\ At(p, "verify")
    /\ LET committed == /\ rec # None /\ rec.state = "active" /\ rec.pod = p
                        /\ rec.ckpt = None /\ rec.txn = None
       IN  \/ Goto(p, IF committed THEN "done" ELSE "discard") /\ UNCHANGED faults
           \/ LostReply /\ Fault /\ Goto(p, "done")
    /\ UNCHANGED <<kind, sess, restarts, store, plane, env>>

Discard(p) ==
    /\ pc[p] \in {"discard", "discardHelper"}
    /\ pods' = pods \ {IF At(p, "discard") THEN Workload(p) ELSE Helper(p)}
    /\ Goto(p, IF At(p, "discard") THEN "discardHelper" ELSE "done")
    /\ UNCHANGED <<agent, archive, call, kind, sess, store, env, count>>

-----------------------------------------------------------------------------
\* Terminate.

Adopt(p) ==
    /\ At(p, "adopt")
    /\ \/ Swap(p, [sess[p] EXCEPT !.txn.owner = p], "stop")
       \/ Conflict(p, "done")
    /\ UNCHANGED <<plane, env>>

Delete(p) ==
    /\ At(p, "delete")
    /\ IF rec # None /\ fence = p THEN rec' = None /\ fence' = None
                                  ELSE UNCHANGED store
    /\ Goto(p, "done")
    /\ UNCHANGED <<kind, sess, plane, env, count>>

-----------------------------------------------------------------------------
\* What may happen to an operation at any time.

\* Its context is cancelled (the Lease is lost, the client left) or a request
\* fails: it returns, and a restore discards its pods first.
Cancel(p) ==
    /\ ~At(p, "idle") /\ ~Ended(p)
    /\ pc[p] \notin {"verify", "discard", "discardHelper"}
    /\ Fault
    /\ Goto(p, IF pc[p] \in {"provisionWorkload", "apply", "activate"} THEN "discard" ELSE "done")
    /\ UNCHANGED <<kind, sess, restarts, store, plane, env>>

\* The replica dies: nothing is cleaned up, nothing unlocked.
Crash(p) ==
    /\ ~At(p, "idle") /\ ~Ended(p)
    /\ Fault
    /\ Goto(p, "done")
    /\ UNCHANGED <<kind, sess, restarts, store, plane, env>>

-----------------------------------------------------------------------------
\* Client writes.

\* Write finds the session active and takes its pod from the record it read.
WriteLookup(w) ==
    /\ writer[w] = None
    /\ rec # None /\ rec.state = "active" /\ rec.txn = None
    /\ writer' = [writer EXCEPT ![w] = rec.pod]
    /\ UNCHANGED <<accepted, store, plane, ops, count>>

\* The agent takes the write; or it is gone or closed and the client may retry.
WriteSend(w) ==
    LET r == writer[w]
        taken == Reachable(r) /\ agent[r].gate = "open"
    IN  /\ r \in Rounds
        /\ agent' = IF taken THEN [agent EXCEPT ![r].content = @ + 1] ELSE agent
        /\ accepted' = IF taken THEN accepted + 1 ELSE accepted
        /\ writer' = [writer EXCEPT ![w] = IF taken THEN "served" ELSE None]
        /\ UNCHANGED <<pods, archive, call, store, ops, count>>

\* The service records the access, best effort.
WriteTouch(w) ==
    /\ writer[w] = "served"
    /\ \/ /\ rec # None /\ rec' = [rec EXCEPT !.accessed = 1]
          /\ writer' = [writer EXCEPT ![w] = "touched"]
       \/ UNCHANGED rec /\ writer' = [writer EXCEPT ![w] = "unrecorded"]
    /\ UNCHANGED <<fence, accepted, plane, ops, count>>

-----------------------------------------------------------------------------
OpStep(p) ==
    \/ Lock(p) \/ Load(p) \/ Cutoff(p) \/ Holding(p) \/ Hold(p)
    \/ Prepare(p) \/ Send(p) \/ Await(p) \/ Commit(p)
    \/ Rollback(p) \/ RollbackClear(p) \/ Stop(p) \/ StopHelper(p) \/ Finalize(p)
    \/ Recover(p) \/ Abort(p) \/ Clear(p)
    \/ Provision(p) \/ ProvisionWorkload(p) \/ Apply(p) \/ Activate(p) \/ Verify(p) \/ Discard(p)
    \/ Adopt(p) \/ Delete(p)

AgentStep(g) == AgentBegin(g) \/ AgentFinish(g) \/ AgentFail(g)

Next == \/ \E p \in Ops : OpStep(p) \/ AgentStep(p) \/ Cancel(p) \/ Crash(p)
        \/ \E r \in Rounds : AgentRestart(r)
        \/ \E w \in Writers : WriteLookup(w) \/ WriteSend(w) \/ WriteTouch(w)

Spec == Init /\ [][Next]_vars

\* A client keeps reading the session, and every read first recovers an
\* unfinished snapshot (activate).  The new call has a new token, but no live
\* call knows the old one, so the name may be used again.
Retry(p) ==
    /\ Ended(p) /\ kind[p] = "recover"
    /\ Goto(p, "idle")
    /\ UNCHANGED <<kind, sess, store, plane, env, count>>

\* Goroutines and agents run on, and the client does not give up.
Fairness == \A p \in Ops : WF_vars(OpStep(p)) /\ WF_vars(AgentStep(p)) /\ WF_vars(Retry(p))

PolledSpec == Init /\ [][Next \/ \E p \in Ops : Retry(p)]_vars /\ Fairness

-----------------------------------------------------------------------------
\* Properties.

\* Every variable holds a value of its kind; in particular a frozen record refers
\* to an archive generation (finalizeSnapshotLocked).
TypeOK ==
    /\ rec \in Sessions \cup {None}
    /\ fence \in Ops \cup {None}
    /\ pods \subseteq Rounds \X {"workload", "helper"}
    /\ agent \in [Rounds -> [gate: Gates, gen: Ops \cup {None}, content: Nat]]
    /\ archive \in [Ops -> Nat]
    /\ call \in [Ops -> {"none", "sent", "taken", "answered", "failed"}]
    /\ accepted \in Nat
    /\ pc \in [Ops -> Labels] /\ kind \in [Ops -> AllKinds]
    /\ sess \in [Ops -> Sessions \cup {None}]
    /\ writer \in [Writers -> Rounds \cup {None} \cup Fates]
    /\ faults \in 0..MaxFaults /\ restarts \in 0..MaxRestarts

InTxn(phase) == rec # None /\ rec.txn # None /\ rec.txn.phase = phase

\* No acknowledged write is lost: the archive a session is frozen into, or about
\* to be reclaimed for, holds every write a client got acknowledged, and so does
\* the pod of a live session.
AcceptedWritesSurvive ==
    rec # None =>
      /\ rec.state = "snapshot" => archive[rec.ckpt] = accepted
      /\ InTxn("committing") => archive[rec.txn.gen] = accepted
      /\ rec.state = "active" /\ Reachable(rec.pod) /\ agent[rec.pod].gate # "awaiting" =>
            agent[rec.pod].content = accepted

\* A terminate that has begun to reclaim the pods it read.
Terminating == \E p \in Ops : kind[p] = "terminate" /\ pc[p] \in {"stopHelper", "delete", "done"}

\* Until a snapshot of it has committed, only Terminate takes an active session's
\* pods away: no stale snapshot, recovery or failed restore does.
LiveKeepsPods ==
    rec # None /\ rec.state = "active" /\ ~InTxn("committing") /\ ~Terminating =>
        {Workload(rec.pod), Helper(rec.pod)} \subseteq pods

\* The record says "snapshot" only once every pod of the session is reclaimed,
\* the helper pod included, whoever finished the reclamation.
FrozenIsReclaimed ==
    [][ rec # None /\ rec.state = "active" /\ rec' # None /\ rec'.state = "snapshot" =>
            pods \cap {Workload(rec.pod), Helper(rec.pod)} = {} ]_vars

\* When every call has returned without a fault, no pod is left over that the
\* record does not name, even where calls overtook each other.
NoOrphanPods ==
    (\A p \in Ops : pc[p] \in {"idle", "done"}) /\ faults = 0 =>
        \A pod \in pods : rec # None /\ pod[1] = rec.pod

\* A recorded access stays in the record, whoever writes it next from an older
\* copy: a reaper that read it before the access and freezes the session after
\* it, a commit, a recovery, a restore, or the reaper's own touch (the merge of
\* LastAccess in CompareAndSwapSession).
RecordedAccessKept ==
    rec # None /\ (\E w \in Writers : writer[w] = "touched") => rec.accessed = 1

\* What SnapshotIfIdle says of itself, "does nothing when a client accessed the
\* session after cutoff": no freeze begins once an access is recorded.
ReaperSeesAccess ==
    [][ \A p \in Ops : kind[p] = "reap" /\ At(p, "prepare") /\ pc'[p] = "send" =>
           \A w \in Writers : writer[w] # "touched" ]_vars

\* A gate that is closed after its operation is over is named by the record's
\* snapshot transaction, so that recovery can find it and reopen it.
ClosedGateIsRecorded ==
    rec # None /\ rec.state = "active" /\ Reachable(rec.pod)
    /\ agent[rec.pod].gate = "ready" /\ Ended(agent[rec.pod].gen)
        => rec.txn # None /\ rec.txn.gen = agent[rec.pod].gen

\* The source of an unfinished prepare is a restored pod whose container came up
\* again: it waits for an archive and refuses every abort (errClaudeAwaitingRestore,
\* errShellNoLiveShell).
Stranded == InTxn("preparing") /\ agent[rec.txn.src].gate = "awaiting"

\* An interrupted snapshot does not stay in the way: as long as the session is
\* accessed, its transaction is aborted or carried through, unless its agent
\* restarted into restore mode.
InterruptedSnapshotResolves ==
    ((\E p \in Ops : kind[p] = "recover") /\ (InTxn("preparing") \/ InTxn("committing")))
        ~> (rec = None \/ rec.txn = None \/ Stranded)

\* Without the exception, as recoverSnapshotLocked has it.
RecoveryAlwaysResolves ==
    ((\E p \in Ops : kind[p] = "recover") /\ (InTxn("preparing") \/ InTxn("committing")))
        ~> (rec = None \/ rec.txn = None)

\* An agent that serves an active session, and is not being restored, never
\* falls back to waiting for an archive: what main.go promises of a restart.
RestartServesAgain ==
    rec # None /\ rec.state = "active" /\ Reachable(rec.pod) => agent[rec.pod].gate # "awaiting"

=============================================================================
