----------------------- MODULE SnapshotLifecycleProofs ------------------------
(***************************************************************************)
(* Proofs about the life of a session, for any number of calls, client     *)
(* writes, replicas and faults, and for locks that are overtaken unless a  *)
(* theorem says otherwise.                                                 *)
(*                                                                         *)
(* The argument is about fencing.  The one call that is the record's fence *)
(* knows the record; every other call that still runs can neither commit   *)
(* nor touch a pod or a gate the record still needs, because the names it  *)
(* holds (its generation, its rounds) were either settled or given up      *)
(* before it lost the fence.                                               *)
(***************************************************************************)
EXTENDS SnapshotLifecycle, TLAPS

\* With a client that keeps asking, as in PolledSpec.
PolledNext == Next \/ \E p \in Ops : Retry(p)

\* Where a call has its copy of the session; where it freezes; where it reclaims.
Knowing     == Labels \ {"idle", "load", "done"}
Freezing    == {"send", "await", "commit", "rollback", "rollbackClear"}
Reclaiming  == {"stop", "stopHelper", "finalize"}
Restoring   == {"provision", "provisionWorkload", "apply", "activate"}
Restored    == {"verify", "discard", "discardHelper"}

\* A round that was provisioned: no call makes its pods any more.
Used(r) == r = First \/ (r \in Ops /\ kind[r] = "restore" /\ pc[r] \in Restored \cup {"done"})

\* A call whose name stands for a generation, and that will not prepare again.
GenUsed(g) ==
    /\ g \in Ops /\ kind[g] \in {"snapshot", "reap"}
    /\ \/ pc[g] = "done"
       \/ pc[g] \in Freezing \cup Reclaiming /\ sess[g] # None /\ sess[g].txn # None /\ sess[g].txn.gen = g

\* A generation whose archive a record may refer to.
Sealed(g) == GenUsed(g) /\ pc[g] \in Reclaiming \cup {"done"} /\ call[g] = "answered"

\* What any stored or remembered session s looks like: active in a pod, perhaps in a
\* transaction about that pod, or frozen into the answer of a /checkpoint request.
Shape(s) ==
    /\ s.state = "active"   => s.ckpt = None /\ Used(s.pod)
    /\ s.state = "snapshot" => s.pod = None /\ s.txn = None /\ Sealed(s.ckpt)
    /\ s.txn # None => s.txn.src = s.pod /\ GenUsed(s.txn.gen)

ShapeInv ==
    /\ rec # None => Shape(rec)
    /\ \A p \in Ops : sess[p] # None => Shape(sess[p])

\* Sessions that differ in their access at most.
Same(a, b) == a.state = b.state /\ a.pod = b.pod /\ a.ckpt = b.ckpt /\ a.txn = b.txn

\* The fence knows the record.
FenceInv ==
    /\ rec = None => fence = None
    /\ \A p \in Ops : pc[p] \in Knowing => sess[p] # None
    /\ \A p \in Ops : pc[p] \in Knowing /\ fence = p => Same(rec, sess[p])

\* Which calls come where, and with what in hand.
LabelInv ==
    \A p \in Ops :
      /\ pc[p] \in {"cutoff", "holding", "hold", "prepare"} \cup Freezing => kind[p] \in {"snapshot", "reap"}
      /\ pc[p] \in {"recover", "abort", "clear", "finalize"} => kind[p] # "terminate"
      /\ pc[p] \in Restoring \cup Restored => kind[p] = "restore"
      /\ pc[p] \in {"adopt", "delete"} => kind[p] = "terminate"
      /\ pc[p] \in {"recover", "adopt"} => sess[p].txn # None
      /\ pc[p] \in {"abort", "clear"} => sess[p].txn # None /\ sess[p].txn.phase = "preparing"
      /\ pc[p] \in {"cutoff", "holding", "hold", "prepare"} /\ fence = p => sess[p].txn = None
      /\ pc[p] \in {"holding", "prepare"} => sess[p].state = "active"
      /\ pc[p] \in Freezing => sess[p].txn # None /\ sess[p].txn.gen = p /\ sess[p].txn.phase = "preparing"
      /\ pc[p] \in Reclaiming /\ kind[p] # "terminate" => sess[p].txn # None /\ sess[p].txn.phase = "committing"
      /\ pc[p] \in Restoring => sess[p].state = "snapshot"

\* The record is committing generation g.
Committing(g) == rec # None /\ rec.txn # None /\ rec.txn.gen = g /\ rec.txn.phase = "committing"

\* A generation commits once, by its own call; a call that aborts it has fenced that
\* call off.
CommitInv ==
    /\ \A g \in Ops : Committing(g) => pc[g] \in Reclaiming \cup {"done"} /\ call[g] = "answered"
    /\ \A p \in Ops : pc[p] = "commit" => call[p] = "answered"
    /\ \A p \in Ops : pc[p] = "abort" => fence # sess[p].txn.gen /\ ~Committing(sess[p].txn.gen)

\* A pod that a snapshot's call reclaims, or is to, is still committed to it, or was
\* given up.
StopInv ==
    \A p \in Ops :
      pc[p] \in Reclaiming \cup {"recover"} /\ kind[p] # "terminate" /\ sess[p].txn.phase = "committing" =>
        rec = None \/ rec.pod # sess[p].pod \/ Committing(sess[p].txn.gen)

\* What has been reclaimed, and what is being provisioned.
PodInv ==
    /\ \A p \in Ops : pc[p] \in {"stopHelper", "finalize", "delete"} => Workload(sess[p].pod) \notin pods
    /\ \A p \in Ops : pc[p] \in {"finalize", "delete"} => Helper(sess[p].pod) \notin pods
    /\ \A p \in Ops : pc[p] \in {"provisionWorkload", "apply", "activate"} => Helper(p) \in pods
    /\ \A p \in Ops : pc[p] \in {"apply", "activate"} => Workload(p) \in pods

\* A recorded access stays recorded.
AccessInv == \A w \in Writers : writer[w] = "touched" => rec = None \/ rec.accessed = 1

\* A pod that the record names, or that a call is still to put in order.
Claimed(r, k) ==
    \/ rec # None /\ rec.pod = r
    \/ /\ r \in Ops
       /\ \/ pc[r] \in {"provisionWorkload", "apply", "activate", "verify", "discard"}
          \/ pc[r] = "discardHelper" /\ k = "helper"

\* Without a fault, no pod is left over.
OrphanInv ==
    faults = 0 => \A r \in Rounds, k \in {"workload", "helper"} : <<r, k>> \in pods => Claimed(r, k)

IInv ==
    /\ TypeOK /\ ShapeInv /\ FenceInv /\ LabelInv /\ CommitInv /\ StopInv /\ PodInv
    /\ AccessInv /\ OrphanInv

\* Where the acknowledged writes are, as long as no container restarts: a write on its
\* way reaches the record's pod or none;
WriterInv ==
    \A w \in Writers : writer[w] \in Rounds =>
        Used(writer[w]) /\ (rec = None \/ rec.pod = writer[w] \/ ~Reachable(writer[w]))

\* the record's pod, or its archive, holds every one;
ContentInv ==
    /\ rec # None /\ rec.state = "active"   => agent[rec.pod].content = accepted
    /\ rec # None /\ rec.state = "snapshot" => archive[rec.ckpt] = accepted

\* what is committed is complete, and its agent stays closed;
Intact(g) == archive[g] = accepted /\ agent[rec.pod].gate = "ready" /\ agent[rec.pod].gen = g
SealInv   == \A g \in Ops : Committing(g) => Intact(g)

\* so is what its call may still commit;
Captured(g) ==
    LET a == agent[sess[g].pod] IN a.gate = "ready" /\ a.gen = g /\ archive[g] = a.content

CaptureInv ==
    \A g \in Ops : pc[g] \in {"await", "commit"} /\ call[g] = "answered" /\ fence = g => Captured(g)

\* and a restored agent holds its archive.
AppliedInv == \A p \in Ops : pc[p] = "activate" => agent[p].content = archive[sess[p].ckpt]

WriteInv == WriterInv /\ ContentInv /\ SealInv /\ CaptureInv /\ AppliedInv

\* The record's pods, as long as no restore's commit is lost.
OwnerInv == rec # None /\ rec.pod \in Ops => pc[rec.pod] = "done"
LiveInv  == OwnerInv /\ LiveKeepsPods

\* As long as no call is overtaken, one runs at a time and is the fence,
Live(p) == pc[p] \notin {"idle", "done"}

AloneInv ==
    /\ \A p, q \in Ops : Live(p) /\ Live(q) => p = q
    /\ \A p \in Ops : Live(p) /\ rec # None => fence = p
    /\ \A p \in Ops : pc[p] \in Knowing => rec # None
    /\ \A g \in Ops : call[g] = "sent" => pc[g] \in {"await", "done"} /\ kind[g] # "recover"

\* and a closed gate is recorded.
Shut(r) == agent[r].gate \in {"streaming", "ready"}

ShutInv ==
    /\ rec # None /\ rec.state = "active" /\ Shut(rec.pod) => rec.txn # None /\ rec.txn.gen = agent[rec.pod].gen
    /\ \A p \in Ops : pc[p] \in {"clear", "rollbackClear"} => ~Shut(sess[p].pod)
    /\ \A p \in Ops : pc[p] = "activate" => ~Shut(p)

GateInv == AloneInv /\ ShutInv

-----------------------------------------------------------------------------
\* Sessions and what the operations make of them.

\* The fields of a session, and of a transaction.
LEMMA SessionParts ==
  ASSUME NEW s \in Sessions
  PROVE  /\ s # None /\ s.state \in {"active", "snapshot"} /\ s.pod \in Rounds \cup {None}
         /\ s.ckpt \in Ops \cup {None} /\ s.accessed \in {0, 1} /\ s.txn \in Txns \cup {None}
  BY NamesAssumption DEF Sessions

LEMMA TxnParts ==
  ASSUME NEW t \in Txns
  PROVE  t # None /\ t.gen \in Ops /\ t.owner \in Ops /\ t.src \in Rounds /\ t.phase \in {"preparing", "committing"}
  BY NamesAssumption DEF Txns

\* s with another transaction.
LEMMA WithTxn ==
  ASSUME NEW s \in Sessions, NEW t \in Txns \cup {None}
  PROVE  LET n == [s EXCEPT !.txn = t]
         IN  n \in Sessions /\ n.txn = t /\ n.state = s.state /\ n.pod = s.pod /\ n.ckpt = s.ckpt
  BY DEF Sessions

\* s with its access recorded or not.
LEMMA WithAccess ==
  ASSUME NEW s \in Sessions, NEW a \in {0, 1}
  PROVE  LET n == [s EXCEPT !.accessed = a] IN n \in Sessions /\ n.accessed = a /\ Same(n, s)
  BY DEF Sessions, Same

\* What finalize makes of a session, and what a restore makes of it.
LEMMA FrozenParts ==
  ASSUME NEW s \in Sessions, s.txn \in Txns
  PROVE  /\ Frozen(s) \in Sessions /\ Frozen(s).state = "snapshot" /\ Frozen(s).pod = None
         /\ Frozen(s).ckpt = s.txn.gen /\ Frozen(s).txn = None
  BY DEF Sessions, Txns, Frozen

LEMMA ActivatedParts ==
  ASSUME NEW s \in Sessions, NEW p \in Ops
  PROVE  LET n == [s EXCEPT !.state = "active", !.pod = p, !.ckpt = None, !.accessed = 1]
         IN  n \in Sessions /\ n.state = "active" /\ n.pod = p /\ n.ckpt = None /\ n.txn = s.txn
  BY DEF Sessions, Rounds

\* A transaction in its next phase, or under another owner.
LEMMA TxnCommits ==
  ASSUME NEW s \in Sessions, s.txn \in Txns
  PROVE  LET n == [s EXCEPT !.txn.phase = "committing"]
         IN  /\ n \in Sessions /\ n.txn \in Txns /\ n.state = s.state /\ n.pod = s.pod /\ n.ckpt = s.ckpt
             /\ n.txn.gen = s.txn.gen /\ n.txn.src = s.txn.src /\ n.txn.phase = "committing"
<1>1. [s EXCEPT !.txn.phase = "committing"] = [s EXCEPT !.txn = [s.txn EXCEPT !.phase = "committing"]]
  BY DEF Sessions
<1>2. [s.txn EXCEPT !.phase = "committing"] \in Txns
  BY DEF Txns
<1>3. /\ [s.txn EXCEPT !.phase = "committing"].gen = s.txn.gen /\ [s.txn EXCEPT !.phase = "committing"].src = s.txn.src
      /\ [s.txn EXCEPT !.phase = "committing"].phase = "committing"
  BY DEF Txns
<1>4. QED
  BY <1>1, <1>2, <1>3, WithTxn, ZenonT(40)

LEMMA TxnAdopted ==
  ASSUME NEW s \in Sessions, s.txn \in Txns, NEW p \in Ops
  PROVE  LET n == [s EXCEPT !.txn.owner = p]
         IN  /\ n \in Sessions /\ n.txn \in Txns /\ n.state = s.state /\ n.pod = s.pod /\ n.ckpt = s.ckpt
             /\ n.txn.gen = s.txn.gen /\ n.txn.src = s.txn.src /\ n.txn.phase = s.txn.phase
<1>1. [s EXCEPT !.txn.owner = p] = [s EXCEPT !.txn = [s.txn EXCEPT !.owner = p]]
  BY DEF Sessions
<1>2. [s.txn EXCEPT !.owner = p] \in Txns
  BY DEF Txns
<1>3. /\ [s.txn EXCEPT !.owner = p].gen = s.txn.gen /\ [s.txn EXCEPT !.owner = p].src = s.txn.src
      /\ [s.txn EXCEPT !.owner = p].phase = s.txn.phase
  BY DEF Txns
<1>4. QED
  BY <1>1, <1>2, <1>3, WithTxn, ZenonT(40)

\* What a compare-and-swap that succeeds comes to.
Swapped(p, next, label) ==
    /\ rec \in Sessions /\ rec' \in Sessions /\ fence = p
    /\ rec.state = sess[p].state /\ rec.txn = sess[p].txn
    /\ Same(rec', next) /\ (rec.accessed = 1 => rec'.accessed = 1)
    /\ sess' = [sess EXCEPT ![p] = next] /\ pc' = [pc EXCEPT ![p] = label]
    /\ UNCHANGED <<fence, kind, faults, restarts>>

\* A swap that succeeds writes next, with the later access.
LEMMA SwapEffect ==
  ASSUME TypeOK, NEW p \in Ops, NEW next \in Sessions, NEW label, Swap(p, next, label)
  PROVE  Swapped(p, next, label)
<1>1. rec \in Sessions
  BY DEF Swap, CanSwap, TypeOK
<1>2. PICK a \in {0, 1} : rec' = [next EXCEPT !.accessed = a] /\ (rec.accessed = 1 => a = 1)
  <2>1. rec.accessed \in {0, 1} /\ next.accessed \in {0, 1}
    BY <1>1, SessionParts
  <2>2. rec' = [next EXCEPT !.accessed = IF rec.accessed > next.accessed THEN rec.accessed ELSE next.accessed]
    BY DEF Swap
  <2>3. QED
    BY <2>1, <2>2
<1>3. rec' \in Sessions /\ Same(rec', next) /\ rec'.accessed = a
  BY <1>2, WithAccess
<1>4. QED
  BY <1>1, <1>2, <1>3 DEF Swap, CanSwap, Swapped, Goto

\* What a conflict comes to.
Missed(p, label) == pc' = [pc EXCEPT ![p] = label] /\ UNCHANGED <<rec, fence, kind, sess, restarts>>
                    /\ (UNCHANGED faults \/ Fault)

\* A refused swap only moves the call on.
LEMMA ConflictEffect == ASSUME NEW p, NEW label, Conflict(p, label) PROVE Missed(p, label)
  BY DEF Conflict, Missed, Goto

-----------------------------------------------------------------------------
\* The steps as the invariants see them: what a step reads and leaves of a session, by
\* its parts.  Every step of the specification is one of these (StepIsNormal).

AgentStates == [gate: Gates, gen: Ops \cup {None}, content: Nat]

Calm == UNCHANGED <<pods, agent, archive, call, accepted, writer>>
Goes(p, label) == label \in Labels /\ pc' = [pc EXCEPT ![p] = label]

\* Round r's agent alone changes, to this gate, generation and content.
AgentSet(r, gate, gen, content) ==
    /\ r \in Rounds /\ agent' \in [Rounds -> AgentStates]
    /\ agent'[r].gate = gate /\ agent'[r].gen = gen /\ agent'[r].content = content
    /\ \A q \in Rounds : q # r => agent'[q] = agent[q]

\* Where p may go on with session r in hand.
Planned(p, r, label) ==
    /\ label \in {"adopt", "recover", "stop", "provision", "cutoff", "prepare", "done"}
    /\ label = "adopt"     => kind[p] = "terminate" /\ r.txn # None
    /\ label = "recover"   => kind[p] # "terminate" /\ r.txn # None
    /\ label = "stop"      => kind[p] = "terminate"
    /\ label = "provision" => kind[p] = "restore" /\ r.state = "snapshot"
    /\ label = "cutoff"    => kind[p] = "reap" /\ r.txn = None
    /\ label = "prepare"   => kind[p] = "snapshot" /\ r.state = "active" /\ r.txn = None

\* Steps that take a call further, or end it, and leave everything else alone.
QuietMove(p, label) ==
    \/ /\ label = "done" /\ pc[p] \notin {"idle", "done"}
       /\ pc[p] \in {"provisionWorkload", "apply", "activate", "verify", "discard", "discardHelper"} =>
            faults' # 0 \/ (pc[p] = "verify" /\ rec # None /\ rec.pod = p)
    \/ pc[p] = "holding" /\ label \in {"prepare", "hold"}
    \/ pc[p] = "await" /\ label = "commit" /\ call[p] = "answered"
    \/ pc[p] = "await" /\ label = "rollback" /\ call[p] # "sent"
    \/ pc[p] = "commit" /\ label = "rollback"
    \/ pc[p] = "recover" /\ label = "load"
    \/ pc[p] = "recover" /\ label = "stop" /\ sess[p].txn.phase = "committing"
    \/ pc[p] = "activate" /\ label = "verify"
    \/ pc[p] \in {"provisionWorkload", "apply", "activate", "verify"} /\ label = "discard"
    \/ pc[p] = "done" /\ label = "idle" /\ kind[p] = "recover"

Quiet(p) ==
    /\ \E label \in Labels : QuietMove(p, label) /\ Goes(p, label)
    /\ UNCHANGED <<rec, fence, kind, sess, restarts>> /\ Calm
    /\ faults' \in 0 .. MaxFaults /\ (faults # 0 => faults' # 0)

\* Load, and the look at the record after a lost finalize.
Read(p) ==
    /\ rec \in Sessions
    /\ pc[p] = "load" \/ (pc[p] = "finalize" /\ fence # p)
    /\ sess' = [sess EXCEPT ![p] = rec]
    /\ \E label \in Labels :
         /\ Planned(p, rec, label) /\ Goes(p, label)
         /\ pc[p] = "finalize" /\ sess[p].txn.gen = p => label = "done"
    /\ UNCHANGED <<rec, fence, kind, faults, restarts>> /\ Calm

\* The reaper's reload, and its own touch.
Reload(p) ==
    /\ rec \in Sessions
    /\ rec' \in Sessions /\ Same(rec', rec) /\ (rec.accessed = 1 => rec'.accessed = 1)
    /\ \/ /\ pc[p] = "cutoff" /\ sess' = [sess EXCEPT ![p] = rec]
          /\ Goes(p, "done") \/ (Goes(p, "holding") /\ rec.state = "active")
       \/ pc[p] = "hold" /\ sess' = sess /\ Goes(p, "done")
    /\ UNCHANGED <<fence, kind, faults, restarts>> /\ Calm

\* The swaps: n is the session that is written.
Kept(n, s) == n \in Sessions /\ n.state = s.state /\ n.pod = s.pod /\ n.ckpt = s.ckpt

PrepareS(p) == pc[p] = "prepare" /\ Calm /\ \E n \in Sessions :
    /\ Swapped(p, n, "send") /\ Kept(n, sess[p])
    /\ n.txn \in Txns /\ n.txn.gen = p /\ n.txn.src = sess[p].pod /\ n.txn.phase = "preparing"

CommitS(p) == pc[p] = "commit" /\ Calm /\ \E n \in Sessions :
    /\ Swapped(p, n, "stop") /\ Kept(n, sess[p])
    /\ n.txn \in Txns /\ n.txn.gen = sess[p].txn.gen /\ n.txn.src = sess[p].txn.src /\ n.txn.phase = "committing"

ClearS(p) == pc[p] \in {"clear", "rollbackClear"} /\ Calm /\ \E n \in Sessions, label \in Labels :
    /\ Swapped(p, n, label) /\ Kept(n, sess[p]) /\ n.txn = None
    /\ Planned(p, n, label) /\ (pc[p] = "rollbackClear" => label = "done")

FinalizeS(p) == pc[p] = "finalize" /\ Calm /\ \E n \in Sessions, label \in Labels :
    /\ Swapped(p, n, label)
    /\ n.state = "snapshot" /\ n.pod = None /\ n.ckpt = sess[p].txn.gen /\ n.txn = None
    /\ Planned(p, n, label) /\ (sess[p].txn.gen = p => label = "done")

AdoptS(p) == Calm /\ \E n \in Sessions, label \in Labels :
    /\ \/ pc[p] = "recover" /\ label = "abort" /\ sess[p].txn.phase = "preparing"
       \/ pc[p] = "adopt" /\ label = "stop"
    /\ Swapped(p, n, label) /\ Kept(n, sess[p])
    /\ n.txn \in Txns /\ n.txn.gen = sess[p].txn.gen /\ n.txn.src = sess[p].txn.src
    /\ n.txn.phase = sess[p].txn.phase

ActivateS(p) == pc[p] = "activate" /\ Calm /\ \E n \in Sessions, label \in Labels :
    /\ label = "done" \/ (LostReply = TRUE /\ label = "verify")
    /\ Swapped(p, n, label)
    /\ n.state = "active" /\ n.pod = p /\ n.ckpt = None /\ n.txn = sess[p].txn

\* The agent reopens on an abort.
AbortS(p) ==
    LET t == sess[p].txn
        a == agent[t.src] IN
    /\ a.gate = "open" \/ (a.gate = "ready" /\ a.gen = t.gen)
    /\ AgentSet(t.src, "open", None, a.content)
    /\ \/ pc[p] = "abort" /\ Goes(p, "clear")
       \/ pc[p] = "rollback" /\ Goes(p, "rollbackClear")
    /\ UNCHANGED <<pods, archive, call, accepted, writer, rec, fence, kind, sess, faults, restarts>>

ApplyS(p) ==
    /\ pc[p] = "apply" /\ Goes(p, "activate")
    /\ AgentSet(p, "open", None, archive[sess[p].ckpt])
    /\ UNCHANGED <<pods, archive, call, accepted, writer, rec, fence, kind, sess, faults, restarts>>

BeginS(g) ==
    LET r == sess[g].pod IN
    /\ call[g] = "sent" /\ (Overtaking = TRUE \/ pc[g] # "done")
    /\ agent[r].gate = "open" /\ AgentSet(r, "streaming", g, agent[r].content)
    /\ call' = [call EXCEPT ![g] = "taken"]
    /\ UNCHANGED <<pods, archive, accepted, writer, pc, rec, fence, kind, sess, faults, restarts>>

CallFails(g) ==
    /\ call[g] \in {"sent", "taken"} /\ call' = [call EXCEPT ![g] = "failed"]
    /\ UNCHANGED <<pods, agent, archive, accepted, writer, pc, rec, fence, kind, sess, restarts>>
    /\ faults' \in 0 .. MaxFaults /\ (faults # 0 => faults' # 0)

FinishS(g) ==
    LET r == sess[g].pod IN
    /\ call[g] = "taken" /\ agent[r].gate = "streaming" /\ agent[r].gen = g
    /\ AgentSet(r, "ready", g, agent[r].content)
    /\ archive' = [archive EXCEPT ![g] = agent[r].content]
    /\ call' = [call EXCEPT ![g] = "answered"]
    /\ UNCHANGED <<pods, accepted, writer, pc, rec, fence, kind, sess, faults, restarts>>

FailS(g) ==
    LET r == sess[g].pod IN
    /\ call[g] = "taken" /\ agent[r].gate = "streaming" /\ agent[r].gen = g
    /\ AgentSet(r, "open", None, agent[r].content)
    /\ call' = [call EXCEPT ![g] = "failed"]
    /\ UNCHANGED <<pods, archive, accepted, writer, pc, rec, fence, kind, sess, restarts>>
    /\ faults' \in 0 .. MaxFaults /\ (faults # 0 => faults' # 0)

RestartS(r) ==
    /\ \E gate \in {"open", "awaiting"} : AgentSet(r, gate, None, agent[r].content)
    /\ restarts' \in 1 .. MaxRestarts /\ faults' \in 1 .. MaxFaults
    /\ UNCHANGED <<pods, archive, call, accepted, writer, pc, rec, fence, kind, sess>>

WriteTaken(w) ==
    LET r == writer[w] IN
    /\ r \in Rounds /\ Reachable(r) /\ agent[r].gate = "open"
    /\ AgentSet(r, "open", agent[r].gen, agent[r].content + 1)
    /\ accepted' = accepted + 1 /\ writer' = [writer EXCEPT ![w] = "served"]
    /\ UNCHANGED <<pods, archive, call, pc, rec, fence, kind, sess, faults, restarts>>

WriteMissed(w) ==
    /\ writer' = [writer EXCEPT ![w] = None]
    /\ UNCHANGED <<pods, agent, archive, call, accepted, pc, rec, fence, kind, sess, faults, restarts>>

Touched(w) ==
    /\ \/ /\ rec \in Sessions /\ rec' \in Sessions /\ Same(rec', rec) /\ rec'.accessed = 1
          /\ writer' = [writer EXCEPT ![w] = "touched"]
       \/ rec' = rec /\ writer' = [writer EXCEPT ![w] = "unrecorded"]
    /\ UNCHANGED <<pods, agent, archive, call, accepted, pc, fence, kind, sess, faults, restarts>>

NormalNext ==
    \/ \E p \in Ops :
         \/ Quiet(p) \/ Lock(p) \/ Read(p) \/ Reload(p) \/ PrepareS(p) \/ CommitS(p) \/ ClearS(p) \/ FinalizeS(p)
         \/ AdoptS(p) \/ ActivateS(p) \/ Send(p) \/ AbortS(p) \/ Stop(p) \/ StopHelper(p)
         \/ Provision(p) \/ ProvisionWorkload(p) \/ ApplyS(p) \/ Discard(p) \/ Delete(p)
         \/ BeginS(p) \/ CallFails(p) \/ FinishS(p) \/ FailS(p)
    \/ \E r \in Rounds : RestartS(r)
    \/ \E w \in Writers : WriteLookup(w) \/ WriteTaken(w) \/ WriteMissed(w) \/ Touched(w)

\* One agent changes.
LEMMA AgentUpdate ==
  ASSUME TypeOK, NEW r \in Rounds, NEW a \in AgentStates, agent' = [agent EXCEPT ![r] = a]
  PROVE  AgentSet(r, a.gate, a.gen, a.content)
  BY DEF TypeOK, AgentSet, AgentStates

LEMMA GateUpdate ==
  ASSUME TypeOK, NEW r \in Rounds, NEW gate \in Gates, NEW gen \in Ops \cup {None},
         agent' = [agent EXCEPT ![r].gate = gate, ![r].gen = gen]
  PROVE  AgentSet(r, gate, gen, agent[r].content)
<1>1. agent[r] \in AgentStates /\ agent \in [Rounds -> AgentStates]
  BY DEF TypeOK, AgentStates
<1>2. agent' = [agent EXCEPT ![r] = [agent[r] EXCEPT !.gate = gate, !.gen = gen]]
  BY <1>1 DEF AgentStates
<1> DEFINE a == [agent[r] EXCEPT !.gate = gate, !.gen = gen]
<1>3. a \in AgentStates /\ a.gate = gate /\ a.gen = gen /\ a.content = agent[r].content
  BY <1>1 DEF AgentStates
<1>4. agent' = [agent EXCEPT ![r] = a]
  BY <1>2
<1> HIDE DEF a
<1>5. AgentSet(r, a.gate, a.gen, a.content)
  BY <1>3, <1>4, AgentUpdate
<1>6. QED
  BY <1>3, <1>5

\* Where Plan sends a call.
LEMMA PlanIs ==
  ASSUME TypeOK, NEW p \in Ops, NEW r \in Sessions
  PROVE  Planned(p, r, Plan(p, r)) /\ Plan(p, r) \in Labels
<1>1. kind[p] \in AllKinds /\ r.state \in {"active", "snapshot"}
  BY SessionParts DEF TypeOK
<1>2. CASE r.txn # None
  <2>1. Plan(p, r) = IF kind[p] = "terminate" THEN "adopt" ELSE "recover"
    BY <1>2, Zenon DEF Plan
  <2>2. QED
    BY <1>2, <2>1 DEF Planned, Labels
<1>3. CASE r.txn = None
  BY <1>1, <1>3 DEF Plan, Planned, Labels, AllKinds
<1>4. QED
  BY <1>2, <1>3

\* A refused swap is a quiet step.
LEMMA MissIsQuiet ==
  ASSUME IInv, NEW p \in Ops, NEW label, Conflict(p, label), UNCHANGED <<plane, env>>,
         \/ label = "done" /\ pc[p] \in Knowing \ (Restoring \cup Restored)
         \/ label = "rollback" /\ pc[p] = "commit"
         \/ label = "load" /\ pc[p] = "recover"
         \/ label = "verify" /\ pc[p] = "activate"
  PROVE  Quiet(p)
<1>1. Missed(p, label) /\ Calm
  BY ConflictEffect DEF Calm, plane, env
<1>2. faults' \in 0 .. MaxFaults /\ (faults # 0 => faults' # 0)
  BY <1>1, LifecycleAssumption DEF Missed, Fault, IInv, TypeOK
<1>3. label \in Labels /\ QuietMove(p, label)
  BY DEF Labels, QuietMove, Knowing, Restoring, Restored
<1>4. QED
  BY <1>1, <1>2, <1>3 DEF Quiet, Goes, Missed

\* Every step is a normal one: for each action, which.
LEMMA LoadNormal == ASSUME IInv, NEW p \in Ops, Load(p) PROVE Quiet(p) \/ Read(p)
<1>1. CASE rec = None
  BY <1>1 DEF IInv, TypeOK, At, Goto, Ended, Goes, Calm, Quiet, QuietMove, Labels, store, plane, ops,
      env, count, Missed, Fault, Load
<1>2. CASE rec # None
  <2>1. rec \in Sessions
    BY <1>2 DEF IInv, TypeOK
  <2>2. Planned(p, rec, Plan(p, rec)) /\ Plan(p, rec) \in Labels
    BY <2>1, PlanIs DEF IInv
  <2>3. /\ pc[p] = "load" /\ pc' = [pc EXCEPT ![p] = Plan(p, rec)] /\ sess' = [sess EXCEPT ![p] = rec]
        /\ UNCHANGED <<rec, fence, kind, faults, restarts>> /\ Calm
    BY <1>2 DEF Load, At, Goto, store, plane, env, count, Calm
  <2>4. QED
    BY <2>1, <2>2, <2>3 DEF Read, Goes
<1>3. QED
  BY <1>1, <1>2

LEMMA CutoffNormal == ASSUME IInv, NEW p \in Ops, Cutoff(p) PROVE Quiet(p) \/ Reload(p)
<1>1. CASE rec = None
  BY <1>1 DEF IInv, TypeOK, At, Goto, Ended, Goes, Calm, Quiet, QuietMove, Labels, store, plane, ops,
      env, count, Missed, Fault, Cutoff
<1>2. CASE rec # None
  <2>1. rec \in Sessions /\ Same(rec, rec) /\ rec.state \in {"active", "snapshot"} /\ pc[p] = "cutoff"
    BY <1>2, SessionParts DEF IInv, TypeOK, Same, Cutoff, At
  <2>2. sess' = [sess EXCEPT ![p] = rec] /\ rec' = rec /\ Calm /\ UNCHANGED <<fence, kind, faults, restarts>>
    BY <1>2 DEF Cutoff, Calm, store, plane, env, count
  <2>3. pc' = [pc EXCEPT ![p] = IF rec.accessed = 1 \/ rec.state = "snapshot" THEN "done" ELSE "holding"]
    BY <1>2 DEF Cutoff, Goto
  <2>4. QED
    BY <2>1, <2>2, <2>3 DEF Reload, Goes, Labels
<1>3. QED
  BY <1>1, <1>2

LEMMA HoldingNormal == ASSUME IInv, NEW p \in Ops, Holding(p) PROVE Quiet(p)
  BY DEF IInv, TypeOK, At, Goto, Goes, Calm, Quiet, QuietMove, Labels, store, plane, env, count, Holding

LEMMA HoldNormal == ASSUME IInv, NEW p \in Ops, Hold(p) PROVE Quiet(p) \/ Reload(p)
<1>1. CASE rec' = rec
  BY <1>1 DEF IInv, TypeOK, At, Goto, Goes, Calm, Quiet, QuietMove, Labels, store, plane, env, count, Hold
<1>2. CASE rec # None /\ rec' = [rec EXCEPT !.accessed = 1]
  <2>1. rec \in Sessions
    BY <1>2 DEF IInv, TypeOK
  <2>2. rec' \in Sessions /\ Same(rec', rec) /\ rec'.accessed = 1
    BY <1>2, <2>1, WithAccess
  <2>3. pc[p] = "hold" /\ sess' = sess /\ Goes(p, "done") /\ Calm /\ UNCHANGED <<fence, kind, faults, restarts>>
    BY DEF Hold, At, Goto, Goes, Labels, Calm, plane, env, count
  <2>4. QED
    BY <2>1, <2>2, <2>3 DEF Reload
<1>3. QED
  BY <1>1, <1>2 DEF Hold

LEMMA CancelNormal == ASSUME IInv, NEW p \in Ops, Cancel(p) PROVE Quiet(p)
<1>1. faults' \in 0 .. MaxFaults /\ faults' # 0
  BY LifecycleAssumption, NamesAssumption DEF Cancel, Fault, IInv, TypeOK
<1>2. \E label \in Labels : QuietMove(p, label) /\ Goes(p, label)
  <2>1. CASE pc[p] \in {"provisionWorkload", "apply", "activate"}
    BY <2>1 DEF Cancel, QuietMove, Goes, Labels, Goto
  <2>2. CASE pc[p] \notin {"provisionWorkload", "apply", "activate"}
    BY <1>1, <2>2 DEF Cancel, QuietMove, Goes, Labels, Goto, At, Ended
  <2>3. QED
    BY <2>1, <2>2
<1>3. QED
  BY <1>1, <1>2 DEF Cancel, Quiet, Calm, store, plane, env

LEMMA PrepareNormal == ASSUME IInv, NEW p \in Ops, Prepare(p) PROVE Quiet(p) \/ PrepareS(p)
<1>1. sess[p] \in Sessions /\ pc[p] = "prepare"
  BY DEF IInv, TypeOK, FenceInv, Knowing, Labels, Prepare, At

<1>2. sess[p].pod \in Rounds
  BY <1>1 DEF IInv, LabelInv, ShapeInv, Shape, Used, Rounds, FenceInv, Knowing, Labels
<1> DEFINE txn == [gen |-> p, owner |-> p, src |-> sess[p].pod, phase |-> "preparing"]
           n   == [sess[p] EXCEPT !.txn = txn]
<1>3. txn \in Txns /\ txn.gen = p /\ txn.src = sess[p].pod /\ txn.phase = "preparing"
  BY <1>2 DEF Txns
<1>4. n \in Sessions /\ n.txn = txn /\ Kept(n, sess[p])
  BY <1>1, <1>3, WithTxn DEF Kept
<1>5. (Swap(p, n, "send") \/ Conflict(p, "done")) /\ UNCHANGED <<plane, env>>
  BY DEF Prepare
<1> HIDE DEF n, txn
<1>6. CASE Swap(p, n, "send")
  <2>1. Swapped(p, n, "send") /\ Calm
    BY <1>4, <1>5, <1>6, SwapEffect, Zenon DEF IInv, Calm, plane, env
  <2>2. QED
    BY <1>1, <1>3, <1>4, <2>1 DEF PrepareS
<1>7. CASE Conflict(p, "done")
  BY <1>1, <1>5, <1>7, MissIsQuiet DEF Knowing, Restoring, Restored, Labels
<1>8. QED
  BY <1>5, <1>6, <1>7

LEMMA CommitNormal == ASSUME IInv, NEW p \in Ops, Commit(p) PROVE Quiet(p) \/ CommitS(p)
<1>1. sess[p] \in Sessions /\ pc[p] = "commit"
  BY DEF IInv, TypeOK, FenceInv, Knowing, Labels, Commit, At

<1> DEFINE n == [sess[p] EXCEPT !.txn.phase = "committing"]
<1>2. sess[p].txn \in Txns
  BY <1>1, SessionParts DEF IInv, LabelInv, Freezing
<1>3. /\ n \in Sessions /\ Kept(n, sess[p]) /\ n.txn \in Txns
      /\ n.txn.gen = sess[p].txn.gen /\ n.txn.src = sess[p].txn.src /\ n.txn.phase = "committing"
  BY <1>1, <1>2, TxnCommits DEF Kept
<1>4. (Swap(p, n, "stop") \/ Conflict(p, "rollback")) /\ UNCHANGED <<plane, env>>
  BY DEF Commit
<1> HIDE DEF n
<1>5. CASE Swap(p, n, "stop")
  <2>1. Swapped(p, n, "stop") /\ Calm
    BY <1>3, <1>4, <1>5, SwapEffect, Zenon DEF IInv, Calm, plane, env
  <2>2. QED
    BY <1>1, <1>3, <2>1 DEF CommitS
<1>6. CASE Conflict(p, "rollback")
  BY <1>1, <1>4, <1>6, MissIsQuiet
<1>7. QED
  BY <1>4, <1>5, <1>6

LEMMA RollbackClearNormal == ASSUME IInv, NEW p \in Ops, RollbackClear(p) PROVE Quiet(p) \/ ClearS(p)
<1>1. sess[p] \in Sessions /\ pc[p] = "rollbackClear"
  BY DEF IInv, TypeOK, FenceInv, Knowing, Labels, RollbackClear, At

<1> DEFINE n == [sess[p] EXCEPT !.txn = None]
<1>2. n \in Sessions /\ n.txn = None /\ Kept(n, sess[p])
  BY <1>1, WithTxn DEF Kept
<1>3. (Swap(p, n, "done") \/ Conflict(p, "done")) /\ UNCHANGED <<plane, env>>
  BY DEF RollbackClear
<1> HIDE DEF n
<1>4. CASE Swap(p, n, "done")
  <2>1. Swapped(p, n, "done") /\ Calm
    BY <1>2, <1>3, <1>4, SwapEffect, Zenon DEF IInv, Calm, plane, env
  <2>2. Planned(p, n, "done") /\ "done" \in Labels
    BY DEF Planned, Labels
  <2>3. QED
    BY <1>1, <1>2, <2>1, <2>2 DEF ClearS
<1>5. CASE Conflict(p, "done")
  BY <1>1, <1>3, <1>5, MissIsQuiet DEF Knowing, Restoring, Restored, Labels
<1>6. QED
  BY <1>3, <1>4, <1>5

LEMMA ClearNormal == ASSUME IInv, NEW p \in Ops, Clear(p) PROVE Quiet(p) \/ ClearS(p)
<1>1. sess[p] \in Sessions /\ pc[p] = "clear"
  BY DEF IInv, TypeOK, FenceInv, Knowing, Labels, Clear, At

<1> DEFINE n == [sess[p] EXCEPT !.txn = None]
<1>2. n \in Sessions /\ n.txn = None /\ Kept(n, sess[p])
  BY <1>1, WithTxn DEF Kept
<1>3. (Swap(p, n, Plan(p, n)) \/ Conflict(p, "done")) /\ UNCHANGED <<plane, env>>
  BY DEF Clear
<1> HIDE DEF n
<1>4. CASE Swap(p, n, Plan(p, n))
  <2>1. Swapped(p, n, Plan(p, n)) /\ Calm
    BY <1>2, <1>3, <1>4, SwapEffect, Zenon DEF IInv, Calm, plane, env
  <2>2. Planned(p, n, Plan(p, n)) /\ Plan(p, n) \in Labels
    BY <1>2, PlanIs DEF IInv
  <2>3. QED
    BY <1>1, <1>2, <2>1, <2>2 DEF ClearS
<1>5. CASE Conflict(p, "done")
  BY <1>1, <1>3, <1>5, MissIsQuiet DEF Knowing, Restoring, Restored, Labels
<1>6. QED
  BY <1>3, <1>4, <1>5

LEMMA AdoptNormal == ASSUME IInv, NEW p \in Ops, Adopt(p) PROVE Quiet(p) \/ AdoptS(p)
<1>1. sess[p] \in Sessions /\ pc[p] = "adopt"
  BY DEF IInv, TypeOK, FenceInv, Knowing, Labels, Adopt, At
<1> DEFINE n == [sess[p] EXCEPT !.txn.owner = p]
<1>2. sess[p].txn \in Txns
  BY <1>1, SessionParts DEF IInv, LabelInv
<1>3. /\ n \in Sessions /\ Kept(n, sess[p]) /\ n.txn \in Txns
      /\ n.txn.gen = sess[p].txn.gen /\ n.txn.src = sess[p].txn.src /\ n.txn.phase = sess[p].txn.phase
  BY <1>1, <1>2, TxnAdopted DEF Kept

<1>4. (Swap(p, n, "stop") \/ Conflict(p, "done")) /\ UNCHANGED <<plane, env>>
  BY DEF Adopt
<1> HIDE DEF n
<1>5. CASE Swap(p, n, "stop")
  <2>1. Swapped(p, n, "stop") /\ Calm /\ "stop" \in Labels
    BY <1>3, <1>4, <1>5, SwapEffect, Zenon DEF IInv, Calm, plane, env, Labels
  <2>2. QED
    BY <1>1, <1>3, <2>1 DEF AdoptS
<1>6. CASE Conflict(p, "done")
  BY <1>1, <1>4, <1>6, MissIsQuiet DEF Knowing, Restoring, Restored, Labels
<1>7. QED
  BY <1>4, <1>5, <1>6

LEMMA RecoverNormal == ASSUME IInv, NEW p \in Ops, Recover(p) PROVE Quiet(p) \/ AdoptS(p)
<1>1. sess[p] \in Sessions /\ pc[p] = "recover"
  BY DEF IInv, TypeOK, FenceInv, Knowing, Labels, Recover, At
<1> DEFINE n == [sess[p] EXCEPT !.txn.owner = p]
<1>2. sess[p].txn \in Txns
  BY <1>1, SessionParts DEF IInv, LabelInv
<1>3. /\ n \in Sessions /\ Kept(n, sess[p]) /\ n.txn \in Txns
      /\ n.txn.gen = sess[p].txn.gen /\ n.txn.src = sess[p].txn.src /\ n.txn.phase = sess[p].txn.phase
  BY <1>1, <1>2, TxnAdopted DEF Kept

<1> HIDE DEF n
<1>4. CASE sess[p].txn.phase = "preparing" /\ Swap(p, n, "abort")
  <2>1. UNCHANGED <<plane, env>>
    BY DEF Recover
  <2>2. Swapped(p, n, "abort") /\ Calm /\ "abort" \in Labels
    BY <1>3, <1>4, <2>1, SwapEffect, Zenon DEF IInv, Calm, plane, env, Labels
  <2>3. QED
    BY <1>1, <1>3, <1>4, <2>2 DEF AdoptS
<1>5. CASE Conflict(p, "load")
  BY <1>1, <1>5, MissIsQuiet DEF Recover
<1>6. CASE sess[p].txn.phase = "committing" /\ Goto(p, "stop") /\ UNCHANGED <<store, kind, sess, count>>
  BY <1>1, <1>6, LifecycleAssumption DEF Recover, Quiet, QuietMove, Goes, Goto, Labels, Calm, store,
      plane, env, count, IInv, TypeOK
<1>7. QED
  BY <1>4, <1>5, <1>6 DEF Recover, n

LEMMA FinalizeNormal == ASSUME IInv, NEW p \in Ops, Finalize(p) PROVE Quiet(p) \/ FinalizeS(p) \/ Read(p)
<1>1. sess[p] \in Sessions /\ pc[p] = "finalize"
  BY DEF IInv, TypeOK, FenceInv, Knowing, Labels, Finalize, At

<1> DEFINE n == Frozen(sess[p])
           After(r) == IF sess[p].txn.gen = p THEN "done" ELSE Plan(p, r)
<1>2. sess[p].txn \in Txns /\ kind[p] # "terminate"
  BY <1>1, SessionParts DEF IInv, LabelInv, Reclaiming
<1>3. n \in Sessions /\ n.state = "snapshot" /\ n.pod = None /\ n.ckpt = sess[p].txn.gen /\ n.txn = None
  BY <1>1, <1>2, FrozenParts
<1>4. ASSUME NEW r \in Sessions
      PROVE  Planned(p, r, After(r)) /\ After(r) \in Labels /\ (sess[p].txn.gen = p => After(r) = "done")
  <2>1. CASE sess[p].txn.gen = p
    BY <2>1 DEF Planned, Labels
  <2>2. CASE sess[p].txn.gen # p
    BY <1>4, <2>2, PlanIs DEF IInv
  <2>3. QED
    BY <2>1, <2>2
<1>5. UNCHANGED <<plane, env>>
  BY DEF Finalize
<1>6. CASE Swap(p, n, After(n))
  <2> HIDE DEF n, After
  <2>1. Swapped(p, n, After(n)) /\ Calm
    BY <1>3, <1>5, <1>6, SwapEffect, Zenon DEF IInv, Calm, plane, env
  <2>2. QED
    BY <1>1, <1>3, <1>4, <2>1 DEF FinalizeS
<1>7. CASE Conflict(p, "done")
  BY <1>1, <1>5, <1>7, MissIsQuiet DEF Knowing, Restoring, Restored, Labels
<1>8. CASE /\ ~CanSwap(p) /\ rec # None /\ sess' = [sess EXCEPT ![p] = rec] /\ Goto(p, After(rec))
           /\ UNCHANGED <<rec, fence, kind, count>>
  <2>1. /\ rec \in Sessions /\ Planned(p, rec, After(rec)) /\ After(rec) \in Labels
        /\ sess[p].txn.gen = p => After(rec) = "done"
    BY <1>4, <1>8 DEF IInv, TypeOK
  <2>2. fence # p
    BY <1>1, <1>8 DEF CanSwap, IInv, FenceInv, Same, Knowing, Labels
  <2> HIDE DEF After
  <2>3. pc' = [pc EXCEPT ![p] = After(rec)] /\ UNCHANGED <<rec, fence, kind, faults, restarts>> /\ Calm
    BY <1>5, <1>8 DEF Goto, count, Calm, plane, env
  <2>4. QED
    BY <1>1, <1>8, <2>1, <2>2, <2>3 DEF Read, Goes
<1>9. QED
  BY <1>6, <1>7, <1>8 DEF Finalize

LEMMA ActivateNormal == ASSUME IInv, NEW p \in Ops, Activate(p) PROVE Quiet(p) \/ ActivateS(p)
<1>1. sess[p] \in Sessions /\ pc[p] = "activate"
  BY DEF IInv, TypeOK, FenceInv, Knowing, Labels, Activate, At

<1> DEFINE n == [sess[p] EXCEPT !.state = "active", !.pod = p, !.ckpt = None, !.accessed = 1]
<1>2. n \in Sessions /\ n.state = "active" /\ n.pod = p /\ n.ckpt = None /\ n.txn = sess[p].txn
  BY <1>1, ActivatedParts
<1>3. UNCHANGED <<plane, env>>
  BY DEF Activate
<1>4. \/ Swap(p, n, "done")
      \/ LostReply = TRUE /\ Swap(p, n, "verify")
      \/ Conflict(p, "verify")
  BY LifecycleAssumption, Zenon DEF Activate
<1> HIDE DEF n
<1>5. ASSUME NEW label \in Labels, Swap(p, n, label), label = "done" \/ (LostReply = TRUE /\ label = "verify")
      PROVE  ActivateS(p)
  <2>1. Swapped(p, n, label) /\ Calm
    BY <1>2, <1>3, <1>5, SwapEffect, Zenon DEF IInv, Calm, plane, env
  <2>2. QED
    BY <1>1, <1>2, <1>5, <2>1 DEF ActivateS
<1>6. CASE Conflict(p, "verify")
  BY <1>1, <1>3, <1>6, MissIsQuiet
<1>7. QED
  BY <1>4, <1>5, <1>6 DEF Labels

LEMMA AbortNormal == ASSUME IInv, NEW p \in Ops, Abort(p) PROVE Quiet(p) \/ AbortS(p)
<1>1. sess[p] \in Sessions /\ pc[p] = "abort"
  BY DEF IInv, TypeOK, FenceInv, Knowing, Labels, Abort, At
<1>2. sess[p].txn \in Txns
  BY <1>1, SessionParts DEF IInv, LabelInv, Freezing
<1>3. sess[p].txn.src \in Rounds
  BY <1>2, TxnParts
<1>4. CASE ~AbortAccepted(sess[p].txn.src, sess[p].txn.gen)
  BY <1>1, <1>4 DEF Abort, AbortCall, Quiet, QuietMove, Goes, Goto, Labels, Calm, store, env, count,
      IInv, TypeOK
<1>5. CASE AbortAccepted(sess[p].txn.src, sess[p].txn.gen)
  <2>1. agent' = [agent EXCEPT ![sess[p].txn.src].gate = "open", ![sess[p].txn.src].gen = None]
    BY <1>5 DEF Abort, AbortCall, Reopened
  <2>2. AgentSet(sess[p].txn.src, "open", None, agent[sess[p].txn.src].content)
    BY <1>3, <2>1, GateUpdate, "open" \in Gates DEF IInv, Gates
  <2>3. QED
    BY <1>1, <1>5, <2>2 DEF Abort, AbortCall, AbortAccepted, AbortS, Goes, Goto, Labels, store, env, count
<1>6. QED
  BY <1>4, <1>5

LEMMA RollbackNormal == ASSUME IInv, NEW p \in Ops, Rollback(p) PROVE Quiet(p) \/ AbortS(p)
<1>1. sess[p] \in Sessions /\ pc[p] = "rollback"
  BY DEF IInv, TypeOK, FenceInv, Knowing, Labels, Rollback, At
<1>2. sess[p].txn \in Txns
  BY <1>1, SessionParts DEF IInv, LabelInv, Freezing
<1>3. sess[p].txn.src \in Rounds
  BY <1>2, TxnParts
<1>4. CASE ~AbortAccepted(sess[p].txn.src, sess[p].txn.gen)
  BY <1>1, <1>4 DEF Rollback, AbortCall, Quiet, QuietMove, Goes, Goto, Labels, Calm, store, env, count,
      IInv, TypeOK
<1>5. CASE AbortAccepted(sess[p].txn.src, sess[p].txn.gen)
  <2>1. agent' = [agent EXCEPT ![sess[p].txn.src].gate = "open", ![sess[p].txn.src].gen = None]
    BY <1>5 DEF Rollback, AbortCall, Reopened
  <2>2. AgentSet(sess[p].txn.src, "open", None, agent[sess[p].txn.src].content)
    BY <1>3, <2>1, GateUpdate, "open" \in Gates DEF IInv, Gates
  <2>3. QED
    BY <1>1, <1>5, <2>2 DEF Rollback, AbortCall, AbortAccepted, AbortS, Goes, Goto, Labels, store, env, count
<1>6. QED
  BY <1>4, <1>5

LEMMA ApplyNormal == ASSUME IInv, NEW p \in Ops, Apply(p) PROVE Quiet(p) \/ ApplyS(p)
<1>1. sess[p] \in Sessions /\ pc[p] = "apply" /\ Reachable(p)
  BY DEF IInv, TypeOK, FenceInv, Knowing, Labels, Apply, At, PodInv, Reachable
<1>2. sess[p].ckpt \in Ops
  BY <1>1 DEF IInv, LabelInv, Restoring, ShapeInv, Shape, Sealed, GenUsed, FenceInv, Knowing, Labels
<1> DEFINE a == [gate |-> "open", gen |-> None, content |-> archive[sess[p].ckpt]]
<1>3. a \in AgentStates /\ a.gate = "open" /\ a.gen = None /\ a.content = archive[sess[p].ckpt]
  BY <1>2 DEF AgentStates, Gates, IInv, TypeOK
<1>4. agent' = [agent EXCEPT ![p] = a] /\ pc' = [pc EXCEPT ![p] = "activate"]
  BY <1>1 DEF Apply, Goto
<1>5. p \in Rounds
  BY DEF Rounds
<1> HIDE DEF a
<1>6. AgentSet(p, "open", None, archive[sess[p].ckpt])
  BY <1>3, <1>4, <1>5, AgentUpdate DEF IInv
<1>7. QED
  BY <1>1, <1>4, <1>6 DEF ApplyS, Goes, Labels, Apply, store, env, count

LEMMA AgentBeginNormal == ASSUME IInv, NEW p \in Ops, AgentBegin(p) PROVE CallFails(p) \/ BeginS(p)
<1>1. call[p] = "sent"
  BY DEF AgentBegin
<1>2. CASE Reachable(sess[p].pod) /\ agent[sess[p].pod].gate = "open" /\ (Overtaking \/ ~Ended(p))
  <2>1. sess[p].pod \in Rounds
    BY <1>2 DEF Reachable, Workload, IInv, TypeOK
  <2>2. /\ agent' = [agent EXCEPT ![sess[p].pod].gate = "streaming", ![sess[p].pod].gen = p]
        /\ call' = [call EXCEPT ![p] = "taken"]
    BY <1>2 DEF AgentBegin
  <2>3. AgentSet(sess[p].pod, "streaming", p, agent[sess[p].pod].content)
    BY <2>1, <2>2, GateUpdate, "streaming" \in Gates DEF IInv, Gates
  <2>4. Overtaking = TRUE \/ pc[p] # "done"
    BY <1>2, LifecycleAssumption DEF Ended
  <2>5. QED
    BY <1>1, <1>2, <2>2, <2>3, <2>4 DEF AgentBegin, BeginS, store, ops, env, count
<1>3. CASE ~(Reachable(sess[p].pod) /\ agent[sess[p].pod].gate = "open" /\ (Overtaking \/ ~Ended(p)))
  BY <1>1, <1>3, LifecycleAssumption DEF AgentBegin, CallFails, store, ops, env, count, IInv, TypeOK
<1>4. QED
  BY <1>2, <1>3

LEMMA AgentFinishNormal == ASSUME IInv, NEW p \in Ops, AgentFinish(p) PROVE FinishS(p)
<1>1. sess[p].pod \in Rounds
  BY DEF AgentFinish, Reachable, Workload, IInv, TypeOK
<1> DEFINE r == sess[p].pod
           a == [agent[r] EXCEPT !.gate = "ready"]
<1>2. agent[r] \in AgentStates /\ agent[r].gen = p /\ agent' = [agent EXCEPT ![r] = a]
  BY <1>1 DEF AgentFinish, AgentStates, IInv, TypeOK
<1>3. a \in AgentStates /\ a.gate = "ready" /\ a.gen = p /\ a.content = agent[r].content
  BY <1>2 DEF AgentStates, Gates
<1> HIDE DEF a
<1>4. AgentSet(r, "ready", p, agent[r].content)
  BY <1>1, <1>2, <1>3, AgentUpdate DEF IInv
<1>5. QED
  BY <1>4 DEF AgentFinish, FinishS, store, ops, env, count

LEMMA AgentFailNormal == ASSUME IInv, NEW p \in Ops, AgentFail(p) PROVE CallFails(p) \/ FailS(p)
<1>1. call[p] = "taken" /\ faults' \in 0 .. MaxFaults /\ (faults # 0 => faults' # 0)
  BY LifecycleAssumption DEF AgentFail, Fault, IInv, TypeOK
<1>2. CASE agent[sess[p].pod].gate = "streaming" /\ agent[sess[p].pod].gen = p
  <2>1. CASE sess[p].pod \in Rounds
    <3>1. agent' = [agent EXCEPT ![sess[p].pod].gate = "open", ![sess[p].pod].gen = None]
      BY <1>2 DEF AgentFail, Reopened
    <3>2. AgentSet(sess[p].pod, "open", None, agent[sess[p].pod].content)
      BY <2>1, <3>1, GateUpdate, "open" \in Gates DEF IInv, Gates
    <3>3. QED
      BY <1>1, <1>2, <3>2 DEF AgentFail, FailS, store, ops, env
  <2>2. CASE sess[p].pod \notin Rounds
    <3>1. agent' = agent
      BY <1>2, <2>2 DEF AgentFail, Reopened, IInv, TypeOK
    <3>2. QED
      BY <1>1, <3>1 DEF AgentFail, CallFails, store, ops, env
  <2>3. QED
    BY <2>1, <2>2
<1>3. CASE ~(agent[sess[p].pod].gate = "streaming" /\ agent[sess[p].pod].gen = p)
  BY <1>1, <1>3 DEF AgentFail, CallFails, store, ops, env
<1>4. QED
  BY <1>2, <1>3

LEMMA RestartNormal == ASSUME IInv, NEW r \in Rounds, AgentRestart(r) PROVE RestartS(r)
<1>1. restarts' \in 1 .. MaxRestarts /\ faults' \in 1 .. MaxFaults
  BY LifecycleAssumption DEF AgentRestart, Fault, IInv, TypeOK
<1>2. PICK gate \in {"open", "awaiting"} : agent' = [agent EXCEPT ![r].gate = gate, ![r].gen = None]
  BY DEF AgentRestart
<1>3. AgentSet(r, gate, None, agent[r].content)
  BY <1>2, GateUpdate, gate \in Gates DEF IInv, Gates
<1>4. QED
  BY <1>1, <1>3 DEF AgentRestart, RestartS, store, ops, env

LEMMA WriteSendNormal == ASSUME IInv, NEW w \in Writers, WriteSend(w) PROVE WriteTaken(w) \/ WriteMissed(w)
<1> DEFINE r == writer[w]
           a == [agent[r] EXCEPT !.content = @ + 1]
<1>1. r \in Rounds /\ agent[r] \in AgentStates
  BY DEF WriteSend, IInv, TypeOK, AgentStates
<1>2. CASE Reachable(r) /\ agent[r].gate = "open"
  <2>1. agent' = [agent EXCEPT ![r] = a] /\ accepted' = accepted + 1 /\ writer' = [writer EXCEPT ![w] = "served"]
    BY <1>1, <1>2 DEF WriteSend, AgentStates
  <2>2. a \in AgentStates /\ a.gate = "open" /\ a.gen = agent[r].gen /\ a.content = agent[r].content + 1
    BY <1>1, <1>2 DEF AgentStates
  <2> HIDE DEF a
  <2>3. AgentSet(r, "open", agent[r].gen, agent[r].content + 1)
    BY <1>1, <2>1, <2>2, AgentUpdate DEF IInv
  <2>4. QED
    BY <1>1, <1>2, <2>1, <2>3 DEF WriteSend, WriteTaken, store, ops, count
<1>3. CASE ~(Reachable(r) /\ agent[r].gate = "open")
  BY <1>3 DEF WriteSend, WriteMissed, store, ops, count
<1>4. QED
  BY <1>2, <1>3

LEMMA WriteTouchNormal == ASSUME IInv, NEW w \in Writers, WriteTouch(w) PROVE Touched(w)
<1>1. CASE rec # None /\ rec' = [rec EXCEPT !.accessed = 1] /\ writer' = [writer EXCEPT ![w] = "touched"]
  <2>1. rec \in Sessions
    BY <1>1 DEF IInv, TypeOK
  <2>2. rec' \in Sessions /\ Same(rec', rec) /\ rec'.accessed = 1
    BY <1>1, <2>1, WithAccess
  <2>3. QED
    BY <1>1, <2>1, <2>2 DEF WriteTouch, Touched, plane, ops, count
<1>2. CASE rec' = rec /\ writer' = [writer EXCEPT ![w] = "unrecorded"]
  BY <1>2 DEF WriteTouch, Touched, plane, ops, count
<1>3. QED
  BY <1>1, <1>2 DEF WriteTouch

LEMMA AwaitNormal == ASSUME IInv, NEW p \in Ops, Await(p) PROVE Quiet(p)
  BY LifecycleAssumption, NamesAssumption DEF IInv, TypeOK, At, Goto, Ended, Goes, Calm, Quiet,
      QuietMove, Labels, store, plane, ops, env, count, Missed, Fault, Await

LEMMA VerifyNormal == ASSUME IInv, NEW p \in Ops, Verify(p) PROVE Quiet(p)
  BY LifecycleAssumption, NamesAssumption DEF IInv, TypeOK, At, Goto, Ended, Goes, Calm, Quiet,
      QuietMove, Labels, store, plane, ops, env, count, Missed, Fault, Verify

LEMMA CrashNormal == ASSUME IInv, NEW p \in Ops, Crash(p) PROVE Quiet(p)
  BY LifecycleAssumption, NamesAssumption DEF IInv, TypeOK, At, Goto, Ended, Goes, Calm, Quiet,
      QuietMove, Labels, store, plane, ops, env, count, Missed, Fault, Crash

LEMMA RetryNormal == ASSUME IInv, NEW p \in Ops, Retry(p) PROVE Quiet(p)
  BY LifecycleAssumption, NamesAssumption DEF IInv, TypeOK, At, Goto, Ended, Goes, Calm, Quiet,
      QuietMove, Labels, store, plane, ops, env, count, Missed, Fault, Retry

\* Every step of the specification is a normal one.
LEMMA StepIsNormal == ASSUME IInv, [PolledNext]_vars PROVE NormalNext \/ UNCHANGED vars
<1>1. ASSUME NEW p \in Ops, OpStep(p) PROVE NormalNext
  <2>1. CASE Lock(p)
    BY <2>1 DEF NormalNext
  <2>2. CASE Load(p)
    BY <2>2, LoadNormal DEF NormalNext
  <2>3. CASE Cutoff(p)
    BY <2>3, CutoffNormal DEF NormalNext
  <2>a. CASE Holding(p)
    BY <2>a, HoldingNormal DEF NormalNext
  <2>b. CASE Hold(p)
    BY <2>b, HoldNormal DEF NormalNext
  <2>4. CASE Prepare(p)
    BY <2>4, PrepareNormal DEF NormalNext
  <2>5. CASE Send(p)
    BY <2>5 DEF NormalNext
  <2>6. CASE Await(p)
    BY <2>6, AwaitNormal DEF NormalNext
  <2>7. CASE Commit(p)
    BY <2>7, CommitNormal DEF NormalNext
  <2>8. CASE Rollback(p)
    BY <2>8, RollbackNormal DEF NormalNext
  <2>9. CASE RollbackClear(p)
    BY <2>9, RollbackClearNormal DEF NormalNext
  <2>10. CASE Stop(p)
    BY <2>10 DEF NormalNext
  <2>11. CASE StopHelper(p)
    BY <2>11 DEF NormalNext
  <2>12. CASE Finalize(p)
    BY <2>12, FinalizeNormal DEF NormalNext
  <2>13. CASE Recover(p)
    BY <2>13, RecoverNormal DEF NormalNext
  <2>14. CASE Abort(p)
    BY <2>14, AbortNormal DEF NormalNext
  <2>15. CASE Clear(p)
    BY <2>15, ClearNormal DEF NormalNext
  <2>16. CASE Provision(p)
    BY <2>16 DEF NormalNext
  <2>17. CASE ProvisionWorkload(p)
    BY <2>17 DEF NormalNext
  <2>18. CASE Apply(p)
    BY <2>18, ApplyNormal DEF NormalNext
  <2>19. CASE Activate(p)
    BY <2>19, ActivateNormal DEF NormalNext
  <2>20. CASE Verify(p)
    BY <2>20, VerifyNormal DEF NormalNext
  <2>21. CASE Discard(p)
    BY <2>21 DEF NormalNext
  <2>22. CASE Adopt(p)
    BY <2>22, AdoptNormal DEF NormalNext
  <2>23. CASE Delete(p)
    BY <2>23 DEF NormalNext
  <2>24. QED
    BY <1>1, <2>1, <2>2, <2>3, <2>a, <2>b, <2>4, <2>5, <2>6, <2>7, <2>8, <2>9, <2>10, <2>11, <2>12,
        <2>13, <2>14, <2>15, <2>16, <2>17, <2>18, <2>19, <2>20, <2>21, <2>22, <2>23 DEF OpStep
<1>2. ASSUME NEW p \in Ops, AgentStep(p) \/ Cancel(p) \/ Crash(p) \/ Retry(p) PROVE NormalNext
  <2>1. CASE AgentBegin(p) \/ AgentFinish(p) \/ AgentFail(p)
    BY <2>1, AgentBeginNormal, AgentFinishNormal, AgentFailNormal DEF NormalNext
  <2>2. CASE Cancel(p) \/ Crash(p) \/ Retry(p)
    BY <2>2, CancelNormal, CrashNormal, RetryNormal DEF NormalNext
  <2>3. QED
    BY <1>2, <2>1, <2>2 DEF AgentStep
<1>3. ASSUME NEW r \in Rounds, AgentRestart(r) PROVE NormalNext
  BY <1>3, RestartNormal DEF NormalNext
<1>4. ASSUME NEW w \in Writers, WriteLookup(w) \/ WriteSend(w) \/ WriteTouch(w) PROVE NormalNext
  BY <1>4, WriteSendNormal, WriteTouchNormal DEF NormalNext
<1>5. QED
  BY <1>1, <1>2, <1>3, <1>4 DEF PolledNext, Next

-----------------------------------------------------------------------------
\* The invariant.

\* It holds of the session that Create stored.
LEMMA InitIInv == ASSUME Init PROVE IInv
<1>1. TypeOK
  <2>1. rec \in Sessions
    BY DEF Init, Sessions, Rounds
  <2>2. agent \in [Rounds -> [gate: Gates, gen: Ops \cup {None}, content: Nat]]
    BY DEF Init, Gates
  <2>3. pods \subseteq Rounds \X {"workload", "helper"}
    BY DEF Init, Workload, Helper, Rounds
  <2>4. /\ fence \in Ops \cup {None} /\ archive \in [Ops -> Nat] /\ accepted \in Nat
        /\ call \in [Ops -> {"none", "sent", "taken", "answered", "failed"}]
        /\ pc \in [Ops -> Labels] /\ kind \in [Ops -> AllKinds] /\ sess \in [Ops -> Sessions \cup {None}]
    BY LifecycleAssumption DEF Init, Labels
  <2>5. /\ writer \in [Writers -> Rounds \cup {None} \cup Fates]
        /\ faults \in 0 .. MaxFaults /\ restarts \in 0 .. MaxRestarts
    BY LifecycleAssumption DEF Init
  <2>6. QED
    BY <2>1, <2>2, <2>3, <2>4, <2>5 DEF TypeOK
<1>2. /\ rec # None /\ rec.state = "active" /\ rec.pod = First /\ rec.ckpt = None /\ rec.txn = None
      /\ fence = None /\ call = [g \in Ops |-> "none"] /\ pc = [p \in Ops |-> "idle"]
      /\ sess = [p \in Ops |-> None] /\ writer = [w \in Writers |-> None]
  <2>1. rec \in Sessions
    BY DEF Init, Sessions, Rounds
  <2>2. QED
    BY <2>1, SessionParts DEF Init
<1>3. ShapeInv /\ FenceInv
  BY <1>2 DEF ShapeInv, Shape, Used, FenceInv, Knowing, Labels
<1>4. LabelInv /\ CommitInv /\ StopInv
  BY <1>2 DEF LabelInv, CommitInv, StopInv, Committing, Freezing, Reclaiming, Restoring, Restored
<1>5. PodInv /\ AccessInv
  BY <1>2, NamesAssumption DEF PodInv, AccessInv, Fates
<1>6. OrphanInv
  BY <1>2 DEF Init, OrphanInv, Claimed, Workload, Helper
<1>7. QED
  BY <1>1, <1>3, <1>4, <1>5, <1>6 DEF IInv

\* Every step keeps the types.
LEMMA TypeStep == ASSUME IInv, NormalNext \/ UNCHANGED vars PROVE TypeOK'
<1>a. TypeOK
  BY DEF IInv
<1> USE LifecycleAssumption
<1> HIDE DEF Sessions, Txns, AgentStates
<1> USE <1>a DEF TypeOK
<1>1. ASSUME NEW p \in Ops, Quiet(p) PROVE TypeOK'
  BY <1>1 DEF Quiet, QuietMove, Goes, Calm
<1>2. ASSUME NEW p \in Ops, Lock(p) PROVE TypeOK'
  BY <1>2, <1>a DEF Lock, At, Goto, store, plane, env, count, TypeOK, Labels
<1>3. ASSUME NEW p \in Ops, Read(p) PROVE TypeOK'
  BY <1>3 DEF Read, Planned, Goes, Calm
<1>4. ASSUME NEW p \in Ops, Reload(p) PROVE TypeOK'
  BY <1>4 DEF Reload, Goes, Calm, Same
<1>5. ASSUME NEW p \in Ops, PrepareS(p) PROVE TypeOK'
  BY <1>5, <1>a DEF PrepareS, Swapped, Kept, Calm, Same, TypeOK, Labels
<1>6. ASSUME NEW p \in Ops, CommitS(p) PROVE TypeOK'
  BY <1>6, <1>a DEF CommitS, Swapped, Kept, Calm, Same, TypeOK, Labels
<1>7. ASSUME NEW p \in Ops, ClearS(p) PROVE TypeOK'
  BY <1>7 DEF ClearS, Planned, Swapped, Kept, Calm, Same
<1>8. ASSUME NEW p \in Ops, FinalizeS(p) PROVE TypeOK'
  BY <1>8 DEF FinalizeS, Planned, Swapped, Kept, Calm, Same
<1>9. ASSUME NEW p \in Ops, AdoptS(p) PROVE TypeOK'
  BY <1>9 DEF AdoptS, Swapped, Kept, Calm, Same
<1>10. ASSUME NEW p \in Ops, ActivateS(p) PROVE TypeOK'
  BY <1>10 DEF ActivateS, Swapped, Kept, Calm, Same
<1>11. ASSUME NEW p \in Ops, Send(p) PROVE TypeOK'
  BY <1>11, <1>a DEF Send, At, Goto, store, plane, env, count, TypeOK, Labels
<1>12. ASSUME NEW p \in Ops, AbortS(p) PROVE TypeOK'
  <2>1. agent' \in [Rounds -> AgentStates]
    BY <1>12 DEF AbortS, Goes, AgentSet
  <2>2. QED
    BY <1>12, <1>a, <2>1 DEF AbortS, Goes, TypeOK, AgentStates, Labels
<1>13. ASSUME NEW p \in Ops, Stop(p) PROVE TypeOK'
  <2>1. pods' \subseteq Rounds \X {"workload", "helper"}
    BY <1>13, <1>a DEF Stop, TypeOK, Workload, Helper, Rounds
  <2>2. pc' \in [Ops -> Labels]
    BY <1>13, <1>a DEF Stop, Goto, TypeOK, Labels
  <2>3. QED
    BY <1>13, <1>a, <2>1, <2>2 DEF Stop, At, Goto, store, plane, env, count, TypeOK
<1>14. ASSUME NEW p \in Ops, StopHelper(p) PROVE TypeOK'
  <2>1. pods' \subseteq Rounds \X {"workload", "helper"}
    BY <1>14, <1>a DEF StopHelper, TypeOK, Workload, Helper, Rounds
  <2>2. pc' \in [Ops -> Labels]
    BY <1>14, <1>a DEF StopHelper, Goto, TypeOK, Labels
  <2>3. QED
    BY <1>14, <1>a, <2>1, <2>2 DEF StopHelper, At, Goto, store, plane, env, count, TypeOK
<1>15. ASSUME NEW p \in Ops, Provision(p) PROVE TypeOK'
  <2>1. pods' \subseteq Rounds \X {"workload", "helper"}
    BY <1>15, <1>a DEF Provision, TypeOK, Workload, Helper, Rounds
  <2>2. pc' \in [Ops -> Labels]
    BY <1>15, <1>a DEF Provision, Goto, TypeOK, Labels
  <2>3. QED
    BY <1>15, <1>a, <2>1, <2>2 DEF Provision, At, Goto, store, plane, env, count, TypeOK
<1>16. ASSUME NEW p \in Ops, ProvisionWorkload(p) PROVE TypeOK'
  <2>1. pods' \subseteq Rounds \X {"workload", "helper"}
    BY <1>16, <1>a DEF ProvisionWorkload, TypeOK, Workload, Helper, Rounds
  <2>2. pc' \in [Ops -> Labels]
    BY <1>16, <1>a DEF ProvisionWorkload, Goto, TypeOK, Labels
  <2>3. QED
    BY <1>16, <1>a, <2>1, <2>2 DEF ProvisionWorkload, At, Goto, store, plane, env, count, TypeOK
<1>17. ASSUME NEW p \in Ops, ApplyS(p) PROVE TypeOK'
  <2>1. agent' \in [Rounds -> AgentStates]
    BY <1>17 DEF ApplyS, Goes, AgentSet
  <2>2. QED
    BY <1>17, <1>a, <2>1 DEF ApplyS, Goes, TypeOK, AgentStates, Labels
<1>18. ASSUME NEW p \in Ops, Discard(p) PROVE TypeOK'
  <2>1. pods' \subseteq Rounds \X {"workload", "helper"}
    BY <1>18, <1>a DEF Discard, TypeOK, Workload, Helper, Rounds
  <2>2. pc' \in [Ops -> Labels]
    BY <1>18, <1>a DEF Discard, Goto, TypeOK, Labels
  <2>3. QED
    BY <1>18, <1>a, <2>1, <2>2 DEF Discard, At, Goto, store, plane, env, count, TypeOK
<1>19. ASSUME NEW p \in Ops, Delete(p) PROVE TypeOK'
  BY <1>19, <1>a DEF Delete, At, Goto, store, plane, env, count, TypeOK, Labels
<1>20. ASSUME NEW p \in Ops, BeginS(p) PROVE TypeOK'
  <2>1. agent' \in [Rounds -> AgentStates]
    BY <1>20 DEF BeginS, AgentSet
  <2>2. QED
    BY <1>20, <1>a, <2>1 DEF BeginS, TypeOK, AgentStates, Labels
<1>21. ASSUME NEW p \in Ops, CallFails(p) PROVE TypeOK'
  BY <1>21 DEF CallFails
<1>22. ASSUME NEW p \in Ops, FinishS(p) PROVE TypeOK'
  <2>1. agent' \in [Rounds -> AgentStates] /\ sess[p].pod \in Rounds
    BY <1>22 DEF FinishS, AgentSet
  <2>2. archive' \in [Ops -> Nat]
    BY <1>22, <1>a, <2>1 DEF FinishS, TypeOK
  <2>3. QED
    BY <1>22, <1>a, <2>1, <2>2 DEF FinishS, TypeOK, AgentStates
<1>23. ASSUME NEW p \in Ops, FailS(p) PROVE TypeOK'
  <2>1. agent' \in [Rounds -> AgentStates]
    BY <1>23 DEF FailS, AgentSet
  <2>2. QED
    BY <1>23, <1>a, <2>1 DEF FailS, TypeOK, AgentStates, Labels
<1>24. ASSUME NEW a \in Rounds, RestartS(a) PROVE TypeOK'
  <2>1. agent' \in [Rounds -> AgentStates]
    BY <1>24 DEF RestartS, AgentSet
  <2>2. QED
    BY <1>24, <1>a, <2>1 DEF RestartS, TypeOK, AgentStates, Labels
<1>25. ASSUME NEW w \in Writers, WriteLookup(w) PROVE TypeOK'
  <2>1. rec \in Sessions /\ rec.pod \in Rounds \cup {None}
    BY <1>25, <1>a, SessionParts DEF WriteLookup, TypeOK
  <2>2. QED
    BY <1>25, <1>a, <2>1 DEF WriteLookup, store, plane, ops, count, TypeOK
<1>26. ASSUME NEW w \in Writers, WriteTaken(w) PROVE TypeOK'
  <2>1. agent' \in [Rounds -> AgentStates]
    BY <1>26 DEF WriteTaken, AgentSet
  <2>2. QED
    BY <1>26, <1>a, <2>1 DEF WriteTaken, TypeOK, AgentStates, Labels, Fates
<1>27. ASSUME NEW w \in Writers, WriteMissed(w) PROVE TypeOK'
  BY <1>27 DEF WriteMissed
<1>28. ASSUME NEW w \in Writers, Touched(w) PROVE TypeOK'
  BY <1>28, <1>a DEF Touched, TypeOK, Fates
<1>29. CASE UNCHANGED vars
  BY <1>29 DEF vars
<1>30. QED
  BY <1>1, <1>2, <1>3, <1>4, <1>5, <1>6, <1>7, <1>8, <1>9, <1>10, <1>11, <1>12, <1>13, <1>14, <1>15,
      <1>16, <1>17, <1>18, <1>19, <1>20, <1>21, <1>22, <1>23, <1>24, <1>25, <1>26, <1>27, <1>28,
      <1>29 DEF NormalNext

\* A round that was provisioned stays so.
LEMMA UsedStays == ASSUME IInv, NormalNext \/ UNCHANGED vars PROVE \A r : Used(r) => Used(r)'
<1>a. TypeOK
  BY DEF IInv
<1> USE <1>a DEF Used, Restored, TypeOK
<1>1. ASSUME NEW p \in Ops, Quiet(p) PROVE \A r : Used(r) => Used(r)'
  BY <1>1 DEF Quiet, QuietMove, Goes, Calm
<1>2. ASSUME NEW p \in Ops, Lock(p) PROVE \A r : Used(r) => Used(r)'
  BY <1>2 DEF Lock, At, Goto, store, plane, env, count
<1>3. ASSUME NEW p \in Ops, Read(p) PROVE \A r : Used(r) => Used(r)'
  BY <1>3 DEF Read, Planned, Goes, Calm
<1>4. ASSUME NEW p \in Ops, Reload(p) PROVE \A r : Used(r) => Used(r)'
  BY <1>4 DEF Reload, Goes, Calm, Same
<1>5. ASSUME NEW p \in Ops, PrepareS(p) PROVE \A r : Used(r) => Used(r)'
  BY <1>5 DEF PrepareS, Swapped, Kept, Calm, Same
<1>6. ASSUME NEW p \in Ops, CommitS(p) PROVE \A r : Used(r) => Used(r)'
  BY <1>6 DEF CommitS, Swapped, Kept, Calm, Same
<1>7. ASSUME NEW p \in Ops, ClearS(p) PROVE \A r : Used(r) => Used(r)'
  BY <1>7 DEF ClearS, Planned, Swapped, Kept, Calm, Same
<1>8. ASSUME NEW p \in Ops, FinalizeS(p) PROVE \A r : Used(r) => Used(r)'
  BY <1>8 DEF FinalizeS, Planned, Swapped, Kept, Calm, Same
<1>9. ASSUME NEW p \in Ops, AdoptS(p) PROVE \A r : Used(r) => Used(r)'
  BY <1>9 DEF AdoptS, Swapped, Kept, Calm, Same
<1>10. ASSUME NEW p \in Ops, ActivateS(p) PROVE \A r : Used(r) => Used(r)'
  BY <1>10 DEF ActivateS, Swapped, Kept, Calm, Same
<1>11. ASSUME NEW p \in Ops, Send(p) PROVE \A r : Used(r) => Used(r)'
  BY <1>11 DEF Send, At, Goto, store, plane, env, count
<1>12. ASSUME NEW p \in Ops, AbortS(p) PROVE \A r : Used(r) => Used(r)'
  BY <1>12 DEF AbortS, Goes
<1>13. ASSUME NEW p \in Ops, Stop(p) PROVE \A r : Used(r) => Used(r)'
  BY <1>13 DEF Stop, At, Goto, store, plane, env, count
<1>14. ASSUME NEW p \in Ops, StopHelper(p) PROVE \A r : Used(r) => Used(r)'
  BY <1>14 DEF StopHelper, At, Goto, store, plane, env, count
<1>15. ASSUME NEW p \in Ops, Provision(p) PROVE \A r : Used(r) => Used(r)'
  BY <1>15 DEF Provision, At, Goto, store, plane, env, count
<1>16. ASSUME NEW p \in Ops, ProvisionWorkload(p) PROVE \A r : Used(r) => Used(r)'
  BY <1>16 DEF ProvisionWorkload, At, Goto, store, plane, env, count
<1>17. ASSUME NEW p \in Ops, ApplyS(p) PROVE \A r : Used(r) => Used(r)'
  BY <1>17 DEF ApplyS, Goes
<1>18. ASSUME NEW p \in Ops, Discard(p) PROVE \A r : Used(r) => Used(r)'
  BY <1>18 DEF Discard, At, Goto, store, plane, env, count
<1>19. ASSUME NEW p \in Ops, Delete(p) PROVE \A r : Used(r) => Used(r)'
  BY <1>19 DEF Delete, At, Goto, store, plane, env, count
<1>20. ASSUME NEW p \in Ops, BeginS(p) PROVE \A r : Used(r) => Used(r)'
  BY <1>20 DEF BeginS
<1>21. ASSUME NEW p \in Ops, CallFails(p) PROVE \A r : Used(r) => Used(r)'
  BY <1>21 DEF CallFails
<1>22. ASSUME NEW p \in Ops, FinishS(p) PROVE \A r : Used(r) => Used(r)'
  BY <1>22 DEF FinishS
<1>23. ASSUME NEW p \in Ops, FailS(p) PROVE \A r : Used(r) => Used(r)'
  BY <1>23 DEF FailS
<1>24. ASSUME NEW a \in Rounds, RestartS(a) PROVE \A r : Used(r) => Used(r)'
  BY <1>24 DEF RestartS
<1>25. ASSUME NEW w \in Writers, WriteLookup(w) PROVE \A r : Used(r) => Used(r)'
  BY <1>25 DEF WriteLookup, store, plane, ops, count
<1>26. ASSUME NEW w \in Writers, WriteTaken(w) PROVE \A r : Used(r) => Used(r)'
  BY <1>26 DEF WriteTaken
<1>27. ASSUME NEW w \in Writers, WriteMissed(w) PROVE \A r : Used(r) => Used(r)'
  BY <1>27 DEF WriteMissed
<1>28. ASSUME NEW w \in Writers, Touched(w) PROVE \A r : Used(r) => Used(r)'
  BY <1>28 DEF Touched
<1>29. CASE UNCHANGED vars
  BY <1>29 DEF vars
<1>30. QED
  BY <1>1, <1>2, <1>3, <1>4, <1>5, <1>6, <1>7, <1>8, <1>9, <1>10, <1>11, <1>12, <1>13, <1>14, <1>15,
      <1>16, <1>17, <1>18, <1>19, <1>20, <1>21, <1>22, <1>23, <1>24, <1>25, <1>26, <1>27, <1>28,
      <1>29 DEF NormalNext

\* A name that stood for a generation stays used up.
LEMMA GenUsedStays == ASSUME IInv, NormalNext \/ UNCHANGED vars PROVE \A g : GenUsed(g) => GenUsed(g)'
<1>a. TypeOK /\ ShapeInv /\ LabelInv
  BY DEF IInv
<1>b. \A q \in Ops : pc[q] = "stop" /\ sess[q] # None /\ sess[q].txn # None => sess[q].pod # None
  BY <1>a, SessionParts, TxnParts, LifecycleAssumption DEF ShapeInv, Shape, TypeOK, Rounds
<1> USE <1>a, <1>b, NamesAssumption DEF GenUsed, Freezing, Reclaiming, TypeOK, LabelInv
<1>1. ASSUME NEW p \in Ops, Quiet(p) PROVE \A g : GenUsed(g) => GenUsed(g)'
  BY <1>1 DEF Quiet, QuietMove, Goes, Calm
<1>2. ASSUME NEW p \in Ops, Lock(p) PROVE \A g : GenUsed(g) => GenUsed(g)'
  BY <1>2 DEF Lock, At, Goto, store, plane, env, count
<1>3. ASSUME NEW p \in Ops, Read(p) PROVE \A g : GenUsed(g) => GenUsed(g)'
  BY <1>3 DEF Read, Planned, Goes, Calm
<1>4. ASSUME NEW p \in Ops, Reload(p) PROVE \A g : GenUsed(g) => GenUsed(g)'
  BY <1>4 DEF Reload, Goes, Calm, Same
<1>5. ASSUME NEW p \in Ops, PrepareS(p) PROVE \A g : GenUsed(g) => GenUsed(g)'
  BY <1>5 DEF PrepareS, Swapped, Kept, Calm, Same
<1>6. ASSUME NEW p \in Ops, CommitS(p) PROVE \A g : GenUsed(g) => GenUsed(g)'
  BY <1>6 DEF CommitS, Swapped, Kept, Calm, Same
<1>7. ASSUME NEW p \in Ops, ClearS(p) PROVE \A g : GenUsed(g) => GenUsed(g)'
  BY <1>7 DEF ClearS, Planned, Swapped, Kept, Calm, Same
<1>8. ASSUME NEW p \in Ops, FinalizeS(p) PROVE \A g : GenUsed(g) => GenUsed(g)'
  BY <1>8 DEF FinalizeS, Planned, Swapped, Kept, Calm, Same
<1>9. ASSUME NEW p \in Ops, AdoptS(p) PROVE \A g : GenUsed(g) => GenUsed(g)'
  BY <1>9 DEF AdoptS, Swapped, Kept, Calm, Same
<1>10. ASSUME NEW p \in Ops, ActivateS(p) PROVE \A g : GenUsed(g) => GenUsed(g)'
  BY <1>10 DEF ActivateS, Swapped, Kept, Calm, Same
<1>11. ASSUME NEW p \in Ops, Send(p) PROVE \A g : GenUsed(g) => GenUsed(g)'
  BY <1>11 DEF Send, At, Goto, store, plane, env, count
<1>12. ASSUME NEW p \in Ops, AbortS(p) PROVE \A g : GenUsed(g) => GenUsed(g)'
  BY <1>12 DEF AbortS, Goes
<1>13. ASSUME NEW p \in Ops, Stop(p) PROVE \A g : GenUsed(g) => GenUsed(g)'
  BY <1>13 DEF Stop, At, Goto, store, plane, env, count
<1>14. ASSUME NEW p \in Ops, StopHelper(p) PROVE \A g : GenUsed(g) => GenUsed(g)'
  BY <1>14 DEF StopHelper, At, Goto, store, plane, env, count
<1>15. ASSUME NEW p \in Ops, Provision(p) PROVE \A g : GenUsed(g) => GenUsed(g)'
  BY <1>15 DEF Provision, At, Goto, store, plane, env, count
<1>16. ASSUME NEW p \in Ops, ProvisionWorkload(p) PROVE \A g : GenUsed(g) => GenUsed(g)'
  BY <1>16 DEF ProvisionWorkload, At, Goto, store, plane, env, count
<1>17. ASSUME NEW p \in Ops, ApplyS(p) PROVE \A g : GenUsed(g) => GenUsed(g)'
  BY <1>17 DEF ApplyS, Goes
<1>18. ASSUME NEW p \in Ops, Discard(p) PROVE \A g : GenUsed(g) => GenUsed(g)'
  BY <1>18 DEF Discard, At, Goto, store, plane, env, count
<1>19. ASSUME NEW p \in Ops, Delete(p) PROVE \A g : GenUsed(g) => GenUsed(g)'
  BY <1>19 DEF Delete, At, Goto, store, plane, env, count
<1>20. ASSUME NEW p \in Ops, BeginS(p) PROVE \A g : GenUsed(g) => GenUsed(g)'
  BY <1>20 DEF BeginS
<1>21. ASSUME NEW p \in Ops, CallFails(p) PROVE \A g : GenUsed(g) => GenUsed(g)'
  BY <1>21 DEF CallFails
<1>22. ASSUME NEW p \in Ops, FinishS(p) PROVE \A g : GenUsed(g) => GenUsed(g)'
  BY <1>22 DEF FinishS
<1>23. ASSUME NEW p \in Ops, FailS(p) PROVE \A g : GenUsed(g) => GenUsed(g)'
  BY <1>23 DEF FailS
<1>24. ASSUME NEW a \in Rounds, RestartS(a) PROVE \A g : GenUsed(g) => GenUsed(g)'
  BY <1>24 DEF RestartS
<1>25. ASSUME NEW w \in Writers, WriteLookup(w) PROVE \A g : GenUsed(g) => GenUsed(g)'
  BY <1>25 DEF WriteLookup, store, plane, ops, count
<1>26. ASSUME NEW w \in Writers, WriteTaken(w) PROVE \A g : GenUsed(g) => GenUsed(g)'
  BY <1>26 DEF WriteTaken
<1>27. ASSUME NEW w \in Writers, WriteMissed(w) PROVE \A g : GenUsed(g) => GenUsed(g)'
  BY <1>27 DEF WriteMissed
<1>28. ASSUME NEW w \in Writers, Touched(w) PROVE \A g : GenUsed(g) => GenUsed(g)'
  BY <1>28 DEF Touched
<1>29. CASE UNCHANGED vars
  BY <1>29 DEF vars
<1>30. QED
  BY <1>1, <1>2, <1>3, <1>4, <1>5, <1>6, <1>7, <1>8, <1>9, <1>10, <1>11, <1>12, <1>13, <1>14, <1>15,
      <1>16, <1>17, <1>18, <1>19, <1>20, <1>21, <1>22, <1>23, <1>24, <1>25, <1>26, <1>27, <1>28,
      <1>29 DEF NormalNext

\* A sealed generation stays sealed.
LEMMA SealedStays == ASSUME IInv, NormalNext \/ UNCHANGED vars PROVE \A g : Sealed(g) => Sealed(g)'
<1>a. TypeOK /\ ShapeInv /\ LabelInv /\ (\A g : GenUsed(g) => GenUsed(g)')
  BY GenUsedStays DEF IInv
<1>b. \A q \in Ops : pc[q] = "stop" /\ sess[q] # None /\ sess[q].txn # None => sess[q].pod # None
  BY <1>a, SessionParts, TxnParts, LifecycleAssumption DEF ShapeInv, Shape, TypeOK, Rounds
<1>c. SUFFICES ASSUME NEW g, Sealed(g) PROVE pc'[g] \in Reclaiming \cup {"done"} /\ call'[g] = "answered"
  BY <1>a DEF Sealed
<1> USE <1>a, <1>b, <1>c, NamesAssumption DEF Sealed, GenUsed, Freezing, Reclaiming, TypeOK,
    LabelInv
<1>1. ASSUME NEW p \in Ops, Quiet(p) PROVE pc'[g] \in Reclaiming \cup {"done"} /\ call'[g] = "answered"
  BY <1>1 DEF Quiet, QuietMove, Goes, Calm
<1>2. ASSUME NEW p \in Ops, Lock(p) PROVE pc'[g] \in Reclaiming \cup {"done"} /\ call'[g] = "answered"
  BY <1>2 DEF Lock, At, Goto, store, plane, env, count
<1>3. ASSUME NEW p \in Ops, Read(p) PROVE pc'[g] \in Reclaiming \cup {"done"} /\ call'[g] = "answered"
  BY <1>3 DEF Read, Planned, Goes, Calm
<1>4. ASSUME NEW p \in Ops, Reload(p) PROVE pc'[g] \in Reclaiming \cup {"done"} /\ call'[g] = "answered"
  BY <1>4 DEF Reload, Goes, Calm, Same
<1>5. ASSUME NEW p \in Ops, PrepareS(p) PROVE pc'[g] \in Reclaiming \cup {"done"} /\ call'[g] = "answered"
  BY <1>5 DEF PrepareS, Swapped, Kept, Calm, Same
<1>6. ASSUME NEW p \in Ops, CommitS(p) PROVE pc'[g] \in Reclaiming \cup {"done"} /\ call'[g] = "answered"
  BY <1>6 DEF CommitS, Swapped, Kept, Calm, Same
<1>7. ASSUME NEW p \in Ops, ClearS(p) PROVE pc'[g] \in Reclaiming \cup {"done"} /\ call'[g] = "answered"
  BY <1>7 DEF ClearS, Planned, Swapped, Kept, Calm, Same
<1>8. ASSUME NEW p \in Ops, FinalizeS(p) PROVE pc'[g] \in Reclaiming \cup {"done"} /\ call'[g] = "answered"
  BY <1>8 DEF FinalizeS, Planned, Swapped, Kept, Calm, Same
<1>9. ASSUME NEW p \in Ops, AdoptS(p) PROVE pc'[g] \in Reclaiming \cup {"done"} /\ call'[g] = "answered"
  BY <1>9 DEF AdoptS, Swapped, Kept, Calm, Same
<1>10. ASSUME NEW p \in Ops, ActivateS(p) PROVE pc'[g] \in Reclaiming \cup {"done"} /\ call'[g] = "answered"
  BY <1>10 DEF ActivateS, Swapped, Kept, Calm, Same
<1>11. ASSUME NEW p \in Ops, Send(p) PROVE pc'[g] \in Reclaiming \cup {"done"} /\ call'[g] = "answered"
  BY <1>11 DEF Send, At, Goto, store, plane, env, count
<1>12. ASSUME NEW p \in Ops, AbortS(p) PROVE pc'[g] \in Reclaiming \cup {"done"} /\ call'[g] = "answered"
  BY <1>12 DEF AbortS, Goes
<1>13. ASSUME NEW p \in Ops, Stop(p) PROVE pc'[g] \in Reclaiming \cup {"done"} /\ call'[g] = "answered"
  BY <1>13 DEF Stop, At, Goto, store, plane, env, count
<1>14. ASSUME NEW p \in Ops, StopHelper(p) PROVE pc'[g] \in Reclaiming \cup {"done"} /\ call'[g] = "answered"
  BY <1>14 DEF StopHelper, At, Goto, store, plane, env, count
<1>15. ASSUME NEW p \in Ops, Provision(p) PROVE pc'[g] \in Reclaiming \cup {"done"} /\ call'[g] = "answered"
  BY <1>15 DEF Provision, At, Goto, store, plane, env, count
<1>16. ASSUME NEW p \in Ops, ProvisionWorkload(p) PROVE pc'[g] \in Reclaiming \cup {"done"} /\ call'[g] = "answered"
  BY <1>16 DEF ProvisionWorkload, At, Goto, store, plane, env, count
<1>17. ASSUME NEW p \in Ops, ApplyS(p) PROVE pc'[g] \in Reclaiming \cup {"done"} /\ call'[g] = "answered"
  BY <1>17 DEF ApplyS, Goes
<1>18. ASSUME NEW p \in Ops, Discard(p) PROVE pc'[g] \in Reclaiming \cup {"done"} /\ call'[g] = "answered"
  BY <1>18 DEF Discard, At, Goto, store, plane, env, count
<1>19. ASSUME NEW p \in Ops, Delete(p) PROVE pc'[g] \in Reclaiming \cup {"done"} /\ call'[g] = "answered"
  BY <1>19 DEF Delete, At, Goto, store, plane, env, count
<1>20. ASSUME NEW p \in Ops, BeginS(p) PROVE pc'[g] \in Reclaiming \cup {"done"} /\ call'[g] = "answered"
  BY <1>20 DEF BeginS
<1>21. ASSUME NEW p \in Ops, CallFails(p) PROVE pc'[g] \in Reclaiming \cup {"done"} /\ call'[g] = "answered"
  BY <1>21 DEF CallFails
<1>22. ASSUME NEW p \in Ops, FinishS(p) PROVE pc'[g] \in Reclaiming \cup {"done"} /\ call'[g] = "answered"
  BY <1>22 DEF FinishS
<1>23. ASSUME NEW p \in Ops, FailS(p) PROVE pc'[g] \in Reclaiming \cup {"done"} /\ call'[g] = "answered"
  BY <1>23 DEF FailS
<1>24. ASSUME NEW a \in Rounds, RestartS(a) PROVE pc'[g] \in Reclaiming \cup {"done"} /\ call'[g] = "answered"
  BY <1>24 DEF RestartS
<1>25. ASSUME NEW w \in Writers, WriteLookup(w) PROVE pc'[g] \in Reclaiming \cup {"done"} /\ call'[g] = "answered"
  BY <1>25 DEF WriteLookup, store, plane, ops, count
<1>26. ASSUME NEW w \in Writers, WriteTaken(w) PROVE pc'[g] \in Reclaiming \cup {"done"} /\ call'[g] = "answered"
  BY <1>26 DEF WriteTaken
<1>27. ASSUME NEW w \in Writers, WriteMissed(w) PROVE pc'[g] \in Reclaiming \cup {"done"} /\ call'[g] = "answered"
  BY <1>27 DEF WriteMissed
<1>28. ASSUME NEW w \in Writers, Touched(w) PROVE pc'[g] \in Reclaiming \cup {"done"} /\ call'[g] = "answered"
  BY <1>28 DEF Touched
<1>29. CASE UNCHANGED vars
  BY <1>29 DEF vars
<1>30. QED
  BY <1>1, <1>2, <1>3, <1>4, <1>5, <1>6, <1>7, <1>8, <1>9, <1>10, <1>11, <1>12, <1>13, <1>14, <1>15,
      <1>16, <1>17, <1>18, <1>19, <1>20, <1>21, <1>22, <1>23, <1>24, <1>25, <1>26, <1>27, <1>28,
      <1>29 DEF NormalNext

\* What a session says of rounds and generations stays true of it.
LEMMA ShapeStays == ASSUME IInv, NormalNext \/ UNCHANGED vars PROVE \A s : Shape(s) => Shape(s)'
<1>1. /\ \A r : Used(r) => Used(r)'
      /\ \A g : GenUsed(g) => GenUsed(g)'
      /\ \A g : Sealed(g) => Sealed(g)'
  BY UsedStays, GenUsedStays, SealedStays
<1>2. QED
  BY <1>1 DEF Shape

\* A step that leaves the record and the copies alone, and one that writes n.
LEMMA ShapeKept ==
  ASSUME IInv, NormalNext \/ UNCHANGED vars, sess' = sess, rec' = rec \/ (rec # None /\ Same(rec', rec)) \/ rec' = None
  PROVE  ShapeInv'
<1>1. ShapeInv /\ \A s : Shape(s) => Shape(s)'
  BY ShapeStays DEF IInv
<1>2. rec' # None => Shape(rec)'
  <2>1. CASE rec' = rec
    BY <1>1, <2>1 DEF ShapeInv, Shape, Same, Used, GenUsed, Sealed
  <2>2. CASE rec # None /\ Same(rec', rec)
    BY <1>1, <2>2 DEF ShapeInv, Shape, Same, Used, GenUsed, Sealed
  <2>3. QED
    BY <2>1, <2>2
<1>3. \A q \in Ops : sess'[q] # None => Shape(sess[q])'
  BY <1>1 DEF ShapeInv, Shape, Same, Used, GenUsed, Sealed
<1>4. QED
  BY <1>2, <1>3 DEF ShapeInv

LEMMA ShapeWritten ==
  ASSUME IInv, NormalNext \/ UNCHANGED vars, NEW p \in Ops, NEW n, Shape(n)', sess' = [sess EXCEPT ![p] = n],
         Same(rec', n)
  PROVE  ShapeInv'
<1>1. TypeOK /\ ShapeInv /\ \A s : Shape(s) => Shape(s)'
  BY ShapeStays DEF IInv
<1>2. Shape(rec)'
  BY DEF Shape, Same, Used, GenUsed, Sealed
<1>3. ASSUME NEW q \in Ops, sess'[q] # None PROVE Shape(sess[q])'
  <2>1. CASE q = p
    <3>1. sess'[p] = n
      BY <1>1 DEF TypeOK
    <3>2. QED
      BY <2>1, <3>1 DEF Shape, Same, Used, GenUsed, Sealed
  <2>2. CASE q # p
    <3>1. sess'[q] = sess[q] /\ sess[q] # None
      BY <1>1, <1>3, <2>2 DEF TypeOK
    <3>2. QED
      BY <1>1, <3>1, SMTT(60) DEF ShapeInv, Shape, Same, Used, GenUsed, Sealed
  <2>3. QED
    BY <2>1, <2>2
<1>4. QED
  BY <1>2, <1>3 DEF ShapeInv

\* A session that is stored or remembered has the shape of one.
LEMMA ShapeStep == ASSUME IInv, NormalNext \/ UNCHANGED vars PROVE ShapeInv'
<1>a. /\ TypeOK /\ ShapeInv /\ FenceInv /\ LabelInv /\ CommitInv
      /\ \A s : Shape(s) => Shape(s)'
      /\ \A r : Used(r) => Used(r)'
      /\ \A g : GenUsed(g) => GenUsed(g)'
      /\ \A g : Sealed(g) => Sealed(g)'
  BY ShapeStays, UsedStays, GenUsedStays, SealedStays DEF IInv
<1> USE ShapeKept
<1>1. ASSUME NEW p \in Ops, Quiet(p) PROVE ShapeInv'
  BY <1>1 DEF Quiet, QuietMove, Goes, Calm
<1>2. ASSUME NEW p \in Ops, Lock(p) PROVE ShapeInv'
  BY <1>2, ShapeKept DEF Lock, At, Goto, store, plane, env, count
<1>3. ASSUME NEW p \in Ops, Read(p) PROVE ShapeInv'
  <2>1. PICK n : n = rec
    OBVIOUS
  <2>2. rec \in Sessions /\ rec # None /\ sess' = [sess EXCEPT ![p] = n] /\ Same(rec', n)
    BY <1>3, <2>1, SessionParts DEF Read, Same
  <2>3. Shape(n)'
    BY <1>a, <2>1, <2>2 DEF ShapeInv
  <2>4. QED
    BY <2>2, <2>3, ShapeWritten
<1>4. ASSUME NEW p \in Ops, Reload(p) PROVE ShapeInv'
  <2>1. PICK n : n = rec
    OBVIOUS
  <2>2. rec \in Sessions /\ rec # None /\ Same(rec', n)
    BY <1>4, <2>1, SessionParts DEF Reload, Same
  <2>3. Shape(n)'
    BY <1>a, <2>1, <2>2 DEF ShapeInv
  <2>4. CASE sess' = [sess EXCEPT ![p] = n]
    BY <2>2, <2>3, <2>4, ShapeWritten
  <2>5. CASE sess' = sess
    BY <2>1, <2>2, <2>5, ShapeKept
  <2>6. QED
    BY <1>4, <2>1, <2>4, <2>5 DEF Reload
<1>5. ASSUME NEW p \in Ops, PrepareS(p) PROVE ShapeInv'
  <2>1. PICK n \in Sessions : /\ sess' = [sess EXCEPT ![p] = n] /\ Same(rec', n) /\ rec \in Sessions
                             /\ fence = p /\ rec.state = sess[p].state /\ rec.txn = sess[p].txn
                             /\ kind' = kind /\ call' = call
                             /\ n.state = sess[p].state /\ n.pod = sess[p].pod /\ n.ckpt = sess[p].ckpt
                             /\ n.txn \in Txns /\ n.txn.gen = p /\ n.txn.src = sess[p].pod
    BY <1>5 DEF PrepareS, Swapped, Kept, Calm
  <2>2. sess[p] \in Sessions /\ Shape(sess[p]) /\ Same(rec, sess[p]) /\ sess'[p] = n /\ pc'[p] \in Labels
    BY <1>5, <1>a, <2>1 DEF PrepareS, Swapped, TypeOK, FenceInv, ShapeInv, Knowing, Labels, Freezing
  <2>3. n.state = "active" /\ kind[p] \in {"snapshot", "reap"}
    BY <1>5, <1>a, <2>1 DEF PrepareS, LabelInv
  <2>4. Used(n.pod)' /\ n.ckpt = None /\ n.txn.src = n.pod
    BY <1>5, <1>a, <2>1, <2>2, <2>3 DEF Shape
  <2>5. GenUsed(n.txn.gen)'
    BY <1>5, <1>a, <2>1, <2>2, <2>3, SessionParts, TxnParts DEF PrepareS, Swapped, TypeOK, GenUsed, Freezing
  <2>8. Shape(n)'
    BY <2>3, <2>4, <2>5, SessionParts DEF Shape
  <2>9. QED
    BY <2>1, <2>8, ShapeWritten
<1>6. ASSUME NEW p \in Ops, CommitS(p) PROVE ShapeInv'
  <2>1. PICK n \in Sessions : /\ sess' = [sess EXCEPT ![p] = n] /\ Same(rec', n) /\ rec \in Sessions
                             /\ fence = p /\ rec.state = sess[p].state /\ rec.txn = sess[p].txn
                             /\ kind' = kind /\ call' = call
                             /\ n.state = sess[p].state /\ n.pod = sess[p].pod /\ n.ckpt = sess[p].ckpt
                             /\ n.txn \in Txns /\ n.txn.gen = sess[p].txn.gen /\ n.txn.src = sess[p].txn.src
    BY <1>6 DEF CommitS, Swapped, Kept, Calm
  <2>2. sess[p] \in Sessions /\ Shape(sess[p]) /\ Same(rec, sess[p]) /\ sess'[p] = n /\ pc'[p] \in Labels
    BY <1>6, <1>a, <2>1 DEF CommitS, Swapped, TypeOK, FenceInv, ShapeInv, Knowing, Labels, Freezing
  <2>3. sess[p].txn \in Txns
    BY <1>6, <1>a, <2>2, SessionParts DEF CommitS, LabelInv, Freezing
  <2>4. n.state = "active" /\ Used(n.pod)' /\ n.ckpt = None /\ n.txn.src = n.pod /\ GenUsed(n.txn.gen)'
    BY <1>a, <2>1, <2>2, <2>3, TxnParts, SessionParts DEF Shape
  <2>8. Shape(n)'
    BY <2>4, SessionParts DEF Shape
  <2>9. QED
    BY <2>1, <2>8, ShapeWritten
<1>7. ASSUME NEW p \in Ops, ClearS(p) PROVE ShapeInv'
  <2>1. PICK n \in Sessions : /\ sess' = [sess EXCEPT ![p] = n] /\ Same(rec', n) /\ rec \in Sessions
                             /\ fence = p /\ rec.state = sess[p].state /\ rec.txn = sess[p].txn
                             /\ kind' = kind /\ call' = call
                             /\ n.state = sess[p].state /\ n.pod = sess[p].pod /\ n.ckpt = sess[p].ckpt
                             /\ n.txn = None
    BY <1>7 DEF ClearS, Swapped, Kept, Calm
  <2>2. sess[p] \in Sessions /\ Shape(sess[p]) /\ Same(rec, sess[p]) /\ sess'[p] = n /\ pc'[p] \in Labels
    BY <1>7, <1>a, <2>1 DEF ClearS, Swapped, TypeOK, FenceInv, ShapeInv, Knowing, Labels, Freezing
  <2>3. sess[p].txn \in Txns
    BY <1>7, <1>a, <2>2, SessionParts DEF ClearS, LabelInv, Freezing
  <2>4. n.state = "active" /\ Used(n.pod)' /\ n.ckpt = None
    BY <1>a, <2>1, <2>2, <2>3, TxnParts, SessionParts DEF Shape
  <2>8. Shape(n)'
    BY <2>1, <2>4, SessionParts DEF Shape
  <2>9. QED
    BY <2>1, <2>8, ShapeWritten
<1>8. ASSUME NEW p \in Ops, FinalizeS(p) PROVE ShapeInv'
  <2>1. PICK n \in Sessions : /\ sess' = [sess EXCEPT ![p] = n] /\ Same(rec', n) /\ rec \in Sessions
                             /\ fence = p /\ rec.state = sess[p].state /\ rec.txn = sess[p].txn
                             /\ kind' = kind /\ call' = call
                             /\ n.state = "snapshot" /\ n.pod = None /\ n.txn = None /\ n.ckpt = sess[p].txn.gen
    BY <1>8 DEF FinalizeS, Swapped, Kept, Calm
  <2>2. sess[p] \in Sessions /\ Shape(sess[p]) /\ Same(rec, sess[p]) /\ sess'[p] = n /\ pc'[p] \in Labels
    BY <1>8, <1>a, <2>1 DEF FinalizeS, Swapped, TypeOK, FenceInv, ShapeInv, Knowing, Labels, Freezing
  <2>3. sess[p].txn \in Txns /\ sess[p].txn.phase = "committing" /\ rec # None
    BY <1>8, <1>a, <2>1, <2>2, SessionParts DEF FinalizeS, LabelInv, Reclaiming
  <2>4. Committing(sess[p].txn.gen) /\ GenUsed(sess[p].txn.gen) /\ sess[p].txn.gen \in Ops
    BY <2>1, <2>2, <2>3, TxnParts DEF Committing, Shape
  <2>5. Sealed(n.ckpt)
    BY <1>a, <2>1, <2>4 DEF CommitInv, Sealed
  <2>6. Sealed(n.ckpt)'
    BY <1>a, <2>5
  <2>8. Shape(n)'
    BY <2>1, <2>6 DEF Shape
  <2>9. QED
    BY <2>1, <2>8, ShapeWritten
<1>9. ASSUME NEW p \in Ops, AdoptS(p) PROVE ShapeInv'
  <2>1. PICK n \in Sessions : /\ sess' = [sess EXCEPT ![p] = n] /\ Same(rec', n) /\ rec \in Sessions
                             /\ fence = p /\ rec.state = sess[p].state /\ rec.txn = sess[p].txn
                             /\ kind' = kind /\ call' = call
                             /\ n.state = sess[p].state /\ n.pod = sess[p].pod /\ n.ckpt = sess[p].ckpt
                             /\ n.txn \in Txns /\ n.txn.gen = sess[p].txn.gen /\ n.txn.src = sess[p].txn.src
    BY <1>9 DEF AdoptS, Swapped, Kept, Calm
  <2>2. sess[p] \in Sessions /\ Shape(sess[p]) /\ Same(rec, sess[p]) /\ sess'[p] = n /\ pc'[p] \in Labels
    BY <1>9, <1>a, <2>1 DEF AdoptS, Swapped, TypeOK, FenceInv, ShapeInv, Knowing, Labels, Freezing
  <2>3. sess[p].txn \in Txns
    BY <1>9, <1>a, <2>2, SessionParts DEF AdoptS, LabelInv, Freezing
  <2>4. n.state = "active" /\ Used(n.pod)' /\ n.ckpt = None /\ n.txn.src = n.pod /\ GenUsed(n.txn.gen)'
    BY <1>a, <2>1, <2>2, <2>3, TxnParts, SessionParts DEF Shape
  <2>8. Shape(n)'
    BY <2>4, SessionParts DEF Shape
  <2>9. QED
    BY <2>1, <2>8, ShapeWritten
<1>10. ASSUME NEW p \in Ops, ActivateS(p) PROVE ShapeInv'
  <2>1. PICK n \in Sessions : /\ sess' = [sess EXCEPT ![p] = n] /\ Same(rec', n) /\ rec \in Sessions
                             /\ fence = p /\ rec.state = sess[p].state /\ rec.txn = sess[p].txn
                             /\ kind' = kind /\ call' = call
                             /\ n.state = "active" /\ n.pod = p /\ n.ckpt = None /\ n.txn = sess[p].txn
    BY <1>10 DEF ActivateS, Swapped, Kept, Calm
  <2>2. sess[p] \in Sessions /\ Shape(sess[p]) /\ Same(rec, sess[p]) /\ sess'[p] = n /\ pc'[p] \in Labels
    BY <1>10, <1>a, <2>1 DEF ActivateS, Swapped, TypeOK, FenceInv, ShapeInv, Knowing, Labels, Freezing
  <2>3. sess[p].txn = None /\ kind[p] = "restore"
    BY <1>10, <1>a, <2>2 DEF ActivateS, LabelInv, Restoring, Shape
  <2>4. Used(p)'
    BY <1>10, <1>a, <2>1, <2>3 DEF ActivateS, Swapped, TypeOK, Used, Restored
  <2>8. Shape(n)'
    BY <2>1, <2>3, <2>4 DEF Shape
  <2>9. QED
    BY <2>1, <2>8, ShapeWritten
<1>11. ASSUME NEW p \in Ops, Send(p) PROVE ShapeInv'
  BY <1>11 DEF Send, At, Goto, store, plane, env, count
<1>12. ASSUME NEW p \in Ops, AbortS(p) PROVE ShapeInv'
  BY <1>12 DEF AbortS, Goes
<1>13. ASSUME NEW p \in Ops, Stop(p) PROVE ShapeInv'
  BY <1>13 DEF Stop, At, Goto, store, plane, env, count
<1>14. ASSUME NEW p \in Ops, StopHelper(p) PROVE ShapeInv'
  BY <1>14 DEF StopHelper, At, Goto, store, plane, env, count
<1>15. ASSUME NEW p \in Ops, Provision(p) PROVE ShapeInv'
  BY <1>15 DEF Provision, At, Goto, store, plane, env, count
<1>16. ASSUME NEW p \in Ops, ProvisionWorkload(p) PROVE ShapeInv'
  BY <1>16 DEF ProvisionWorkload, At, Goto, store, plane, env, count
<1>17. ASSUME NEW p \in Ops, ApplyS(p) PROVE ShapeInv'
  BY <1>17 DEF ApplyS, Goes
<1>18. ASSUME NEW p \in Ops, Discard(p) PROVE ShapeInv'
  BY <1>18 DEF Discard, At, Goto, store, plane, env, count
<1>19. ASSUME NEW p \in Ops, Delete(p) PROVE ShapeInv'
  BY <1>19, ShapeKept DEF Delete, At, Goto, store, plane, env, count
<1>20. ASSUME NEW p \in Ops, BeginS(p) PROVE ShapeInv'
  BY <1>20 DEF BeginS
<1>21. ASSUME NEW p \in Ops, CallFails(p) PROVE ShapeInv'
  BY <1>21 DEF CallFails
<1>22. ASSUME NEW p \in Ops, FinishS(p) PROVE ShapeInv'
  BY <1>22 DEF FinishS
<1>23. ASSUME NEW p \in Ops, FailS(p) PROVE ShapeInv'
  BY <1>23 DEF FailS
<1>24. ASSUME NEW a \in Rounds, RestartS(a) PROVE ShapeInv'
  BY <1>24 DEF RestartS
<1>25. ASSUME NEW w \in Writers, WriteLookup(w) PROVE ShapeInv'
  BY <1>25 DEF WriteLookup, store, plane, ops, count
<1>26. ASSUME NEW w \in Writers, WriteTaken(w) PROVE ShapeInv'
  BY <1>26 DEF WriteTaken
<1>27. ASSUME NEW w \in Writers, WriteMissed(w) PROVE ShapeInv'
  BY <1>27 DEF WriteMissed
<1>28. ASSUME NEW w \in Writers, Touched(w) PROVE ShapeInv'
  BY <1>28, ShapeKept, SessionParts DEF Touched
<1>29. CASE UNCHANGED vars
  BY <1>29 DEF vars
<1>30. QED
  BY <1>1, <1>2, <1>3, <1>4, <1>5, <1>6, <1>7, <1>8, <1>9, <1>10, <1>11, <1>12, <1>13, <1>14, <1>15,
      <1>16, <1>17, <1>18, <1>19, <1>20, <1>21, <1>22, <1>23, <1>24, <1>25, <1>26, <1>27, <1>28,
      <1>29 DEF NormalNext

\* The fence goes on knowing the record: whoever else swaps is refused.
LEMMA FenceStep == ASSUME IInv, NormalNext \/ UNCHANGED vars PROVE FenceInv'
<1>a. TypeOK /\ FenceInv
  BY DEF IInv
<1>b. None \notin Ops /\ None \notin Sessions
  BY LifecycleAssumption, NamesAssumption
<1> HIDE DEF Sessions, Txns
<1> USE <1>a, <1>b DEF FenceInv, Knowing, Labels, Same, TypeOK
<1>1. ASSUME NEW p \in Ops, Quiet(p) PROVE FenceInv'
  BY <1>1 DEF Quiet, QuietMove, Goes, Calm
<1>2. ASSUME NEW p \in Ops, Lock(p) PROVE FenceInv'
  BY <1>2 DEF Lock, At, Goto, store, plane, env, count
<1>3. ASSUME NEW p \in Ops, Read(p) PROVE FenceInv'
  BY <1>3 DEF Read, Planned, Goes, Calm
<1>4. ASSUME NEW p \in Ops, Reload(p) PROVE FenceInv'
  BY <1>4 DEF Reload, Goes, Calm, Same
<1>5. ASSUME NEW p \in Ops, PrepareS(p) PROVE FenceInv'
  BY <1>5 DEF PrepareS, Swapped, Kept, Calm, Same
<1>6. ASSUME NEW p \in Ops, CommitS(p) PROVE FenceInv'
  BY <1>6 DEF CommitS, Swapped, Kept, Calm, Same
<1>7. ASSUME NEW p \in Ops, ClearS(p) PROVE FenceInv'
  BY <1>7 DEF ClearS, Planned, Swapped, Kept, Calm, Same
<1>8. ASSUME NEW p \in Ops, FinalizeS(p) PROVE FenceInv'
  BY <1>8 DEF FinalizeS, Planned, Swapped, Kept, Calm, Same
<1>9. ASSUME NEW p \in Ops, AdoptS(p) PROVE FenceInv'
  BY <1>9 DEF AdoptS, Swapped, Kept, Calm, Same
<1>10. ASSUME NEW p \in Ops, ActivateS(p) PROVE FenceInv'
  BY <1>10 DEF ActivateS, Swapped, Kept, Calm, Same
<1>11. ASSUME NEW p \in Ops, Send(p) PROVE FenceInv'
  BY <1>11 DEF Send, At, Goto, store, plane, env, count
<1>12. ASSUME NEW p \in Ops, AbortS(p) PROVE FenceInv'
  BY <1>12 DEF AbortS, Goes
<1>13. ASSUME NEW p \in Ops, Stop(p) PROVE FenceInv'
  BY <1>13 DEF Stop, At, Goto, store, plane, env, count
<1>14. ASSUME NEW p \in Ops, StopHelper(p) PROVE FenceInv'
  BY <1>14 DEF StopHelper, At, Goto, store, plane, env, count
<1>15. ASSUME NEW p \in Ops, Provision(p) PROVE FenceInv'
  BY <1>15 DEF Provision, At, Goto, store, plane, env, count
<1>16. ASSUME NEW p \in Ops, ProvisionWorkload(p) PROVE FenceInv'
  BY <1>16 DEF ProvisionWorkload, At, Goto, store, plane, env, count
<1>17. ASSUME NEW p \in Ops, ApplyS(p) PROVE FenceInv'
  BY <1>17 DEF ApplyS, Goes
<1>18. ASSUME NEW p \in Ops, Discard(p) PROVE FenceInv'
  BY <1>18 DEF Discard, At, Goto, store, plane, env, count
<1>19. ASSUME NEW p \in Ops, Delete(p) PROVE FenceInv'
  BY <1>19 DEF Delete, At, Goto, store, plane, env, count
<1>20. ASSUME NEW p \in Ops, BeginS(p) PROVE FenceInv'
  BY <1>20 DEF BeginS
<1>21. ASSUME NEW p \in Ops, CallFails(p) PROVE FenceInv'
  BY <1>21 DEF CallFails
<1>22. ASSUME NEW p \in Ops, FinishS(p) PROVE FenceInv'
  BY <1>22 DEF FinishS
<1>23. ASSUME NEW p \in Ops, FailS(p) PROVE FenceInv'
  BY <1>23 DEF FailS
<1>24. ASSUME NEW a \in Rounds, RestartS(a) PROVE FenceInv'
  BY <1>24 DEF RestartS
<1>25. ASSUME NEW w \in Writers, WriteLookup(w) PROVE FenceInv'
  BY <1>25 DEF WriteLookup, store, plane, ops, count
<1>26. ASSUME NEW w \in Writers, WriteTaken(w) PROVE FenceInv'
  BY <1>26 DEF WriteTaken
<1>27. ASSUME NEW w \in Writers, WriteMissed(w) PROVE FenceInv'
  BY <1>27 DEF WriteMissed
<1>28. ASSUME NEW w \in Writers, Touched(w) PROVE FenceInv'
  BY <1>28 DEF Touched
<1>29. CASE UNCHANGED vars
  BY <1>29 DEF vars
<1>30. QED
  BY <1>1, <1>2, <1>3, <1>4, <1>5, <1>6, <1>7, <1>8, <1>9, <1>10, <1>11, <1>12, <1>13, <1>14, <1>15,
      <1>16, <1>17, <1>18, <1>19, <1>20, <1>21, <1>22, <1>23, <1>24, <1>25, <1>26, <1>27, <1>28,
      <1>29 DEF NormalNext

\* Which calls come where.
LEMMA LabelStep == ASSUME IInv, NormalNext \/ UNCHANGED vars PROVE LabelInv'
<1>a. TypeOK /\ ShapeInv /\ FenceInv /\ LabelInv
  BY DEF IInv
<1>b. None \notin Ops /\ None \notin Sessions
  BY LifecycleAssumption, NamesAssumption
<1>c. \A q \in Ops : pc[q] = "stop" /\ kind[q] # "terminate" => sess[q].pod # None
  <2>1. SUFFICES ASSUME NEW q \in Ops, pc[q] = "stop", kind[q] # "terminate" PROVE sess[q].pod # None
    OBVIOUS
  <2>2. sess[q] \in Sessions /\ Shape(sess[q]) /\ sess[q].txn # None
    BY <1>a, <2>1 DEF TypeOK, FenceInv, ShapeInv, LabelInv, Knowing, Labels, Reclaiming
  <2>3. sess[q].txn \in Txns /\ sess[q].pod = sess[q].txn.src
    BY <2>2, SessionParts DEF Shape
  <2>4. QED
    BY <2>3, TxnParts, LifecycleAssumption DEF Rounds
<1> HIDE DEF Sessions, Txns
<1> USE <1>a, <1>b, <1>c, NamesAssumption DEF FenceInv, LabelInv, Knowing, Labels, Freezing,
    Reclaiming, Restoring, Restored, Same, TypeOK
<1>1. ASSUME NEW p \in Ops, Quiet(p) PROVE LabelInv'
  BY <1>1 DEF Quiet, QuietMove, Goes, Calm
<1>2. ASSUME NEW p \in Ops, Lock(p) PROVE LabelInv'
  BY <1>2 DEF Lock, At, Goto, store, plane, env, count
<1>3. ASSUME NEW p \in Ops, Read(p) PROVE LabelInv'
  BY <1>3 DEF Read, Planned, Goes, Calm
<1>4. ASSUME NEW p \in Ops, Reload(p) PROVE LabelInv'
  BY <1>4 DEF Reload, Goes, Calm, Same
<1>5. ASSUME NEW p \in Ops, PrepareS(p) PROVE LabelInv'
  BY <1>5 DEF PrepareS, Swapped, Kept, Calm, Same
<1>6. ASSUME NEW p \in Ops, CommitS(p) PROVE LabelInv'
  BY <1>6 DEF CommitS, Swapped, Kept, Calm, Same
<1>7. ASSUME NEW p \in Ops, ClearS(p) PROVE LabelInv'
  BY <1>7 DEF ClearS, Planned, Swapped, Kept, Calm, Same
<1>8. ASSUME NEW p \in Ops, FinalizeS(p) PROVE LabelInv'
  BY <1>8 DEF FinalizeS, Planned, Swapped, Kept, Calm, Same
<1>9. ASSUME NEW p \in Ops, AdoptS(p) PROVE LabelInv'
  BY <1>9 DEF AdoptS, Swapped, Kept, Calm, Same
<1>10. ASSUME NEW p \in Ops, ActivateS(p) PROVE LabelInv'
  BY <1>10 DEF ActivateS, Swapped, Kept, Calm, Same
<1>11. ASSUME NEW p \in Ops, Send(p) PROVE LabelInv'
  BY <1>11 DEF Send, At, Goto, store, plane, env, count
<1>12. ASSUME NEW p \in Ops, AbortS(p) PROVE LabelInv'
  BY <1>12 DEF AbortS, Goes
<1>13. ASSUME NEW p \in Ops, Stop(p) PROVE LabelInv'
  BY <1>13 DEF Stop, At, Goto, store, plane, env, count
<1>14. ASSUME NEW p \in Ops, StopHelper(p) PROVE LabelInv'
  BY <1>14 DEF StopHelper, At, Goto, store, plane, env, count
<1>15. ASSUME NEW p \in Ops, Provision(p) PROVE LabelInv'
  BY <1>15 DEF Provision, At, Goto, store, plane, env, count
<1>16. ASSUME NEW p \in Ops, ProvisionWorkload(p) PROVE LabelInv'
  BY <1>16 DEF ProvisionWorkload, At, Goto, store, plane, env, count
<1>17. ASSUME NEW p \in Ops, ApplyS(p) PROVE LabelInv'
  BY <1>17 DEF ApplyS, Goes
<1>18. ASSUME NEW p \in Ops, Discard(p) PROVE LabelInv'
  BY <1>18 DEF Discard, At, Goto, store, plane, env, count
<1>19. ASSUME NEW p \in Ops, Delete(p) PROVE LabelInv'
  BY <1>19 DEF Delete, At, Goto, store, plane, env, count
<1>20. ASSUME NEW p \in Ops, BeginS(p) PROVE LabelInv'
  BY <1>20 DEF BeginS
<1>21. ASSUME NEW p \in Ops, CallFails(p) PROVE LabelInv'
  BY <1>21 DEF CallFails
<1>22. ASSUME NEW p \in Ops, FinishS(p) PROVE LabelInv'
  BY <1>22 DEF FinishS
<1>23. ASSUME NEW p \in Ops, FailS(p) PROVE LabelInv'
  BY <1>23 DEF FailS
<1>24. ASSUME NEW a \in Rounds, RestartS(a) PROVE LabelInv'
  BY <1>24 DEF RestartS
<1>25. ASSUME NEW w \in Writers, WriteLookup(w) PROVE LabelInv'
  BY <1>25 DEF WriteLookup, store, plane, ops, count
<1>26. ASSUME NEW w \in Writers, WriteTaken(w) PROVE LabelInv'
  BY <1>26 DEF WriteTaken
<1>27. ASSUME NEW w \in Writers, WriteMissed(w) PROVE LabelInv'
  BY <1>27 DEF WriteMissed
<1>28. ASSUME NEW w \in Writers, Touched(w) PROVE LabelInv'
  BY <1>28 DEF Touched
<1>29. CASE UNCHANGED vars
  BY <1>29 DEF vars
<1>30. QED
  BY <1>1, <1>2, <1>3, <1>4, <1>5, <1>6, <1>7, <1>8, <1>9, <1>10, <1>11, <1>12, <1>13, <1>14, <1>15,
      <1>16, <1>17, <1>18, <1>19, <1>20, <1>21, <1>22, <1>23, <1>24, <1>25, <1>26, <1>27, <1>28,
      <1>29 DEF NormalNext

\* What an abort leaves of the calls and the record.
Aborted(p) ==
    /\ pc[p] \in {"abort", "rollback"} /\ pc' \in [Ops -> Labels] /\ pc'[p] \in {"clear", "rollbackClear"}
    /\ \A q \in Ops : q # p => pc'[q] = pc[q]
    /\ UNCHANGED <<rec, fence, call, sess>>

LEMMA AbortEffect == ASSUME NEW p \in Ops, pc \in [Ops -> Labels], AbortS(p) PROVE Aborted(p)
  BY DEF AbortS, Goes, Labels, Aborted

\* A commit is its own call's, and an aborted generation does not commit any more.
LEMMA CommitStep == ASSUME IInv, NormalNext \/ UNCHANGED vars PROVE CommitInv'
<1>a. /\ LabelInv /\ CommitInv
      /\ pc \in [Ops -> Labels] /\ kind \in [Ops -> AllKinds] /\ sess \in [Ops -> Sessions \cup {None}]
      /\ call \in [Ops -> {"none", "sent", "taken", "answered", "failed"}]
      /\ rec \in Sessions \cup {None} /\ fence \in Ops \cup {None}
  BY DEF IInv, TypeOK
<1>b. None \notin Rounds /\ None \notin Sessions /\ None \notin Txns /\ First \notin Ops /\ Ops \subseteq Rounds
  BY LifecycleAssumption, NamesAssumption DEF Rounds
<1>c. \A q \in Ops : pc[q] \in Knowing => sess[q] \in Sessions /\ Shape(sess[q])
  BY DEF IInv, TypeOK, FenceInv, ShapeInv
<1>d. \A q \in Ops : pc[q] \in Knowing /\ sess[q].txn # None =>
        /\ sess[q] \in Sessions /\ sess[q].txn \in Txns /\ sess[q].state = "active" /\ sess[q].pod \in Rounds
        /\ GenUsed(sess[q].txn.gen)
  BY <1>c, SessionParts, TxnParts DEF Shape
<1>e. \A q \in Ops : pc[q] \in Knowing /\ fence = q => Same(rec, sess[q])
  BY DEF IInv, FenceInv
<1>f. rec # None /\ rec.txn # None => GenUsed(rec.txn.gen)
  BY DEF IInv, ShapeInv, Shape
<1> HIDE DEF Sessions, Txns
<1> USE <1>a, <1>b, <1>d, <1>e, <1>f DEF CommitInv, Committing, GenUsed, LabelInv, Knowing, Freezing,
    Reclaiming, Restoring, Restored, Same
<1>1. ASSUME NEW p \in Ops, Quiet(p) PROVE CommitInv'
  BY <1>1, SMTT(60) DEF Quiet, QuietMove, Goes, Calm
<1>2. ASSUME NEW p \in Ops, Lock(p) PROVE CommitInv'
  BY <1>2 DEF Lock, At, Goto, store, plane, env, count
<1>3. ASSUME NEW p \in Ops, Read(p) PROVE CommitInv'
  BY <1>3, SMTT(60) DEF Read, Planned, Goes, Calm
<1>4. ASSUME NEW p \in Ops, Reload(p) PROVE CommitInv'
  BY <1>4, SMTT(60) DEF Reload, Goes, Calm, Same
<1>5. ASSUME NEW p \in Ops, PrepareS(p) PROVE CommitInv'
  BY <1>5, SMTT(60) DEF PrepareS, Swapped, Kept, Calm, Same
<1>6. ASSUME NEW p \in Ops, CommitS(p) PROVE CommitInv'
  BY <1>6, SMTT(60) DEF CommitS, Swapped, Kept, Calm, Same
<1>7. ASSUME NEW p \in Ops, ClearS(p) PROVE CommitInv'
  BY <1>7, SMTT(60) DEF ClearS, Planned, Swapped, Kept, Calm, Same
<1>8. ASSUME NEW p \in Ops, FinalizeS(p) PROVE CommitInv'
  BY <1>8, SMTT(60) DEF FinalizeS, Planned, Swapped, Kept, Calm, Same
<1>9. ASSUME NEW p \in Ops, AdoptS(p) PROVE CommitInv'
  BY <1>9, SMTT(60) DEF AdoptS, Swapped, Kept, Calm, Same
<1>10. ASSUME NEW p \in Ops, ActivateS(p) PROVE CommitInv'
  BY <1>10, SMTT(60) DEF ActivateS, Swapped, Kept, Calm, Same
<1>11. ASSUME NEW p \in Ops, Send(p) PROVE CommitInv'
  BY <1>11, SMTT(60) DEF Send, At, Goto, store, plane, env, count
<1>12. ASSUME NEW p \in Ops, AbortS(p) PROVE CommitInv'
  <2>1. pc \in [Ops -> Labels]
    BY <1>a
  <2>2. Aborted(p)
    BY <1>12, <2>1, AbortEffect
  <2>3. QED
    BY <2>2, SMTT(60) DEF Aborted
<1>13. ASSUME NEW p \in Ops, Stop(p) PROVE CommitInv'
  BY <1>13 DEF Stop, At, Goto, store, plane, env, count
<1>14. ASSUME NEW p \in Ops, StopHelper(p) PROVE CommitInv'
  BY <1>14 DEF StopHelper, At, Goto, store, plane, env, count
<1>15. ASSUME NEW p \in Ops, Provision(p) PROVE CommitInv'
  BY <1>15 DEF Provision, At, Goto, store, plane, env, count
<1>16. ASSUME NEW p \in Ops, ProvisionWorkload(p) PROVE CommitInv'
  BY <1>16 DEF ProvisionWorkload, At, Goto, store, plane, env, count
<1>17. ASSUME NEW p \in Ops, ApplyS(p) PROVE CommitInv'
  BY <1>17 DEF ApplyS, Goes
<1>18. ASSUME NEW p \in Ops, Discard(p) PROVE CommitInv'
  BY <1>18 DEF Discard, At, Goto, store, plane, env, count
<1>19. ASSUME NEW p \in Ops, Delete(p) PROVE CommitInv'
  BY <1>19 DEF Delete, At, Goto, store, plane, env, count
<1>20. ASSUME NEW p \in Ops, BeginS(p) PROVE CommitInv'
  BY <1>20, SMTT(60) DEF BeginS
<1>21. ASSUME NEW p \in Ops, CallFails(p) PROVE CommitInv'
  BY <1>21 DEF CallFails
<1>22. ASSUME NEW p \in Ops, FinishS(p) PROVE CommitInv'
  BY <1>22, SMTT(60) DEF FinishS
<1>23. ASSUME NEW p \in Ops, FailS(p) PROVE CommitInv'
  BY <1>23, SMTT(60) DEF FailS
<1>24. ASSUME NEW a \in Rounds, RestartS(a) PROVE CommitInv'
  BY <1>24, SMTT(60) DEF RestartS
<1>25. ASSUME NEW w \in Writers, WriteLookup(w) PROVE CommitInv'
  BY <1>25 DEF WriteLookup, store, plane, ops, count
<1>26. ASSUME NEW w \in Writers, WriteTaken(w) PROVE CommitInv'
  BY <1>26, SMTT(30) DEF WriteTaken
<1>27. ASSUME NEW w \in Writers, WriteMissed(w) PROVE CommitInv'
  BY <1>27 DEF WriteMissed
<1>28. ASSUME NEW w \in Writers, Touched(w) PROVE CommitInv'
  BY <1>28 DEF Touched
<1>29. CASE UNCHANGED vars
  BY <1>29 DEF vars
<1> HIDE <1>a, <1>b, <1>d, <1>e, <1>f DEF CommitInv, GenUsed, LabelInv
<1>30. QED
  BY <1>1, <1>2, <1>3, <1>4, <1>5, <1>6, <1>7, <1>8, <1>9, <1>10, <1>11, <1>12, <1>13, <1>14, <1>15,
      <1>16, <1>17, <1>18, <1>19, <1>20, <1>21, <1>22, <1>23, <1>24, <1>25, <1>26, <1>27, <1>28,
      <1>29 DEF NormalNext

\* What is to be reclaimed stays committed to, or given up for good: the record leaves
\* a committing transaction only by being frozen or deleted.
LEMMA StopStep == ASSUME IInv, NormalNext \/ UNCHANGED vars PROVE StopInv'
<1>a. TypeOK /\ LabelInv /\ StopInv /\ ShapeInv
  BY DEF IInv
<1>b. None \notin Rounds /\ None \notin Sessions /\ None \notin Txns /\ First \notin Ops /\ Ops \subseteq Rounds
  BY LifecycleAssumption, NamesAssumption DEF Rounds
<1>c. \A q \in Ops : pc[q] \in Knowing => sess[q] \in Sessions /\ Shape(sess[q])
  BY DEF IInv, TypeOK, FenceInv, ShapeInv
<1>d. \A q \in Ops : pc[q] \in Knowing /\ sess[q].txn # None =>
        sess[q].txn \in Txns /\ sess[q].state = "active" /\ sess[q].pod \in Rounds /\ GenUsed(sess[q].txn.gen)
  BY <1>c, SessionParts, TxnParts DEF Shape
<1>e. \A q \in Ops : pc[q] \in Knowing /\ fence = q => Same(rec, sess[q])
  BY DEF IInv, FenceInv
<1>f. rec # None => Shape(rec)
  BY DEF IInv, ShapeInv
<1> HIDE DEF Sessions, Txns
<1> USE <1>a, <1>b, <1>c, <1>d, <1>e, <1>f DEF StopInv, Committing, Shape, Used, FenceInv, LabelInv,
    Knowing, Labels, Freezing, Reclaiming, Restoring, Restored, Same, TypeOK
<1>1. ASSUME NEW p \in Ops, Quiet(p) PROVE StopInv'
  BY <1>1 DEF Quiet, QuietMove, Goes, Calm
<1>2. ASSUME NEW p \in Ops, Lock(p) PROVE StopInv'
  BY <1>2 DEF Lock, At, Goto, store, plane, env, count
<1>3. ASSUME NEW p \in Ops, Read(p) PROVE StopInv'
  BY <1>3 DEF Read, Planned, Goes, Calm
<1>4. ASSUME NEW p \in Ops, Reload(p) PROVE StopInv'
  BY <1>4 DEF Reload, Goes, Calm, Same
<1>5. ASSUME NEW p \in Ops, PrepareS(p) PROVE StopInv'
  BY <1>5 DEF PrepareS, Swapped, Kept, Calm, Same
<1>6. ASSUME NEW p \in Ops, CommitS(p) PROVE StopInv'
  BY <1>6 DEF CommitS, Swapped, Kept, Calm, Same
<1>7. ASSUME NEW p \in Ops, ClearS(p) PROVE StopInv'
  BY <1>7 DEF ClearS, Planned, Swapped, Kept, Calm, Same
<1>8. ASSUME NEW p \in Ops, FinalizeS(p) PROVE StopInv'
  BY <1>8 DEF FinalizeS, Planned, Swapped, Kept, Calm, Same
<1>9. ASSUME NEW p \in Ops, AdoptS(p) PROVE StopInv'
  BY <1>9 DEF AdoptS, Swapped, Kept, Calm, Same
<1>10. ASSUME NEW p \in Ops, ActivateS(p) PROVE StopInv'
  BY <1>10, SMTT(60) DEF ActivateS, Swapped, Kept, Calm, Same
<1>11. ASSUME NEW p \in Ops, Send(p) PROVE StopInv'
  BY <1>11 DEF Send, At, Goto, store, plane, env, count
<1>12. ASSUME NEW p \in Ops, AbortS(p) PROVE StopInv'
  BY <1>12 DEF AbortS, Goes
<1>13. ASSUME NEW p \in Ops, Stop(p) PROVE StopInv'
  BY <1>13 DEF Stop, At, Goto, store, plane, env, count
<1>14. ASSUME NEW p \in Ops, StopHelper(p) PROVE StopInv'
  BY <1>14 DEF StopHelper, At, Goto, store, plane, env, count
<1>15. ASSUME NEW p \in Ops, Provision(p) PROVE StopInv'
  BY <1>15 DEF Provision, At, Goto, store, plane, env, count
<1>16. ASSUME NEW p \in Ops, ProvisionWorkload(p) PROVE StopInv'
  BY <1>16 DEF ProvisionWorkload, At, Goto, store, plane, env, count
<1>17. ASSUME NEW p \in Ops, ApplyS(p) PROVE StopInv'
  BY <1>17 DEF ApplyS, Goes
<1>18. ASSUME NEW p \in Ops, Discard(p) PROVE StopInv'
  BY <1>18 DEF Discard, At, Goto, store, plane, env, count
<1>19. ASSUME NEW p \in Ops, Delete(p) PROVE StopInv'
  BY <1>19 DEF Delete, At, Goto, store, plane, env, count
<1>20. ASSUME NEW p \in Ops, BeginS(p) PROVE StopInv'
  BY <1>20 DEF BeginS
<1>21. ASSUME NEW p \in Ops, CallFails(p) PROVE StopInv'
  BY <1>21 DEF CallFails
<1>22. ASSUME NEW p \in Ops, FinishS(p) PROVE StopInv'
  BY <1>22 DEF FinishS
<1>23. ASSUME NEW p \in Ops, FailS(p) PROVE StopInv'
  BY <1>23 DEF FailS
<1>24. ASSUME NEW a \in Rounds, RestartS(a) PROVE StopInv'
  BY <1>24 DEF RestartS
<1>25. ASSUME NEW w \in Writers, WriteLookup(w) PROVE StopInv'
  BY <1>25 DEF WriteLookup, store, plane, ops, count
<1>26. ASSUME NEW w \in Writers, WriteTaken(w) PROVE StopInv'
  BY <1>26 DEF WriteTaken
<1>27. ASSUME NEW w \in Writers, WriteMissed(w) PROVE StopInv'
  BY <1>27 DEF WriteMissed
<1>28. ASSUME NEW w \in Writers, Touched(w) PROVE StopInv'
  BY <1>28 DEF Touched
<1>29. CASE UNCHANGED vars
  BY <1>29 DEF vars
<1>30. QED
  BY <1>1, <1>2, <1>3, <1>4, <1>5, <1>6, <1>7, <1>8, <1>9, <1>10, <1>11, <1>12, <1>13, <1>14, <1>15,
      <1>16, <1>17, <1>18, <1>19, <1>20, <1>21, <1>22, <1>23, <1>24, <1>25, <1>26, <1>27, <1>28,
      <1>29 DEF NormalNext

\* Nobody provisions a round again, and nobody reclaims one that is being provisioned.
LEMMA PodStep == ASSUME IInv, NormalNext \/ UNCHANGED vars PROVE PodInv'
<1>a. TypeOK /\ LabelInv /\ PodInv
  BY DEF IInv
<1>b. None \notin Rounds /\ None \notin Sessions /\ None \notin Txns /\ First \notin Ops /\ Ops \subseteq Rounds
  BY LifecycleAssumption, NamesAssumption DEF Rounds
<1>c. \A q \in Ops : pc[q] \in Knowing => sess[q] \in Sessions /\ Shape(sess[q])
  BY DEF IInv, TypeOK, FenceInv, ShapeInv
<1>d. \A q \in Ops : pc[q] \in Knowing /\ sess[q].txn # None =>
        sess[q].txn \in Txns /\ sess[q].state = "active" /\ sess[q].pod \in Rounds /\ GenUsed(sess[q].txn.gen)
  BY <1>c, SessionParts, TxnParts DEF Shape
<1>e. \A q \in Ops : pc[q] \in Knowing /\ fence = q => Same(rec, sess[q])
  BY DEF IInv, FenceInv
<1> HIDE DEF Sessions, Txns
<1> USE <1>a, <1>b, <1>c, <1>d DEF PodInv, Shape, Used, FenceInv, LabelInv, Knowing, Labels,
    Freezing, Reclaiming, Restoring, Restored, Same, TypeOK
<1>1. ASSUME NEW p \in Ops, Quiet(p) PROVE PodInv'
  BY <1>1 DEF Quiet, QuietMove, Goes, Calm
<1>2. ASSUME NEW p \in Ops, Lock(p) PROVE PodInv'
  BY <1>2 DEF Lock, At, Goto, store, plane, env, count
<1>3. ASSUME NEW p \in Ops, Read(p) PROVE PodInv'
  BY <1>3 DEF Read, Planned, Goes, Calm
<1>4. ASSUME NEW p \in Ops, Reload(p) PROVE PodInv'
  <2>1. pods' = pods /\ pc'[p] \in {"done", "holding"}
    BY <1>4 DEF Reload, Goes, Calm
  <2>2. \A q \in Ops : q # p => pc'[q] = pc[q] /\ sess'[q] = sess[q]
    BY <1>4 DEF Reload, Goes
  <2>3. QED
    BY <2>1, <2>2
<1>5. ASSUME NEW p \in Ops, PrepareS(p) PROVE PodInv'
  BY <1>5 DEF PrepareS, Swapped, Kept, Calm, Same
<1>6. ASSUME NEW p \in Ops, CommitS(p) PROVE PodInv'
  BY <1>6 DEF CommitS, Swapped, Kept, Calm, Same
<1>7. ASSUME NEW p \in Ops, ClearS(p) PROVE PodInv'
  BY <1>7 DEF ClearS, Planned, Swapped, Kept, Calm, Same
<1>8. ASSUME NEW p \in Ops, FinalizeS(p) PROVE PodInv'
  BY <1>8 DEF FinalizeS, Planned, Swapped, Kept, Calm, Same
<1>9. ASSUME NEW p \in Ops, AdoptS(p) PROVE PodInv'
  BY <1>9 DEF AdoptS, Swapped, Kept, Calm, Same
<1>10. ASSUME NEW p \in Ops, ActivateS(p) PROVE PodInv'
  BY <1>10 DEF ActivateS, Swapped, Kept, Calm, Same
<1>11. ASSUME NEW p \in Ops, Send(p) PROVE PodInv'
  BY <1>11 DEF Send, At, Goto, store, plane, env, count
<1>12. ASSUME NEW p \in Ops, AbortS(p) PROVE PodInv'
  BY <1>12 DEF AbortS, Goes
<1>13. ASSUME NEW p \in Ops, Stop(p) PROVE PodInv'
  <2>1. \A q \in Ops : pc[q] \in Restoring => sess[p].pod # q
    BY <1>13, <1>a, <1>b, <1>c, SessionParts, SMTT(30) DEF Stop, At, LabelInv, Restoring, Shape, Used, Restored, Knowing, Labels
  <2>2. pods' = pods \ {Workload(sess[p].pod)} /\ sess' = sess /\ pc' = [pc EXCEPT ![p] = pc'[p]]
        /\ pc'[p] \in {"delete", "stopHelper"}
    BY <1>13, <1>a DEF Stop, Goto, TypeOK
  <2>3. \A q \in Ops : pc[q] \in Restoring =>
          (Workload(q) \in pods => Workload(q) \in pods') /\ (Helper(q) \in pods => Helper(q) \in pods')
    BY <2>1, <2>2 DEF Workload, Helper
  <2>4. pods' \subseteq pods /\ Workload(sess[p].pod) \notin pods'
    BY <2>2
  <2>5. pc'[p] = "delete" => sess[p].pod = None /\ Helper(sess[p].pod) \notin pods
    BY <1>13, <1>a, <1>b DEF Stop, Goto, Helper, TypeOK
  <2>6. QED
    BY <1>13, <1>a, <2>2, <2>3, <2>4, <2>5 DEF Stop, At, PodInv, TypeOK, Restoring
<1>14. ASSUME NEW p \in Ops, StopHelper(p) PROVE PodInv'
  <2>1. \A q \in Ops : pc[q] \in Restoring => sess[p].pod # q
    BY <1>14, <1>a, <1>b, <1>c, SessionParts, SMTT(60) DEF StopHelper, At, LabelInv, Restoring, Shape, Used, Restored,
        Knowing, Labels
  <2>2. pods' = pods \ {Helper(sess[p].pod)} /\ sess' = sess /\ pc' = [pc EXCEPT ![p] = pc'[p]]
        /\ pc'[p] \in {"delete", "finalize"}
    BY <1>14, <1>a DEF StopHelper, Goto, TypeOK
  <2>3. \A q \in Ops : pc[q] \in Restoring =>
          (Workload(q) \in pods => Workload(q) \in pods') /\ (Helper(q) \in pods => Helper(q) \in pods')
    BY <2>1, <2>2 DEF Workload, Helper
  <2>4. pods' \subseteq pods /\ Helper(sess[p].pod) \notin pods'
    BY <2>2
  <2>5. Workload(sess[p].pod) \notin pods
    BY <1>14, <1>a DEF StopHelper, At, PodInv
  <2>6. QED
    BY <1>14, <1>a, <2>2, <2>3, <2>4, <2>5 DEF StopHelper, At, PodInv, TypeOK, Restoring
<1>15. ASSUME NEW p \in Ops, Provision(p) PROVE PodInv'
  <2>1. \A q \in Ops : pc[q] \in Knowing => sess[q].pod # p
    BY <1>15, <1>a, <1>b, <1>c, SessionParts DEF Provision, At, LabelInv, Restoring, Shape, Used, Restored
  <2>2. \A q \in Ops : pc[q] \in {"stopHelper", "finalize", "delete"} => Workload(sess[q].pod) \notin pods'
    BY <1>15, <1>a, <2>1 DEF Provision, PodInv, Workload, Helper, Knowing, Labels
  <2>3. \A q \in Ops : pc[q] \in {"finalize", "delete"} => Helper(sess[q].pod) \notin pods'
    BY <1>15, <1>a, <2>1 DEF Provision, PodInv, Workload, Helper, Knowing, Labels
  <2>4. pods \subseteq pods' /\ Helper(p) \in pods'
    BY <1>15 DEF Provision
  <2>5. QED
    BY <1>15, <1>a, <2>2, <2>3, <2>4 DEF Provision, At, Goto, store, plane, env, count, PodInv, TypeOK
<1>16. ASSUME NEW p \in Ops, ProvisionWorkload(p) PROVE PodInv'
  <2>1. \A q \in Ops : pc[q] \in Knowing => sess[q].pod # p
    BY <1>16, <1>a, <1>b, <1>c, SessionParts DEF ProvisionWorkload, At, LabelInv, Restoring, Shape, Used, Restored
  <2>2. \A q \in Ops : pc[q] \in {"stopHelper", "finalize", "delete"} => Workload(sess[q].pod) \notin pods'
    BY <1>16, <1>a, <2>1 DEF ProvisionWorkload, PodInv, Workload, Helper, Knowing, Labels
  <2>3. \A q \in Ops : pc[q] \in {"finalize", "delete"} => Helper(sess[q].pod) \notin pods'
    BY <1>16, <1>a, <2>1 DEF ProvisionWorkload, PodInv, Workload, Helper, Knowing, Labels
  <2>4. pods \subseteq pods' /\ Workload(p) \in pods'
    BY <1>16 DEF ProvisionWorkload
  <2>5. QED
    BY <1>16, <1>a, <2>2, <2>3, <2>4 DEF ProvisionWorkload, At, Goto, store, plane, env, count, PodInv, TypeOK
<1>17. ASSUME NEW p \in Ops, ApplyS(p) PROVE PodInv'
  BY <1>17 DEF ApplyS, Goes
<1>18. ASSUME NEW p \in Ops, Discard(p) PROVE PodInv'
  <2>1. \A q \in Ops : pc[q] \in Restoring =>
          (Workload(q) \in pods => Workload(q) \in pods') /\ (Helper(q) \in pods => Helper(q) \in pods')
    BY <1>18 DEF Discard, At, Restoring, Workload, Helper
  <2>2. pods' \subseteq pods
    BY <1>18 DEF Discard
  <2>3. QED
    BY <1>18, <1>a, <2>1, <2>2 DEF Discard, At, Goto, store, plane, env, count, PodInv, TypeOK, Restoring
<1>19. ASSUME NEW p \in Ops, Delete(p) PROVE PodInv'
  BY <1>19 DEF Delete, At, Goto, store, plane, env, count
<1>20. ASSUME NEW p \in Ops, BeginS(p) PROVE PodInv'
  BY <1>20 DEF BeginS
<1>21. ASSUME NEW p \in Ops, CallFails(p) PROVE PodInv'
  BY <1>21 DEF CallFails
<1>22. ASSUME NEW p \in Ops, FinishS(p) PROVE PodInv'
  BY <1>22 DEF FinishS
<1>23. ASSUME NEW p \in Ops, FailS(p) PROVE PodInv'
  BY <1>23 DEF FailS
<1>24. ASSUME NEW a \in Rounds, RestartS(a) PROVE PodInv'
  BY <1>24 DEF RestartS
<1>25. ASSUME NEW w \in Writers, WriteLookup(w) PROVE PodInv'
  BY <1>25 DEF WriteLookup, store, plane, ops, count
<1>26. ASSUME NEW w \in Writers, WriteTaken(w) PROVE PodInv'
  BY <1>26 DEF WriteTaken
<1>27. ASSUME NEW w \in Writers, WriteMissed(w) PROVE PodInv'
  BY <1>27 DEF WriteMissed
<1>28. ASSUME NEW w \in Writers, Touched(w) PROVE PodInv'
  BY <1>28 DEF Touched
<1>29. CASE UNCHANGED vars
  BY <1>29 DEF vars
<1>30. QED
  BY <1>1, <1>2, <1>3, <1>4, <1>5, <1>6, <1>7, <1>8, <1>9, <1>10, <1>11, <1>12, <1>13, <1>14, <1>15,
      <1>16, <1>17, <1>18, <1>19, <1>20, <1>21, <1>22, <1>23, <1>24, <1>25, <1>26, <1>27, <1>28,
      <1>29 DEF NormalNext

\* Every swap merges the access the record has got meanwhile.
LEMMA AccessStep == ASSUME IInv, NormalNext \/ UNCHANGED vars PROVE AccessInv'
<1>a. TypeOK /\ AccessInv
  BY DEF IInv
<1>b. None \notin Ops /\ None \notin Sessions
  BY LifecycleAssumption, NamesAssumption
<1>c. (rec # None => rec.pod \notin Fates) /\ None \notin Fates
  BY NamesAssumption, SessionParts DEF IInv, TypeOK
<1> HIDE DEF Sessions, Txns
<1> USE <1>a, <1>b, <1>c DEF AccessInv, TypeOK, Fates
<1>1. ASSUME NEW p \in Ops, Quiet(p) PROVE AccessInv'
  BY <1>1 DEF Quiet, QuietMove, Goes, Calm
<1>2. ASSUME NEW p \in Ops, Lock(p) PROVE AccessInv'
  BY <1>2 DEF Lock, At, Goto, store, plane, env, count
<1>3. ASSUME NEW p \in Ops, Read(p) PROVE AccessInv'
  BY <1>3 DEF Read, Planned, Goes, Calm
<1>4. ASSUME NEW p \in Ops, Reload(p) PROVE AccessInv'
  BY <1>4 DEF Reload, Goes, Calm, Same
<1>5. ASSUME NEW p \in Ops, PrepareS(p) PROVE AccessInv'
  BY <1>5 DEF PrepareS, Swapped, Kept, Calm, Same
<1>6. ASSUME NEW p \in Ops, CommitS(p) PROVE AccessInv'
  BY <1>6 DEF CommitS, Swapped, Kept, Calm, Same
<1>7. ASSUME NEW p \in Ops, ClearS(p) PROVE AccessInv'
  BY <1>7 DEF ClearS, Planned, Swapped, Kept, Calm, Same
<1>8. ASSUME NEW p \in Ops, FinalizeS(p) PROVE AccessInv'
  BY <1>8 DEF FinalizeS, Planned, Swapped, Kept, Calm, Same
<1>9. ASSUME NEW p \in Ops, AdoptS(p) PROVE AccessInv'
  BY <1>9 DEF AdoptS, Swapped, Kept, Calm, Same
<1>10. ASSUME NEW p \in Ops, ActivateS(p) PROVE AccessInv'
  BY <1>10 DEF ActivateS, Swapped, Kept, Calm, Same
<1>11. ASSUME NEW p \in Ops, Send(p) PROVE AccessInv'
  BY <1>11 DEF Send, At, Goto, store, plane, env, count
<1>12. ASSUME NEW p \in Ops, AbortS(p) PROVE AccessInv'
  BY <1>12 DEF AbortS, Goes
<1>13. ASSUME NEW p \in Ops, Stop(p) PROVE AccessInv'
  BY <1>13 DEF Stop, At, Goto, store, plane, env, count
<1>14. ASSUME NEW p \in Ops, StopHelper(p) PROVE AccessInv'
  BY <1>14 DEF StopHelper, At, Goto, store, plane, env, count
<1>15. ASSUME NEW p \in Ops, Provision(p) PROVE AccessInv'
  BY <1>15 DEF Provision, At, Goto, store, plane, env, count
<1>16. ASSUME NEW p \in Ops, ProvisionWorkload(p) PROVE AccessInv'
  BY <1>16 DEF ProvisionWorkload, At, Goto, store, plane, env, count
<1>17. ASSUME NEW p \in Ops, ApplyS(p) PROVE AccessInv'
  BY <1>17 DEF ApplyS, Goes
<1>18. ASSUME NEW p \in Ops, Discard(p) PROVE AccessInv'
  BY <1>18 DEF Discard, At, Goto, store, plane, env, count
<1>19. ASSUME NEW p \in Ops, Delete(p) PROVE AccessInv'
  BY <1>19 DEF Delete, At, Goto, store, plane, env, count
<1>20. ASSUME NEW p \in Ops, BeginS(p) PROVE AccessInv'
  BY <1>20 DEF BeginS
<1>21. ASSUME NEW p \in Ops, CallFails(p) PROVE AccessInv'
  BY <1>21 DEF CallFails
<1>22. ASSUME NEW p \in Ops, FinishS(p) PROVE AccessInv'
  BY <1>22 DEF FinishS
<1>23. ASSUME NEW p \in Ops, FailS(p) PROVE AccessInv'
  BY <1>23 DEF FailS
<1>24. ASSUME NEW a \in Rounds, RestartS(a) PROVE AccessInv'
  BY <1>24 DEF RestartS
<1>25. ASSUME NEW w \in Writers, WriteLookup(w) PROVE AccessInv'
  BY <1>25 DEF WriteLookup, store, plane, ops, count
<1>26. ASSUME NEW w \in Writers, WriteTaken(w) PROVE AccessInv'
  BY <1>26 DEF WriteTaken
<1>27. ASSUME NEW w \in Writers, WriteMissed(w) PROVE AccessInv'
  BY <1>27 DEF WriteMissed
<1>28. ASSUME NEW w \in Writers, Touched(w) PROVE AccessInv'
  BY <1>28 DEF Touched
<1>29. CASE UNCHANGED vars
  BY <1>29 DEF vars
<1>30. QED
  BY <1>1, <1>2, <1>3, <1>4, <1>5, <1>6, <1>7, <1>8, <1>9, <1>10, <1>11, <1>12, <1>13, <1>14, <1>15,
      <1>16, <1>17, <1>18, <1>19, <1>20, <1>21, <1>22, <1>23, <1>24, <1>25, <1>26, <1>27, <1>28,
      <1>29 DEF NormalNext

\* Pods change hands between the record and the calls that made them.
LEMMA OrphanStep == ASSUME IInv, NormalNext \/ UNCHANGED vars PROVE OrphanInv'
<1>a. TypeOK /\ LabelInv /\ PodInv /\ OrphanInv
  BY DEF IInv
<1>b. None \notin Rounds /\ None \notin Sessions /\ None \notin Txns /\ First \notin Ops /\ Ops \subseteq Rounds
  BY LifecycleAssumption, NamesAssumption DEF Rounds
<1>c. \A q \in Ops : pc[q] \in Knowing => sess[q] \in Sessions /\ Shape(sess[q])
  BY DEF IInv, TypeOK, FenceInv, ShapeInv
<1>d. SUFFICES ASSUME faults' = 0, NEW r \in Rounds, NEW k \in {"workload", "helper"}, <<r, k>> \in pods'
             PROVE  Claimed(r, k)'
  BY DEF OrphanInv
<1>e. \A q \in Ops : pc[q] \in Knowing /\ fence = q => Same(rec, sess[q])
  BY DEF IInv, FenceInv
<1> HIDE DEF Sessions, Txns
<1>1. ASSUME NEW p \in Ops, Quiet(p) PROVE Claimed(r, k)'
  <2>1. pods' = pods /\ rec' = rec /\ (faults' = 0 => faults = 0)
    BY <1>1, <1>a DEF Quiet, QuietMove, Goes, Calm, TypeOK
  <2>2. Claimed(r, k)
    BY <1>a, <1>d, <2>1 DEF OrphanInv
  <2>3. QED
    BY <1>1, <1>a, <1>d, <2>1, <2>2 DEF Quiet, QuietMove, Goes, Calm, Claimed, TypeOK
<1>2. ASSUME NEW p \in Ops, Lock(p) PROVE Claimed(r, k)'
  BY <1>2, <1>a, <1>b, <1>d DEF Lock, At, Goto, store, plane, env, count, OrphanInv, Claimed, TypeOK
<1>3. ASSUME NEW p \in Ops, Read(p) PROVE Claimed(r, k)'
  <2>1. pods' = pods /\ rec' = rec /\ (faults' = 0 => faults = 0)
    BY <1>3, <1>a DEF Read, Planned, Goes, Calm, TypeOK
  <2>2. Claimed(r, k)
    BY <1>a, <1>d, <2>1 DEF OrphanInv
  <2>3. QED
    BY <1>3, <1>a, <1>d, <2>1, <2>2 DEF Read, Planned, Goes, Calm, Claimed, TypeOK
<1>4. ASSUME NEW p \in Ops, Reload(p) PROVE Claimed(r, k)'
  <2>1. pods' = pods /\ Same(rec', rec) /\ rec # None /\ rec' # None /\ (faults' = 0 => faults = 0)
    BY <1>4, <1>a, <1>b DEF Reload, Goes, Calm, Same, TypeOK
  <2>2. Claimed(r, k)
    BY <1>a, <1>d, <2>1 DEF OrphanInv
  <2>3. QED
    BY <1>4, <1>a, <1>d, <2>1, <2>2 DEF Reload, Goes, Calm, Same, Claimed, TypeOK
<1>5. ASSUME NEW p \in Ops, PrepareS(p) PROVE Claimed(r, k)'
  <2>1. pods' = pods /\ faults' = faults /\ rec \in Sessions /\ rec' \in Sessions /\ Same(rec, sess[p])
    BY <1>5, <1>e DEF PrepareS, Swapped, Calm, Knowing, Labels
  <2>2. rec'.pod = rec.pod /\ rec' # None
    BY <1>5, <1>b, <2>1 DEF PrepareS, Swapped, Same, Kept
  <2>3. pc' = [pc EXCEPT ![p] = pc'[p]] /\ pc[p] \notin Restoring \cup Restored
    BY <1>5, <1>a DEF PrepareS, Swapped, TypeOK, Restoring, Restored
  <2>4. Claimed(r, k)
    BY <1>a, <1>d, <2>1 DEF OrphanInv
  <2>5. QED
    BY <1>a, <2>2, <2>3, <2>4 DEF Claimed, Restoring, Restored, TypeOK
<1>6. ASSUME NEW p \in Ops, CommitS(p) PROVE Claimed(r, k)'
  <2>1. pods' = pods /\ faults' = faults /\ rec \in Sessions /\ rec' \in Sessions /\ Same(rec, sess[p])
    BY <1>6, <1>e DEF CommitS, Swapped, Calm, Knowing, Labels
  <2>2. rec'.pod = rec.pod /\ rec' # None
    BY <1>6, <1>b, <2>1 DEF CommitS, Swapped, Same, Kept
  <2>3. pc' = [pc EXCEPT ![p] = pc'[p]] /\ pc[p] \notin Restoring \cup Restored
    BY <1>6, <1>a DEF CommitS, Swapped, TypeOK, Restoring, Restored
  <2>4. Claimed(r, k)
    BY <1>a, <1>d, <2>1 DEF OrphanInv
  <2>5. QED
    BY <1>a, <2>2, <2>3, <2>4 DEF Claimed, Restoring, Restored, TypeOK
<1>7. ASSUME NEW p \in Ops, ClearS(p) PROVE Claimed(r, k)'
  <2>1. pods' = pods /\ faults' = faults /\ rec \in Sessions /\ rec' \in Sessions /\ Same(rec, sess[p])
    BY <1>7, <1>e DEF ClearS, Swapped, Calm, Knowing, Labels
  <2>2. rec'.pod = rec.pod /\ rec' # None
    BY <1>7, <1>b, <2>1 DEF ClearS, Swapped, Same, Kept
  <2>3. pc' = [pc EXCEPT ![p] = pc'[p]] /\ pc[p] \notin Restoring \cup Restored
    BY <1>7, <1>a DEF ClearS, Swapped, TypeOK, Restoring, Restored
  <2>4. Claimed(r, k)
    BY <1>a, <1>d, <2>1 DEF OrphanInv
  <2>5. QED
    BY <1>a, <2>2, <2>3, <2>4 DEF Claimed, Restoring, Restored, TypeOK
<1>8. ASSUME NEW p \in Ops, FinalizeS(p) PROVE Claimed(r, k)'
  <2>1. CASE pc[p] = "finalize" /\ fence = p /\ rec # None
    <3>1. Same(rec, sess[p]) /\ Workload(sess[p].pod) \notin pods /\ Helper(sess[p].pod) \notin pods
      BY <1>a, <1>e, <2>1 DEF PodInv, Knowing, Labels
    <3>2. pods' = pods /\ rec.pod # r
      BY <1>8, <1>d, <3>1 DEF FinalizeS, Calm, Same, Workload, Helper, At, Goto, store, plane, env, count
    <3>3. faults' = faults /\ pc' = [pc EXCEPT ![p] = pc'[p]]
      BY <1>8, <1>a DEF FinalizeS, At, Goto, store, plane, env, count, Swapped, TypeOK
    <3>4. Claimed(r, k) /\ r # p
      BY <1>a, <1>d, <2>1, <3>2, <3>3 DEF Claimed, OrphanInv
    <3>5. QED
      BY <1>a, <3>2, <3>3, <3>4 DEF Claimed, TypeOK
  <2>2. QED
    BY <1>8, <1>a, <1>b, <1>d, <2>1 DEF FinalizeS, At, Goto, store, plane, env, count, Swapped, Claimed,
        OrphanInv, TypeOK
<1>9. ASSUME NEW p \in Ops, AdoptS(p) PROVE Claimed(r, k)'
  <2>1. pods' = pods /\ faults' = faults /\ rec \in Sessions /\ rec' \in Sessions /\ Same(rec, sess[p])
    BY <1>9, <1>e DEF AdoptS, Swapped, Calm, Knowing, Labels
  <2>2. rec'.pod = rec.pod /\ rec' # None
    BY <1>9, <1>b, <2>1 DEF AdoptS, Swapped, Same, Kept
  <2>3. pc' = [pc EXCEPT ![p] = pc'[p]] /\ pc[p] \notin Restoring \cup Restored
    BY <1>9, <1>a DEF AdoptS, Swapped, TypeOK, Restoring, Restored
  <2>4. Claimed(r, k)
    BY <1>a, <1>d, <2>1 DEF OrphanInv
  <2>5. QED
    BY <1>a, <2>2, <2>3, <2>4 DEF Claimed, Restoring, Restored, TypeOK
<1>10. ASSUME NEW p \in Ops, ActivateS(p) PROVE Claimed(r, k)'
  <2>1. pods' = pods /\ faults' = faults /\ rec' \in Sessions /\ rec'.pod = p
    BY <1>10 DEF ActivateS, Swapped, Calm, Same
  <2>2. Same(rec, sess[p]) /\ sess[p].pod = None
    BY <1>10, <1>a, <1>c, <1>e DEF ActivateS, Swapped, Knowing, Labels, LabelInv, Restoring, Shape
  <2>3. Claimed(r, k) /\ rec.pod # r
    BY <1>a, <1>b, <1>d, <2>1, <2>2 DEF OrphanInv, Same
  <2>4. QED
    BY <1>10, <1>a, <1>b, <2>1, <2>3 DEF ActivateS, Swapped, Claimed, TypeOK
<1>11. ASSUME NEW p \in Ops, Send(p) PROVE Claimed(r, k)'
  BY <1>11, <1>a, <1>b, <1>d DEF Send, At, Goto, store, plane, env, count, OrphanInv, Claimed,
      TypeOK
<1>12. ASSUME NEW p \in Ops, AbortS(p) PROVE Claimed(r, k)'
  <2>1. pods' = pods /\ rec' = rec /\ (faults' = 0 => faults = 0)
    BY <1>12, <1>a DEF AbortS, Goes, TypeOK
  <2>2. Claimed(r, k)
    BY <1>a, <1>d, <2>1 DEF OrphanInv
  <2>3. QED
    BY <1>12, <1>a, <1>d, <2>1, <2>2 DEF AbortS, Goes, Claimed, TypeOK
<1>13. ASSUME NEW p \in Ops, Stop(p) PROVE Claimed(r, k)'
  BY <1>13, <1>a, <1>b, <1>d DEF Stop, At, Goto, store, plane, env, count, OrphanInv, Claimed,
      TypeOK
<1>14. ASSUME NEW p \in Ops, StopHelper(p) PROVE Claimed(r, k)'
  BY <1>14, <1>a, <1>b, <1>d DEF StopHelper, At, Goto, store, plane, env, count, OrphanInv, Claimed,
      TypeOK
<1>15. ASSUME NEW p \in Ops, Provision(p) PROVE Claimed(r, k)'
  <2>1. <<r, k>> \in pods \/ r = p
    BY <1>15, <1>d DEF Provision, Workload, Helper
  <2>2. QED
    BY <1>15, <1>a, <1>d, <2>1 DEF Provision, At, Goto, store, plane, env, count, Claimed, OrphanInv, TypeOK
<1>16. ASSUME NEW p \in Ops, ProvisionWorkload(p) PROVE Claimed(r, k)'
  <2>1. <<r, k>> \in pods \/ r = p
    BY <1>16, <1>d DEF ProvisionWorkload, Workload, Helper
  <2>2. QED
    BY <1>16, <1>a, <1>d, <2>1 DEF ProvisionWorkload, At, Goto, store, plane, env, count, Claimed, OrphanInv, TypeOK
<1>17. ASSUME NEW p \in Ops, ApplyS(p) PROVE Claimed(r, k)'
  BY <1>17, <1>a, <1>b, <1>d DEF ApplyS, Goes, OrphanInv, Claimed, TypeOK
<1>18. ASSUME NEW p \in Ops, Discard(p) PROVE Claimed(r, k)'
  <2>1. pods' \subseteq pods /\ <<r, k>> \in pods
    BY <1>18, <1>d DEF Discard
  <2>2. Claimed(r, k)
    BY <1>18, <1>a, <1>d, <2>1 DEF Discard, count, OrphanInv
  <2>3. r = p => (pc[p] = "discard" => k = "helper") /\ (pc[p] = "discardHelper" => k = "workload")
    BY <1>18, <1>d DEF Discard, At, Workload, Helper
  <2>4. QED
    BY <1>18, <1>a, <2>2, <2>3 DEF Discard, At, Goto, store, plane, env, count, Claimed, TypeOK
<1>19. ASSUME NEW p \in Ops, Delete(p) PROVE Claimed(r, k)'
  <2>1. CASE pc[p] = "delete" /\ fence = p /\ rec # None
    <3>1. Same(rec, sess[p]) /\ Workload(sess[p].pod) \notin pods /\ Helper(sess[p].pod) \notin pods
      BY <1>a, <1>e, <2>1 DEF PodInv, Knowing, Labels
    <3>2. pods' = pods /\ rec.pod # r
      BY <1>19, <1>d, <3>1 DEF Delete, Calm, Same, Workload, Helper, At, Goto, store, plane, env, count
    <3>3. faults' = faults /\ pc' = [pc EXCEPT ![p] = pc'[p]]
      BY <1>19, <1>a DEF Delete, At, Goto, store, plane, env, count, Swapped, TypeOK
    <3>4. Claimed(r, k) /\ r # p
      BY <1>a, <1>d, <2>1, <3>2, <3>3 DEF Claimed, OrphanInv
    <3>5. QED
      BY <1>a, <3>2, <3>3, <3>4 DEF Claimed, TypeOK
  <2>2. QED
    BY <1>19, <1>a, <1>b, <1>d, <2>1 DEF Delete, At, Goto, store, plane, env, count, Swapped, Claimed,
        OrphanInv, TypeOK
<1>20. ASSUME NEW p \in Ops, BeginS(p) PROVE Claimed(r, k)'
  BY <1>20, <1>a, <1>b, <1>d DEF BeginS, OrphanInv, Claimed, TypeOK
<1>21. ASSUME NEW p \in Ops, CallFails(p) PROVE Claimed(r, k)'
  BY <1>21, <1>a, <1>b, <1>d DEF CallFails, OrphanInv, Claimed, TypeOK
<1>22. ASSUME NEW p \in Ops, FinishS(p) PROVE Claimed(r, k)'
  BY <1>22, <1>a, <1>b, <1>d DEF FinishS, OrphanInv, Claimed, TypeOK
<1>23. ASSUME NEW p \in Ops, FailS(p) PROVE Claimed(r, k)'
  BY <1>23, <1>a, <1>b, <1>d DEF FailS, OrphanInv, Claimed, TypeOK
<1>24. ASSUME NEW a \in Rounds, RestartS(a) PROVE Claimed(r, k)'
  BY <1>24, <1>a, <1>b, <1>d DEF RestartS, OrphanInv, Claimed, TypeOK
<1>25. ASSUME NEW w \in Writers, WriteLookup(w) PROVE Claimed(r, k)'
  BY <1>25, <1>a, <1>b, <1>d DEF WriteLookup, store, plane, ops, count, OrphanInv, Claimed, TypeOK
<1>26. ASSUME NEW w \in Writers, WriteTaken(w) PROVE Claimed(r, k)'
  BY <1>26, <1>a, <1>b, <1>d DEF WriteTaken, OrphanInv, Claimed, TypeOK
<1>27. ASSUME NEW w \in Writers, WriteMissed(w) PROVE Claimed(r, k)'
  BY <1>27, <1>a, <1>b, <1>d DEF WriteMissed, OrphanInv, Claimed, TypeOK
<1>28. ASSUME NEW w \in Writers, Touched(w) PROVE Claimed(r, k)'
  <2>1. pods' = pods /\ pc' = pc /\ faults' = faults /\ (rec' = rec \/ (Same(rec', rec) /\ rec # None /\ rec' # None))
    BY <1>28, <1>b DEF Touched
  <2>2. Claimed(r, k)
    BY <1>a, <1>d, <2>1 DEF OrphanInv
  <2>3. QED
    BY <2>1, <2>2 DEF Claimed, Same
<1>29. CASE UNCHANGED vars
  BY <1>29, <1>a, <1>b, <1>d DEF vars, OrphanInv, Claimed, TypeOK
<1>30. QED
  BY <1>1, <1>2, <1>3, <1>4, <1>5, <1>6, <1>7, <1>8, <1>9, <1>10, <1>11, <1>12, <1>13, <1>14, <1>15,
      <1>16, <1>17, <1>18, <1>19, <1>20, <1>21, <1>22, <1>23, <1>24, <1>25, <1>26, <1>27, <1>28,
      <1>29 DEF NormalNext

-----------------------------------------------------------------------------
\* Under one assumption each.

\* A swap that is about the transaction alone leaves the rest of the record.
LEMMA SwapKeeps ==
  ASSUME IInv, NEW p \in Ops, PrepareS(p) \/ CommitS(p) \/ ClearS(p) \/ AdoptS(p)
  PROVE  /\ rec \in Sessions /\ rec' \in Sessions /\ Same(rec, sess[p])
         /\ rec'.state = rec.state /\ rec'.pod = rec.pod /\ rec'.ckpt = rec.ckpt
         /\ pods' = pods /\ agent' = agent /\ archive' = archive /\ accepted' = accepted /\ writer' = writer
<1>1. fence = p /\ pc[p] \in Knowing
  BY DEF PrepareS, CommitS, ClearS, AdoptS, Swapped, Knowing, Labels
<1>2. Same(rec, sess[p])
  BY <1>1 DEF IInv, FenceInv
<1>3. QED
  BY <1>2 DEF PrepareS, CommitS, ClearS, AdoptS, Swapped, Kept, Same, Calm

\* A write on its way finds the record's pod or a pod that is gone.
LEMMA WriterStep == ASSUME IInv, WriteInv, MaxRestarts = 0, NormalNext \/ UNCHANGED vars PROVE WriterInv'
<1>a. TypeOK /\ LabelInv /\ CommitInv /\ PodInv /\ WriterInv /\ ContentInv /\ SealInv /\ CaptureInv /\ AppliedInv
  BY DEF IInv, WriteInv
<1>b. None \notin Rounds /\ None \notin Sessions /\ None \notin Txns /\ First \notin Ops /\ Ops \subseteq Rounds
  BY LifecycleAssumption, NamesAssumption DEF Rounds
<1>c. \A q \in Ops : pc[q] \in Knowing => sess[q] \in Sessions /\ Shape(sess[q])
  BY DEF IInv, TypeOK, FenceInv, ShapeInv
<1>d. \A q \in Ops : pc[q] \in Knowing /\ sess[q].txn # None =>
        sess[q].txn \in Txns /\ sess[q].state = "active" /\ sess[q].pod \in Rounds /\ GenUsed(sess[q].txn.gen)
  BY <1>c, SessionParts, TxnParts DEF Shape
<1>e. \A q \in Ops : pc[q] \in Knowing /\ fence = q => Same(rec, sess[q])
  BY DEF IInv, FenceInv
<1>f. rec # None => rec \in Sessions /\ Shape(rec)
  BY DEF IInv, ShapeInv, TypeOK
<1>g. rec # None /\ rec.state = "active" => rec.pod \in Rounds /\ Used(rec.pod)
  BY <1>b, <1>f DEF Shape, Used, Rounds
<1>h. rec # None => rec.state \in {"active", "snapshot"} /\ (rec.state = "snapshot" => rec.pod = None /\ rec.txn = None)
  BY <1>f, SessionParts DEF Shape
<1>i. \A r : Used(r) => Used(r)'
  BY UsedStays
<1> HIDE DEF Sessions, Txns
<1> USE <1>a, <1>b, <1>g, <1>h, <1>i, NamesAssumption DEF WriterInv, Reachable, Same, TypeOK, Fates
<1>1. ASSUME NEW p \in Ops, Quiet(p) PROVE WriterInv'
  BY <1>1 DEF Quiet, QuietMove, Goes, Calm
<1>2. ASSUME NEW p \in Ops, Lock(p) PROVE WriterInv'
  BY <1>2 DEF Lock, At, Goto, store, plane, env, count
<1>3. ASSUME NEW p \in Ops, Read(p) PROVE WriterInv'
  BY <1>3 DEF Read, Planned, Goes, Calm
<1>4. ASSUME NEW p \in Ops, Reload(p) PROVE WriterInv'
  BY <1>4 DEF Reload, Goes, Calm, Same
<1>5. ASSUME NEW p \in Ops, PrepareS(p) PROVE WriterInv'
  BY <1>5, <1>a, <1>b, <1>i, SwapKeeps DEF WriterInv, Reachable, Used
<1>6. ASSUME NEW p \in Ops, CommitS(p) PROVE WriterInv'
  BY <1>6, <1>a, <1>b, <1>i, SwapKeeps DEF WriterInv, Reachable, Used
<1>7. ASSUME NEW p \in Ops, ClearS(p) PROVE WriterInv'
  BY <1>7, <1>a, <1>b, <1>i, SwapKeeps DEF WriterInv, Reachable, Used
<1>8. ASSUME NEW p \in Ops, FinalizeS(p) PROVE WriterInv'
  <2>1. Same(rec, sess[p]) /\ Workload(sess[p].pod) \notin pods
    BY <1>8, <1>a, <1>e DEF FinalizeS, Swapped, Knowing, Labels, PodInv
  <2>2. \A v \in Writers : writer[v] \in Rounds => ~Reachable(writer[v])
    BY <1>8, <1>a, <1>b, <2>1 DEF FinalizeS, Swapped, WriterInv, Reachable, Same
  <2>3. writer' = writer /\ pods' = pods
    BY <1>8 DEF FinalizeS, Calm
  <2>4. QED
    BY <1>a, <1>i, <2>2, <2>3 DEF WriterInv, Reachable, Used
<1>9. ASSUME NEW p \in Ops, AdoptS(p) PROVE WriterInv'
  BY <1>9, <1>a, <1>b, <1>i, SwapKeeps DEF WriterInv, Reachable, Used
<1>10. ASSUME NEW p \in Ops, ActivateS(p) PROVE WriterInv'
  <2>1. Same(rec, sess[p]) /\ rec \in Sessions /\ sess[p].state = "snapshot"
    BY <1>10, <1>a, <1>e DEF ActivateS, Swapped, Knowing, Labels, LabelInv, Restoring
  <2>2. rec # None /\ rec.pod = None
    BY <1>b, <1>h, <2>1 DEF Same
  <2>3. \A v \in Writers : writer[v] \in Rounds => ~Reachable(writer[v])
    BY <1>a, <1>b, <2>2 DEF WriterInv
  <2>4. writer' = writer /\ pods' = pods
    BY <1>10 DEF ActivateS, Calm
  <2>5. QED
    BY <1>a, <1>i, <2>3, <2>4 DEF WriterInv, Reachable, Used
<1>11. ASSUME NEW p \in Ops, Send(p) PROVE WriterInv'
  BY <1>11 DEF Send, At, Goto, store, plane, env, count
<1>12. ASSUME NEW p \in Ops, AbortS(p) PROVE WriterInv'
  BY <1>12 DEF AbortS, Goes
<1>13. ASSUME NEW p \in Ops, Stop(p) PROVE WriterInv'
  BY <1>13 DEF Stop, At, Goto, store, plane, env, count
<1>14. ASSUME NEW p \in Ops, StopHelper(p) PROVE WriterInv'
  BY <1>14 DEF StopHelper, At, Goto, store, plane, env, count
<1>15. ASSUME NEW p \in Ops, Provision(p) PROVE WriterInv'
  <2>1. ~Used(p)
    BY <1>15, <1>b DEF Provision, At, Used, Restored
  <2>2. \A v \in Writers : writer[v] \in Rounds => writer[v] # p
    BY <1>a, <2>1 DEF WriterInv
  <2>3. \A v \in Writers : writer[v] \in Rounds /\ ~Reachable(writer[v]) => ~Reachable(writer[v])'
    BY <1>15, <2>2 DEF Provision, env, Reachable, Workload, Helper
  <2>4. writer' = writer /\ rec' = rec
    BY <1>15 DEF Provision, env, store
  <2>5. QED
    BY <1>a, <1>i, <2>3, <2>4 DEF WriterInv, Used
<1>16. ASSUME NEW p \in Ops, ProvisionWorkload(p) PROVE WriterInv'
  <2>1. ~Used(p)
    BY <1>16, <1>b DEF ProvisionWorkload, At, Used, Restored
  <2>2. \A v \in Writers : writer[v] \in Rounds => writer[v] # p
    BY <1>a, <2>1 DEF WriterInv
  <2>3. \A v \in Writers : writer[v] \in Rounds /\ ~Reachable(writer[v]) => ~Reachable(writer[v])'
    BY <1>16, <2>2 DEF ProvisionWorkload, env, Reachable, Workload, Helper
  <2>4. writer' = writer /\ rec' = rec
    BY <1>16 DEF ProvisionWorkload, env, store
  <2>5. QED
    BY <1>a, <1>i, <2>3, <2>4 DEF WriterInv, Used
<1>17. ASSUME NEW p \in Ops, ApplyS(p) PROVE WriterInv'
  BY <1>17 DEF ApplyS, Goes
<1>18. ASSUME NEW p \in Ops, Discard(p) PROVE WriterInv'
  BY <1>18 DEF Discard, At, Goto, store, plane, env, count
<1>19. ASSUME NEW p \in Ops, Delete(p) PROVE WriterInv'
  BY <1>19 DEF Delete, At, Goto, store, plane, env, count
<1>20. ASSUME NEW p \in Ops, BeginS(p) PROVE WriterInv'
  BY <1>20 DEF BeginS
<1>21. ASSUME NEW p \in Ops, CallFails(p) PROVE WriterInv'
  BY <1>21 DEF CallFails
<1>22. ASSUME NEW p \in Ops, FinishS(p) PROVE WriterInv'
  BY <1>22 DEF FinishS
<1>23. ASSUME NEW p \in Ops, FailS(p) PROVE WriterInv'
  BY <1>23 DEF FailS
<1>24. ASSUME NEW a \in Rounds, RestartS(a) PROVE WriterInv'
  BY <1>24, LifecycleAssumption DEF RestartS
<1>25. ASSUME NEW w \in Writers, WriteLookup(w) PROVE WriterInv'
  BY <1>25 DEF WriteLookup, store, plane, ops, count
<1>26. ASSUME NEW w \in Writers, WriteTaken(w) PROVE WriterInv'
  BY <1>26 DEF WriteTaken
<1>27. ASSUME NEW w \in Writers, WriteMissed(w) PROVE WriterInv'
  BY <1>27 DEF WriteMissed
<1>28. ASSUME NEW w \in Writers, Touched(w) PROVE WriterInv'
  BY <1>28 DEF Touched
<1>29. CASE UNCHANGED vars
  BY <1>29 DEF vars
<1>30. QED
  BY <1>1, <1>2, <1>3, <1>4, <1>5, <1>6, <1>7, <1>8, <1>9, <1>10, <1>11, <1>12, <1>13, <1>14, <1>15,
      <1>16, <1>17, <1>18, <1>19, <1>20, <1>21, <1>22, <1>23, <1>24, <1>25, <1>26, <1>27, <1>28,
      <1>29 DEF NormalNext

\* The record's pod or archive keeps up with the acknowledged writes.
LEMMA ContentStep == ASSUME IInv, WriteInv, MaxRestarts = 0, NormalNext \/ UNCHANGED vars PROVE ContentInv'
<1>a. TypeOK /\ LabelInv /\ CommitInv /\ PodInv /\ WriterInv /\ ContentInv /\ SealInv /\ CaptureInv /\ AppliedInv
  BY DEF IInv, WriteInv
<1>b. None \notin Rounds /\ None \notin Sessions /\ None \notin Txns /\ First \notin Ops /\ Ops \subseteq Rounds
  BY LifecycleAssumption, NamesAssumption DEF Rounds
<1>c. \A q \in Ops : pc[q] \in Knowing => sess[q] \in Sessions /\ Shape(sess[q])
  BY DEF IInv, TypeOK, FenceInv, ShapeInv
<1>d. \A q \in Ops : pc[q] \in Knowing /\ sess[q].txn # None =>
        sess[q].txn \in Txns /\ sess[q].state = "active" /\ sess[q].pod \in Rounds /\ GenUsed(sess[q].txn.gen)
  BY <1>c, SessionParts, TxnParts DEF Shape
<1>e. \A q \in Ops : pc[q] \in Knowing /\ fence = q => Same(rec, sess[q])
  BY DEF IInv, FenceInv
<1>f. rec # None => rec \in Sessions /\ Shape(rec)
  BY DEF IInv, ShapeInv, TypeOK
<1>g. rec # None /\ rec.state = "active" => rec.pod \in Rounds /\ Used(rec.pod)
  BY <1>b, <1>f DEF Shape, Used, Rounds
<1>h. rec # None => rec.state \in {"active", "snapshot"} /\ (rec.state = "snapshot" => rec.pod = None /\ rec.txn = None)
  BY <1>f, SessionParts DEF Shape
<1> HIDE DEF Sessions, Txns
<1> USE <1>a, <1>b, <1>g, <1>h DEF ContentInv, Same, TypeOK, AgentSet
<1>1. ASSUME NEW p \in Ops, Quiet(p) PROVE ContentInv'
  BY <1>1 DEF Quiet, QuietMove, Goes, Calm
<1>2. ASSUME NEW p \in Ops, Lock(p) PROVE ContentInv'
  BY <1>2 DEF Lock, At, Goto, store, plane, env, count
<1>3. ASSUME NEW p \in Ops, Read(p) PROVE ContentInv'
  BY <1>3 DEF Read, Planned, Goes, Calm
<1>4. ASSUME NEW p \in Ops, Reload(p) PROVE ContentInv'
  BY <1>4 DEF Reload, Goes, Calm, Same
<1>5. ASSUME NEW p \in Ops, PrepareS(p) PROVE ContentInv'
  BY <1>5, <1>a, <1>b, SwapKeeps DEF ContentInv
<1>6. ASSUME NEW p \in Ops, CommitS(p) PROVE ContentInv'
  BY <1>6, <1>a, <1>b, SwapKeeps DEF ContentInv
<1>7. ASSUME NEW p \in Ops, ClearS(p) PROVE ContentInv'
  BY <1>7, <1>a, <1>b, SwapKeeps DEF ContentInv
<1>8. ASSUME NEW p \in Ops, FinalizeS(p) PROVE ContentInv'
  <2>1. Same(rec, sess[p]) /\ sess[p].txn \in Txns /\ sess[p].txn.phase = "committing" /\ rec \in Sessions
    BY <1>8, <1>a, <1>d, <1>e DEF FinalizeS, Swapped, Knowing, Labels, LabelInv, Reclaiming
  <2>2. Committing(sess[p].txn.gen) /\ sess[p].txn.gen \in Ops
    BY <1>b, <2>1, TxnParts DEF Committing, Same
  <2>3. archive[sess[p].txn.gen] = accepted
    BY <1>a, <2>2 DEF SealInv, Intact
  <2>4. QED
    BY <1>8, <2>3 DEF FinalizeS, Swapped, Same, Calm, ContentInv
<1>9. ASSUME NEW p \in Ops, AdoptS(p) PROVE ContentInv'
  BY <1>9, <1>a, <1>b, SwapKeeps DEF ContentInv
<1>10. ASSUME NEW p \in Ops, ActivateS(p) PROVE ContentInv'
  <2>1. Same(rec, sess[p]) /\ rec \in Sessions /\ sess[p].state = "snapshot" /\ pc[p] = "activate"
    BY <1>10, <1>a, <1>e DEF ActivateS, Swapped, Knowing, Labels, LabelInv, Restoring
  <2>2. agent[p].content = accepted
    BY <1>a, <1>b, <2>1 DEF ContentInv, AppliedInv, Same
  <2>3. QED
    BY <1>10, <2>2 DEF ActivateS, Swapped, Same, Calm, ContentInv
<1>11. ASSUME NEW p \in Ops, Send(p) PROVE ContentInv'
  BY <1>11 DEF Send, At, Goto, store, plane, env, count
<1>12. ASSUME NEW p \in Ops, AbortS(p) PROVE ContentInv'
  BY <1>12 DEF AbortS, Goes
<1>13. ASSUME NEW p \in Ops, Stop(p) PROVE ContentInv'
  BY <1>13 DEF Stop, At, Goto, store, plane, env, count
<1>14. ASSUME NEW p \in Ops, StopHelper(p) PROVE ContentInv'
  BY <1>14 DEF StopHelper, At, Goto, store, plane, env, count
<1>15. ASSUME NEW p \in Ops, Provision(p) PROVE ContentInv'
  BY <1>15 DEF Provision, At, Goto, store, plane, env, count
<1>16. ASSUME NEW p \in Ops, ProvisionWorkload(p) PROVE ContentInv'
  BY <1>16 DEF ProvisionWorkload, At, Goto, store, plane, env, count
<1>17. ASSUME NEW p \in Ops, ApplyS(p) PROVE ContentInv'
  <2>1. rec # None /\ rec.state = "active" => rec.pod # p
    BY <1>17, <1>b, <1>g DEF ApplyS, Used, Restored
  <2>2. QED
    BY <1>17, <1>a, <1>g, <2>1 DEF ApplyS, AgentSet, ContentInv
<1>18. ASSUME NEW p \in Ops, Discard(p) PROVE ContentInv'
  BY <1>18 DEF Discard, At, Goto, store, plane, env, count
<1>19. ASSUME NEW p \in Ops, Delete(p) PROVE ContentInv'
  BY <1>19 DEF Delete, At, Goto, store, plane, env, count
<1>20. ASSUME NEW p \in Ops, BeginS(p) PROVE ContentInv'
  BY <1>20 DEF BeginS
<1>21. ASSUME NEW p \in Ops, CallFails(p) PROVE ContentInv'
  BY <1>21 DEF CallFails
<1>22. ASSUME NEW p \in Ops, FinishS(p) PROVE ContentInv'
  <2>1. rec # None /\ rec.state = "snapshot" => rec.ckpt # p /\ rec.ckpt \in Ops
    BY <1>22, <1>f DEF FinishS, Shape, Sealed, GenUsed
  <2>2. rec # None /\ rec.state = "active" => agent'[rec.pod].content = agent[rec.pod].content
    BY <1>22, <1>g DEF FinishS, AgentSet
  <2>3. QED
    BY <1>22, <1>a, <2>1, <2>2 DEF FinishS, ContentInv, TypeOK
<1>23. ASSUME NEW p \in Ops, FailS(p) PROVE ContentInv'
  BY <1>23 DEF FailS
<1>24. ASSUME NEW a \in Rounds, RestartS(a) PROVE ContentInv'
  BY <1>24, LifecycleAssumption DEF RestartS
<1>25. ASSUME NEW w \in Writers, WriteLookup(w) PROVE ContentInv'
  BY <1>25 DEF WriteLookup, store, plane, ops, count
<1>26. ASSUME NEW w \in Writers, WriteTaken(w) PROVE ContentInv'
  <2>1. rec = None \/ rec.pod = writer[w]
    BY <1>26, <1>a DEF WriteTaken, WriterInv
  <2>2. rec # None => rec.state = "active"
    BY <1>26, <1>b, <1>h, <2>1 DEF WriteTaken
  <2>3. QED
    BY <1>26, <1>a, <2>1, <2>2 DEF WriteTaken, AgentSet, ContentInv
<1>27. ASSUME NEW w \in Writers, WriteMissed(w) PROVE ContentInv'
  BY <1>27 DEF WriteMissed
<1>28. ASSUME NEW w \in Writers, Touched(w) PROVE ContentInv'
  BY <1>28 DEF Touched
<1>29. CASE UNCHANGED vars
  BY <1>29 DEF vars
<1>30. QED
  BY <1>1, <1>2, <1>3, <1>4, <1>5, <1>6, <1>7, <1>8, <1>9, <1>10, <1>11, <1>12, <1>13, <1>14, <1>15,
      <1>16, <1>17, <1>18, <1>19, <1>20, <1>21, <1>22, <1>23, <1>24, <1>25, <1>26, <1>27, <1>28,
      <1>29 DEF NormalNext

\* A committed generation's agent takes no write: only an abort of that generation
\* would open it, and no call that aborts it is left.
LEMMA SealStep == ASSUME IInv, WriteInv, MaxRestarts = 0, NormalNext \/ UNCHANGED vars PROVE SealInv'
<1>a. TypeOK /\ LabelInv /\ CommitInv /\ PodInv /\ WriterInv /\ ContentInv /\ SealInv /\ CaptureInv /\ AppliedInv
  BY DEF IInv, WriteInv
<1>b. None \notin Rounds /\ None \notin Sessions /\ None \notin Txns /\ First \notin Ops /\ Ops \subseteq Rounds
  BY LifecycleAssumption, NamesAssumption DEF Rounds
<1>c. \A q \in Ops : pc[q] \in Knowing => sess[q] \in Sessions /\ Shape(sess[q])
  BY DEF IInv, TypeOK, FenceInv, ShapeInv
<1>d. \A q \in Ops : pc[q] \in Knowing /\ sess[q].txn # None =>
        sess[q].txn \in Txns /\ sess[q].state = "active" /\ sess[q].pod \in Rounds /\ GenUsed(sess[q].txn.gen)
  BY <1>c, SessionParts, TxnParts DEF Shape
<1>e. \A q \in Ops : pc[q] \in Knowing /\ fence = q => Same(rec, sess[q])
  BY DEF IInv, FenceInv
<1>f. rec # None => rec \in Sessions /\ Shape(rec)
  BY DEF IInv, ShapeInv, TypeOK
<1>g. rec # None /\ rec.state = "active" => rec.pod \in Rounds /\ Used(rec.pod)
  BY <1>b, <1>f DEF Shape, Used, Rounds
<1>h. rec # None => rec.state \in {"active", "snapshot"} /\ (rec.state = "snapshot" => rec.pod = None /\ rec.txn = None)
  BY <1>f, SessionParts DEF Shape
<1>i. SUFFICES ASSUME NEW g \in Ops, Committing(g)' PROVE Intact(g)'
  BY DEF SealInv
<1> HIDE DEF Sessions, Txns
<1> USE <1>a, <1>b, <1>d, <1>e, <1>f, <1>g, <1>h, <1>i DEF SealInv, Intact, Committing, FenceInv,
    LabelInv, Knowing, Labels, Freezing, Reclaiming, Restoring, Restored, Same, TypeOK
<1>1. ASSUME NEW p \in Ops, Quiet(p) PROVE Intact(g)'
  BY <1>1 DEF Quiet, QuietMove, Goes, Calm
<1>2. ASSUME NEW p \in Ops, Lock(p) PROVE Intact(g)'
  BY <1>2 DEF Lock, At, Goto, store, plane, env, count
<1>3. ASSUME NEW p \in Ops, Read(p) PROVE Intact(g)'
  BY <1>3 DEF Read, Planned, Goes, Calm
<1>4. ASSUME NEW p \in Ops, Reload(p) PROVE Intact(g)'
  BY <1>4 DEF Reload, Goes, Calm, Same
<1>5. ASSUME NEW p \in Ops, PrepareS(p) PROVE Intact(g)'
  BY <1>5 DEF PrepareS, Swapped, Kept, Calm, Same
<1>6. ASSUME NEW p \in Ops, CommitS(p) PROVE Intact(g)'
  <2>1. PICK n \in Sessions : Swapped(p, n, "stop") /\ Kept(n, sess[p]) /\ n.txn.gen = sess[p].txn.gen
    BY <1>6 DEF CommitS
  <2>2. /\ sess[p].txn # None /\ sess[p].txn.gen = p /\ call[p] = "answered" /\ fence = p /\ pc[p] = "commit"
        /\ Same(rec, sess[p]) /\ rec # None
    BY <1>6, <1>a, <1>b, <1>e, <2>1 DEF CommitS, Swapped, LabelInv, Freezing, CommitInv, Knowing, Labels
  <2>3. g = p
    BY <1>i, <2>1, <2>2 DEF Swapped, Same, Committing
  <2>4. rec.state = "active" /\ rec.pod = sess[p].pod
    BY <1>h, <2>2 DEF Same
  <2>5. agent[rec.pod].gate = "ready" /\ agent[rec.pod].gen = p /\ archive[p] = accepted
    BY <1>a, <2>2, <2>4 DEF CaptureInv, Captured, ContentInv
  <2>6. QED
    BY <1>6, <2>3, <2>5, SwapKeeps DEF Intact
<1>7. ASSUME NEW p \in Ops, ClearS(p) PROVE Intact(g)'
  BY <1>7 DEF ClearS, Planned, Swapped, Kept, Calm, Same
<1>8. ASSUME NEW p \in Ops, FinalizeS(p) PROVE Intact(g)'
  BY <1>8 DEF FinalizeS, Planned, Swapped, Kept, Calm, Same
<1>9. ASSUME NEW p \in Ops, AdoptS(p) PROVE Intact(g)'
  BY <1>9 DEF AdoptS, Swapped, Kept, Calm, Same
<1>10. ASSUME NEW p \in Ops, ActivateS(p) PROVE Intact(g)'
  BY <1>10 DEF ActivateS, Swapped, Kept, Calm, Same
<1>11. ASSUME NEW p \in Ops, Send(p) PROVE Intact(g)'
  BY <1>11 DEF Send, At, Goto, store, plane, env, count
<1>12. ASSUME NEW p \in Ops, AbortS(p) PROVE Intact(g)'
  <2>1. rec' = rec /\ sess[p].txn.src \in Rounds /\ \A q \in Rounds : q # sess[p].txn.src => agent'[q] = agent[q]
    BY <1>12 DEF AbortS, Goes, AgentSet
  <2>2. Committing(g)
    BY <1>i, <2>1 DEF Committing
  <2>3. /\ rec # None /\ rec.pod \in Rounds /\ Used(rec.pod) /\ call[g] = "answered" /\ pc[g] \in Reclaiming \cup {"done"}
        /\ archive[g] = accepted /\ agent[rec.pod].gate = "ready" /\ agent[rec.pod].gen = g
    BY <1>a, <1>b, <1>g, <1>h, <1>i, <2>2 DEF Committing, CommitInv, SealInv, Intact
  <2>4. rec.pod # sess[p].txn.src
    BY <1>12, <1>a, <2>2, <2>3, SMTT(30) DEF AbortS, CommitInv, LabelInv, Freezing, Reclaiming
  <2>5. archive'[g] = archive[g] /\ accepted' = accepted
    BY <1>12, <1>a, <2>3 DEF AbortS, TypeOK
  <2>6. QED
    BY <2>1, <2>3, <2>4, <2>5 DEF Intact
<1>13. ASSUME NEW p \in Ops, Stop(p) PROVE Intact(g)'
  BY <1>13 DEF Stop, At, Goto, store, plane, env, count
<1>14. ASSUME NEW p \in Ops, StopHelper(p) PROVE Intact(g)'
  BY <1>14 DEF StopHelper, At, Goto, store, plane, env, count
<1>15. ASSUME NEW p \in Ops, Provision(p) PROVE Intact(g)'
  BY <1>15 DEF Provision, At, Goto, store, plane, env, count
<1>16. ASSUME NEW p \in Ops, ProvisionWorkload(p) PROVE Intact(g)'
  BY <1>16 DEF ProvisionWorkload, At, Goto, store, plane, env, count
<1>17. ASSUME NEW p \in Ops, ApplyS(p) PROVE Intact(g)'
  <2>1. rec' = rec /\ p \in Rounds /\ \A q \in Rounds : q # p => agent'[q] = agent[q]
    BY <1>17 DEF ApplyS, Goes, AgentSet
  <2>2. Committing(g)
    BY <1>i, <2>1 DEF Committing
  <2>3. /\ rec # None /\ rec.pod \in Rounds /\ Used(rec.pod) /\ call[g] = "answered" /\ pc[g] \in Reclaiming \cup {"done"}
        /\ archive[g] = accepted /\ agent[rec.pod].gate = "ready" /\ agent[rec.pod].gen = g
    BY <1>a, <1>b, <1>g, <1>h, <1>i, <2>2 DEF Committing, CommitInv, SealInv, Intact
  <2>4. rec.pod # p
    BY <1>17, <1>b, <2>3 DEF ApplyS, Used, Restored
  <2>5. archive'[g] = archive[g] /\ accepted' = accepted
    BY <1>17, <1>a, <2>3 DEF ApplyS, TypeOK
  <2>6. QED
    BY <2>1, <2>3, <2>4, <2>5 DEF Intact
<1>18. ASSUME NEW p \in Ops, Discard(p) PROVE Intact(g)'
  BY <1>18 DEF Discard, At, Goto, store, plane, env, count
<1>19. ASSUME NEW p \in Ops, Delete(p) PROVE Intact(g)'
  BY <1>19 DEF Delete, At, Goto, store, plane, env, count
<1>20. ASSUME NEW p \in Ops, BeginS(p) PROVE Intact(g)'
  <2>1. rec' = rec /\ sess[p].pod \in Rounds /\ \A q \in Rounds : q # sess[p].pod => agent'[q] = agent[q]
    BY <1>20 DEF BeginS, AgentSet
  <2>2. Committing(g)
    BY <1>i, <2>1 DEF Committing
  <2>3. /\ rec # None /\ rec.pod \in Rounds /\ Used(rec.pod) /\ call[g] = "answered" /\ pc[g] \in Reclaiming \cup {"done"}
        /\ archive[g] = accepted /\ agent[rec.pod].gate = "ready" /\ agent[rec.pod].gen = g
    BY <1>a, <1>b, <1>g, <1>h, <1>i, <2>2 DEF Committing, CommitInv, SealInv, Intact
  <2>4. rec.pod # sess[p].pod
    BY <1>20, <2>3 DEF BeginS
  <2>5. archive'[g] = archive[g] /\ accepted' = accepted
    BY <1>20, <1>a, <2>3 DEF BeginS, TypeOK
  <2>6. QED
    BY <2>1, <2>3, <2>4, <2>5 DEF Intact
<1>21. ASSUME NEW p \in Ops, CallFails(p) PROVE Intact(g)'
  BY <1>21 DEF CallFails
<1>22. ASSUME NEW p \in Ops, FinishS(p) PROVE Intact(g)'
  <2>1. rec' = rec /\ sess[p].pod \in Rounds /\ \A q \in Rounds : q # sess[p].pod => agent'[q] = agent[q]
    BY <1>22 DEF FinishS, AgentSet
  <2>2. Committing(g)
    BY <1>i, <2>1 DEF Committing
  <2>3. /\ rec # None /\ rec.pod \in Rounds /\ Used(rec.pod) /\ call[g] = "answered" /\ pc[g] \in Reclaiming \cup {"done"}
        /\ archive[g] = accepted /\ agent[rec.pod].gate = "ready" /\ agent[rec.pod].gen = g
    BY <1>a, <1>b, <1>g, <1>h, <1>i, <2>2 DEF Committing, CommitInv, SealInv, Intact
  <2>4. rec.pod # sess[p].pod
    BY <1>22, <2>3 DEF FinishS
  <2>5. archive'[g] = archive[g] /\ accepted' = accepted
    BY <1>22, <1>a, <2>3 DEF FinishS, TypeOK
  <2>6. QED
    BY <2>1, <2>3, <2>4, <2>5 DEF Intact
<1>23. ASSUME NEW p \in Ops, FailS(p) PROVE Intact(g)'
  <2>1. rec' = rec /\ sess[p].pod \in Rounds /\ \A q \in Rounds : q # sess[p].pod => agent'[q] = agent[q]
    BY <1>23 DEF FailS, AgentSet
  <2>2. Committing(g)
    BY <1>i, <2>1 DEF Committing
  <2>3. /\ rec # None /\ rec.pod \in Rounds /\ Used(rec.pod) /\ call[g] = "answered" /\ pc[g] \in Reclaiming \cup {"done"}
        /\ archive[g] = accepted /\ agent[rec.pod].gate = "ready" /\ agent[rec.pod].gen = g
    BY <1>a, <1>b, <1>g, <1>h, <1>i, <2>2 DEF Committing, CommitInv, SealInv, Intact
  <2>4. rec.pod # sess[p].pod
    BY <1>23, <2>3 DEF FailS
  <2>5. archive'[g] = archive[g] /\ accepted' = accepted
    BY <1>23, <1>a, <2>3 DEF FailS, TypeOK
  <2>6. QED
    BY <2>1, <2>3, <2>4, <2>5 DEF Intact
<1>24. ASSUME NEW a \in Rounds, RestartS(a) PROVE Intact(g)'
  BY <1>24, LifecycleAssumption DEF RestartS
<1>25. ASSUME NEW w \in Writers, WriteLookup(w) PROVE Intact(g)'
  BY <1>25 DEF WriteLookup, store, plane, ops, count
<1>26. ASSUME NEW w \in Writers, WriteTaken(w) PROVE Intact(g)'
  <2>1. rec' = rec /\ writer[w] \in Rounds /\ \A q \in Rounds : q # writer[w] => agent'[q] = agent[q]
    BY <1>26 DEF WriteTaken, AgentSet
  <2>2. Committing(g)
    BY <1>i, <2>1 DEF Committing
  <2>3. /\ rec # None /\ rec.pod \in Rounds /\ Used(rec.pod) /\ call[g] = "answered" /\ pc[g] \in Reclaiming \cup {"done"}
        /\ archive[g] = accepted /\ agent[rec.pod].gate = "ready" /\ agent[rec.pod].gen = g
    BY <1>a, <1>b, <1>g, <1>h, <1>i, <2>2 DEF Committing, CommitInv, SealInv, Intact
  <2>4. rec.pod = writer[w]
    BY <1>26, <1>a, <2>3 DEF WriteTaken, WriterInv
  <2>5. QED
    BY <1>26, <2>3, <2>4 DEF WriteTaken
<1>27. ASSUME NEW w \in Writers, WriteMissed(w) PROVE Intact(g)'
  BY <1>27 DEF WriteMissed
<1>28. ASSUME NEW w \in Writers, Touched(w) PROVE Intact(g)'
  BY <1>28 DEF Touched
<1>29. CASE UNCHANGED vars
  BY <1>29 DEF vars
<1>30. QED
  BY <1>1, <1>2, <1>3, <1>4, <1>5, <1>6, <1>7, <1>8, <1>9, <1>10, <1>11, <1>12, <1>13, <1>14, <1>15,
      <1>16, <1>17, <1>18, <1>19, <1>20, <1>21, <1>22, <1>23, <1>24, <1>25, <1>26, <1>27, <1>28,
      <1>29 DEF NormalNext

\* The same until the commit, as long as its call is the fence.
LEMMA CaptureStep == ASSUME IInv, WriteInv, MaxRestarts = 0, NormalNext \/ UNCHANGED vars PROVE CaptureInv'
<1>a. TypeOK /\ LabelInv /\ CommitInv /\ PodInv /\ WriterInv /\ ContentInv /\ SealInv /\ CaptureInv /\ AppliedInv
  BY DEF IInv, WriteInv
<1>b. None \notin Rounds /\ None \notin Sessions /\ None \notin Txns /\ First \notin Ops /\ Ops \subseteq Rounds
  BY LifecycleAssumption, NamesAssumption DEF Rounds
<1>c. \A q \in Ops : pc[q] \in Knowing => sess[q] \in Sessions /\ Shape(sess[q])
  BY DEF IInv, TypeOK, FenceInv, ShapeInv
<1>d. \A q \in Ops : pc[q] \in Knowing /\ sess[q].txn # None =>
        sess[q].txn \in Txns /\ sess[q].state = "active" /\ sess[q].pod \in Rounds /\ GenUsed(sess[q].txn.gen)
  BY <1>c, SessionParts, TxnParts DEF Shape
<1>e. \A q \in Ops : pc[q] \in Knowing /\ fence = q => Same(rec, sess[q])
  BY DEF IInv, FenceInv
<1>f. rec # None => rec \in Sessions /\ Shape(rec)
  BY DEF IInv, ShapeInv, TypeOK
<1>g. rec # None /\ rec.state = "active" => rec.pod \in Rounds /\ Used(rec.pod)
  BY <1>b, <1>f DEF Shape, Used, Rounds
<1>h. rec # None => rec.state \in {"active", "snapshot"} /\ (rec.state = "snapshot" => rec.pod = None /\ rec.txn = None)
  BY <1>f, SessionParts DEF Shape
<1>i. SUFFICES ASSUME NEW g \in Ops, pc'[g] \in {"await", "commit"}, call'[g] = "answered", fence' = g
             PROVE  Captured(g)'
  BY DEF CaptureInv
<1> HIDE DEF Sessions, Txns
<1> USE <1>a, <1>b, <1>d, <1>e, <1>f, <1>g, <1>h, <1>i DEF CaptureInv, Captured, FenceInv, LabelInv,
    Knowing, Labels, Freezing, Reclaiming, Restoring, Restored, Same, TypeOK
<1>1. ASSUME NEW p \in Ops, Quiet(p) PROVE Captured(g)'
  BY <1>1 DEF Quiet, QuietMove, Goes, Calm
<1>2. ASSUME NEW p \in Ops, Lock(p) PROVE Captured(g)'
  BY <1>2 DEF Lock, At, Goto, store, plane, env, count
<1>3. ASSUME NEW p \in Ops, Read(p) PROVE Captured(g)'
  BY <1>3 DEF Read, Planned, Goes, Calm
<1>4. ASSUME NEW p \in Ops, Reload(p) PROVE Captured(g)'
  BY <1>4 DEF Reload, Goes, Calm, Same
<1>5. ASSUME NEW p \in Ops, PrepareS(p) PROVE Captured(g)'
  BY <1>5 DEF PrepareS, Swapped, Kept, Calm, Same
<1>6. ASSUME NEW p \in Ops, CommitS(p) PROVE Captured(g)'
  BY <1>6 DEF CommitS, Swapped, Kept, Calm, Same
<1>7. ASSUME NEW p \in Ops, ClearS(p) PROVE Captured(g)'
  BY <1>7 DEF ClearS, Planned, Swapped, Kept, Calm, Same
<1>8. ASSUME NEW p \in Ops, FinalizeS(p) PROVE Captured(g)'
  BY <1>8 DEF FinalizeS, Planned, Swapped, Kept, Calm, Same
<1>9. ASSUME NEW p \in Ops, AdoptS(p) PROVE Captured(g)'
  BY <1>9 DEF AdoptS, Swapped, Kept, Calm, Same
<1>10. ASSUME NEW p \in Ops, ActivateS(p) PROVE Captured(g)'
  BY <1>10 DEF ActivateS, Swapped, Kept, Calm, Same
<1>11. ASSUME NEW p \in Ops, Send(p) PROVE Captured(g)'
  BY <1>11 DEF Send, At, Goto, store, plane, env, count
<1>12. ASSUME NEW p \in Ops, AbortS(p) PROVE Captured(g)'
  <2>1. /\ sess' = sess /\ fence' = fence /\ sess[p].txn.src \in Rounds
        /\ \A q \in Rounds : q # sess[p].txn.src => agent'[q] = agent[q]
    BY <1>12 DEF AbortS, Goes, AgentSet
  <2>2. pc[g] \in {"await", "commit"} /\ call[g] = "answered" /\ fence = g
    BY <1>12, <1>a, <1>i, <2>1, SMTT(60) DEF AbortS, Goes, TypeOK
  <2>3. /\ agent[sess[g].pod].gate = "ready" /\ agent[sess[g].pod].gen = g
        /\ archive[g] = agent[sess[g].pod].content
    BY <1>a, <1>i, <2>2 DEF CaptureInv, Captured
  <2>4. sess[g].pod \in Rounds /\ Used(sess[g].pod)
    BY <1>a, <1>c, <1>d, <1>i, <2>2 DEF LabelInv, Freezing, Knowing, Labels, Shape
  <2>5. sess[g].pod # sess[p].txn.src
    BY <1>12, <1>a, <1>i, <2>2, <2>3, SMTT(60) DEF AbortS, CommitInv, LabelInv, Freezing
  <2>6. archive'[g] = archive[g]
    BY <1>12, <1>a, <1>i, <2>2 DEF AbortS, Goes, TypeOK
  <2>7. QED
    BY <2>1, <2>3, <2>4, <2>5, <2>6 DEF Captured
<1>13. ASSUME NEW p \in Ops, Stop(p) PROVE Captured(g)'
  BY <1>13 DEF Stop, At, Goto, store, plane, env, count
<1>14. ASSUME NEW p \in Ops, StopHelper(p) PROVE Captured(g)'
  BY <1>14 DEF StopHelper, At, Goto, store, plane, env, count
<1>15. ASSUME NEW p \in Ops, Provision(p) PROVE Captured(g)'
  BY <1>15 DEF Provision, At, Goto, store, plane, env, count
<1>16. ASSUME NEW p \in Ops, ProvisionWorkload(p) PROVE Captured(g)'
  BY <1>16 DEF ProvisionWorkload, At, Goto, store, plane, env, count
<1>17. ASSUME NEW p \in Ops, ApplyS(p) PROVE Captured(g)'
  <2>1. /\ sess' = sess /\ fence' = fence /\ p \in Rounds
        /\ \A q \in Rounds : q # p => agent'[q] = agent[q]
    BY <1>17 DEF ApplyS, Goes, AgentSet
  <2>2. pc[g] \in {"await", "commit"} /\ call[g] = "answered" /\ fence = g
    BY <1>17, <1>a, <1>i, <2>1 DEF ApplyS, Goes, TypeOK
  <2>3. /\ agent[sess[g].pod].gate = "ready" /\ agent[sess[g].pod].gen = g
        /\ archive[g] = agent[sess[g].pod].content
    BY <1>a, <1>i, <2>2 DEF CaptureInv, Captured
  <2>4. sess[g].pod \in Rounds /\ Used(sess[g].pod)
    BY <1>a, <1>c, <1>d, <1>i, <2>2 DEF LabelInv, Freezing, Knowing, Labels, Shape
  <2>5. sess[g].pod # p
    BY <1>17, <1>b, <2>4 DEF ApplyS, Used, Restored
  <2>6. archive'[g] = archive[g]
    BY <1>17, <1>a, <1>i, <2>2 DEF ApplyS, Goes, TypeOK
  <2>7. QED
    BY <2>1, <2>3, <2>4, <2>5, <2>6 DEF Captured
<1>18. ASSUME NEW p \in Ops, Discard(p) PROVE Captured(g)'
  BY <1>18 DEF Discard, At, Goto, store, plane, env, count
<1>19. ASSUME NEW p \in Ops, Delete(p) PROVE Captured(g)'
  BY <1>19 DEF Delete, At, Goto, store, plane, env, count
<1>20. ASSUME NEW p \in Ops, BeginS(p) PROVE Captured(g)'
  <2>1. /\ sess' = sess /\ fence' = fence /\ sess[p].pod \in Rounds
        /\ \A q \in Rounds : q # sess[p].pod => agent'[q] = agent[q]
    BY <1>20 DEF BeginS, AgentSet
  <2>2. pc[g] \in {"await", "commit"} /\ call[g] = "answered" /\ fence = g
    BY <1>20, <1>a, <1>i, <2>1 DEF BeginS, TypeOK
  <2>3. /\ agent[sess[g].pod].gate = "ready" /\ agent[sess[g].pod].gen = g
        /\ archive[g] = agent[sess[g].pod].content
    BY <1>a, <1>i, <2>2 DEF CaptureInv, Captured
  <2>4. sess[g].pod \in Rounds /\ Used(sess[g].pod)
    BY <1>a, <1>c, <1>d, <1>i, <2>2 DEF LabelInv, Freezing, Knowing, Labels, Shape
  <2>5. sess[g].pod # sess[p].pod
    BY <1>20, <2>3 DEF BeginS
  <2>6. archive'[g] = archive[g]
    BY <1>20, <1>a, <1>i, <2>2 DEF BeginS, TypeOK
  <2>7. QED
    BY <2>1, <2>3, <2>4, <2>5, <2>6 DEF Captured
<1>21. ASSUME NEW p \in Ops, CallFails(p) PROVE Captured(g)'
  BY <1>21 DEF CallFails
<1>22. ASSUME NEW p \in Ops, FinishS(p) PROVE Captured(g)'
  <2>1. CASE g = p
    BY <1>22, <1>a, <2>1, SMTT(60) DEF FinishS, AgentSet, Captured, TypeOK
  <2>2. CASE g # p
    <3>1. /\ sess' = sess /\ fence' = fence /\ sess[p].pod \in Rounds
          /\ \A q \in Rounds : q # sess[p].pod => agent'[q] = agent[q]
      BY <1>22 DEF FinishS, AgentSet
    <3>2. pc[g] \in {"await", "commit"} /\ call[g] = "answered" /\ fence = g
      BY <1>22, <1>a, <1>i, <2>2, <3>1 DEF FinishS, TypeOK
    <3>3. /\ agent[sess[g].pod].gate = "ready" /\ agent[sess[g].pod].gen = g
          /\ archive[g] = agent[sess[g].pod].content
      BY <1>a, <1>i, <3>2 DEF CaptureInv, Captured
    <3>4. sess[g].pod \in Rounds /\ Used(sess[g].pod)
      BY <1>a, <1>c, <1>d, <1>i, <3>2 DEF LabelInv, Freezing, Knowing, Labels, Shape
    <3>5. sess[g].pod # sess[p].pod
      BY <1>22, <3>3 DEF FinishS
    <3>6. archive'[g] = archive[g]
      BY <1>22, <1>a, <1>i, <2>2, <3>2 DEF FinishS, TypeOK
    <3>7. QED
      BY <3>1, <3>3, <3>4, <3>5, <3>6 DEF Captured
  <2>3. QED
    BY <2>1, <2>2
<1>23. ASSUME NEW p \in Ops, FailS(p) PROVE Captured(g)'
  <2>1. /\ sess' = sess /\ fence' = fence /\ sess[p].pod \in Rounds
        /\ \A q \in Rounds : q # sess[p].pod => agent'[q] = agent[q]
    BY <1>23 DEF FailS, AgentSet
  <2>2. pc[g] \in {"await", "commit"} /\ call[g] = "answered" /\ fence = g
    BY <1>23, <1>a, <1>i, <2>1 DEF FailS, TypeOK
  <2>3. /\ agent[sess[g].pod].gate = "ready" /\ agent[sess[g].pod].gen = g
        /\ archive[g] = agent[sess[g].pod].content
    BY <1>a, <1>i, <2>2 DEF CaptureInv, Captured
  <2>4. sess[g].pod \in Rounds /\ Used(sess[g].pod)
    BY <1>a, <1>c, <1>d, <1>i, <2>2 DEF LabelInv, Freezing, Knowing, Labels, Shape
  <2>5. sess[g].pod # sess[p].pod
    BY <1>23, <2>3 DEF FailS
  <2>6. archive'[g] = archive[g]
    BY <1>23, <1>a, <1>i, <2>2 DEF FailS, TypeOK
  <2>7. QED
    BY <2>1, <2>3, <2>4, <2>5, <2>6 DEF Captured
<1>24. ASSUME NEW a \in Rounds, RestartS(a) PROVE Captured(g)'
  BY <1>24, LifecycleAssumption DEF RestartS
<1>25. ASSUME NEW w \in Writers, WriteLookup(w) PROVE Captured(g)'
  BY <1>25 DEF WriteLookup, store, plane, ops, count
<1>26. ASSUME NEW w \in Writers, WriteTaken(w) PROVE Captured(g)'
  <2>1. /\ sess' = sess /\ fence' = fence /\ writer[w] \in Rounds
        /\ \A q \in Rounds : q # writer[w] => agent'[q] = agent[q]
    BY <1>26 DEF WriteTaken, AgentSet
  <2>2. pc[g] \in {"await", "commit"} /\ call[g] = "answered" /\ fence = g
    BY <1>26, <1>a, <1>i, <2>1 DEF WriteTaken, TypeOK
  <2>3. /\ agent[sess[g].pod].gate = "ready" /\ agent[sess[g].pod].gen = g
        /\ archive[g] = agent[sess[g].pod].content
    BY <1>a, <1>i, <2>2 DEF CaptureInv, Captured
  <2>4. sess[g].pod \in Rounds /\ Used(sess[g].pod)
    BY <1>a, <1>c, <1>d, <1>i, <2>2 DEF LabelInv, Freezing, Knowing, Labels, Shape
  <2>5. sess[g].pod # writer[w]
    BY <1>26, <2>3 DEF WriteTaken
  <2>6. archive'[g] = archive[g]
    BY <1>26, <1>a, <1>i, <2>2 DEF WriteTaken, TypeOK
  <2>7. QED
    BY <2>1, <2>3, <2>4, <2>5, <2>6 DEF Captured
<1>27. ASSUME NEW w \in Writers, WriteMissed(w) PROVE Captured(g)'
  BY <1>27 DEF WriteMissed
<1>28. ASSUME NEW w \in Writers, Touched(w) PROVE Captured(g)'
  BY <1>28 DEF Touched
<1>29. CASE UNCHANGED vars
  BY <1>29 DEF vars
<1>30. QED
  BY <1>1, <1>2, <1>3, <1>4, <1>5, <1>6, <1>7, <1>8, <1>9, <1>10, <1>11, <1>12, <1>13, <1>14, <1>15,
      <1>16, <1>17, <1>18, <1>19, <1>20, <1>21, <1>22, <1>23, <1>24, <1>25, <1>26, <1>27, <1>28,
      <1>29 DEF NormalNext

\* The archive a restore was given does not change under it.
LEMMA AppliedStep == ASSUME IInv, WriteInv, MaxRestarts = 0, NormalNext \/ UNCHANGED vars PROVE AppliedInv'
<1>a. TypeOK /\ LabelInv /\ CommitInv /\ PodInv /\ WriterInv /\ ContentInv /\ SealInv /\ CaptureInv /\ AppliedInv
  BY DEF IInv, WriteInv
<1>b. None \notin Rounds /\ None \notin Sessions /\ None \notin Txns /\ First \notin Ops /\ Ops \subseteq Rounds
  BY LifecycleAssumption, NamesAssumption DEF Rounds
<1>c. \A q \in Ops : pc[q] \in Knowing => sess[q] \in Sessions /\ Shape(sess[q])
  BY DEF IInv, TypeOK, FenceInv, ShapeInv
<1>d. \A q \in Ops : pc[q] \in Knowing /\ sess[q].txn # None =>
        sess[q].txn \in Txns /\ sess[q].state = "active" /\ sess[q].pod \in Rounds /\ GenUsed(sess[q].txn.gen)
  BY <1>c, SessionParts, TxnParts DEF Shape
<1>e. \A q \in Ops : pc[q] \in Knowing /\ fence = q => Same(rec, sess[q])
  BY DEF IInv, FenceInv
<1>f. rec # None => rec \in Sessions /\ Shape(rec)
  BY DEF IInv, ShapeInv, TypeOK
<1>g. rec # None /\ rec.state = "active" => rec.pod \in Rounds /\ Used(rec.pod)
  BY <1>b, <1>f DEF Shape, Used, Rounds
<1>h. rec # None => rec.state \in {"active", "snapshot"} /\ (rec.state = "snapshot" => rec.pod = None /\ rec.txn = None)
  BY <1>f, SessionParts DEF Shape
<1> HIDE DEF Sessions, Txns
<1> USE <1>a, <1>b, <1>c DEF AppliedInv, WriterInv, Used, Shape, Sealed, AgentSet, FenceInv,
    LabelInv, Knowing, Labels, Freezing, Reclaiming, Restoring, Restored, Same, TypeOK
<1>1. ASSUME NEW p \in Ops, Quiet(p) PROVE AppliedInv'
  BY <1>1 DEF Quiet, QuietMove, Goes, Calm
<1>2. ASSUME NEW p \in Ops, Lock(p) PROVE AppliedInv'
  BY <1>2 DEF Lock, At, Goto, store, plane, env, count
<1>3. ASSUME NEW p \in Ops, Read(p) PROVE AppliedInv'
  BY <1>3 DEF Read, Planned, Goes, Calm
<1>4. ASSUME NEW p \in Ops, Reload(p) PROVE AppliedInv'
  BY <1>4 DEF Reload, Goes, Calm, Same
<1>5. ASSUME NEW p \in Ops, PrepareS(p) PROVE AppliedInv'
  BY <1>5 DEF PrepareS, Swapped, Kept, Calm, Same
<1>6. ASSUME NEW p \in Ops, CommitS(p) PROVE AppliedInv'
  BY <1>6 DEF CommitS, Swapped, Kept, Calm, Same
<1>7. ASSUME NEW p \in Ops, ClearS(p) PROVE AppliedInv'
  BY <1>7 DEF ClearS, Planned, Swapped, Kept, Calm, Same
<1>8. ASSUME NEW p \in Ops, FinalizeS(p) PROVE AppliedInv'
  BY <1>8 DEF FinalizeS, Planned, Swapped, Kept, Calm, Same
<1>9. ASSUME NEW p \in Ops, AdoptS(p) PROVE AppliedInv'
  BY <1>9 DEF AdoptS, Swapped, Kept, Calm, Same
<1>10. ASSUME NEW p \in Ops, ActivateS(p) PROVE AppliedInv'
  BY <1>10 DEF ActivateS, Swapped, Kept, Calm, Same
<1>11. ASSUME NEW p \in Ops, Send(p) PROVE AppliedInv'
  BY <1>11 DEF Send, At, Goto, store, plane, env, count
<1>12. ASSUME NEW p \in Ops, AbortS(p) PROVE AppliedInv'
  BY <1>12 DEF AbortS, Goes
<1>13. ASSUME NEW p \in Ops, Stop(p) PROVE AppliedInv'
  BY <1>13 DEF Stop, At, Goto, store, plane, env, count
<1>14. ASSUME NEW p \in Ops, StopHelper(p) PROVE AppliedInv'
  BY <1>14 DEF StopHelper, At, Goto, store, plane, env, count
<1>15. ASSUME NEW p \in Ops, Provision(p) PROVE AppliedInv'
  BY <1>15 DEF Provision, At, Goto, store, plane, env, count
<1>16. ASSUME NEW p \in Ops, ProvisionWorkload(p) PROVE AppliedInv'
  BY <1>16 DEF ProvisionWorkload, At, Goto, store, plane, env, count
<1>17. ASSUME NEW p \in Ops, ApplyS(p) PROVE AppliedInv'
  BY <1>17 DEF ApplyS, Goes
<1>18. ASSUME NEW p \in Ops, Discard(p) PROVE AppliedInv'
  BY <1>18 DEF Discard, At, Goto, store, plane, env, count
<1>19. ASSUME NEW p \in Ops, Delete(p) PROVE AppliedInv'
  BY <1>19 DEF Delete, At, Goto, store, plane, env, count
<1>20. ASSUME NEW p \in Ops, BeginS(p) PROVE AppliedInv'
  <2>1. pc' = pc /\ sess' = sess /\ archive' = archive
    BY <1>20 DEF BeginS
  <2>2. \A q \in Rounds : agent'[q].content = agent[q].content
    BY <1>20 DEF BeginS
  <2>3. QED
    BY <2>1, <2>2 DEF Rounds
<1>21. ASSUME NEW p \in Ops, CallFails(p) PROVE AppliedInv'
  BY <1>21 DEF CallFails
<1>22. ASSUME NEW p \in Ops, FinishS(p) PROVE AppliedInv'
  BY <1>22, SMTT(30) DEF FinishS
<1>23. ASSUME NEW p \in Ops, FailS(p) PROVE AppliedInv'
  BY <1>23 DEF FailS
<1>24. ASSUME NEW a \in Rounds, RestartS(a) PROVE AppliedInv'
  BY <1>24, LifecycleAssumption DEF RestartS
<1>25. ASSUME NEW w \in Writers, WriteLookup(w) PROVE AppliedInv'
  BY <1>25 DEF WriteLookup, store, plane, ops, count
<1>26. ASSUME NEW w \in Writers, WriteTaken(w) PROVE AppliedInv'
  BY <1>26 DEF WriteTaken
<1>27. ASSUME NEW w \in Writers, WriteMissed(w) PROVE AppliedInv'
  BY <1>27 DEF WriteMissed
<1>28. ASSUME NEW w \in Writers, Touched(w) PROVE AppliedInv'
  BY <1>28 DEF Touched
<1>29. CASE UNCHANGED vars
  BY <1>29 DEF vars
<1>30. QED
  BY <1>1, <1>2, <1>3, <1>4, <1>5, <1>6, <1>7, <1>8, <1>9, <1>10, <1>11, <1>12, <1>13, <1>14, <1>15,
      <1>16, <1>17, <1>18, <1>19, <1>20, <1>21, <1>22, <1>23, <1>24, <1>25, <1>26, <1>27, <1>28,
      <1>29 DEF NormalNext

\* The restore that made the record's pods has returned.
LEMMA OwnerStep == ASSUME IInv, OwnerInv, LostReply = FALSE, NormalNext \/ UNCHANGED vars PROVE OwnerInv'
<1>a. TypeOK /\ LabelInv /\ OwnerInv
  BY DEF IInv
<1>b. None \notin Rounds /\ None \notin Sessions /\ None \notin Txns /\ First \notin Ops /\ Ops \subseteq Rounds
  BY LifecycleAssumption, NamesAssumption DEF Rounds
<1>c. \A q \in Ops : pc[q] \in Knowing => sess[q] \in Sessions /\ Shape(sess[q])
  BY DEF IInv, TypeOK, FenceInv, ShapeInv
<1>d. \A q \in Ops : pc[q] \in Knowing /\ sess[q].txn # None =>
        sess[q].txn \in Txns /\ sess[q].state = "active" /\ sess[q].pod \in Rounds /\ GenUsed(sess[q].txn.gen)
  BY <1>c, SessionParts, TxnParts DEF Shape
<1>e. \A q \in Ops : pc[q] \in Knowing /\ fence = q => Same(rec, sess[q])
  BY DEF IInv, FenceInv
<1>f. rec # None => rec \in Sessions /\ Shape(rec)
  BY DEF IInv, ShapeInv, TypeOK
<1> HIDE DEF Sessions, Txns
<1> USE <1>a, <1>b, <1>c, <1>e, <1>f DEF OwnerInv, Shape, Used, FenceInv, LabelInv, Knowing, Labels,
    Freezing, Reclaiming, Restoring, Restored, Same, TypeOK
<1>1. ASSUME NEW p \in Ops, Quiet(p) PROVE OwnerInv'
  <2>1. rec # None /\ rec.pod \in Ops => kind[rec.pod] = "restore"
    BY <1>b, <1>f, SessionParts DEF Shape, Used
  <2>2. QED
    BY <1>1, <1>a, <2>1 DEF Quiet, QuietMove, Goes, OwnerInv, TypeOK
<1>2. ASSUME NEW p \in Ops, Lock(p) PROVE OwnerInv'
  BY <1>2 DEF Lock, At, Goto, store, plane, env, count
<1>3. ASSUME NEW p \in Ops, Read(p) PROVE OwnerInv'
  BY <1>3 DEF Read, Planned, Goes, Calm
<1>4. ASSUME NEW p \in Ops, Reload(p) PROVE OwnerInv'
  BY <1>4 DEF Reload, Goes, Calm, Same
<1>5. ASSUME NEW p \in Ops, PrepareS(p) PROVE OwnerInv'
  BY <1>5 DEF PrepareS, Swapped, Kept, Calm, Same
<1>6. ASSUME NEW p \in Ops, CommitS(p) PROVE OwnerInv'
  BY <1>6 DEF CommitS, Swapped, Kept, Calm, Same
<1>7. ASSUME NEW p \in Ops, ClearS(p) PROVE OwnerInv'
  BY <1>7 DEF ClearS, Planned, Swapped, Kept, Calm, Same
<1>8. ASSUME NEW p \in Ops, FinalizeS(p) PROVE OwnerInv'
  BY <1>8 DEF FinalizeS, Planned, Swapped, Kept, Calm, Same
<1>9. ASSUME NEW p \in Ops, AdoptS(p) PROVE OwnerInv'
  BY <1>9 DEF AdoptS, Swapped, Kept, Calm, Same
<1>10. ASSUME NEW p \in Ops, ActivateS(p) PROVE OwnerInv'
  BY <1>10 DEF ActivateS, Swapped, Kept, Calm, Same
<1>11. ASSUME NEW p \in Ops, Send(p) PROVE OwnerInv'
  BY <1>11 DEF Send, At, Goto, store, plane, env, count
<1>12. ASSUME NEW p \in Ops, AbortS(p) PROVE OwnerInv'
  BY <1>12 DEF AbortS, Goes
<1>13. ASSUME NEW p \in Ops, Stop(p) PROVE OwnerInv'
  BY <1>13 DEF Stop, At, Goto, store, plane, env, count
<1>14. ASSUME NEW p \in Ops, StopHelper(p) PROVE OwnerInv'
  BY <1>14 DEF StopHelper, At, Goto, store, plane, env, count
<1>15. ASSUME NEW p \in Ops, Provision(p) PROVE OwnerInv'
  BY <1>15 DEF Provision, At, Goto, store, plane, env, count
<1>16. ASSUME NEW p \in Ops, ProvisionWorkload(p) PROVE OwnerInv'
  BY <1>16 DEF ProvisionWorkload, At, Goto, store, plane, env, count
<1>17. ASSUME NEW p \in Ops, ApplyS(p) PROVE OwnerInv'
  BY <1>17 DEF ApplyS, Goes
<1>18. ASSUME NEW p \in Ops, Discard(p) PROVE OwnerInv'
  BY <1>18 DEF Discard, At, Goto, store, plane, env, count
<1>19. ASSUME NEW p \in Ops, Delete(p) PROVE OwnerInv'
  BY <1>19 DEF Delete, At, Goto, store, plane, env, count
<1>20. ASSUME NEW p \in Ops, BeginS(p) PROVE OwnerInv'
  BY <1>20 DEF BeginS
<1>21. ASSUME NEW p \in Ops, CallFails(p) PROVE OwnerInv'
  BY <1>21 DEF CallFails
<1>22. ASSUME NEW p \in Ops, FinishS(p) PROVE OwnerInv'
  BY <1>22 DEF FinishS
<1>23. ASSUME NEW p \in Ops, FailS(p) PROVE OwnerInv'
  BY <1>23 DEF FailS
<1>24. ASSUME NEW a \in Rounds, RestartS(a) PROVE OwnerInv'
  BY <1>24 DEF RestartS
<1>25. ASSUME NEW w \in Writers, WriteLookup(w) PROVE OwnerInv'
  BY <1>25 DEF WriteLookup, store, plane, ops, count
<1>26. ASSUME NEW w \in Writers, WriteTaken(w) PROVE OwnerInv'
  BY <1>26 DEF WriteTaken
<1>27. ASSUME NEW w \in Writers, WriteMissed(w) PROVE OwnerInv'
  BY <1>27 DEF WriteMissed
<1>28. ASSUME NEW w \in Writers, Touched(w) PROVE OwnerInv'
  BY <1>28 DEF Touched
<1>29. CASE UNCHANGED vars
  BY <1>29 DEF vars
<1>30. QED
  BY <1>1, <1>2, <1>3, <1>4, <1>5, <1>6, <1>7, <1>8, <1>9, <1>10, <1>11, <1>12, <1>13, <1>14, <1>15,
      <1>16, <1>17, <1>18, <1>19, <1>20, <1>21, <1>22, <1>23, <1>24, <1>25, <1>26, <1>27, <1>28,
      <1>29 DEF NormalNext

\* A terminate that began to reclaim, or returned, has done so for good.
LEMMA TerminatingStays == ASSUME IInv, Terminating, NormalNext \/ UNCHANGED vars PROVE Terminating'
<1>a. TypeOK
  BY DEF IInv
<1>b. PICK t \in Ops : kind[t] = "terminate" /\ pc[t] \in {"stopHelper", "delete", "done"}
  BY DEF Terminating
<1>c. SUFFICES kind'[t] = "terminate" /\ pc'[t] \in {"stopHelper", "delete", "done"}
  BY DEF Terminating
<1> USE <1>a, <1>b DEF TypeOK
<1>1. ASSUME NEW p \in Ops, Quiet(p) PROVE kind'[t] = "terminate" /\ pc'[t] \in {"stopHelper", "delete", "done"}
  BY <1>1 DEF Quiet, QuietMove, Goes, Calm
<1>2. ASSUME NEW p \in Ops, Lock(p) PROVE kind'[t] = "terminate" /\ pc'[t] \in {"stopHelper", "delete", "done"}
  BY <1>2 DEF Lock, At, Goto, store, plane, env, count
<1>3. ASSUME NEW p \in Ops, Read(p) PROVE kind'[t] = "terminate" /\ pc'[t] \in {"stopHelper", "delete", "done"}
  BY <1>3 DEF Read, Planned, Goes, Calm
<1>4. ASSUME NEW p \in Ops, Reload(p) PROVE kind'[t] = "terminate" /\ pc'[t] \in {"stopHelper", "delete", "done"}
  BY <1>4 DEF Reload, Goes, Calm, Same
<1>5. ASSUME NEW p \in Ops, PrepareS(p) PROVE kind'[t] = "terminate" /\ pc'[t] \in {"stopHelper", "delete", "done"}
  BY <1>5 DEF PrepareS, Swapped, Kept, Calm, Same
<1>6. ASSUME NEW p \in Ops, CommitS(p) PROVE kind'[t] = "terminate" /\ pc'[t] \in {"stopHelper", "delete", "done"}
  BY <1>6 DEF CommitS, Swapped, Kept, Calm, Same
<1>7. ASSUME NEW p \in Ops, ClearS(p) PROVE kind'[t] = "terminate" /\ pc'[t] \in {"stopHelper", "delete", "done"}
  BY <1>7 DEF ClearS, Planned, Swapped, Kept, Calm, Same
<1>8. ASSUME NEW p \in Ops, FinalizeS(p) PROVE kind'[t] = "terminate" /\ pc'[t] \in {"stopHelper", "delete", "done"}
  BY <1>8 DEF FinalizeS, Planned, Swapped, Kept, Calm, Same
<1>9. ASSUME NEW p \in Ops, AdoptS(p) PROVE kind'[t] = "terminate" /\ pc'[t] \in {"stopHelper", "delete", "done"}
  BY <1>9 DEF AdoptS, Swapped, Kept, Calm, Same
<1>10. ASSUME NEW p \in Ops, ActivateS(p) PROVE kind'[t] = "terminate" /\ pc'[t] \in {"stopHelper", "delete", "done"}
  BY <1>10 DEF ActivateS, Swapped, Kept, Calm, Same
<1>11. ASSUME NEW p \in Ops, Send(p) PROVE kind'[t] = "terminate" /\ pc'[t] \in {"stopHelper", "delete", "done"}
  BY <1>11 DEF Send, At, Goto, store, plane, env, count
<1>12. ASSUME NEW p \in Ops, AbortS(p) PROVE kind'[t] = "terminate" /\ pc'[t] \in {"stopHelper", "delete", "done"}
  BY <1>12 DEF AbortS, Goes
<1>13. ASSUME NEW p \in Ops, Stop(p) PROVE kind'[t] = "terminate" /\ pc'[t] \in {"stopHelper", "delete", "done"}
  BY <1>13 DEF Stop, At, Goto, store, plane, env, count
<1>14. ASSUME NEW p \in Ops, StopHelper(p) PROVE kind'[t] = "terminate" /\ pc'[t] \in {"stopHelper", "delete", "done"}
  BY <1>14 DEF StopHelper, At, Goto, store, plane, env, count
<1>15. ASSUME NEW p \in Ops, Provision(p) PROVE kind'[t] = "terminate" /\ pc'[t] \in {"stopHelper", "delete", "done"}
  BY <1>15 DEF Provision, At, Goto, store, plane, env, count
<1>16. ASSUME NEW p \in Ops, ProvisionWorkload(p) PROVE kind'[t] = "terminate" /\ pc'[t] \in {"stopHelper", "delete", "done"}
  BY <1>16 DEF ProvisionWorkload, At, Goto, store, plane, env, count
<1>17. ASSUME NEW p \in Ops, ApplyS(p) PROVE kind'[t] = "terminate" /\ pc'[t] \in {"stopHelper", "delete", "done"}
  BY <1>17 DEF ApplyS, Goes
<1>18. ASSUME NEW p \in Ops, Discard(p) PROVE kind'[t] = "terminate" /\ pc'[t] \in {"stopHelper", "delete", "done"}
  BY <1>18 DEF Discard, At, Goto, store, plane, env, count
<1>19. ASSUME NEW p \in Ops, Delete(p) PROVE kind'[t] = "terminate" /\ pc'[t] \in {"stopHelper", "delete", "done"}
  BY <1>19 DEF Delete, At, Goto, store, plane, env, count
<1>20. ASSUME NEW p \in Ops, BeginS(p) PROVE kind'[t] = "terminate" /\ pc'[t] \in {"stopHelper", "delete", "done"}
  BY <1>20 DEF BeginS
<1>21. ASSUME NEW p \in Ops, CallFails(p) PROVE kind'[t] = "terminate" /\ pc'[t] \in {"stopHelper", "delete", "done"}
  BY <1>21 DEF CallFails
<1>22. ASSUME NEW p \in Ops, FinishS(p) PROVE kind'[t] = "terminate" /\ pc'[t] \in {"stopHelper", "delete", "done"}
  BY <1>22 DEF FinishS
<1>23. ASSUME NEW p \in Ops, FailS(p) PROVE kind'[t] = "terminate" /\ pc'[t] \in {"stopHelper", "delete", "done"}
  BY <1>23 DEF FailS
<1>24. ASSUME NEW a \in Rounds, RestartS(a) PROVE kind'[t] = "terminate" /\ pc'[t] \in {"stopHelper", "delete", "done"}
  BY <1>24 DEF RestartS
<1>25. ASSUME NEW w \in Writers, WriteLookup(w) PROVE kind'[t] = "terminate" /\ pc'[t] \in {"stopHelper", "delete", "done"}
  BY <1>25 DEF WriteLookup, store, plane, ops, count
<1>26. ASSUME NEW w \in Writers, WriteTaken(w) PROVE kind'[t] = "terminate" /\ pc'[t] \in {"stopHelper", "delete", "done"}
  BY <1>26 DEF WriteTaken
<1>27. ASSUME NEW w \in Writers, WriteMissed(w) PROVE kind'[t] = "terminate" /\ pc'[t] \in {"stopHelper", "delete", "done"}
  BY <1>27 DEF WriteMissed
<1>28. ASSUME NEW w \in Writers, Touched(w) PROVE kind'[t] = "terminate" /\ pc'[t] \in {"stopHelper", "delete", "done"}
  BY <1>28 DEF Touched
<1>29. CASE UNCHANGED vars
  BY <1>29 DEF vars
<1>30. QED
  BY <1>1, <1>2, <1>3, <1>4, <1>5, <1>6, <1>7, <1>8, <1>9, <1>10, <1>11, <1>12, <1>13, <1>14, <1>15,
      <1>16, <1>17, <1>18, <1>19, <1>20, <1>21, <1>22, <1>23, <1>24, <1>25, <1>26, <1>27, <1>28,
      <1>29 DEF NormalNext

\* Only Terminate takes the pods of a live session.
LEMMA LiveStep == ASSUME IInv, LiveInv, LostReply = FALSE, NormalNext \/ UNCHANGED vars PROVE LiveKeepsPods'
<1>a. TypeOK /\ LabelInv /\ PodInv /\ StopInv /\ OwnerInv /\ LiveKeepsPods
  BY DEF IInv, LiveInv
<1>b. None \notin Rounds /\ None \notin Sessions /\ None \notin Txns /\ First \notin Ops /\ Ops \subseteq Rounds
  BY LifecycleAssumption, NamesAssumption DEF Rounds
<1>c. \A q \in Ops : pc[q] \in Knowing => sess[q] \in Sessions /\ Shape(sess[q])
  BY DEF IInv, TypeOK, FenceInv, ShapeInv
<1>d. SUFFICES ASSUME rec' # None, rec'.state = "active", ~InTxn("committing")', ~Terminating, ~Terminating'
             PROVE  {Workload(rec'.pod), Helper(rec'.pod)} \subseteq pods'
  BY TerminatingStays DEF LiveKeepsPods
<1>e. \A q \in Ops : pc[q] \in Knowing /\ fence = q => Same(rec, sess[q])
  BY DEF IInv, FenceInv
<1>f. rec # None => rec \in Sessions /\ Shape(rec)
  BY DEF IInv, ShapeInv, TypeOK
<1> HIDE DEF Sessions, Txns
<1> USE <1>a, <1>d DEF LiveKeepsPods, InTxn
<1>1. ASSUME NEW p \in Ops, Quiet(p) PROVE {Workload(rec'.pod), Helper(rec'.pod)} \subseteq pods'
  BY <1>1 DEF Quiet, QuietMove, Goes, Calm
<1>2. ASSUME NEW p \in Ops, Lock(p) PROVE {Workload(rec'.pod), Helper(rec'.pod)} \subseteq pods'
  BY <1>2 DEF Lock, At, Goto, store, plane, env, count
<1>3. ASSUME NEW p \in Ops, Read(p) PROVE {Workload(rec'.pod), Helper(rec'.pod)} \subseteq pods'
  BY <1>3 DEF Read, Planned, Goes, Calm
<1>4. ASSUME NEW p \in Ops, Reload(p) PROVE {Workload(rec'.pod), Helper(rec'.pod)} \subseteq pods'
  <2>1. rec # None /\ rec.state = "active" /\ rec'.pod = rec.pod /\ ~InTxn("committing")
    BY <1>4, <1>a, <1>b, <1>c, <1>d, <1>e, <1>f DEF Reload, Goes, Calm, Same, InTxn, FenceInv, LabelInv,
        Knowing, Labels, Freezing, Reclaiming, Restoring, Restored, Same, TypeOK
  <2>2. pods' = pods
    BY <1>4 DEF Reload, Goes, Calm, Same
  <2>3. QED
    BY <1>a, <1>d, <2>1, <2>2 DEF LiveKeepsPods, Workload, Helper
<1>5. ASSUME NEW p \in Ops, PrepareS(p) PROVE {Workload(rec'.pod), Helper(rec'.pod)} \subseteq pods'
  <2>1. rec # None /\ rec.state = "active" /\ rec'.pod = rec.pod /\ ~InTxn("committing")
    BY <1>5, <1>a, <1>b, <1>c, <1>d, <1>e, <1>f DEF PrepareS, Swapped, Kept, Calm, Same, InTxn, FenceInv,
        LabelInv, Knowing, Labels, Freezing, Reclaiming, Restoring, Restored, Same, TypeOK
  <2>2. pods' = pods
    BY <1>5 DEF PrepareS, Swapped, Kept, Calm, Same
  <2>3. QED
    BY <1>a, <1>d, <2>1, <2>2 DEF LiveKeepsPods, Workload, Helper
<1>6. ASSUME NEW p \in Ops, CommitS(p) PROVE {Workload(rec'.pod), Helper(rec'.pod)} \subseteq pods'
  BY <1>6, <1>b, <1>d DEF CommitS, Swapped, Same, InTxn
<1>7. ASSUME NEW p \in Ops, ClearS(p) PROVE {Workload(rec'.pod), Helper(rec'.pod)} \subseteq pods'
  <2>1. rec # None /\ rec.state = "active" /\ rec'.pod = rec.pod /\ ~InTxn("committing")
    BY <1>7, <1>a, <1>b, <1>c, <1>d, <1>e, <1>f DEF ClearS, Planned, Swapped, Kept, Calm, Same, InTxn, FenceInv,
        LabelInv, Knowing, Labels, Freezing, Reclaiming, Restoring, Restored, Same, TypeOK
  <2>2. pods' = pods
    BY <1>7 DEF ClearS, Planned, Swapped, Kept, Calm, Same
  <2>3. QED
    BY <1>a, <1>d, <2>1, <2>2 DEF LiveKeepsPods, Workload, Helper
<1>8. ASSUME NEW p \in Ops, FinalizeS(p) PROVE {Workload(rec'.pod), Helper(rec'.pod)} \subseteq pods'
  BY <1>8, <1>b, <1>d DEF FinalizeS, Swapped, Same
<1>9. ASSUME NEW p \in Ops, AdoptS(p) PROVE {Workload(rec'.pod), Helper(rec'.pod)} \subseteq pods'
  <2>1. rec # None /\ rec.state = "active" /\ rec'.pod = rec.pod /\ ~InTxn("committing")
    BY <1>9, <1>a, <1>b, <1>c, <1>d, <1>e, <1>f DEF AdoptS, Swapped, Kept, Calm, Same, InTxn, FenceInv,
        LabelInv, Knowing, Labels, Freezing, Reclaiming, Restoring, Restored, Same, TypeOK
  <2>2. pods' = pods
    BY <1>9 DEF AdoptS, Swapped, Kept, Calm, Same
  <2>3. QED
    BY <1>a, <1>d, <2>1, <2>2 DEF LiveKeepsPods, Workload, Helper
<1>10. ASSUME NEW p \in Ops, ActivateS(p) PROVE {Workload(rec'.pod), Helper(rec'.pod)} \subseteq pods'
  <2>1. rec'.pod = p /\ pods' = pods
    BY <1>10 DEF ActivateS, Swapped, Same, Calm
  <2>2. Workload(p) \in pods /\ Helper(p) \in pods
    BY <1>10, <1>a DEF ActivateS, PodInv
  <2>3. QED
    BY <2>1, <2>2
<1>11. ASSUME NEW p \in Ops, Send(p) PROVE {Workload(rec'.pod), Helper(rec'.pod)} \subseteq pods'
  BY <1>11 DEF Send, At, Goto, store, plane, env, count
<1>12. ASSUME NEW p \in Ops, AbortS(p) PROVE {Workload(rec'.pod), Helper(rec'.pod)} \subseteq pods'
  BY <1>12 DEF AbortS, Goes
<1>13. ASSUME NEW p \in Ops, Stop(p) PROVE {Workload(rec'.pod), Helper(rec'.pod)} \subseteq pods'
  <2>1. pods' = pods \ {Workload(sess[p].pod)} /\ rec' = rec /\ kind' = kind
    BY <1>13 DEF Stop, store
  <2>2. kind[p] # "terminate"
    BY <1>13, <1>a, <1>d DEF Stop, At, Goto, store, plane, env, count, TypeOK, Terminating
  <2>3. sess[p].txn.phase = "committing"
    BY <1>13, <1>a, <2>2 DEF Stop, At, LabelInv, Reclaiming
  <2>4. rec.pod # sess[p].pod
    BY <1>13, <1>a, <1>d, <2>1, <2>2, <2>3 DEF Stop, At, StopInv, Committing, Reclaiming, InTxn
  <2>5. QED
    BY <1>a, <1>d, <2>1, <2>4 DEF LiveKeepsPods, InTxn, Workload, Helper
<1>14. ASSUME NEW p \in Ops, StopHelper(p) PROVE {Workload(rec'.pod), Helper(rec'.pod)} \subseteq pods'
  <2>1. pods' = pods \ {Helper(sess[p].pod)} /\ rec' = rec /\ kind' = kind
    BY <1>14 DEF StopHelper, store
  <2>2. kind[p] # "terminate"
    BY <1>14, <1>a, <1>d DEF StopHelper, At, Goto, store, plane, env, count, TypeOK, Terminating
  <2>3. sess[p].txn.phase = "committing"
    BY <1>14, <1>a, <2>2 DEF StopHelper, At, LabelInv, Reclaiming
  <2>4. rec.pod # sess[p].pod
    BY <1>14, <1>a, <1>d, <2>1, <2>2, <2>3 DEF StopHelper, At, StopInv, Committing, Reclaiming, InTxn
  <2>5. QED
    BY <1>a, <1>d, <2>1, <2>4 DEF LiveKeepsPods, InTxn, Workload, Helper
<1>15. ASSUME NEW p \in Ops, Provision(p) PROVE {Workload(rec'.pod), Helper(rec'.pod)} \subseteq pods'
  <2>1. pods \subseteq pods' /\ rec' = rec
    BY <1>15 DEF Provision, store
  <2>2. QED
    BY <1>a, <1>d, <2>1 DEF LiveKeepsPods, InTxn
<1>16. ASSUME NEW p \in Ops, ProvisionWorkload(p) PROVE {Workload(rec'.pod), Helper(rec'.pod)} \subseteq pods'
  <2>1. pods \subseteq pods' /\ rec' = rec
    BY <1>16 DEF ProvisionWorkload, store
  <2>2. QED
    BY <1>a, <1>d, <2>1 DEF LiveKeepsPods, InTxn
<1>17. ASSUME NEW p \in Ops, ApplyS(p) PROVE {Workload(rec'.pod), Helper(rec'.pod)} \subseteq pods'
  BY <1>17 DEF ApplyS, Goes
<1>18. ASSUME NEW p \in Ops, Discard(p) PROVE {Workload(rec'.pod), Helper(rec'.pod)} \subseteq pods'
  <2>1. rec' = rec /\ rec.pod # p
    BY <1>18, <1>a, <1>d DEF Discard, store, OwnerInv
  <2>2. pods' = pods \ {Workload(p)} \/ pods' = pods \ {Helper(p)}
    BY <1>18 DEF Discard
  <2>3. QED
    BY <1>a, <1>d, <2>1, <2>2 DEF LiveKeepsPods, InTxn, Workload, Helper
<1>19. ASSUME NEW p \in Ops, Delete(p) PROVE {Workload(rec'.pod), Helper(rec'.pod)} \subseteq pods'
  BY <1>19 DEF Delete, At, Goto, store, plane, env, count
<1>20. ASSUME NEW p \in Ops, BeginS(p) PROVE {Workload(rec'.pod), Helper(rec'.pod)} \subseteq pods'
  BY <1>20 DEF BeginS
<1>21. ASSUME NEW p \in Ops, CallFails(p) PROVE {Workload(rec'.pod), Helper(rec'.pod)} \subseteq pods'
  BY <1>21 DEF CallFails
<1>22. ASSUME NEW p \in Ops, FinishS(p) PROVE {Workload(rec'.pod), Helper(rec'.pod)} \subseteq pods'
  BY <1>22 DEF FinishS
<1>23. ASSUME NEW p \in Ops, FailS(p) PROVE {Workload(rec'.pod), Helper(rec'.pod)} \subseteq pods'
  BY <1>23 DEF FailS
<1>24. ASSUME NEW a \in Rounds, RestartS(a) PROVE {Workload(rec'.pod), Helper(rec'.pod)} \subseteq pods'
  BY <1>24 DEF RestartS
<1>25. ASSUME NEW w \in Writers, WriteLookup(w) PROVE {Workload(rec'.pod), Helper(rec'.pod)} \subseteq pods'
  BY <1>25 DEF WriteLookup, store, plane, ops, count
<1>26. ASSUME NEW w \in Writers, WriteTaken(w) PROVE {Workload(rec'.pod), Helper(rec'.pod)} \subseteq pods'
  BY <1>26 DEF WriteTaken
<1>27. ASSUME NEW w \in Writers, WriteMissed(w) PROVE {Workload(rec'.pod), Helper(rec'.pod)} \subseteq pods'
  BY <1>27 DEF WriteMissed
<1>28. ASSUME NEW w \in Writers, Touched(w) PROVE {Workload(rec'.pod), Helper(rec'.pod)} \subseteq pods'
  <2>1. rec # None /\ rec.state = "active" /\ rec'.pod = rec.pod /\ ~InTxn("committing")
    BY <1>28, <1>a, <1>b, <1>c, <1>d, <1>e, <1>f DEF Touched, Same, InTxn, FenceInv, LabelInv, Knowing, Labels,
        Freezing, Reclaiming, Restoring, Restored, Same, TypeOK
  <2>2. pods' = pods
    BY <1>28 DEF Touched, Same
  <2>3. QED
    BY <1>a, <1>d, <2>1, <2>2 DEF LiveKeepsPods, Workload, Helper
<1>29. CASE UNCHANGED vars
  BY <1>29 DEF vars
<1>30. QED
  BY <1>1, <1>2, <1>3, <1>4, <1>5, <1>6, <1>7, <1>8, <1>9, <1>10, <1>11, <1>12, <1>13, <1>14, <1>15,
      <1>16, <1>17, <1>18, <1>19, <1>20, <1>21, <1>22, <1>23, <1>24, <1>25, <1>26, <1>27, <1>28,
      <1>29 DEF NormalNext

\* One call at a time, and it is the fence.
LEMMA AloneStep == ASSUME IInv, AloneInv, Overtaking = FALSE, NormalNext \/ UNCHANGED vars PROVE AloneInv'
<1>a. TypeOK /\ LabelInv /\ FenceInv /\ CommitInv /\ AloneInv
  BY DEF IInv
<1>b. None \notin Ops /\ None \notin Sessions
  BY LifecycleAssumption, NamesAssumption
<1> HIDE DEF Sessions, Txns
<1> USE <1>a, <1>b DEF AloneInv, Live, FenceInv, LabelInv, Knowing, Labels, Freezing, Reclaiming,
    Restoring, Restored, Same, TypeOK
<1>1. ASSUME NEW p \in Ops, Quiet(p) PROVE AloneInv'
  BY <1>1, CommitInv DEF Quiet, QuietMove, Goes, Calm
<1>2. ASSUME NEW p \in Ops, Lock(p) PROVE AloneInv'
  BY <1>2 DEF Lock, At, Goto, store, plane, env, count
<1>3. ASSUME NEW p \in Ops, Read(p) PROVE AloneInv'
  BY <1>3 DEF Read, Planned, Goes, Calm
<1>4. ASSUME NEW p \in Ops, Reload(p) PROVE AloneInv'
  BY <1>4 DEF Reload, Goes, Calm, Same
<1>5. ASSUME NEW p \in Ops, PrepareS(p) PROVE AloneInv'
  BY <1>5 DEF PrepareS, Swapped, Kept, Calm, Same
<1>6. ASSUME NEW p \in Ops, CommitS(p) PROVE AloneInv'
  BY <1>6 DEF CommitS, Swapped, Kept, Calm, Same
<1>7. ASSUME NEW p \in Ops, ClearS(p) PROVE AloneInv'
  BY <1>7 DEF ClearS, Planned, Swapped, Kept, Calm, Same
<1>8. ASSUME NEW p \in Ops, FinalizeS(p) PROVE AloneInv'
  BY <1>8 DEF FinalizeS, Planned, Swapped, Kept, Calm, Same
<1>9. ASSUME NEW p \in Ops, AdoptS(p) PROVE AloneInv'
  BY <1>9 DEF AdoptS, Swapped, Kept, Calm, Same
<1>10. ASSUME NEW p \in Ops, ActivateS(p) PROVE AloneInv'
  BY <1>10 DEF ActivateS, Swapped, Kept, Calm, Same
<1>11. ASSUME NEW p \in Ops, Send(p) PROVE AloneInv'
  BY <1>11 DEF Send, At, Goto, store, plane, env, count
<1>12. ASSUME NEW p \in Ops, AbortS(p) PROVE AloneInv'
  BY <1>12 DEF AbortS, Goes
<1>13. ASSUME NEW p \in Ops, Stop(p) PROVE AloneInv'
  BY <1>13 DEF Stop, At, Goto, store, plane, env, count
<1>14. ASSUME NEW p \in Ops, StopHelper(p) PROVE AloneInv'
  BY <1>14 DEF StopHelper, At, Goto, store, plane, env, count
<1>15. ASSUME NEW p \in Ops, Provision(p) PROVE AloneInv'
  BY <1>15 DEF Provision, At, Goto, store, plane, env, count
<1>16. ASSUME NEW p \in Ops, ProvisionWorkload(p) PROVE AloneInv'
  BY <1>16 DEF ProvisionWorkload, At, Goto, store, plane, env, count
<1>17. ASSUME NEW p \in Ops, ApplyS(p) PROVE AloneInv'
  BY <1>17 DEF ApplyS, Goes
<1>18. ASSUME NEW p \in Ops, Discard(p) PROVE AloneInv'
  BY <1>18 DEF Discard, At, Goto, store, plane, env, count
<1>19. ASSUME NEW p \in Ops, Delete(p) PROVE AloneInv'
  BY <1>19 DEF Delete, At, Goto, store, plane, env, count
<1>20. ASSUME NEW p \in Ops, BeginS(p) PROVE AloneInv'
  BY <1>20 DEF BeginS
<1>21. ASSUME NEW p \in Ops, CallFails(p) PROVE AloneInv'
  BY <1>21 DEF CallFails
<1>22. ASSUME NEW p \in Ops, FinishS(p) PROVE AloneInv'
  BY <1>22 DEF FinishS
<1>23. ASSUME NEW p \in Ops, FailS(p) PROVE AloneInv'
  BY <1>23 DEF FailS
<1>24. ASSUME NEW a \in Rounds, RestartS(a) PROVE AloneInv'
  BY <1>24 DEF RestartS
<1>25. ASSUME NEW w \in Writers, WriteLookup(w) PROVE AloneInv'
  BY <1>25 DEF WriteLookup, store, plane, ops, count
<1>26. ASSUME NEW w \in Writers, WriteTaken(w) PROVE AloneInv'
  BY <1>26 DEF WriteTaken
<1>27. ASSUME NEW w \in Writers, WriteMissed(w) PROVE AloneInv'
  BY <1>27 DEF WriteMissed
<1>28. ASSUME NEW w \in Writers, Touched(w) PROVE AloneInv'
  BY <1>28 DEF Touched
<1>29. CASE UNCHANGED vars
  BY <1>29 DEF vars
<1>30. QED
  BY <1>1, <1>2, <1>3, <1>4, <1>5, <1>6, <1>7, <1>8, <1>9, <1>10, <1>11, <1>12, <1>13, <1>14, <1>15,
      <1>16, <1>17, <1>18, <1>19, <1>20, <1>21, <1>22, <1>23, <1>24, <1>25, <1>26, <1>27, <1>28,
      <1>29 DEF NormalNext

\* A gate closes for the transaction of the record, and opens before the record forgets
\* it.
LEMMA ShutStep == ASSUME IInv, GateInv, Overtaking = FALSE, NormalNext \/ UNCHANGED vars PROVE ShutInv'
<1>a. TypeOK /\ LabelInv /\ FenceInv /\ AloneInv /\ ShutInv
  BY DEF IInv, GateInv
<1>b. None \notin Rounds /\ None \notin Sessions /\ None \notin Txns /\ First \notin Ops /\ Ops \subseteq Rounds
  BY LifecycleAssumption, NamesAssumption DEF Rounds
<1>c. \A q \in Ops : pc[q] \in Knowing => sess[q] \in Sessions /\ Shape(sess[q])
  BY DEF IInv, TypeOK, FenceInv, ShapeInv
<1>d. \A q \in Ops : pc[q] \in Knowing /\ sess[q].txn # None =>
        sess[q].txn \in Txns /\ sess[q].state = "active" /\ sess[q].pod \in Rounds /\ GenUsed(sess[q].txn.gen)
  BY <1>c, SessionParts, TxnParts DEF Shape
<1>e. \A q \in Ops : pc[q] \in Knowing /\ fence = q => Same(rec, sess[q])
  BY DEF IInv, FenceInv
<1>f. rec # None => rec \in Sessions /\ Shape(rec)
  BY DEF IInv, ShapeInv, TypeOK
<1>g. /\ rec # None /\ rec.state = "active" => rec.pod \in Rounds
      /\ \A q \in Ops : pc[q] \in {"abort", "rollback", "clear", "rollbackClear"} => sess[q].pod \in Rounds
  BY <1>a, <1>b, <1>d, <1>f DEF Shape, Used, LabelInv, Freezing, Knowing, Labels, Rounds
<1> HIDE DEF Sessions, Txns
<1> USE <1>a, <1>b, <1>c, <1>d, <1>e, <1>f DEF ShutInv, Shut, Shape, Used, FenceInv, LabelInv,
    Knowing, Labels, Freezing, Reclaiming, Restoring, Restored, Same, TypeOK
<1>1. ASSUME NEW p \in Ops, Quiet(p) PROVE ShutInv'
  BY <1>1 DEF Quiet, QuietMove, Goes, Calm
<1>2. ASSUME NEW p \in Ops, Lock(p) PROVE ShutInv'
  BY <1>2 DEF Lock, At, Goto, store, plane, env, count
<1>3. ASSUME NEW p \in Ops, Read(p) PROVE ShutInv'
  BY <1>3 DEF Read, Planned, Goes, Calm
<1>4. ASSUME NEW p \in Ops, Reload(p) PROVE ShutInv'
  BY <1>4 DEF Reload, Goes, Calm, Same
<1>5. ASSUME NEW p \in Ops, PrepareS(p) PROVE ShutInv'
  BY <1>5 DEF PrepareS, Swapped, Kept, Calm, Same
<1>6. ASSUME NEW p \in Ops, CommitS(p) PROVE ShutInv'
  BY <1>6 DEF CommitS, Swapped, Kept, Calm, Same
<1>7. ASSUME NEW p \in Ops, ClearS(p) PROVE ShutInv'
  BY <1>7 DEF ClearS, Planned, Swapped, Kept, Calm, Same
<1>8. ASSUME NEW p \in Ops, FinalizeS(p) PROVE ShutInv'
  BY <1>8 DEF FinalizeS, Planned, Swapped, Kept, Calm, Same
<1>9. ASSUME NEW p \in Ops, AdoptS(p) PROVE ShutInv'
  BY <1>9 DEF AdoptS, Swapped, Kept, Calm, Same
<1>10. ASSUME NEW p \in Ops, ActivateS(p) PROVE ShutInv'
  BY <1>10 DEF ActivateS, Swapped, Kept, Calm, Same
<1>11. ASSUME NEW p \in Ops, Send(p) PROVE ShutInv'
  BY <1>11 DEF Send, At, Goto, store, plane, env, count
<1>12. ASSUME NEW p \in Ops, AbortS(p) PROVE ShutInv'
  <2>1. /\ sess[p].txn.src \in Rounds /\ (\A q \in Rounds : q # sess[p].txn.src => agent'[q] = agent[q])
        /\ agent'[sess[p].txn.src].gate \notin {"streaming", "ready"}
        /\ rec' = rec /\ sess' = sess
    BY <1>12 DEF AbortS, Goes, AgentSet
  <2>2. (rec' # None /\ rec'.state = "active" /\ Shut(rec.pod)' => rec'.txn # None /\ rec'.txn.gen = agent'[rec'.pod].gen)
    BY <1>a, <1>f, <1>g, <2>1 DEF ShutInv, Shut
  <2>3. \A q \in Ops : pc'[q] = "activate" => ~Shut(q)'
    BY <1>12, <1>a, <1>b, <2>1, SMTT(60) DEF AbortS, Goes, ShutInv, Shut, TypeOK
  <2>5. sess[p].pod = sess[p].txn.src
    BY <1>12, <1>a, <1>c DEF AbortS, LabelInv, Knowing, Labels, Freezing, Shape
  <2>6. \A q \in Ops : pc'[q] \in {"clear", "rollbackClear"} => ~Shut(sess[q].pod)'
    BY <1>12, <1>a, <1>g, <2>1, <2>5, SMTT(60) DEF AbortS, Goes, ShutInv, Shut, TypeOK
  <2>7. QED
    BY <2>2, <2>3, <2>6 DEF ShutInv
<1>13. ASSUME NEW p \in Ops, Stop(p) PROVE ShutInv'
  BY <1>13 DEF Stop, At, Goto, store, plane, env, count
<1>14. ASSUME NEW p \in Ops, StopHelper(p) PROVE ShutInv'
  BY <1>14 DEF StopHelper, At, Goto, store, plane, env, count
<1>15. ASSUME NEW p \in Ops, Provision(p) PROVE ShutInv'
  BY <1>15 DEF Provision, At, Goto, store, plane, env, count
<1>16. ASSUME NEW p \in Ops, ProvisionWorkload(p) PROVE ShutInv'
  BY <1>16 DEF ProvisionWorkload, At, Goto, store, plane, env, count
<1>17. ASSUME NEW p \in Ops, ApplyS(p) PROVE ShutInv'
  <2>1. /\ p \in Rounds /\ (\A q \in Rounds : q # p => agent'[q] = agent[q])
        /\ agent'[p].gate \notin {"streaming", "ready"}
        /\ rec' = rec /\ sess' = sess
    BY <1>17 DEF ApplyS, Goes, AgentSet
  <2>2. (rec' # None /\ rec'.state = "active" /\ Shut(rec.pod)' => rec'.txn # None /\ rec'.txn.gen = agent'[rec'.pod].gen)
    BY <1>a, <1>f, <1>g, <2>1 DEF ShutInv, Shut
  <2>3. \A q \in Ops : pc'[q] = "activate" => ~Shut(q)'
    BY <1>17, <1>a, <1>b, <2>1 DEF ApplyS, Goes, ShutInv, Shut, TypeOK
  <2>6. \A q \in Ops : pc'[q] \in {"clear", "rollbackClear"} => ~Shut(sess[q].pod)'
    BY <1>17, <1>a, <1>g, <2>1 DEF ApplyS, Goes, ShutInv, Shut, TypeOK
  <2>7. QED
    BY <2>2, <2>3, <2>6 DEF ShutInv
<1>18. ASSUME NEW p \in Ops, Discard(p) PROVE ShutInv'
  BY <1>18 DEF Discard, At, Goto, store, plane, env, count
<1>19. ASSUME NEW p \in Ops, Delete(p) PROVE ShutInv'
  BY <1>19 DEF Delete, At, Goto, store, plane, env, count
<1>20. ASSUME NEW p \in Ops, BeginS(p) PROVE ShutInv'
  <2>1. /\ sess[p].pod \in Rounds /\ (\A q \in Rounds : q # sess[p].pod => agent'[q] = agent[q])
        /\ agent'[sess[p].pod].gen = p /\ rec' = rec /\ sess' = sess /\ pc' = pc
    BY <1>20 DEF BeginS, AgentSet
  <2>2. pc[p] = "await" /\ (\A q \in Ops : Live(q) => q = p)
    BY <1>20, <1>a DEF BeginS, AloneInv, Live
  <2>3. rec # None => Same(rec, sess[p]) /\ sess[p].txn # None /\ sess[p].txn.gen = p
    BY <1>a, <1>e, <2>2 DEF AloneInv, Live, LabelInv, Freezing, Knowing, Labels
  <2>4. (rec' # None /\ rec'.state = "active" /\ Shut(rec.pod)' => rec'.txn # None /\ rec'.txn.gen = agent'[rec'.pod].gen)
    BY <1>a, <1>f, <1>g, <2>1, <2>3 DEF ShutInv, Shut, Same
  <2>5. \A q \in Ops : pc'[q] = "activate" => ~Shut(q)'
    BY <2>1, <2>2 DEF Live
  <2>6. \A q \in Ops : pc'[q] \in {"clear", "rollbackClear"} => ~Shut(sess[q].pod)'
    BY <2>1, <2>2 DEF Live
  <2>7. QED
    BY <2>4, <2>5, <2>6 DEF ShutInv
<1>21. ASSUME NEW p \in Ops, CallFails(p) PROVE ShutInv'
  BY <1>21 DEF CallFails
<1>22. ASSUME NEW p \in Ops, FinishS(p) PROVE ShutInv'
  <2>1. /\ sess[p].pod \in Rounds /\ (\A q \in Rounds : q # sess[p].pod => agent'[q] = agent[q])
        /\ Shut(sess[p].pod) /\ agent'[sess[p].pod].gen = agent[sess[p].pod].gen
        /\ rec' = rec /\ sess' = sess /\ pc' = pc
    BY <1>22 DEF FinishS, AgentSet, Shut
  <2>2. \A q \in Rounds : agent'[q].gen = agent[q].gen /\ (Shut(q)' => Shut(q))
    BY <2>1 DEF Shut
  <2>3. (rec' # None /\ rec'.state = "active" /\ Shut(rec.pod)' => rec'.txn # None /\ rec'.txn.gen = agent'[rec'.pod].gen)
    BY <1>a, <1>f, <1>g, <2>1, <2>2 DEF ShutInv, Shut
  <2>4. \A q \in Ops : pc'[q] = "activate" => ~Shut(q)'
    BY <1>a, <1>b, <2>1, <2>2 DEF ShutInv, Shut
  <2>5. \A q \in Ops : pc'[q] \in {"clear", "rollbackClear"} => ~Shut(sess[q].pod)'
    BY <1>a, <1>g, <2>1, <2>2 DEF ShutInv, Shut
  <2>6. QED
    BY <2>3, <2>4, <2>5 DEF ShutInv
<1>23. ASSUME NEW p \in Ops, FailS(p) PROVE ShutInv'
  <2>1. /\ sess[p].pod \in Rounds /\ (\A q \in Rounds : q # sess[p].pod => agent'[q] = agent[q])
        /\ agent'[sess[p].pod].gate \notin {"streaming", "ready"}
        /\ rec' = rec /\ sess' = sess
    BY <1>23 DEF FailS, AgentSet
  <2>2. (rec' # None /\ rec'.state = "active" /\ Shut(rec.pod)' => rec'.txn # None /\ rec'.txn.gen = agent'[rec'.pod].gen)
    BY <1>a, <1>f, <1>g, <2>1 DEF ShutInv, Shut
  <2>3. \A q \in Ops : pc'[q] = "activate" => ~Shut(q)'
    BY <1>23, <1>a, <1>b, <2>1 DEF FailS, ShutInv, Shut, TypeOK
  <2>6. \A q \in Ops : pc'[q] \in {"clear", "rollbackClear"} => ~Shut(sess[q].pod)'
    BY <1>23, <1>a, <1>g, <2>1 DEF FailS, ShutInv, Shut, TypeOK
  <2>7. QED
    BY <2>2, <2>3, <2>6 DEF ShutInv
<1>24. ASSUME NEW a \in Rounds, RestartS(a) PROVE ShutInv'
  <2>1. /\ a \in Rounds /\ (\A q \in Rounds : q # a => agent'[q] = agent[q])
        /\ agent'[a].gate \notin {"streaming", "ready"}
        /\ rec' = rec /\ sess' = sess
    BY <1>24 DEF RestartS, AgentSet
  <2>2. (rec' # None /\ rec'.state = "active" /\ Shut(rec.pod)' => rec'.txn # None /\ rec'.txn.gen = agent'[rec'.pod].gen)
    BY <1>a, <1>f, <1>g, <2>1 DEF ShutInv, Shut
  <2>3. \A q \in Ops : pc'[q] = "activate" => ~Shut(q)'
    BY <1>24, <1>a, <1>b, <2>1 DEF RestartS, ShutInv, Shut, TypeOK
  <2>6. \A q \in Ops : pc'[q] \in {"clear", "rollbackClear"} => ~Shut(sess[q].pod)'
    BY <1>24, <1>a, <1>g, <2>1 DEF RestartS, ShutInv, Shut, TypeOK
  <2>7. QED
    BY <2>2, <2>3, <2>6 DEF ShutInv
<1>25. ASSUME NEW w \in Writers, WriteLookup(w) PROVE ShutInv'
  BY <1>25 DEF WriteLookup, store, plane, ops, count
<1>26. ASSUME NEW w \in Writers, WriteTaken(w) PROVE ShutInv'
  <2>1. /\ writer[w] \in Rounds /\ (\A q \in Rounds : q # writer[w] => agent'[q] = agent[q])
        /\ agent'[writer[w]].gate \notin {"streaming", "ready"}
        /\ rec' = rec /\ sess' = sess
    BY <1>26 DEF WriteTaken, AgentSet
  <2>2. (rec' # None /\ rec'.state = "active" /\ Shut(rec.pod)' => rec'.txn # None /\ rec'.txn.gen = agent'[rec'.pod].gen)
    BY <1>a, <1>f, <1>g, <2>1 DEF ShutInv, Shut
  <2>3. \A q \in Ops : pc'[q] = "activate" => ~Shut(q)'
    BY <1>26, <1>a, <1>b, <2>1 DEF WriteTaken, ShutInv, Shut, TypeOK
  <2>6. \A q \in Ops : pc'[q] \in {"clear", "rollbackClear"} => ~Shut(sess[q].pod)'
    BY <1>26, <1>a, <1>g, <2>1 DEF WriteTaken, ShutInv, Shut, TypeOK
  <2>7. QED
    BY <2>2, <2>3, <2>6 DEF ShutInv
<1>27. ASSUME NEW w \in Writers, WriteMissed(w) PROVE ShutInv'
  BY <1>27 DEF WriteMissed
<1>28. ASSUME NEW w \in Writers, Touched(w) PROVE ShutInv'
  BY <1>28 DEF Touched
<1>29. CASE UNCHANGED vars
  BY <1>29 DEF vars
<1>30. QED
  BY <1>1, <1>2, <1>3, <1>4, <1>5, <1>6, <1>7, <1>8, <1>9, <1>10, <1>11, <1>12, <1>13, <1>14, <1>15,
      <1>16, <1>17, <1>18, <1>19, <1>20, <1>21, <1>22, <1>23, <1>24, <1>25, <1>26, <1>27, <1>28,
      <1>29 DEF NormalNext

-----------------------------------------------------------------------------
\* The theorems.

LEMMA StepIInv == ASSUME IInv, [PolledNext]_vars PROVE IInv'
<1>1. NormalNext \/ UNCHANGED vars
  BY StepIsNormal
<1>2. TypeOK' /\ ShapeInv' /\ FenceInv' /\ LabelInv'
  BY <1>1, TypeStep, ShapeStep, FenceStep, LabelStep
<1>3. CommitInv' /\ StopInv' /\ PodInv' /\ AccessInv' /\ OrphanInv'
  BY <1>1, CommitStep, StopStep, PodStep, AccessStep, OrphanStep
<1>4. QED
  BY <1>2, <1>3 DEF IInv

\* The invariant holds of every behaviour of the session's life, whatever faults, lost
\* replies and expired locks there are.
THEOREM InvHolds == Spec => []IInv
<1>1. Init => IInv
  BY InitIInv
<1>2. IInv /\ [Next]_vars => IInv'
  BY StepIInv DEF PolledNext
<1>3. QED
  BY <1>1, <1>2, PTL DEF Spec

\* And when a client keeps asking for the session.
THEOREM PolledInvHolds == PolledSpec => []IInv
<1>1. Init => IInv
  BY InitIInv
<1>2. IInv /\ [Next \/ \E p \in Ops : Retry(p)]_vars => IInv'
  BY StepIInv DEF PolledNext
<1>3. QED
  BY <1>1, <1>2, PTL DEF PolledSpec

\* Every variable keeps its type; a frozen record refers to a generation.
THEOREM TypeCorrect == Spec => []TypeOK
<1>1. IInv => TypeOK
  BY DEF IInv
<1>2. QED
  BY <1>1, InvHolds, PTL

\* Pods are reclaimed before the record says so (finalizeSnapshotLocked comes last, and
\* only the fence's write counts).
THEOREM ReclaimedBeforeFrozen == Spec => FrozenIsReclaimed
<1>1. ASSUME IInv, [Next]_vars, rec # None, rec.state = "active", rec' # None, rec'.state = "snapshot"
      PROVE  pods \cap {Workload(rec.pod), Helper(rec.pod)} = {}
  <2>1. NormalNext \/ UNCHANGED vars
    BY <1>1, StepIsNormal DEF PolledNext
  <2>2. \E p \in Ops : FinalizeS(p)
    <3>1. ASSUME NEW p \in Ops, PrepareS(p) \/ CommitS(p) \/ ClearS(p) \/ AdoptS(p) PROVE FALSE
      BY <1>1, <3>1, SwapKeeps
    <3>2. ASSUME NEW p \in Ops, ActivateS(p) PROVE FALSE
      BY <1>1, <3>2 DEF ActivateS, Swapped, Same
    <3>3. ASSUME NEW p \in Ops, \/ Quiet(p) \/ Lock(p) \/ Read(p) \/ Reload(p)
                                \/ Send(p) \/ AbortS(p) \/ Stop(p) \/ StopHelper(p)
          PROVE FALSE
      BY <1>1, <3>3 DEF Quiet, Lock, Read, Reload, Same, Send, AbortS, Stop, StopHelper, store
    <3>4. ASSUME NEW p \in Ops, Provision(p) \/ ProvisionWorkload(p) \/ ApplyS(p) \/ Discard(p) \/ Delete(p)
          PROVE FALSE
      BY <1>1, <3>4 DEF Provision, ProvisionWorkload, ApplyS, Discard, Delete, store
    <3>5. ASSUME NEW p \in Ops, BeginS(p) \/ CallFails(p) \/ FinishS(p) \/ FailS(p) PROVE FALSE
      BY <1>1, <3>5 DEF BeginS, CallFails, FinishS, FailS
    <3>6. ASSUME NEW r \in Rounds, RestartS(r) PROVE FALSE
      BY <1>1, <3>6 DEF RestartS
    <3>7. ASSUME NEW w \in Writers, WriteLookup(w) \/ WriteTaken(w) \/ WriteMissed(w) \/ Touched(w) PROVE FALSE
      BY <1>1, <3>7 DEF WriteLookup, WriteTaken, WriteMissed, Touched, Same, store
    <3>8. CASE UNCHANGED vars
      BY <1>1, <3>8 DEF vars
    <3>9. QED
      BY <2>1, <3>1, <3>2, <3>3, <3>4, <3>5, <3>6, <3>7, <3>8 DEF NormalNext
  <2>3. PICK p \in Ops : FinalizeS(p)
    BY <2>2
  <2>4. pc[p] = "finalize" /\ fence = p
    BY <2>3 DEF FinalizeS, Swapped
  <2>5. Same(rec, sess[p]) /\ Workload(sess[p].pod) \notin pods /\ Helper(sess[p].pod) \notin pods
    BY <1>1, <2>4 DEF IInv, FenceInv, PodInv, Knowing, Labels
  <2>6. QED
    BY <2>5 DEF Same
<1>2. IInv /\ [Next]_vars =>
        [rec # None /\ rec.state = "active" /\ rec' # None /\ rec'.state = "snapshot" =>
            pods \cap {Workload(rec.pod), Helper(rec.pod)} = {}]_vars
  BY <1>1
<1>3. QED
  BY <1>2, InvHolds, PTL DEF Spec, FrozenIsReclaimed

\* No writer of the record, however old its copy, takes a recorded access back: not the
\* reaper that freezes a session which was accessed after its reload, nor a recovery.
THEOREM AccessIsKept == Spec => []RecordedAccessKept
<1>1. IInv => RecordedAccessKept
  BY DEF IInv, AccessInv, RecordedAccessKept
<1>2. QED
  BY <1>1, InvHolds, PTL

\* A pod that the record does not name is somebody's to remove, or was left by a fault.
THEOREM OrphansAreRemoved == Spec => []NoOrphanPods
<1>1. ASSUME IInv, \A p \in Ops : pc[p] \in {"idle", "done"}, faults = 0, NEW pod \in pods
      PROVE  rec # None /\ pod[1] = rec.pod
  <2>1. PICK r \in Rounds, k \in {"workload", "helper"} : pod = <<r, k>>
    BY <1>1 DEF IInv, TypeOK
  <2>2. Claimed(r, k)
    BY <1>1, <2>1 DEF IInv, OrphanInv
  <2>3. QED
    BY <1>1, <2>1, <2>2 DEF Claimed
<1>2. IInv => NoOrphanPods
  BY <1>1 DEF NoOrphanPods
<1>3. QED
  BY <1>2, InvHolds, PTL

-----------------------------------------------------------------------------
\* What holds of it in the absence of one kind of fault each.

\* No acknowledged write is lost, as long as no agent's container restarts: a restart
\* forgets the closed gate, and the agent takes writes its archive does not have.
THEOREM WritesSurvive == ASSUME MaxRestarts = 0 PROVE Spec => []AcceptedWritesSurvive
<1>1. Init => WriteInv
  <2>1. ASSUME Init PROVE WriterInv /\ CaptureInv /\ AppliedInv
    BY <2>1, LifecycleAssumption DEF Init, WriterInv, CaptureInv, AppliedInv, Rounds
  <2>2. ASSUME Init PROVE /\ rec # None /\ rec.state = "active" /\ rec.pod = First /\ rec.txn = None
                          /\ agent[First].content = 0 /\ accepted = 0
    <3>1. rec \in Sessions
      BY <2>2 DEF Init, Sessions, Rounds
    <3>2. QED
      BY <2>2, <3>1, SessionParts DEF Init, Rounds
  <2>3. ASSUME Init PROVE ContentInv /\ SealInv
    BY <2>2, <2>3 DEF ContentInv, SealInv, Committing
  <2>4. QED
    BY <2>1, <2>3 DEF WriteInv
<1>2. IInv /\ WriteInv /\ [Next]_vars => WriteInv'
  <2>1. ASSUME IInv, WriteInv, [Next]_vars PROVE WriteInv'
    <3>1. NormalNext \/ UNCHANGED vars
      BY <2>1, StepIsNormal DEF PolledNext
    <3>2. QED
      BY <2>1, <3>1, WriterStep, ContentStep, SealStep, CaptureStep, AppliedStep DEF WriteInv
  <2>2. QED
    BY <2>1
<1>3. IInv /\ WriteInv => AcceptedWritesSurvive
  BY SessionParts, TxnParts DEF IInv, TypeOK, WriteInv, ContentInv, SealInv, Intact, Committing,
      AcceptedWritesSurvive, InTxn
<1>4. QED
  BY <1>1, <1>2, <1>3, InvHolds, PTL DEF Spec

\* Only Terminate takes a live session's pods away, as long as a restore learns what
\* became of its commit: no call that lost the lock does, however late it comes.
THEOREM LivePodsAreKept == ASSUME LostReply = FALSE PROVE Spec => []LiveKeepsPods
<1>1. Init => LiveInv
  <2>1. ASSUME Init PROVE rec # None /\ rec.pod = First /\ pods = {Workload(First), Helper(First)}
    <3>1. rec \in Sessions
      BY <2>1 DEF Init, Sessions, Rounds
    <3>2. QED
      BY <2>1, <3>1, SessionParts DEF Init
  <2>2. QED
    BY <2>1, LifecycleAssumption DEF LiveInv, OwnerInv, LiveKeepsPods
<1>2. IInv /\ LiveInv /\ [Next]_vars => LiveInv'
  <2>1. ASSUME IInv, LiveInv, [Next]_vars PROVE LiveInv'
    <3>1. NormalNext \/ UNCHANGED vars
      BY <2>1, StepIsNormal DEF PolledNext
    <3>2. QED
      BY <2>1, <3>1, OwnerStep, LiveStep DEF LiveInv
  <2>2. QED
    BY <2>1
<1>3. QED
  BY <1>1, <1>2, InvHolds, PTL DEF Spec, LiveInv

\* A gate that stays closed can be found by recovery, as long as no call is overtaken:
\* a /checkpoint request that outlives its call's lock may close a gate nobody records.
THEOREM ClosedGatesAreRecorded == ASSUME Overtaking = FALSE PROVE PolledSpec => []ClosedGateIsRecorded
<1>1. Init => GateInv
  <2>1. ASSUME Init PROVE AloneInv
    BY <2>1 DEF Init, AloneInv, Live, Knowing, Labels
  <2>2. ASSUME Init PROVE ShutInv
    <3>1. rec \in Sessions /\ rec.pod = First
      BY <2>2 DEF Init, Sessions, Rounds
    <3>2. agent[First].gate = "open"
      BY <2>2 DEF Init, Rounds
    <3>3. QED
      BY <2>2, <3>1, <3>2 DEF Init, ShutInv, Shut
  <2>3. QED
    BY <2>1, <2>2 DEF GateInv
<1>2. IInv /\ GateInv /\ [Next \/ \E p \in Ops : Retry(p)]_vars => GateInv'
  <2>1. ASSUME IInv, GateInv, [Next \/ \E p \in Ops : Retry(p)]_vars PROVE GateInv'
    <3>1. NormalNext \/ UNCHANGED vars
      BY <2>1, StepIsNormal DEF PolledNext
    <3>2. QED
      BY <2>1, <3>1, AloneStep, ShutStep DEF GateInv
  <2>2. QED
    BY <2>1
<1>3. GateInv => ClosedGateIsRecorded
  BY DEF GateInv, ShutInv, Shut, ClosedGateIsRecorded
<1>4. QED
  BY <1>1, <1>2, <1>3, PolledInvHolds, PTL DEF PolledSpec
===============================================================================
