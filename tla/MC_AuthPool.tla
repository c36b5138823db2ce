---------------------------- MODULE MC_AuthPool ----------------------------
EXTENDS AuthPool, TLC

\* Calls choose their kind and session when they begin.
PoolSymmetry == Permutations(Sessions)

\* Calls begin in the order of their numbers, and at most one pod is in its grace
\* period at a time.
InOrder ==
    /\ \A c, d \in Calls : c < d /\ pc[c] = "idle" => pc[d] = "idle"
    /\ Cardinality(dying) <= 1

\* What a call that has ended once knew makes no difference any more.
Local(f) == [c \in Calls |-> IF pc[c] = "done" THEN None ELSE f[c]]
PoolView == <<lease, rec, fence, pods, dying, pc, faults, Local(kind), Local(sess), Local(round), Local(slot),
              Local(seen), Local(cand), Local(cursor)>>
=============================================================================
