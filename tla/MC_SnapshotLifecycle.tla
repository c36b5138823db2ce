------------------------ MODULE MC_SnapshotLifecycle ------------------------
EXTENDS SnapshotLifecycle, FiniteSets, TLC

\* Operations of the same kind and writes are interchangeable; the kinds are
\* chosen in the initial state.
LifecycleSymmetry == Permutations(Ops) \cup Permutations(Writers)

\* Of the three calls at most one ends the session or comes from the reaper; the
\* others freeze, recover and restore it in every combination.
OneOtherCall == Cardinality({p \in Ops : kind[p] \in {"terminate", "reap"}}) <= 1

\* Four calls: the session is frozen, restored, frozen again and recovered, with
\* the locks taken in any order and the recovery repeated.
FrozenTwiceInit ==
    /\ kind = [freeze |-> "snapshot", thaw |-> "restore", refreeze |-> "snapshot", poll |-> "recover"]
    /\ Init

FrozenTwiceSpec == FrozenTwiceInit /\ [][Next \/ \E p \in Ops : Retry(p)]_vars /\ Fairness
=============================================================================
