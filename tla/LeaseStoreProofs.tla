-------------------------- MODULE LeaseStoreProofs --------------------------
(***************************************************************************)
(* Proofs that the ConfigMap + Lease store fences the session record, for  *)
(* any number of operations, clients, pods, times and retries.             *)
(***************************************************************************)
EXTENDS LeaseStore, TLAPS

\* Every request keeps the variables in their types.
LEMMA TypeStep == ASSUME TypeOK, [Next]_vars PROVE TypeOK'
<1> USE OpsAssumption, RecordAssumption, RetriesAssumption DEF At, Goto, cm, lease, local,
    Callers, Labels, Locking, Claiming, Holding, Leaving, Writing, TypeOK, Sessions
<1>1. ASSUME NEW p \in Ops, LeaseCreate(p) PROVE TypeOK'
  BY <1>1 DEF LeaseCreate, TakeLease
<1>2. ASSUME NEW p \in Ops, LeaseGet(p) PROVE TypeOK'
  BY <1>2 DEF LeaseGet
<1>3. ASSUME NEW p \in Ops, TakeOver(p) PROVE TypeOK'
  BY <1>3 DEF TakeOver, TakeLease
<1>4. ASSUME NEW p \in Ops, ClaimGet(p) PROVE TypeOK'
  BY <1>4 DEF ClaimGet
<1>5. ASSUME NEW p \in Ops, RenewGet(p) PROVE TypeOK'
  BY <1>5 DEF RenewGet
<1>6. ASSUME NEW p \in Ops, RenewPut(p) PROVE TypeOK'
  BY <1>6 DEF RenewPut
<1>7. ASSUME NEW p \in Ops, ClaimPut(p) PROVE TypeOK'
  BY <1>7 DEF ClaimPut
<1>8. ASSUME NEW p \in Ops, Heartbeat(p) PROVE TypeOK'
  BY <1>8 DEF Heartbeat
<1>9. ASSUME NEW p \in Ops, Get(p) PROVE TypeOK'
  BY <1>9 DEF Get
<1>10. ASSUME NEW p \in Ops, SwapGet(p) PROVE TypeOK'
  BY <1>10 DEF SwapGet, Replacement, Later, SameExpected
<1>11. ASSUME NEW p \in Ops, SwapPut(p) PROVE TypeOK'
  BY <1>11 DEF SwapPut
<1>12. ASSUME NEW p \in Ops, RemoveStart(p) PROVE TypeOK'
  BY <1>12 DEF RemoveStart
<1>13. ASSUME NEW p \in Ops, RemoveGet(p) PROVE TypeOK'
  BY <1>13 DEF RemoveGet
<1>14. ASSUME NEW p \in Ops, RemovePut(p) PROVE TypeOK'
  BY <1>14 DEF RemovePut
<1>15. ASSUME NEW p \in Ops, Leave(p) PROVE TypeOK'
  BY <1>15 DEF Leave, Forget
<1>16. ASSUME NEW p \in Ops, Crash(p) PROVE TypeOK'
  BY <1>16 DEF Crash, Forget
<1>17. ASSUME NEW p \in Ops, UnlockGet(p) PROVE TypeOK'
  BY <1>17 DEF UnlockGet
<1>18. ASSUME NEW p \in Ops, UnlockDel(p) PROVE TypeOK'
  BY <1>18 DEF UnlockDel
<1>19. ASSUME NEW c \in Clients, TouchGet(c) PROVE TypeOK'
  BY <1>19 DEF TouchGet
<1>20. ASSUME NEW c \in Clients, RestateGet(c) PROVE TypeOK'
  BY <1>20 DEF RestateGet
<1>21. ASSUME NEW c \in Clients, ClientPut(c) PROVE TypeOK'
  BY <1>21 DEF ClientPut
<1>22. CASE UNCHANGED vars
  BY <1>22 DEF vars
<1>23. QED
  BY <1>1, <1>2, <1>3, <1>4, <1>5, <1>6, <1>7, <1>8, <1>9, <1>10, <1>11, <1>12, <1>13, <1>14,
      <1>15, <1>16, <1>17, <1>18, <1>19, <1>20, <1>21, <1>22 DEF Next, OpNext, ClientNext

\* Every request keeps the takers of the Lease in order.
LEMMA RankStep == ASSUME Inv, [Next]_vars PROVE RankInv'
<1> USE OpsAssumption, RecordAssumption, RetriesAssumption DEF At, Goto, cm, lease, local,
    Callers, Labels, Locking, Claiming, Holding, Leaving, Writing, Inv, TypeOK, RankInv, LeaseInv
<1>1. ASSUME NEW p \in Ops, LeaseCreate(p) PROVE RankInv'
  BY <1>1 DEF LeaseCreate, TakeLease
<1>2. ASSUME NEW p \in Ops, LeaseGet(p) PROVE RankInv'
  BY <1>2 DEF LeaseGet
<1>3. ASSUME NEW p \in Ops, TakeOver(p) PROVE RankInv'
  BY <1>3 DEF TakeOver, TakeLease
<1>4. ASSUME NEW p \in Ops, ClaimGet(p) PROVE RankInv'
  BY <1>4 DEF ClaimGet
<1>5. ASSUME NEW p \in Ops, RenewGet(p) PROVE RankInv'
  BY <1>5 DEF RenewGet
<1>6. ASSUME NEW p \in Ops, RenewPut(p) PROVE RankInv'
  BY <1>6 DEF RenewPut
<1>7. ASSUME NEW p \in Ops, ClaimPut(p) PROVE RankInv'
  BY <1>7 DEF ClaimPut
<1>8. ASSUME NEW p \in Ops, Heartbeat(p) PROVE RankInv'
  BY <1>8 DEF Heartbeat
<1>9. ASSUME NEW p \in Ops, Get(p) PROVE RankInv'
  BY <1>9 DEF Get
<1>10. ASSUME NEW p \in Ops, SwapGet(p) PROVE RankInv'
  BY <1>10 DEF SwapGet, Replacement, Later, SameExpected
<1>11. ASSUME NEW p \in Ops, SwapPut(p) PROVE RankInv'
  BY <1>11 DEF SwapPut
<1>12. ASSUME NEW p \in Ops, RemoveStart(p) PROVE RankInv'
  BY <1>12 DEF RemoveStart
<1>13. ASSUME NEW p \in Ops, RemoveGet(p) PROVE RankInv'
  BY <1>13 DEF RemoveGet
<1>14. ASSUME NEW p \in Ops, RemovePut(p) PROVE RankInv'
  BY <1>14 DEF RemovePut
<1>15. ASSUME NEW p \in Ops, Leave(p) PROVE RankInv'
  BY <1>15 DEF Leave, Forget
<1>16. ASSUME NEW p \in Ops, Crash(p) PROVE RankInv'
  BY <1>16 DEF Crash, Forget
<1>17. ASSUME NEW p \in Ops, UnlockGet(p) PROVE RankInv'
  BY <1>17 DEF UnlockGet
<1>18. ASSUME NEW p \in Ops, UnlockDel(p) PROVE RankInv'
  BY <1>18 DEF UnlockDel
<1>19. ASSUME NEW c \in Clients, TouchGet(c) PROVE RankInv'
  BY <1>19 DEF TouchGet
<1>20. ASSUME NEW c \in Clients, RestateGet(c) PROVE RankInv'
  BY <1>20 DEF RestateGet
<1>21. ASSUME NEW c \in Clients, ClientPut(c) PROVE RankInv'
  BY <1>21 DEF ClientPut
<1>22. CASE UNCHANGED vars
  BY <1>22 DEF vars
<1>23. QED
  BY <1>1, <1>2, <1>3, <1>4, <1>5, <1>6, <1>7, <1>8, <1>9, <1>10, <1>11, <1>12, <1>13, <1>14,
      <1>15, <1>16, <1>17, <1>18, <1>19, <1>20, <1>21, <1>22 DEF Next, OpNext, ClientNext

\* Every request leaves a Lease that is about to be written back with its holder.
LEMMA LeaseStep == ASSUME Inv, [Next]_vars PROVE LeaseInv'
<1> USE OpsAssumption, RecordAssumption, RetriesAssumption DEF At, Goto, cm, lease, local,
    Callers, Labels, Locking, Claiming, Holding, Leaving, Writing, Inv, TypeOK, RankInv, LeaseInv
<1>1. ASSUME NEW p \in Ops, LeaseCreate(p) PROVE LeaseInv'
  BY <1>1 DEF LeaseCreate, TakeLease
<1>2. ASSUME NEW p \in Ops, LeaseGet(p) PROVE LeaseInv'
  BY <1>2 DEF LeaseGet
<1>3. ASSUME NEW p \in Ops, TakeOver(p) PROVE LeaseInv'
  BY <1>3 DEF TakeOver, TakeLease
<1>4. ASSUME NEW p \in Ops, ClaimGet(p) PROVE LeaseInv'
  BY <1>4 DEF ClaimGet
<1>5. ASSUME NEW p \in Ops, RenewGet(p) PROVE LeaseInv'
  BY <1>5 DEF RenewGet
<1>6. ASSUME NEW p \in Ops, RenewPut(p) PROVE LeaseInv'
  BY <1>6 DEF RenewPut
<1>7. ASSUME NEW p \in Ops, ClaimPut(p) PROVE LeaseInv'
  BY <1>7 DEF ClaimPut
<1>8. ASSUME NEW p \in Ops, Heartbeat(p) PROVE LeaseInv'
  BY <1>8 DEF Heartbeat
<1>9. ASSUME NEW p \in Ops, Get(p) PROVE LeaseInv'
  BY <1>9 DEF Get
<1>10. ASSUME NEW p \in Ops, SwapGet(p) PROVE LeaseInv'
  BY <1>10 DEF SwapGet, Replacement, Later, SameExpected
<1>11. ASSUME NEW p \in Ops, SwapPut(p) PROVE LeaseInv'
  BY <1>11 DEF SwapPut
<1>12. ASSUME NEW p \in Ops, RemoveStart(p) PROVE LeaseInv'
  BY <1>12 DEF RemoveStart
<1>13. ASSUME NEW p \in Ops, RemoveGet(p) PROVE LeaseInv'
  BY <1>13 DEF RemoveGet
<1>14. ASSUME NEW p \in Ops, RemovePut(p) PROVE LeaseInv'
  BY <1>14 DEF RemovePut
<1>15. ASSUME NEW p \in Ops, Leave(p) PROVE LeaseInv'
  BY <1>15 DEF Leave, Forget
<1>16. ASSUME NEW p \in Ops, Crash(p) PROVE LeaseInv'
  BY <1>16 DEF Crash, Forget
<1>17. ASSUME NEW p \in Ops, UnlockGet(p) PROVE LeaseInv'
  BY <1>17 DEF UnlockGet
<1>18. ASSUME NEW p \in Ops, UnlockDel(p) PROVE LeaseInv'
  BY <1>18 DEF UnlockDel
<1>19. ASSUME NEW c \in Clients, TouchGet(c) PROVE LeaseInv'
  BY <1>19 DEF TouchGet
<1>20. ASSUME NEW c \in Clients, RestateGet(c) PROVE LeaseInv'
  BY <1>20 DEF RestateGet
<1>21. ASSUME NEW c \in Clients, ClientPut(c) PROVE LeaseInv'
  BY <1>21 DEF ClientPut
<1>22. CASE UNCHANGED vars
  BY <1>22 DEF vars
<1>23. QED
  BY <1>1, <1>2, <1>3, <1>4, <1>5, <1>6, <1>7, <1>8, <1>9, <1>10, <1>11, <1>12, <1>13, <1>14,
      <1>15, <1>16, <1>17, <1>18, <1>19, <1>20, <1>21, <1>22 DEF Next, OpNext, ClientNext

\* Every request moves the fence forward or not at all.
LEMMA FenceStep == ASSUME Inv, [Next]_vars PROVE FenceInv'
<1> USE OpsAssumption, RecordAssumption, RetriesAssumption DEF At, Goto, cm, lease, local,
    Callers, Labels, Locking, Claiming, Holding, Leaving, Writing, Inv, TypeOK, RankInv, LeaseInv,
    FenceInv, WriteInv, FenceRank
<1>1. ASSUME NEW p \in Ops, LeaseCreate(p) PROVE FenceInv'
  BY <1>1 DEF LeaseCreate, TakeLease
<1>2. ASSUME NEW p \in Ops, LeaseGet(p) PROVE FenceInv'
  BY <1>2 DEF LeaseGet
<1>3. ASSUME NEW p \in Ops, TakeOver(p) PROVE FenceInv'
  BY <1>3 DEF TakeOver, TakeLease
<1>4. ASSUME NEW p \in Ops, ClaimGet(p) PROVE FenceInv'
  BY <1>4 DEF ClaimGet
<1>5. ASSUME NEW p \in Ops, RenewGet(p) PROVE FenceInv'
  BY <1>5 DEF RenewGet
<1>6. ASSUME NEW p \in Ops, RenewPut(p) PROVE FenceInv'
  BY <1>6 DEF RenewPut
<1>7. ASSUME NEW p \in Ops, ClaimPut(p) PROVE FenceInv'
  BY <1>7 DEF ClaimPut
<1>8. ASSUME NEW p \in Ops, Heartbeat(p) PROVE FenceInv'
  BY <1>8 DEF Heartbeat
<1>9. ASSUME NEW p \in Ops, Get(p) PROVE FenceInv'
  BY <1>9 DEF Get
<1>10. ASSUME NEW p \in Ops, SwapGet(p) PROVE FenceInv'
  BY <1>10 DEF SwapGet, Replacement, Later, SameExpected
<1>11. ASSUME NEW p \in Ops, SwapPut(p) PROVE FenceInv'
  BY <1>11 DEF SwapPut
<1>12. ASSUME NEW p \in Ops, RemoveStart(p) PROVE FenceInv'
  BY <1>12 DEF RemoveStart
<1>13. ASSUME NEW p \in Ops, RemoveGet(p) PROVE FenceInv'
  BY <1>13 DEF RemoveGet
<1>14. ASSUME NEW p \in Ops, RemovePut(p) PROVE FenceInv'
  BY <1>14 DEF RemovePut
<1>15. ASSUME NEW p \in Ops, Leave(p) PROVE FenceInv'
  BY <1>15 DEF Leave, Forget
<1>16. ASSUME NEW p \in Ops, Crash(p) PROVE FenceInv'
  BY <1>16 DEF Crash, Forget
<1>17. ASSUME NEW p \in Ops, UnlockGet(p) PROVE FenceInv'
  BY <1>17 DEF UnlockGet
<1>18. ASSUME NEW p \in Ops, UnlockDel(p) PROVE FenceInv'
  BY <1>18 DEF UnlockDel
<1>19. ASSUME NEW c \in Clients, TouchGet(c) PROVE FenceInv'
  BY <1>19 DEF TouchGet
<1>20. ASSUME NEW c \in Clients, RestateGet(c) PROVE FenceInv'
  BY <1>20 DEF RestateGet
<1>21. ASSUME NEW c \in Clients, ClientPut(c) PROVE FenceInv'
  BY <1>21 DEF ClientPut
<1>22. CASE UNCHANGED vars
  BY <1>22 DEF vars
<1>23. QED
  BY <1>1, <1>2, <1>3, <1>4, <1>5, <1>6, <1>7, <1>8, <1>9, <1>10, <1>11, <1>12, <1>13, <1>14,
      <1>15, <1>16, <1>17, <1>18, <1>19, <1>20, <1>21, <1>22 DEF Next, OpNext, ClientNext

\* Every request leaves pending writes in step with what their callers read.
LEMMA WriteStep == ASSUME Inv, [Next]_vars PROVE WriteInv'
<1> USE OpsAssumption, RecordAssumption, RetriesAssumption DEF At, Goto, cm, lease, local,
    Callers, Labels, Locking, Claiming, Holding, Leaving, Writing, Inv, TypeOK, RankInv, FenceInv,
    WriteInv, FenceRank, Sessions, SameExpected
<1>1. ASSUME NEW p \in Ops, LeaseCreate(p) PROVE WriteInv'
  BY <1>1 DEF LeaseCreate, TakeLease
<1>2. ASSUME NEW p \in Ops, LeaseGet(p) PROVE WriteInv'
  BY <1>2 DEF LeaseGet
<1>3. ASSUME NEW p \in Ops, TakeOver(p) PROVE WriteInv'
  BY <1>3 DEF TakeOver, TakeLease
<1>4. ASSUME NEW p \in Ops, ClaimGet(p) PROVE WriteInv'
  BY <1>4 DEF ClaimGet
<1>5. ASSUME NEW p \in Ops, RenewGet(p) PROVE WriteInv'
  BY <1>5 DEF RenewGet
<1>6. ASSUME NEW p \in Ops, RenewPut(p) PROVE WriteInv'
  BY <1>6 DEF RenewPut
<1>7. ASSUME NEW p \in Ops, ClaimPut(p) PROVE WriteInv'
  BY <1>7 DEF ClaimPut
<1>8. ASSUME NEW p \in Ops, Heartbeat(p) PROVE WriteInv'
  BY <1>8 DEF Heartbeat
<1>9. ASSUME NEW p \in Ops, Get(p) PROVE WriteInv'
  BY <1>9 DEF Get
<1>10. ASSUME NEW p \in Ops, SwapGet(p) PROVE WriteInv'
  BY <1>10 DEF SwapGet, Replacement, Later, SameExpected
<1>11. ASSUME NEW p \in Ops, SwapPut(p) PROVE WriteInv'
  BY <1>11 DEF SwapPut
<1>12. ASSUME NEW p \in Ops, RemoveStart(p) PROVE WriteInv'
  BY <1>12 DEF RemoveStart
<1>13. ASSUME NEW p \in Ops, RemoveGet(p) PROVE WriteInv'
  BY <1>13 DEF RemoveGet
<1>14. ASSUME NEW p \in Ops, RemovePut(p) PROVE WriteInv'
  BY <1>14 DEF RemovePut
<1>15. ASSUME NEW p \in Ops, Leave(p) PROVE WriteInv'
  BY <1>15 DEF Leave, Forget
<1>16. ASSUME NEW p \in Ops, Crash(p) PROVE WriteInv'
  BY <1>16 DEF Crash, Forget
<1>17. ASSUME NEW p \in Ops, UnlockGet(p) PROVE WriteInv'
  BY <1>17 DEF UnlockGet
<1>18. ASSUME NEW p \in Ops, UnlockDel(p) PROVE WriteInv'
  BY <1>18 DEF UnlockDel
<1>19. ASSUME NEW c \in Clients, TouchGet(c) PROVE WriteInv'
  BY <1>19 DEF TouchGet
<1>20. ASSUME NEW c \in Clients, RestateGet(c) PROVE WriteInv'
  BY <1>20 DEF RestateGet
<1>21. ASSUME NEW c \in Clients, ClientPut(c) PROVE WriteInv'
  BY <1>21 DEF ClientPut
<1>22. CASE UNCHANGED vars
  BY <1>22 DEF vars
<1>23. QED
  BY <1>1, <1>2, <1>3, <1>4, <1>5, <1>6, <1>7, <1>8, <1>9, <1>10, <1>11, <1>12, <1>13, <1>14,
      <1>15, <1>16, <1>17, <1>18, <1>19, <1>20, <1>21, <1>22 DEF Next, OpNext, ClientNext

\* Initially nobody has the Lease, the fence or a pending write.
LEMMA InitInv == ASSUME Init PROVE Inv
  BY OpsAssumption, RecordAssumption, RetriesAssumption
  DEF Init, Inv, TypeOK, RankInv, LeaseInv, FenceInv, WriteInv, FenceRank, Sessions,
      At, Goto, cm, lease, local, Callers, Labels, Locking, Claiming, Holding, Leaving, Writing

-----------------------------------------------------------------------------
\* Type correctness of the store, whatever the number of callers.
THEOREM TypeCorrect == Spec => []TypeOK
<1>1. Init => TypeOK
  BY InitInv DEF Inv
<1>2. TypeOK /\ [Next]_vars => TypeOK'
  BY TypeStep
<1>3. QED
  BY <1>1, <1>2, PTL DEF Spec

\* The inductive invariant: what each call relies on between two requests.
THEOREM InvHolds == Spec => []Inv
<1>1. Init => Inv
  BY InitInv
<1>2. ASSUME Inv, [Next]_vars PROVE Inv'
  <2>1. TypeOK'
    BY <1>2, TypeStep DEF Inv
  <2>2. RankInv' /\ LeaseInv' /\ FenceInv' /\ WriteInv'
    BY <1>2, RankStep, LeaseStep, FenceStep, WriteStep
  <2>3. QED
    BY <2>1, <2>2 DEF Inv
<1>3. QED
  BY <1>1, <1>2, PTL DEF Spec

\* Once Lock has returned to p, no earlier taker of the Lease is the record's owner.
THEOREM LockFences == Spec => []LockedIsFenced
<1>1. Inv => LockedIsFenced
  BY DEF Inv, FenceInv, LockedIsFenced
<1>2. QED
  BY <1>1, InvHolds, PTL

\* A CompareAndSwapSession that will succeed has seen the pod it replaces.
THEOREM SwapLosesNothing == Spec => []NoLostUpdate
<1>1. Inv => NoLostUpdate
  BY DEF Inv, WriteInv, NoLostUpdate, At, Holding
<1>2. QED
  BY <1>1, InvHolds, PTL

\* Who changes the record, the fence and the Lease: everything else only reads them.
LEMMA Writers ==
    ASSUME [Next]_vars
    PROVE  /\ \/ UNCHANGED record
              \/ \E p \in Ops : SwapPut(p) \/ RemovePut(p)
              \/ \E c \in Clients : ClientPut(c)
           /\ \/ UNCHANGED <<owner, rank>>
              \/ \E p \in Ops : LeaseCreate(p) \/ TakeOver(p) \/ ClaimPut(p) \/ RemovePut(p)
           /\ \/ UNCHANGED holder
              \/ \E p \in Ops : LeaseCreate(p) \/ TakeOver(p) \/ RenewPut(p) \/ UnlockDel(p)
  BY DEF Next, OpNext, ClientNext, vars, cm, lease,
      LeaseGet, ClaimGet, RenewGet, Heartbeat, Get, SwapGet, SwapPut, RemoveStart, RemoveGet,
      Leave, Crash, UnlockGet, UnlockDel, TouchGet, RestateGet, ClientPut,
      LeaseCreate, TakeOver, RenewPut, ClaimPut, RemovePut

\* The annotation never returns to an operation that took the Lease earlier.
THEOREM FenceForward == Spec => FenceMovesForward
<1> DEFINE Ok == record' # None => FenceRank <= FenceRank'
<1>1. ASSUME Inv, [Next]_vars PROVE Ok
  <2> USE <1>1, OpsAssumption DEF Inv, TypeOK, RankInv, FenceRank, At, cm
  <2>1. CASE UNCHANGED <<owner, rank>>
    BY <2>1
  <2>2. ASSUME NEW p \in Ops, LeaseCreate(p) PROVE Ok
    BY <2>2 DEF LeaseCreate, TakeLease, lease, Locking
  <2>3. ASSUME NEW p \in Ops, TakeOver(p) PROVE Ok
    BY <2>3 DEF TakeOver, TakeLease, lease, Locking
  <2>4. ASSUME NEW p \in Ops, ClaimPut(p) PROVE Ok
    BY <2>4 DEF ClaimPut, lease, FenceInv
  <2>5. ASSUME NEW p \in Ops, RemovePut(p) PROVE Ok
    BY <2>5 DEF RemovePut, lease
  <2>6. QED
    BY <2>1, <2>2, <2>3, <2>4, <2>5, Writers
<1>2. QED
  BY <1>1, InvHolds, PTL DEF Spec, FenceMovesForward

\* Every commit and delete is the act of the latest operation whose Lock has returned.
THEOREM StaleHolderCommitsNothing == Spec => NoStaleCommit
<1>1. ASSUME Inv, [Next]_vars PROVE CommitterIsLatest
  <2> SUFFICES ASSUME NEW p \in Ops, pc[p] \in {"swapPut", "removePut"}, pc'[p] # pc[p],
                      record' # record, NEW q \in Ops, pc[q] \in Holding
               PROVE  rank[q] <= rank[p]
    BY DEF CommitterIsLatest
  <2>1. p \in cmFresh
    <3>1. PICK r \in Callers : SwapPut(r) \/ RemovePut(r) \/ ClientPut(r)
      BY <1>1, Writers DEF Callers
    <3>2. r = p
      BY <1>1, <3>1 DEF SwapPut, RemovePut, ClientPut, Goto, Callers, Inv, TypeOK
    <3>3. QED
      BY <3>1, <3>2 DEF SwapPut, RemovePut, ClientPut, Writing
  <2>2. record # None /\ owner = p
    BY <1>1, <2>1 DEF Inv, WriteInv
  <2>3. QED
    BY <1>1, <2>2, OpsAssumption DEF Inv, FenceInv, FenceRank
<1>2. QED
  BY <1>1, InvHolds, PTL DEF Spec, NoStaleCommit

\* No write takes the recorded access back.
THEOREM AccessForward == Spec => AccessMonotone
<1> DEFINE Ok == record # None /\ record' # None => record'.access >= record.access
<1>1. ASSUME Inv, [Next]_vars PROVE Ok
  <2> USE <1>1, RecordAssumption DEF Inv, TypeOK, Sessions, WriteInv
  <2>1. CASE UNCHANGED record
    BY <2>1
  <2>2. ASSUME NEW p \in Ops, SwapPut(p) PROVE Ok
    BY <2>2 DEF SwapPut, At
  <2>3. ASSUME NEW p \in Ops, RemovePut(p) PROVE Ok
    BY <2>3 DEF RemovePut
  <2>4. ASSUME NEW c \in Clients, ClientPut(c) PROVE Ok
    BY <2>4 DEF ClientPut, Writing, Callers
  <2>5. QED
    BY <2>1, <2>2, <2>3, <2>4, Writers
<1>2. QED
  BY <1>1, InvHolds, PTL DEF Spec, AccessMonotone

\* Unlock deletes nobody else's Lease.
THEOREM UnlockIsTokenSafe == Spec => UnlockSparesSuccessor
<1> DEFINE Ok == holder' = None => (holder = None \/ (At(holder, "unlockDel") /\ pc'[holder] = "done"))
<1>1. ASSUME Inv, [Next]_vars PROVE Ok
  <2> USE <1>1, OpsAssumption DEF Inv, TypeOK
  <2>1. CASE UNCHANGED holder
    BY <2>1
  <2>2. ASSUME NEW p \in Ops, LeaseCreate(p) \/ TakeOver(p) \/ RenewPut(p) PROVE Ok
    BY <2>2 DEF LeaseCreate, TakeOver, TakeLease, RenewPut, lease
  <2>3. ASSUME NEW p \in Ops, UnlockDel(p) PROVE Ok
    BY <2>3 DEF UnlockDel, At, Goto, Callers, LeaseInv
  <2>4. QED
    BY <2>1, <2>2, <2>3, Writers
<1>2. QED
  BY <1>1, InvHolds, PTL DEF Spec, UnlockSparesSuccessor

-----------------------------------------------------------------------------
\* The refinement mapping: the calls that hold the lock, and what they know.
Locked == {p \in Ops : pc[p] \in Holding}
View   == [p \in Ops |-> IF pc[p] \in Holding THEN seen[p] ELSE None]
Stutter == UNCHANGED <<record, owner, clock, rank, Locked, View>>

\* An operation that leaves its critical section takes its view with it.
LEMMA ViewReleased ==
    ASSUME TypeOK, NEW p \in Ops, NEW label \in Labels \ Holding,
           pc' = [pc EXCEPT ![p] = label], UNCHANGED seen
    PROVE  Locked' = Locked \ {p} /\ View' = [View EXCEPT ![p] = None]
<1>1. pc'[p] \notin Holding /\ \A q \in Ops : q # p => pc'[q] = pc[q]
  BY DEF TypeOK, Callers
<1>2. Locked' = Locked \ {p}
  BY <1>1 DEF Locked
<1>3. View'[p] = None
  BY <1>1 DEF View
<1>4. ASSUME NEW q \in Ops, q # p PROVE View'[q] = View[q]
  BY <1>1, <1>4 DEF View
<1>5. View' = [View EXCEPT ![p] = None]
  BY <1>3, <1>4 DEF View
<1>6. QED
  BY <1>2, <1>5

\* Each request is one step of the fenced store, or invisible to it.
LEMMA FencedStep == ASSUME Inv, [Next]_vars PROVE [Fenced!Next]_(Fenced!vars)
<1> USE OpsAssumption, RecordAssumption, RetriesAssumption DEF At, Goto, cm, lease, local,
    Callers, Labels, Locking, Claiming, Holding, Leaving, Writing, Inv, TypeOK, RankInv, LeaseInv,
    FenceInv, WriteInv, FenceRank, Locked, View, Stutter
<1>1. ASSUME NEW p \in Ops, LeaseCreate(p) PROVE Fenced!Queue(p) \/ Stutter
  BY <1>1 DEF LeaseCreate, TakeLease, Fenced!Queue
<1>2. ASSUME NEW p \in Ops, LeaseGet(p) PROVE Stutter
  BY <1>2 DEF LeaseGet
<1>3. ASSUME NEW p \in Ops, TakeOver(p) PROVE Fenced!Queue(p) \/ Stutter
  BY <1>3 DEF TakeOver, TakeLease, Fenced!Queue
<1>4. ASSUME NEW p \in Ops, ClaimGet(p) PROVE Fenced!Grant(p) \/ Stutter
  BY <1>4 DEF ClaimGet, Fenced!Grant
<1>5. ASSUME NEW p \in Ops, RenewGet(p) PROVE Stutter
  BY <1>5 DEF RenewGet
<1>6. ASSUME NEW p \in Ops, RenewPut(p) PROVE Fenced!Grant(p) \/ Stutter
  BY <1>6 DEF RenewPut, Fenced!Grant
<1>7. ASSUME NEW p \in Ops, ClaimPut(p) PROVE Fenced!Fence(p) \/ Fenced!Grant(p) \/ Stutter
  BY <1>7 DEF ClaimPut, Fenced!Fence, Fenced!Grant, Fenced!FenceRank
<1>8. ASSUME NEW p \in Ops, Heartbeat(p) PROVE Stutter
  BY <1>8 DEF Heartbeat
<1>9. ASSUME NEW p \in Ops, Get(p) PROVE Fenced!Read(p) \/ Stutter
  BY <1>9 DEF Get, Fenced!Read
<1>10. ASSUME NEW p \in Ops, SwapGet(p) PROVE Stutter
  BY <1>10 DEF SwapGet, Replacement, Later, SameExpected
<1>11. ASSUME NEW p \in Ops, SwapPut(p) PROVE Fenced!Commit(p) \/ Stutter
  <2>1. Locked' = Locked /\ p \in Locked
    BY <1>11 DEF SwapPut
  <2>2. CASE p \notin cmFresh
    BY <1>11, <2>2 DEF SwapPut
  <2>3. CASE p \in cmFresh
    <3>1. View' = [View EXCEPT ![p] = record'] /\ View[p] = seen[p]
      <4>1. record' = want[p] /\ seen' = [seen EXCEPT ![p] = want[p]] /\ pc' = [pc EXCEPT ![p] = "held"]
        BY <1>11, <2>3 DEF SwapPut
      <4>2. View'[p] = record' /\ View[p] = seen[p]
        BY <1>11, <4>1 DEF SwapPut
      <4>3. ASSUME NEW q \in Ops, q # p PROVE View'[q] = View[q]
        BY <4>1, <4>3
      <4>4. QED
        BY <4>2, <4>3, ZenonT(40)
    <3>2. record # None /\ seen[p] # None /\ owner = p /\ Fenced!Lifecycle(seen[p]) = Fenced!Lifecycle(record)
      BY <1>11, <2>3 DEF SwapPut, SameExpected, Fenced!Lifecycle
    <3>3. record' \in Sessions /\ record'.access >= record.access
      BY <1>11, <2>3 DEF SwapPut
    <3>4. UNCHANGED <<owner, clock, rank>>
      BY <1>11 DEF SwapPut
    <3>5. QED
      BY <2>1, <3>1, <3>2, <3>3, <3>4 DEF Fenced!Commit, Fenced!Sessions, Sessions
  <2>4. QED
    BY <2>2, <2>3
<1>12. ASSUME NEW p \in Ops, RemoveStart(p) PROVE Stutter
  BY <1>12 DEF RemoveStart
<1>13. ASSUME NEW p \in Ops, RemoveGet(p) PROVE Fenced!Release(p) \/ Stutter
  <2>1. UNCHANGED <<record, owner, clock, rank>>
    BY <1>13 DEF RemoveGet
  <2>2. CASE record # None /\ owner = p
    BY <1>13, <2>2 DEF RemoveGet
  <2>3. CASE ~(record # None /\ owner = p)
    <3>1. p \in Locked
      BY <1>13, <2>3 DEF RemoveGet
    <3>2. pc' = [pc EXCEPT ![p] = "unlockGet"] /\ UNCHANGED seen
      BY <1>13, <2>3 DEF RemoveGet
    <3>3. Locked' = Locked \ {p} /\ View' = [View EXCEPT ![p] = None]
      BY <3>2, ViewReleased
    <3>4. QED
      BY <2>1, <3>1, <3>3 DEF Fenced!Release
  <2>4. QED
    BY <2>2, <2>3
<1>14. ASSUME NEW p \in Ops, RemovePut(p) PROVE Fenced!Remove(p) \/ Fenced!Release(p) \/ Stutter
  <2>1. UNCHANGED <<clock, rank>> /\ p \in Locked
    BY <1>14 DEF RemovePut
  <2>2. CASE pc' = [pc EXCEPT ![p] = "unlockGet"]
    <3>1. UNCHANGED seen
      BY <1>14 DEF RemovePut
    <3>2. Locked' = Locked \ {p} /\ View' = [View EXCEPT ![p] = None]
      BY <2>2, <3>1, ViewReleased
    <3>3. CASE p \in cmFresh
      BY <1>14, <2>1, <3>2, <3>3 DEF RemovePut, Fenced!Remove
    <3>4. CASE p \notin cmFresh
      BY <1>14, <2>1, <3>2, <3>4 DEF RemovePut, Fenced!Release
    <3>5. QED
      BY <3>3, <3>4
  <2>3. CASE pc' = [pc EXCEPT ![p] = "removeGet"]
    BY <1>14, <2>3 DEF RemovePut
  <2>4. QED
    BY <1>14, <2>2, <2>3 DEF RemovePut
<1>15. ASSUME NEW p \in Ops, Leave(p) PROVE Fenced!Release(p) \/ Stutter
  BY <1>15, ZenonT(40) DEF Leave, Forget, Fenced!Release
<1>16. ASSUME NEW p \in Ops, Crash(p) PROVE Fenced!Release(p) \/ Stutter
  BY <1>16 DEF Crash, Forget, Fenced!Release
<1>17. ASSUME NEW p \in Ops, UnlockGet(p) PROVE Stutter
  BY <1>17 DEF UnlockGet
<1>18. ASSUME NEW p \in Ops, UnlockDel(p) PROVE Stutter
  BY <1>18 DEF UnlockDel
<1>19. ASSUME NEW c \in Clients, TouchGet(c) PROVE Stutter
  BY <1>19 DEF TouchGet
<1>20. ASSUME NEW c \in Clients, RestateGet(c) PROVE Stutter
  BY <1>20 DEF RestateGet
<1>21. ASSUME NEW c \in Clients, ClientPut(c) PROVE Fenced!Touch \/ Fenced!Reactivate \/ Stutter
  BY <1>21 DEF ClientPut, Fenced!Touch, Fenced!Reactivate, Sessions
<1>22. CASE UNCHANGED vars
  <2>1. Stutter
    BY <1>22 DEF vars
  <2>2. QED
    BY <2>1 DEF Fenced!vars
<1>23. Stutter => UNCHANGED Fenced!vars
  BY DEF Fenced!vars
<1>24. QED
  BY <1>1, <1>2, <1>3, <1>4, <1>5, <1>6, <1>7, <1>8, <1>9, <1>10, <1>11, <1>12, <1>13, <1>14,
      <1>15, <1>16, <1>17, <1>18, <1>19, <1>20, <1>21, <1>22, <1>23 DEF Next, OpNext, ClientNext,
      Fenced!Next

\* FencedStore is what the ConfigMap and the Lease implement together.
THEOREM StoreIsFenced == Spec => ImplementsFencedStore
<1>1. Init => Fenced!Init
  BY OpsAssumption, RecordAssumption, RetriesAssumption DEF Init, Fenced!Init, Holding, Callers
<1>2. QED
  BY <1>1, FencedStep, InvHolds, PTL DEF Spec, ImplementsFencedStore, Fenced!Spec

=============================================================================
