--------------------------- MODULE AuthPoolProofs ---------------------------
(***************************************************************************)
(* Proofs that the pool leases login slots exclusively, for any number of  *)
(* sessions, calls and slots, as long as a session's lock does not expire  *)
(* under a live call, the write of a Lease that reports an error had no    *)
(* effect, and no call leaves pods behind.  Where one of these fails the   *)
(* slot may be shared, so they are hypotheses of every theorem here.       *)
(***************************************************************************)
EXTENDS AuthPool, TLAPS, FiniteSetTheorems, WellFoundedInduction

Undisturbed == Overtaking = FALSE /\ LostReply = FALSE /\ Leaks = FALSE

Acquiring == {"list", "renew", "judge", "claim", "ensure", "provision"}
Using     == {"ensure", "provision", "publish", "discard"}

\* A live call works on a session, under its lock unless it creates it.
OwnInv == \A c \in Calls : Live(c) => sess[c] \in Sessions /\ (kind[c] = "create" \/ fence[sess[c]] = c)

\* The lock: one live call per session.
LockInv == \A c, d \in Calls : Live(c) /\ Live(d) /\ sess[c] = sess[d] => c = d

\* Which calls come where.
KindInv ==
    /\ \A c \in Calls : pc[c] \in Acquiring \cup Using => kind[c] \in {"create", "restore"}
    /\ \A c \in Calls : pc[c] \in {"commit", "stop", "finalize", "delete"} => kind[c] # "create"
    /\ \A c \in Calls : pc[c] = "judge" => cursor[c] \in Slots

\* A call that is about to stop pods knows the pods its record names.
RoundInv == \A c \in Calls : pc[c] \in {"commit", "stop"} => round[c] = rec[sess[c]].round

\* A pod's slot is leased to its session.
PodSlotInv == \A p \in pods : Holder(p.slot) = p.session

\* A pod is the one its record names, or the one its live call has just started.
PodRoundInv ==
    \A p \in pods :
      \/ /\ rec[p.session].state \in {"active", "committing"} /\ rec[p.session].round = p.round
         /\ \A c \in Calls : Live(c) /\ sess[c] = p.session => pc[c] \in {"commit", "stop"}
      \/ pc[p.round] \in {"publish", "discard"} /\ sess[p.round] = p.session /\ slot[p.round] = p.slot

\* A session holds one slot at most, and a call that looks for one holds none.
OneInv ==
    /\ \A t, u \in Slots : Holder(t) # None /\ Holder(t) = Holder(u) => t = u
    /\ \A c \in Calls : pc[c] \in {"judge", "claim"} => \A t \in Slots : Holder(t) # sess[c]

\* What a call has of a slot whose Lease nobody wrote since is still so.
CopyInv ==
    \A c \in Calls : pc[c] \in {"renew", "releasePut"} /\ slot[c] \in seen[c] => Holder(slot[c]) = sess[c]

\* From its claim to its record, a call's slot is its own and too young to reclaim.
UseInv == \A c \in Calls : pc[c] \in Using => Holder(slot[c]) = sess[c] /\ lease[slot[c]].old = FALSE

\* A slot that was judged free, and whose Lease nobody wrote since, is free.
FreeInv ==
    \A c \in Calls : pc[c] \in {"judge", "claim"} =>
        \A t \in cand[c] \cap seen[c] :
            Holder(t) = None \/ (lease[t].old = TRUE /\ \A p \in pods : p.slot # t)

IInv ==
    /\ TypeOK /\ OwnInv /\ LockInv /\ KindInv /\ RoundInv /\ PodSlotInv /\ PodRoundInv
    /\ OneInv /\ CopyInv /\ UseInv /\ FreeInv

\* A set of naturals that is not empty has a least element.
LEMMA LeastNatural == ASSUME NEW S, S \subseteq Nat, S # {} PROVE \E x \in S : \A y \in S : x <= y
<1>1. PICK x \in S : \A y \in S : ~(<<y, x>> \in OpToRel(<, Nat))
  BY NatLessThanWellFounded, WFMin, Zenon
<1>2. \A y \in S : ~(y < x)
  BY <1>1 DEF OpToRel
<1>3. QED
  BY <1>2

\* The slot a call finds held by its session is one of them.
LEMMA LeastIsHeld ==
    ASSUME NEW s, Held(s) # {} PROVE Least(Held(s)) \in Slots /\ Holder(Least(Held(s))) = s
<1>1. Held(s) \subseteq Nat
  BY PoolAssumption DEF Held, Slots
<1>2. \E t \in Held(s) : \A u \in Held(s) : t <= u
  BY <1>1, LeastNatural
<1>3. Least(Held(s)) \in Held(s)
  BY <1>2 DEF Least
<1>4. QED
  BY <1>3 DEF Held

\* The candidate a call tries first is one of them.
LEMMA BestIsOpen == ASSUME NEW S, S \subseteq Slots, S # {} PROVE Best(S) \in S
<1> DEFINE ranks == {Rank(t) : t \in S}
<1>1. \A t \in S : Rank(t) \in Nat /\ t \in Nat
  BY PoolAssumption DEF Rank, Slots
<1>2. PICK r \in ranks : \A x \in ranks : r <= x
  <2>1. ranks \subseteq Nat /\ ranks # {}
    BY <1>1
  <2>2. QED
    BY <2>1, LeastNatural
<1> DEFINE first == {t \in S : Rank(t) = r}
<1>3. PICK t \in first : \A u \in first : t <= u
  <2>1. first \subseteq Nat /\ first # {}
    BY <1>1, <1>2
  <2>2. QED
    BY <2>1, LeastNatural
<1>4. \A u \in S : Rank(t) < Rank(u) \/ (Rank(t) = Rank(u) /\ t <= u)
  BY <1>1, <1>2, <1>3
<1>5. QED
  BY <1>3, <1>4 DEF Best

\* The Lease of slot t, and no other, is written: nobody's copy of it is current.
Rewritten(t, s) ==
    /\ lease' \in [Slots -> Leases \cup {None}]
    /\ \A u \in Slots \ {t} : lease'[u] = lease[u]
    /\ lease'[t] \in Leases /\ lease'[t].holder = s /\ lease'[t].old = FALSE
    /\ seen' = Written(t)

\* A release that is not refused frees the slot.
LEMMA ReleaseWrites ==
    ASSUME TypeOK, CopyInv, NEW c \in Calls, ReleasePut(c), slot[c] \in seen[c], sess[c] # None
    PROVE  Rewritten(slot[c], None) /\ AfterRelease(c)
<1>1. lease[slot[c]] \in Leases
  BY DEF TypeOK, CopyInv, ReleasePut, At, Holder
<1>2. PICK a \in States :
        lease' = [lease EXCEPT ![slot[c]] = [holder |-> None,
                                             auth |-> IF a = "unknown" THEN lease[slot[c]].auth ELSE a, old |-> FALSE]]
  BY DEF ReleasePut
<1>3. (IF a = "unknown" THEN lease[slot[c]].auth ELSE a) \in States
  BY <1>1 DEF Leases
<1>4. [holder |-> None, auth |-> IF a = "unknown" THEN lease[slot[c]].auth ELSE a, old |-> FALSE] \in Leases
  BY <1>3 DEF Leases
<1>5. QED
  BY <1>2, <1>4 DEF TypeOK, Rewritten, ReleasePut

\* A renewal that is not refused makes the Lease young again.
LEMMA RenewWrites ==
    ASSUME TypeOK, CopyInv, NEW c \in Calls, Renew(c), slot[c] \in seen[c], sess[c] # None
    PROVE  Rewritten(slot[c], sess[c]) /\ pc' = [pc EXCEPT ![c] = "provision"]
<1>1. lease[slot[c]] \in Leases /\ lease[slot[c]].holder = sess[c]
  BY DEF TypeOK, CopyInv, Renew, At, Holder
<1>2. lease' = [lease EXCEPT ![slot[c]] = [lease[slot[c]] EXCEPT !.old = FALSE]]
  BY DEF Renew
<1>3. [lease[slot[c]] EXCEPT !.old = FALSE] \in Leases /\ [lease[slot[c]] EXCEPT !.old = FALSE].holder = sess[c]
      /\ [lease[slot[c]] EXCEPT !.old = FALSE].old = FALSE
  BY <1>1 DEF Leases
<1>4. QED
  BY <1>2, <1>3 DEF TypeOK, Rewritten, Renew, Goto

\* A claim takes a candidate that nobody wrote since the pool was listed, or nothing.
LEMMA ClaimWrites ==
    ASSUME Undisturbed, TypeOK, NEW c \in Calls, Claim(c), sess[c] \in Sessions
    PROVE  \/ UNCHANGED <<lease, seen, slot>> /\ pc'[c] \in {"claim", "done"} /\ cand'[c] \subseteq cand[c]
           \/ /\ pc' = [pc EXCEPT ![c] = "ensure"] /\ cand' = cand
              /\ \E t \in cand[c] \cap seen[c] : t \in Slots /\ Rewritten(t, sess[c]) /\ slot' = [slot EXCEPT ![c] = t]
<1> DEFINE open == cand[c] \cap seen[c]
<1>1. CASE open = {}
  BY <1>1 DEF Claim, Goto, TypeOK, At
<1>2. CASE open # {}
  <2> DEFINE t == Best(open)
  <2>1. t \in open /\ t \in Slots
    <3>1. open \subseteq Slots
      BY DEF TypeOK
    <3> HIDE DEF open
    <3>2. QED
      BY <1>2, <3>1, BestIsOpen
  <2>2. CASE Claimed(c, t) /\ slot' = [slot EXCEPT ![c] = t] /\ pc' = [pc EXCEPT ![c] = "ensure"] /\ UNCHANGED cand
    <3>1. (IF lease[t] = None THEN "unknown" ELSE lease[t].auth) \in States
      BY <2>1 DEF TypeOK, Leases, States
    <3>2. [holder |-> sess[c], old |-> FALSE, auth |-> IF lease[t] = None THEN "unknown" ELSE lease[t].auth] \in Leases
      BY <3>1 DEF Leases
    <3>3. Rewritten(t, sess[c])
      BY <2>1, <2>2, <3>2 DEF TypeOK, Rewritten, Claimed
    <3>4. QED
      BY <2>1, <2>2, <3>3
  <2>3. CASE UNCHANGED <<lease, seen, pc, slot>> /\ cand' = [cand EXCEPT ![c] = @ \ {t}]
    BY <2>3 DEF Claim, At, TypeOK
  <2>4. QED
    BY <1>2, <2>2, <2>3 DEF Claim, Undisturbed, Goto
<1>3. QED
  BY <1>1, <1>2

\* A Lease grows old and keeps its holder.
LEMMA AgeWrites ==
    ASSUME TypeOK, NEW t \in Slots, Age(t)
    PROVE  /\ lease' \in [Slots -> Leases \cup {None}]
           /\ \A u \in Slots \ {t} : lease'[u] = lease[u]
           /\ lease[t] \in Leases /\ lease'[t] \in Leases /\ lease'[t].holder = lease[t].holder /\ lease[t].old = FALSE
<1>1. lease[t] \in Leases /\ lease[t].old = FALSE
  BY DEF TypeOK, Age, Holder, Leases
<1>2. lease' = [lease EXCEPT ![t] = [lease[t] EXCEPT !.old = TRUE]]
  BY DEF Age
<1>3. [lease[t] EXCEPT !.old = TRUE] \in Leases /\ [lease[t] EXCEPT !.old = TRUE].holder = lease[t].holder
  BY <1>1 DEF Leases
<1>4. QED
  BY <1>1, <1>2, <1>3 DEF TypeOK

\* A call that neither stops pods nor has started any has none in its session.
LEMMA NoPods ==
    ASSUME IInv, NEW c \in Calls, Live(c), pc[c] \notin {"commit", "stop", "publish", "discard"}
    PROVE  \A p \in pods : p.session # sess[c]
  BY DEF IInv, TypeOK, LockInv, PodRoundInv, Live, Pods

\* A step of such a call, at the end of which it has no pods either, leaves every pod
\* with its record or with the call that started it.
LEMMA PodFrame ==
    ASSUME IInv, NEW c \in Calls, Live(c), pc[c] \notin {"commit", "stop", "publish", "discard"},
           UNCHANGED <<pods, sess>>, \A s \in Sessions : s # sess[c] => rec'[s] = rec[s],
           \A d \in Calls \ {c} : pc'[d] = pc[d] /\ slot'[d] = slot[d]
    PROVE  PodRoundInv'
<1>1. \A p \in pods : p.session # sess[c] /\ p.session \in Sessions /\ p.round \in Calls
  BY NoPods DEF IInv, TypeOK, Pods
<1>2. ASSUME NEW p \in pods PROVE
      \/ /\ rec'[p.session].state \in {"active", "committing"} /\ rec'[p.session].round = p.round
         /\ \A d \in Calls : Live(d)' /\ sess[d] = p.session => pc'[d] \in {"commit", "stop"}
      \/ pc'[p.round] \in {"publish", "discard"} /\ sess[p.round] = p.session /\ slot'[p.round] = p.slot
  <2>1. CASE /\ rec[p.session].state \in {"active", "committing"} /\ rec[p.session].round = p.round
             /\ \A d \in Calls : Live(d) /\ sess[d] = p.session => pc[d] \in {"commit", "stop"}
    BY <1>1, <2>1 DEF Live
  <2>2. CASE pc[p.round] \in {"publish", "discard"} /\ sess[p.round] = p.session /\ slot[p.round] = p.slot
    BY <1>1, <2>2
  <2>3. QED
    BY <2>1, <2>2 DEF IInv, PodRoundInv
<1>3. QED
  BY <1>2 DEF PodRoundInv

\* The commit of a freeze changes the state of its session's record, and no more.
LEMMA CommitWrites ==
    ASSUME IInv, NEW c \in Calls, Commit(c)
    PROVE  /\ pc' = [pc EXCEPT ![c] = "stop"] /\ sess[c] \in Sessions
           /\ \A s \in Sessions : rec'[s].round = rec[s].round /\ (s # sess[c] => rec'[s] = rec[s])
           /\ rec'[sess[c]].state = "committing"
<1>1. Live(c) /\ kind[c] # "create" /\ sess[c] \in Sessions
  BY DEF IInv, Commit, At, Live, KindInv, OwnInv
<1>2. fence[sess[c]] = c
  BY <1>1 DEF IInv, OwnInv
<1>3. rec' = [rec EXCEPT ![sess[c]] = [rec[sess[c]] EXCEPT !.state = "committing"]] /\ pc' = [pc EXCEPT ![c] = "stop"]
  BY <1>2 DEF Commit, Fenced, Goto
<1>4. QED
  BY <1>1, <1>3 DEF IInv, TypeOK

\* A renewal, and the passing of time, leave every slot with its holder.
LEMMA RenewKeeps ==
    ASSUME IInv, NEW c \in Calls, Renew(c) PROVE \A u \in Slots : Holder(u)' = Holder(u)
<1>1. CASE slot[c] \in seen[c]
  <2>1. sess[c] \in Sessions /\ Holder(slot[c]) = sess[c]
    BY <1>1 DEF IInv, OwnInv, CopyInv, Live, Renew, At
  <2>2. Rewritten(slot[c], sess[c])
    BY <1>1, <2>1, RenewWrites, PoolAssumption DEF IInv
  <2>3. QED
    BY <2>1, <2>2, NoLeaseAssumption DEF Rewritten, Holder
<1>2. CASE slot[c] \notin seen[c]
  BY <1>2 DEF Renew, Holder
<1>3. QED
  BY <1>1, <1>2

LEMMA AgeKeeps ==
    ASSUME IInv, NEW t \in Slots, Age(t) PROVE \A u \in Slots : Holder(u)' = Holder(u)
  BY AgeWrites, NoLeaseAssumption DEF IInv, Holder

\* Every step keeps the variables in their types.
LEMMA TypeStep == ASSUME Undisturbed, IInv, [Next]_vars PROVE TypeOK'
<1> USE PoolAssumption, NoLeaseAssumption DEF Undisturbed, service, call, picking, At, Goto,
    Fault, TypeOK, IInv, Leases, Pods, Live, OwnInv
<1>1. ASSUME NEW c \in Calls, Create(c) PROVE TypeOK'
  BY <1>1 DEF Create, Labels, Kinds
<1>2. ASSUME NEW c \in Calls, Begin(c) PROVE TypeOK'
  BY <1>2 DEF Begin, Plan, Labels, Kinds
<1>3. ASSUME NEW c \in Calls, Commit(c) PROVE TypeOK'
  <2>1. lease' \in [Slots -> Leases \cup {None}]
    BY <1>3 DEF Commit, Fenced
  <2>2. rec' \in [Sessions -> [state: {"new", "active", "committing", "frozen", "gone"}, round: Calls \cup {None}]]
    BY <1>3 DEF Commit, Fenced
  <2>3. fence' \in [Sessions -> Calls \cup {None}] /\ pods' \subseteq Pods /\ dying' \subseteq Pods
    BY <1>3 DEF Commit, Fenced
  <2>4. pc' \in [Calls -> Labels]
    <3>1. \E label \in {"stop", "done"} : pc' = [pc EXCEPT ![c] = label]
      BY <1>3 DEF Commit
    <3>2. QED
      BY <3>1 DEF Labels
  <2>5. kind' \in [Calls -> Kinds \cup {None}] /\ sess' \in [Calls -> Sessions \cup {None}] /\ round' \in [Calls -> Calls \cup {None}]
    BY <1>3 DEF Commit, Fenced
  <2>6. slot' \in [Calls -> Slots]
    BY <1>3 DEF Commit, Fenced
  <2>7. cursor' \in [Calls -> 0 .. N]
    BY <1>3 DEF Commit, Fenced
  <2>8. seen' \in [Calls -> SUBSET Slots] /\ cand' \in [Calls -> SUBSET Slots]
    BY <1>3 DEF Commit, Fenced
  <2>9. faults' \in 0 .. MaxFaults
    BY <1>3 DEF Commit, Fenced
  <2>10. QED
    BY <2>1, <2>2, <2>3, <2>4, <2>5, <2>6, <2>7, <2>8, <2>9
<1>4. ASSUME NEW c \in Calls, Stop(c) PROVE TypeOK'
  <2>1. "delete" \in Labels /\ "finalize" \in Labels
    BY DEF Labels
  <2>2. QED
    BY <1>4, <2>1 DEF Stop, Told
<1>5. ASSUME NEW c \in Calls, Finalize(c) PROVE TypeOK'
  <2>1. lease' \in [Slots -> Leases \cup {None}]
    BY <1>5 DEF Finalize, Fenced
  <2>2. rec' \in [Sessions -> [state: {"new", "active", "committing", "frozen", "gone"}, round: Calls \cup {None}]]
    BY <1>5 DEF Finalize, Fenced
  <2>3. fence' \in [Sessions -> Calls \cup {None}] /\ pods' \subseteq Pods /\ dying' \subseteq Pods
    BY <1>5 DEF Finalize, Fenced
  <2>4. pc' \in [Calls -> Labels]
    BY <1>5 DEF Finalize, Labels
  <2>5. kind' \in [Calls -> Kinds \cup {None}] /\ sess' \in [Calls -> Sessions \cup {None}] /\ round' \in [Calls -> Calls \cup {None}]
    BY <1>5 DEF Finalize, Fenced
  <2>6. slot' \in [Calls -> Slots]
    BY <1>5 DEF Finalize, Fenced
  <2>7. cursor' \in [Calls -> 0 .. N]
    BY <1>5 DEF Finalize, Fenced
  <2>8. seen' \in [Calls -> SUBSET Slots] /\ cand' \in [Calls -> SUBSET Slots]
    BY <1>5 DEF Finalize, Fenced
  <2>9. faults' \in 0 .. MaxFaults
    BY <1>5 DEF Finalize, Fenced
  <2>10. QED
    BY <2>1, <2>2, <2>3, <2>4, <2>5, <2>6, <2>7, <2>8, <2>9
<1>6. ASSUME NEW c \in Calls, Delete(c) PROVE TypeOK'
  <2>1. lease' \in [Slots -> Leases \cup {None}]
    BY <1>6 DEF Delete, Fenced
  <2>2. rec' \in [Sessions -> [state: {"new", "active", "committing", "frozen", "gone"}, round: Calls \cup {None}]]
    BY <1>6 DEF Delete, Fenced
  <2>3. fence' \in [Sessions -> Calls \cup {None}] /\ pods' \subseteq Pods /\ dying' \subseteq Pods
    BY <1>6 DEF Delete, Fenced
  <2>4. pc' \in [Calls -> Labels]
    BY <1>6 DEF Delete, Labels
  <2>5. kind' \in [Calls -> Kinds \cup {None}] /\ sess' \in [Calls -> Sessions \cup {None}] /\ round' \in [Calls -> Calls \cup {None}]
    BY <1>6 DEF Delete, Fenced
  <2>6. slot' \in [Calls -> Slots]
    BY <1>6 DEF Delete, Fenced
  <2>7. cursor' \in [Calls -> 0 .. N]
    BY <1>6 DEF Delete, Fenced
  <2>8. seen' \in [Calls -> SUBSET Slots] /\ cand' \in [Calls -> SUBSET Slots]
    BY <1>6 DEF Delete, Fenced
  <2>9. faults' \in 0 .. MaxFaults
    BY <1>6 DEF Delete, Fenced
  <2>10. QED
    BY <2>1, <2>2, <2>3, <2>4, <2>5, <2>6, <2>7, <2>8, <2>9
<1>7. ASSUME NEW c \in Calls, ReleaseList(c) PROVE TypeOK'
  <2>1. lease' \in [Slots -> Leases \cup {None}]
    BY <1>7 DEF ReleaseList, AfterRelease, Listed
  <2>2. rec' \in [Sessions -> [state: {"new", "active", "committing", "frozen", "gone"}, round: Calls \cup {None}]]
    BY <1>7 DEF ReleaseList, AfterRelease, Listed
  <2>3. fence' \in [Sessions -> Calls \cup {None}] /\ pods' \subseteq Pods /\ dying' \subseteq Pods
    BY <1>7 DEF ReleaseList, AfterRelease, Listed
  <2>4. pc' \in [Calls -> Labels]
    BY <1>7 DEF ReleaseList, AfterRelease, Labels
  <2>5. kind' \in [Calls -> Kinds \cup {None}] /\ sess' \in [Calls -> Sessions \cup {None}] /\ round' \in [Calls -> Calls \cup {None}]
    BY <1>7 DEF ReleaseList, AfterRelease, Listed
  <2>6. slot' \in [Calls -> Slots]
    <3>1. CASE Held(sess[c]) = {}
      BY <1>7, <3>1 DEF ReleaseList
    <3>2. CASE Held(sess[c]) # {}
      <4>1. Least(Held(sess[c])) \in Slots
        BY <3>2, LeastIsHeld
      <4>2. QED
        BY <1>7, <3>2, <4>1 DEF ReleaseList
    <3>3. QED
      BY <3>1, <3>2
  <2>7. cursor' \in [Calls -> 0 .. N]
    BY <1>7 DEF ReleaseList, AfterRelease, Listed
  <2>8. seen' \in [Calls -> SUBSET Slots] /\ cand' \in [Calls -> SUBSET Slots]
    BY <1>7 DEF ReleaseList, AfterRelease, Listed
  <2>9. faults' \in 0 .. MaxFaults
    BY <1>7 DEF ReleaseList, AfterRelease, Listed
  <2>10. QED
    BY <2>1, <2>2, <2>3, <2>4, <2>5, <2>6, <2>7, <2>8, <2>9
<1>8. ASSUME NEW c \in Calls, ReleasePut(c) PROVE TypeOK'
  <2>1. lease' \in [Slots -> Leases \cup {None}]
    <3>1. sess[c] \in Sessions
      BY <1>8 DEF ReleasePut, OwnInv, Live
    <3>2. CASE slot[c] \in seen[c]
      BY <1>8, <3>1, <3>2, ReleaseWrites DEF Rewritten
    <3>3. CASE slot[c] \notin seen[c]
      BY <1>8, <3>3 DEF ReleasePut
    <3>4. QED
      BY <3>2, <3>3
  <2>2. rec' \in [Sessions -> [state: {"new", "active", "committing", "frozen", "gone"}, round: Calls \cup {None}]]
    BY <1>8 DEF ReleasePut, AfterRelease, Written
  <2>3. fence' \in [Sessions -> Calls \cup {None}] /\ pods' \subseteq Pods /\ dying' \subseteq Pods
    BY <1>8 DEF ReleasePut, AfterRelease, Written
  <2>4. pc' \in [Calls -> Labels]
    <3>1. "list" \in Labels /\ "done" \in Labels /\ "release" \in Labels
      BY DEF Labels
    <3>2. QED
      BY <1>8, <3>1 DEF ReleasePut, AfterRelease
  <2>5. kind' \in [Calls -> Kinds \cup {None}] /\ sess' \in [Calls -> Sessions \cup {None}] /\ round' \in [Calls -> Calls \cup {None}]
    BY <1>8 DEF ReleasePut, AfterRelease, Written
  <2>6. slot' \in [Calls -> Slots]
    BY <1>8 DEF ReleasePut, AfterRelease, Written
  <2>7. cursor' \in [Calls -> 0 .. N]
    BY <1>8 DEF ReleasePut, AfterRelease, Written
  <2>8. seen' \in [Calls -> SUBSET Slots] /\ cand' \in [Calls -> SUBSET Slots]
    BY <1>8 DEF ReleasePut, AfterRelease, Written
  <2>9. faults' \in 0 .. MaxFaults
    BY <1>8 DEF ReleasePut, AfterRelease, Written
  <2>10. QED
    BY <2>1, <2>2, <2>3, <2>4, <2>5, <2>6, <2>7, <2>8, <2>9
<1>9. ASSUME NEW c \in Calls, List(c) PROVE TypeOK'
  <2>1. lease' \in [Slots -> Leases \cup {None}]
    BY <1>9 DEF List, Listed
  <2>2. rec' \in [Sessions -> [state: {"new", "active", "committing", "frozen", "gone"}, round: Calls \cup {None}]]
    BY <1>9 DEF List, Listed
  <2>3. fence' \in [Sessions -> Calls \cup {None}] /\ pods' \subseteq Pods /\ dying' \subseteq Pods
    BY <1>9 DEF List, Listed
  <2>4. pc' \in [Calls -> Labels]
    BY <1>9 DEF List, Labels
  <2>5. kind' \in [Calls -> Kinds \cup {None}] /\ sess' \in [Calls -> Sessions \cup {None}] /\ round' \in [Calls -> Calls \cup {None}]
    BY <1>9 DEF List, Listed
  <2>6. slot' \in [Calls -> Slots]
    <3>1. CASE Held(sess[c]) = {}
      BY <1>9, <3>1 DEF List
    <3>2. CASE Held(sess[c]) # {}
      <4>1. Least(Held(sess[c])) \in Slots
        BY <3>2, LeastIsHeld
      <4>2. QED
        BY <1>9, <3>2, <4>1 DEF List
    <3>3. QED
      BY <3>1, <3>2
  <2>7. cursor' \in [Calls -> 0 .. N]
    <3>1. 0 \in 0 .. N
      OBVIOUS
    <3>2. QED
      BY <1>9, <3>1 DEF List
  <2>8. seen' \in [Calls -> SUBSET Slots] /\ cand' \in [Calls -> SUBSET Slots]
    BY <1>9 DEF List, Listed
  <2>9. faults' \in 0 .. MaxFaults
    BY <1>9 DEF List, Listed
  <2>10. QED
    BY <2>1, <2>2, <2>3, <2>4, <2>5, <2>6, <2>7, <2>8, <2>9
<1>10. ASSUME NEW c \in Calls, Renew(c) PROVE TypeOK'
  <2>1. lease' \in [Slots -> Leases \cup {None}]
    <3>1. sess[c] \in Sessions
      BY <1>10 DEF Renew, OwnInv, Live
    <3>2. CASE slot[c] \in seen[c]
      BY <1>10, <3>1, <3>2, RenewWrites DEF Rewritten
    <3>3. CASE slot[c] \notin seen[c]
      BY <1>10, <3>3 DEF Renew
    <3>4. QED
      BY <3>2, <3>3
  <2>2. rec' \in [Sessions -> [state: {"new", "active", "committing", "frozen", "gone"}, round: Calls \cup {None}]]
    BY <1>10 DEF Renew, Written
  <2>3. fence' \in [Sessions -> Calls \cup {None}] /\ pods' \subseteq Pods /\ dying' \subseteq Pods
    BY <1>10 DEF Renew, Written
  <2>4. pc' \in [Calls -> Labels]
    BY <1>10 DEF Renew, Labels
  <2>5. kind' \in [Calls -> Kinds \cup {None}] /\ sess' \in [Calls -> Sessions \cup {None}] /\ round' \in [Calls -> Calls \cup {None}]
    BY <1>10 DEF Renew, Written
  <2>6. slot' \in [Calls -> Slots]
    BY <1>10 DEF Renew, Written
  <2>7. cursor' \in [Calls -> 0 .. N]
    BY <1>10 DEF Renew, Written
  <2>8. seen' \in [Calls -> SUBSET Slots] /\ cand' \in [Calls -> SUBSET Slots]
    BY <1>10 DEF Renew, Written
  <2>9. faults' \in 0 .. MaxFaults
    BY <1>10 DEF Renew, Written
  <2>10. QED
    BY <2>1, <2>2, <2>3, <2>4, <2>5, <2>6, <2>7, <2>8, <2>9
<1>11. ASSUME NEW c \in Calls, Judge(c) PROVE TypeOK'
  <2>1. lease' \in [Slots -> Leases \cup {None}]
    BY <1>11 DEF Judge
  <2>2. rec' \in [Sessions -> [state: {"new", "active", "committing", "frozen", "gone"}, round: Calls \cup {None}]]
    BY <1>11 DEF Judge
  <2>3. fence' \in [Sessions -> Calls \cup {None}] /\ pods' \subseteq Pods /\ dying' \subseteq Pods
    BY <1>11 DEF Judge
  <2>4. pc' \in [Calls -> Labels]
    BY <1>11 DEF Judge, Labels
  <2>5. kind' \in [Calls -> Kinds \cup {None}] /\ sess' \in [Calls -> Sessions \cup {None}] /\ round' \in [Calls -> Calls \cup {None}]
    BY <1>11 DEF Judge
  <2>6. slot' \in [Calls -> Slots]
    BY <1>11 DEF Judge
  <2>7. cursor' \in [Calls -> 0 .. N]
    BY <1>11 DEF Judge, KindInv, Slots
  <2>8. seen' \in [Calls -> SUBSET Slots] /\ cand' \in [Calls -> SUBSET Slots]
    BY <1>11 DEF Judge, KindInv
  <2>9. faults' \in 0 .. MaxFaults
    BY <1>11 DEF Judge
  <2>10. QED
    BY <2>1, <2>2, <2>3, <2>4, <2>5, <2>6, <2>7, <2>8, <2>9
<1>12. ASSUME NEW c \in Calls, Claim(c) PROVE TypeOK'
  <2>1. lease' \in [Slots -> Leases \cup {None}]
    <3>1. sess[c] \in Sessions
      BY <1>12 DEF Claim, OwnInv, Live
    <3>2. QED
      BY <1>12, <3>1, ClaimWrites DEF Rewritten
  <2>2. rec' \in [Sessions -> [state: {"new", "active", "committing", "frozen", "gone"}, round: Calls \cup {None}]]
    BY <1>12 DEF Claim
  <2>3. fence' \in [Sessions -> Calls \cup {None}] /\ pods' \subseteq Pods /\ dying' \subseteq Pods
    BY <1>12 DEF Claim
  <2>4. pc' \in [Calls -> Labels]
    <3>1. pc' = pc \/ \E label \in {"ensure", "done"} : pc' = [pc EXCEPT ![c] = label]
      BY <1>12 DEF Claim
    <3>2. QED
      BY <3>1 DEF Labels
  <2>5. kind' \in [Calls -> Kinds \cup {None}] /\ sess' \in [Calls -> Sessions \cup {None}] /\ round' \in [Calls -> Calls \cup {None}]
    BY <1>12 DEF Claim
  <2>6. slot' \in [Calls -> Slots]
    <3>1. sess[c] \in Sessions
      BY <1>12 DEF Claim, OwnInv, Live
    <3>2. QED
      BY <1>12, <3>1, ClaimWrites, ZenonT(40)
  <2>7. cursor' \in [Calls -> 0 .. N]
    BY <1>12 DEF Claim
  <2>8. seen' \in [Calls -> SUBSET Slots] /\ cand' \in [Calls -> SUBSET Slots]
    BY <1>12 DEF Claim, Claimed, Written
  <2>9. faults' \in 0 .. MaxFaults
    BY <1>12 DEF Claim
  <2>10. QED
    BY <2>1, <2>2, <2>3, <2>4, <2>5, <2>6, <2>7, <2>8, <2>9
<1>13. ASSUME NEW c \in Calls, Ensure(c) PROVE TypeOK'
  <2>1. lease' \in [Slots -> Leases \cup {None}]
    BY <1>13 DEF Ensure
  <2>2. rec' \in [Sessions -> [state: {"new", "active", "committing", "frozen", "gone"}, round: Calls \cup {None}]]
    BY <1>13 DEF Ensure
  <2>3. fence' \in [Sessions -> Calls \cup {None}] /\ pods' \subseteq Pods /\ dying' \subseteq Pods
    BY <1>13 DEF Ensure
  <2>4. pc' \in [Calls -> Labels]
    BY <1>13 DEF Ensure, Labels
  <2>5. kind' \in [Calls -> Kinds \cup {None}] /\ sess' \in [Calls -> Sessions \cup {None}] /\ round' \in [Calls -> Calls \cup {None}]
    BY <1>13 DEF Ensure
  <2>6. slot' \in [Calls -> Slots]
    BY <1>13 DEF Ensure
  <2>7. cursor' \in [Calls -> 0 .. N]
    BY <1>13 DEF Ensure
  <2>8. seen' \in [Calls -> SUBSET Slots] /\ cand' \in [Calls -> SUBSET Slots]
    BY <1>13 DEF Ensure
  <2>9. faults' \in 0 .. MaxFaults
    BY <1>13 DEF Ensure
  <2>10. QED
    BY <2>1, <2>2, <2>3, <2>4, <2>5, <2>6, <2>7, <2>8, <2>9
<1>14. ASSUME NEW c \in Calls, Provision(c) PROVE TypeOK'
  <2>1. lease' \in [Slots -> Leases \cup {None}]
    BY <1>14 DEF Provision
  <2>2. rec' \in [Sessions -> [state: {"new", "active", "committing", "frozen", "gone"}, round: Calls \cup {None}]]
    BY <1>14 DEF Provision
  <2>3. fence' \in [Sessions -> Calls \cup {None}] /\ pods' \subseteq Pods /\ dying' \subseteq Pods
    BY <1>14 DEF Provision, Pods, OwnInv, Live
  <2>4. pc' \in [Calls -> Labels]
    BY <1>14 DEF Provision, Labels
  <2>5. kind' \in [Calls -> Kinds \cup {None}] /\ sess' \in [Calls -> Sessions \cup {None}] /\ round' \in [Calls -> Calls \cup {None}]
    BY <1>14 DEF Provision
  <2>6. slot' \in [Calls -> Slots]
    BY <1>14 DEF Provision
  <2>7. cursor' \in [Calls -> 0 .. N]
    BY <1>14 DEF Provision
  <2>8. seen' \in [Calls -> SUBSET Slots] /\ cand' \in [Calls -> SUBSET Slots]
    BY <1>14 DEF Provision
  <2>9. faults' \in 0 .. MaxFaults
    BY <1>14 DEF Provision
  <2>10. QED
    BY <2>1, <2>2, <2>3, <2>4, <2>5, <2>6, <2>7, <2>8, <2>9
<1>15. ASSUME NEW c \in Calls, Publish(c) PROVE TypeOK'
  <2>1. lease' \in [Slots -> Leases \cup {None}]
    BY <1>15 DEF Publish
  <2>2. rec' \in [Sessions -> [state: {"new", "active", "committing", "frozen", "gone"}, round: Calls \cup {None}]]
    BY <1>15 DEF Publish
  <2>3. fence' \in [Sessions -> Calls \cup {None}] /\ pods' \subseteq Pods /\ dying' \subseteq Pods
    BY <1>15 DEF Publish
  <2>4. pc' \in [Calls -> Labels]
    <3>1. "done" \in Labels /\ "discard" \in Labels
      BY DEF Labels
    <3>2. QED
      BY <1>15, <3>1 DEF Publish
  <2>5. kind' \in [Calls -> Kinds \cup {None}] /\ sess' \in [Calls -> Sessions \cup {None}] /\ round' \in [Calls -> Calls \cup {None}]
    BY <1>15 DEF Publish
  <2>6. slot' \in [Calls -> Slots]
    BY <1>15 DEF Publish
  <2>7. cursor' \in [Calls -> 0 .. N]
    BY <1>15 DEF Publish
  <2>8. seen' \in [Calls -> SUBSET Slots] /\ cand' \in [Calls -> SUBSET Slots]
    BY <1>15 DEF Publish
  <2>9. faults' \in 0 .. MaxFaults
    BY <1>15 DEF Publish
  <2>10. QED
    BY <2>1, <2>2, <2>3, <2>4, <2>5, <2>6, <2>7, <2>8, <2>9
<1>16. ASSUME NEW c \in Calls, Discard(c) PROVE TypeOK'
  BY <1>16 DEF Discard, Told, Labels, Kinds
<1>17. ASSUME NEW c \in Calls, Crash(c) PROVE TypeOK'
  BY <1>17 DEF Crash, Labels, Kinds
<1>18. ASSUME NEW t \in Slots, Age(t) PROVE TypeOK'
  <2>1. lease' \in [Slots -> Leases \cup {None}]
    BY <1>18, AgeWrites
  <2>2. rec' \in [Sessions -> [state: {"new", "active", "committing", "frozen", "gone"}, round: Calls \cup {None}]]
    BY <1>18 DEF Age
  <2>3. fence' \in [Sessions -> Calls \cup {None}] /\ pods' \subseteq Pods /\ dying' \subseteq Pods
    BY <1>18 DEF Age
  <2>4. pc' \in [Calls -> Labels]
    BY <1>18 DEF Age
  <2>5. kind' \in [Calls -> Kinds \cup {None}] /\ sess' \in [Calls -> Sessions \cup {None}] /\ round' \in [Calls -> Calls \cup {None}]
    BY <1>18 DEF Age
  <2>6. slot' \in [Calls -> Slots]
    BY <1>18 DEF Age
  <2>7. cursor' \in [Calls -> 0 .. N]
    BY <1>18 DEF Age
  <2>8. seen' \in [Calls -> SUBSET Slots] /\ cand' \in [Calls -> SUBSET Slots]
    BY <1>18 DEF Age
  <2>9. faults' \in 0 .. MaxFaults
    BY <1>18 DEF Age
  <2>10. QED
    BY <2>1, <2>2, <2>3, <2>4, <2>5, <2>6, <2>7, <2>8, <2>9
<1>19. CASE UNCHANGED vars \/ \E p \in dying : PodGone(p)
  BY <1>19 DEF vars, PodGone
<1>20. QED
  BY <1>1, <1>2, <1>3, <1>4, <1>5, <1>6, <1>7, <1>8, <1>9, <1>10, <1>11, <1>12, <1>13, <1>14,
      <1>15, <1>16, <1>17, <1>18, <1>19 DEF Next, Step

\* A call keeps the fence of its session for as long as it lives.
LEMMA OwnStep == ASSUME Undisturbed, IInv, [Next]_vars PROVE OwnInv'
<1> USE PoolAssumption, NoLeaseAssumption DEF Undisturbed, service, call, picking, At, Goto,
    Fault, TypeOK, IInv, Live, Acquiring, Using, OwnInv
<1>1. ASSUME NEW c \in Calls, Create(c) PROVE OwnInv'
  BY <1>1 DEF Create
<1>2. ASSUME NEW c \in Calls, Begin(c) PROVE OwnInv'
  BY <1>2 DEF Begin, Plan
<1>3. ASSUME NEW c \in Calls, Commit(c) PROVE OwnInv'
  BY <1>3 DEF Commit, Fenced
<1>4. ASSUME NEW c \in Calls, Stop(c) PROVE OwnInv'
  BY <1>4 DEF Stop, Told
<1>5. ASSUME NEW c \in Calls, Finalize(c) PROVE OwnInv'
  BY <1>5 DEF Finalize, Fenced
<1>6. ASSUME NEW c \in Calls, Delete(c) PROVE OwnInv'
  BY <1>6 DEF Delete, Fenced
<1>7. ASSUME NEW c \in Calls, ReleaseList(c) PROVE OwnInv'
  BY <1>7 DEF ReleaseList, AfterRelease, Listed
<1>8. ASSUME NEW c \in Calls, ReleasePut(c) PROVE OwnInv'
  BY <1>8 DEF ReleasePut, AfterRelease, Written
<1>9. ASSUME NEW c \in Calls, List(c) PROVE OwnInv'
  BY <1>9 DEF List, Listed
<1>10. ASSUME NEW c \in Calls, Renew(c) PROVE OwnInv'
  BY <1>10 DEF Renew, Written
<1>11. ASSUME NEW c \in Calls, Judge(c) PROVE OwnInv'
  BY <1>11 DEF Judge, Reclaimable, Stale
<1>12. ASSUME NEW c \in Calls, Claim(c) PROVE OwnInv'
  BY <1>12 DEF Claim, Claimed, Written
<1>13. ASSUME NEW c \in Calls, Ensure(c) PROVE OwnInv'
  BY <1>13 DEF Ensure
<1>14. ASSUME NEW c \in Calls, Provision(c) PROVE OwnInv'
  BY <1>14 DEF Provision
<1>15. ASSUME NEW c \in Calls, Publish(c) PROVE OwnInv'
  BY <1>15 DEF Publish, Fenced
<1>16. ASSUME NEW c \in Calls, Discard(c) PROVE OwnInv'
  BY <1>16 DEF Discard, Told
<1>17. ASSUME NEW c \in Calls, Crash(c) PROVE OwnInv'
  BY <1>17 DEF Crash
<1>18. ASSUME NEW t \in Slots, Age(t) PROVE OwnInv'
  BY <1>18 DEF Age
<1>19. CASE UNCHANGED vars \/ \E p \in dying : PodGone(p)
  BY <1>19 DEF vars, PodGone
<1>20. QED
  BY <1>1, <1>2, <1>3, <1>4, <1>5, <1>6, <1>7, <1>8, <1>9, <1>10, <1>11, <1>12, <1>13, <1>14,
      <1>15, <1>16, <1>17, <1>18, <1>19 DEF Next, Step

\* The lock keeps the calls of a session apart.
LEMMA LockStep == ASSUME Undisturbed, IInv, [Next]_vars PROVE LockInv'
<1> USE PoolAssumption, NoLeaseAssumption DEF Undisturbed, service, call, picking, At, Goto,
    Fault, TypeOK, IInv, Live, Acquiring, Using, LockInv, OwnInv
<1>1. ASSUME NEW c \in Calls, Create(c) PROVE LockInv'
  BY <1>1 DEF Create
<1>2. ASSUME NEW c \in Calls, Begin(c) PROVE LockInv'
  BY <1>2 DEF Begin, Plan
<1>3. ASSUME NEW c \in Calls, Commit(c) PROVE LockInv'
  BY <1>3 DEF Commit, Fenced
<1>4. ASSUME NEW c \in Calls, Stop(c) PROVE LockInv'
  BY <1>4 DEF Stop, Told
<1>5. ASSUME NEW c \in Calls, Finalize(c) PROVE LockInv'
  BY <1>5 DEF Finalize, Fenced
<1>6. ASSUME NEW c \in Calls, Delete(c) PROVE LockInv'
  BY <1>6, SMTT(30) DEF Delete, Fenced
<1>7. ASSUME NEW c \in Calls, ReleaseList(c) PROVE LockInv'
  BY <1>7, SMTT(30) DEF ReleaseList, AfterRelease, Listed
<1>8. ASSUME NEW c \in Calls, ReleasePut(c) PROVE LockInv'
  BY <1>8 DEF ReleasePut, AfterRelease, Written
<1>9. ASSUME NEW c \in Calls, List(c) PROVE LockInv'
  BY <1>9 DEF List, Listed
<1>10. ASSUME NEW c \in Calls, Renew(c) PROVE LockInv'
  BY <1>10 DEF Renew, Written
<1>11. ASSUME NEW c \in Calls, Judge(c) PROVE LockInv'
  BY <1>11 DEF Judge, Reclaimable, Stale
<1>12. ASSUME NEW c \in Calls, Claim(c) PROVE LockInv'
  BY <1>12 DEF Claim, Claimed, Written
<1>13. ASSUME NEW c \in Calls, Ensure(c) PROVE LockInv'
  BY <1>13 DEF Ensure
<1>14. ASSUME NEW c \in Calls, Provision(c) PROVE LockInv'
  BY <1>14 DEF Provision
<1>15. ASSUME NEW c \in Calls, Publish(c) PROVE LockInv'
  BY <1>15 DEF Publish, Fenced
<1>16. ASSUME NEW c \in Calls, Discard(c) PROVE LockInv'
  BY <1>16 DEF Discard, Told
<1>17. ASSUME NEW c \in Calls, Crash(c) PROVE LockInv'
  BY <1>17 DEF Crash
<1>18. ASSUME NEW t \in Slots, Age(t) PROVE LockInv'
  BY <1>18 DEF Age
<1>19. CASE UNCHANGED vars \/ \E p \in dying : PodGone(p)
  BY <1>19 DEF vars, PodGone
<1>20. QED
  BY <1>1, <1>2, <1>3, <1>4, <1>5, <1>6, <1>7, <1>8, <1>9, <1>10, <1>11, <1>12, <1>13, <1>14,
      <1>15, <1>16, <1>17, <1>18, <1>19 DEF Next, Step

\* Every call follows its own path.
LEMMA KindStep == ASSUME Undisturbed, IInv, [Next]_vars PROVE KindInv'
<1> USE PoolAssumption, NoLeaseAssumption DEF Undisturbed, service, call, picking, At, Goto,
    Fault, TypeOK, IInv, Live, Acquiring, Using, KindInv, Slots
<1>1. ASSUME NEW c \in Calls, Create(c) PROVE KindInv'
  BY <1>1 DEF Create
<1>2. ASSUME NEW c \in Calls, Begin(c) PROVE KindInv'
  BY <1>2 DEF Begin, Plan
<1>3. ASSUME NEW c \in Calls, Commit(c) PROVE KindInv'
  BY <1>3 DEF Commit, Fenced
<1>4. ASSUME NEW c \in Calls, Stop(c) PROVE KindInv'
  BY <1>4 DEF Stop, Told
<1>5. ASSUME NEW c \in Calls, Finalize(c) PROVE KindInv'
  BY <1>5 DEF Finalize, Fenced
<1>6. ASSUME NEW c \in Calls, Delete(c) PROVE KindInv'
  BY <1>6 DEF Delete, Fenced
<1>7. ASSUME NEW c \in Calls, ReleaseList(c) PROVE KindInv'
  BY <1>7 DEF ReleaseList, AfterRelease, Listed
<1>8. ASSUME NEW c \in Calls, ReleasePut(c) PROVE KindInv'
  BY <1>8, SMTT(30) DEF ReleasePut, AfterRelease, Written
<1>9. ASSUME NEW c \in Calls, List(c) PROVE KindInv'
  <2>1. 0 \in Slots
    OBVIOUS
  <2>2. \A d \in Calls : pc'[d] = "judge" => (d = c /\ cursor'[d] = 0) \/ (pc[d] = "judge" /\ cursor'[d] = cursor[d])
    BY <1>9 DEF List
  <2>3. QED
    BY <1>9, <2>1, <2>2, ZenonT(40) DEF List
<1>10. ASSUME NEW c \in Calls, Renew(c) PROVE KindInv'
  BY <1>10 DEF Renew, Written
<1>11. ASSUME NEW c \in Calls, Judge(c) PROVE KindInv'
  BY <1>11 DEF Judge, Reclaimable, Stale
<1>12. ASSUME NEW c \in Calls, Claim(c) PROVE KindInv'
  BY <1>12 DEF Claim, Claimed, Written
<1>13. ASSUME NEW c \in Calls, Ensure(c) PROVE KindInv'
  BY <1>13 DEF Ensure
<1>14. ASSUME NEW c \in Calls, Provision(c) PROVE KindInv'
  BY <1>14 DEF Provision
<1>15. ASSUME NEW c \in Calls, Publish(c) PROVE KindInv'
  BY <1>15 DEF Publish, Fenced
<1>16. ASSUME NEW c \in Calls, Discard(c) PROVE KindInv'
  BY <1>16 DEF Discard, Told
<1>17. ASSUME NEW c \in Calls, Crash(c) PROVE KindInv'
  BY <1>17 DEF Crash
<1>18. ASSUME NEW t \in Slots, Age(t) PROVE KindInv'
  BY <1>18 DEF Age
<1>19. CASE UNCHANGED vars \/ \E p \in dying : PodGone(p)
  BY <1>19 DEF vars, PodGone
<1>20. QED
  BY <1>1, <1>2, <1>3, <1>4, <1>5, <1>6, <1>7, <1>8, <1>9, <1>10, <1>11, <1>12, <1>13, <1>14,
      <1>15, <1>16, <1>17, <1>18, <1>19 DEF Next, Step

\* A record names the same pods until its own call stops them.
LEMMA RoundStep == ASSUME Undisturbed, IInv, [Next]_vars PROVE RoundInv'
<1> USE PoolAssumption, NoLeaseAssumption DEF Undisturbed, service, call, picking, At, Goto,
    Fault, TypeOK, IInv, Live, Acquiring, Using, RoundInv, OwnInv, LockInv, KindInv
<1>1. ASSUME NEW c \in Calls, Create(c) PROVE RoundInv'
  BY <1>1 DEF Create
<1>2. ASSUME NEW c \in Calls, Begin(c) PROVE RoundInv'
  BY <1>2 DEF Begin, Plan
<1>3. ASSUME NEW c \in Calls, Commit(c) PROVE RoundInv'
  <2>1. UNCHANGED <<round, sess>> /\ pc[c] = "commit"
    BY <1>3 DEF Commit
  <2>2. \A d \in Calls : pc'[d] \in {"commit", "stop"} => pc[d] \in {"commit", "stop"} /\ sess[d] \in Sessions
    BY <1>3, <2>1, CommitWrites, SMTT(30)
  <2>3. \A s \in Sessions : rec'[s].round = rec[s].round
    BY <1>3, CommitWrites
  <2>4. QED
    BY <2>1, <2>2, <2>3
<1>4. ASSUME NEW c \in Calls, Stop(c) PROVE RoundInv'
  BY <1>4 DEF Stop, Told
<1>5. ASSUME NEW c \in Calls, Finalize(c) PROVE RoundInv'
  <2>1. UNCHANGED <<round, sess>> /\ pc[c] = "finalize" /\ pc'[c] = "release" /\ sess[c] \in Sessions
    BY <1>5, SMTT(30) DEF Finalize, Fenced
  <2>2. \A d \in Calls \ {c} : pc'[d] = pc[d] /\ (Live(d) => sess[d] # sess[c])
    BY <1>5, <2>1, SMTT(30) DEF Finalize
  <2>3. \A s \in Sessions : s # sess[c] => rec'[s] = rec[s]
    BY <1>5 DEF Finalize
  <2>4. QED
    BY <2>1, <2>2, <2>3
<1>6. ASSUME NEW c \in Calls, Delete(c) PROVE RoundInv'
  <2>1. UNCHANGED <<round, sess>> /\ pc[c] = "delete" /\ pc'[c] = "release" /\ sess[c] \in Sessions
    BY <1>6 DEF Delete, Fenced
  <2>2. \A d \in Calls \ {c} : pc'[d] = pc[d] /\ (Live(d) => sess[d] # sess[c])
    BY <1>6, <2>1 DEF Delete
  <2>3. \A s \in Sessions : s # sess[c] => rec'[s] = rec[s]
    BY <1>6 DEF Delete
  <2>4. QED
    BY <2>1, <2>2, <2>3
<1>7. ASSUME NEW c \in Calls, ReleaseList(c) PROVE RoundInv'
  BY <1>7 DEF ReleaseList, AfterRelease, Listed
<1>8. ASSUME NEW c \in Calls, ReleasePut(c) PROVE RoundInv'
  BY <1>8 DEF ReleasePut, AfterRelease, Written
<1>9. ASSUME NEW c \in Calls, List(c) PROVE RoundInv'
  BY <1>9 DEF List, Listed
<1>10. ASSUME NEW c \in Calls, Renew(c) PROVE RoundInv'
  BY <1>10 DEF Renew, Written
<1>11. ASSUME NEW c \in Calls, Judge(c) PROVE RoundInv'
  BY <1>11 DEF Judge, Reclaimable, Stale
<1>12. ASSUME NEW c \in Calls, Claim(c) PROVE RoundInv'
  BY <1>12 DEF Claim, Claimed, Written
<1>13. ASSUME NEW c \in Calls, Ensure(c) PROVE RoundInv'
  BY <1>13 DEF Ensure
<1>14. ASSUME NEW c \in Calls, Provision(c) PROVE RoundInv'
  BY <1>14 DEF Provision
<1>15. ASSUME NEW c \in Calls, Publish(c) PROVE RoundInv'
  BY <1>15 DEF Publish, Fenced
<1>16. ASSUME NEW c \in Calls, Discard(c) PROVE RoundInv'
  BY <1>16 DEF Discard, Told
<1>17. ASSUME NEW c \in Calls, Crash(c) PROVE RoundInv'
  BY <1>17 DEF Crash
<1>18. ASSUME NEW t \in Slots, Age(t) PROVE RoundInv'
  BY <1>18 DEF Age
<1>19. CASE UNCHANGED vars \/ \E p \in dying : PodGone(p)
  BY <1>19 DEF vars, PodGone
<1>20. QED
  BY <1>1, <1>2, <1>3, <1>4, <1>5, <1>6, <1>7, <1>8, <1>9, <1>10, <1>11, <1>12, <1>13, <1>14,
      <1>15, <1>16, <1>17, <1>18, <1>19 DEF Next, Step

\* A pod's slot stays leased to its session.
LEMMA PodSlotStep == ASSUME Undisturbed, IInv, [Next]_vars PROVE PodSlotInv'
<1> USE PoolAssumption, NoLeaseAssumption DEF Undisturbed, service, call, picking, At, Goto,
    Fault, TypeOK, IInv, Live, Acquiring, Using, PodSlotInv, PodRoundInv, OwnInv, CopyInv,
    UseInv, Holder, Leases, Pods
<1>1. ASSUME NEW c \in Calls, Create(c) PROVE PodSlotInv'
  BY <1>1 DEF Create
<1>2. ASSUME NEW c \in Calls, Begin(c) PROVE PodSlotInv'
  BY <1>2 DEF Begin, Plan
<1>3. ASSUME NEW c \in Calls, Commit(c) PROVE PodSlotInv'
  BY <1>3 DEF Commit, Fenced
<1>4. ASSUME NEW c \in Calls, Stop(c) PROVE PodSlotInv'
  BY <1>4 DEF Stop, Told
<1>5. ASSUME NEW c \in Calls, Finalize(c) PROVE PodSlotInv'
  BY <1>5 DEF Finalize, Fenced
<1>6. ASSUME NEW c \in Calls, Delete(c) PROVE PodSlotInv'
  BY <1>6 DEF Delete, Fenced
<1>7. ASSUME NEW c \in Calls, ReleaseList(c) PROVE PodSlotInv'
  BY <1>7 DEF ReleaseList, AfterRelease, Listed
<1>8. ASSUME NEW c \in Calls, ReleasePut(c) PROVE PodSlotInv'
  <2> HIDE DEF Holder
  <2>1. pc[c] = "releasePut" /\ Live(c) /\ sess[c] \in Sessions /\ UNCHANGED <<pods, sess>>
    BY <1>8 DEF ReleasePut
  <2>2. CASE slot[c] \notin seen[c]
    BY <1>8, <2>2 DEF ReleasePut, Holder
  <2>3. CASE slot[c] \in seen[c]
    <3>1. Rewritten(slot[c], None) /\ Holder(slot[c]) = sess[c]
      BY <1>8, <2>1, <2>3, ReleaseWrites DEF CopyInv
    <3>2. \A q \in pods : q.slot # slot[c] /\ q.slot \in Slots
      <4>1. \A q \in pods : q.session # sess[c]
        BY <2>1, NoPods
      <4>2. QED
        BY <3>1, <4>1
    <3>3. \A x \in Slots \ {slot[c]} : Holder(x)' = Holder(x)
      BY <3>1 DEF Rewritten, Holder
    <3>4. QED
      BY <2>1, <3>2, <3>3
  <2>4. QED
    BY <2>2, <2>3
<1>9. ASSUME NEW c \in Calls, List(c) PROVE PodSlotInv'
  BY <1>9 DEF List, Listed
<1>10. ASSUME NEW c \in Calls, Renew(c) PROVE PodSlotInv'
  <2>1. \A q \in pods : q.slot \in Slots
    OBVIOUS
  <2>2. UNCHANGED pods
    BY <1>10 DEF Renew
  <2>3. QED
    BY <1>10, <2>1, <2>2, RenewKeeps, ZenonT(40)
<1>11. ASSUME NEW c \in Calls, Judge(c) PROVE PodSlotInv'
  BY <1>11 DEF Judge, Reclaimable, Stale
<1>12. ASSUME NEW c \in Calls, Claim(c) PROVE PodSlotInv'
  <2> HIDE DEF Holder
  <2>1. sess[c] \in Sessions /\ Live(c) /\ pc[c] = "claim" /\ UNCHANGED <<sess, pods>>
    BY <1>12 DEF Claim
  <2>2. \A d \in Calls \ {c} : pc'[d] = pc[d] /\ slot'[d] = slot[d] /\ cand'[d] = cand[d]
    BY <1>12 DEF Claim
  <2>3. CASE UNCHANGED <<lease, seen, slot>> /\ pc'[c] \in {"claim", "done"} /\ cand'[c] \subseteq cand[c]
    BY <2>1, <2>2, <2>3 DEF Holder
  <2>4. ASSUME pc' = [pc EXCEPT ![c] = "ensure"], cand' = cand,
               NEW u \in cand[c] \cap seen[c], Rewritten(u, sess[c]), slot' = [slot EXCEPT ![c] = u]
        PROVE  PodSlotInv'
    <3>1. u \in Slots /\ (Holder(u) = None \/ (lease[u].old = TRUE /\ \A q \in pods : q.slot # u))
      BY <2>1, <2>4 DEF FreeInv
    <3>2. Holder(u)' = sess[c] /\ \A x \in Slots \ {u} : Holder(x)' = Holder(x) /\ lease'[x] = lease[x]
      BY <2>1, <2>4 DEF Rewritten, Holder
    <3>3. \A q \in pods : q.slot \in Slots \ {u}
      BY <3>1
    <3>4. QED
      BY <2>1, <3>2, <3>3
  <2>5. \/ UNCHANGED <<lease, seen, slot>> /\ pc'[c] \in {"claim", "done"} /\ cand'[c] \subseteq cand[c]
        \/ /\ pc' = [pc EXCEPT ![c] = "ensure"] /\ cand' = cand
           /\ \E t \in cand[c] \cap seen[c] : t \in Slots /\ Rewritten(t, sess[c]) /\ slot' = [slot EXCEPT ![c] = t]
    BY <1>12, <2>1, ClaimWrites
  <2>6. QED
    BY <2>3, <2>4, <2>5
<1>13. ASSUME NEW c \in Calls, Ensure(c) PROVE PodSlotInv'
  BY <1>13 DEF Ensure
<1>14. ASSUME NEW c \in Calls, Provision(c) PROVE PodSlotInv'
  BY <1>14 DEF Provision
<1>15. ASSUME NEW c \in Calls, Publish(c) PROVE PodSlotInv'
  BY <1>15 DEF Publish, Fenced
<1>16. ASSUME NEW c \in Calls, Discard(c) PROVE PodSlotInv'
  BY <1>16 DEF Discard, Told
<1>17. ASSUME NEW c \in Calls, Crash(c) PROVE PodSlotInv'
  BY <1>17 DEF Crash
<1>18. ASSUME NEW t \in Slots, Age(t) PROVE PodSlotInv'
  <2>1. \A q \in pods : q.slot \in Slots
    OBVIOUS
  <2>2. UNCHANGED pods
    BY <1>18 DEF Age
  <2>3. QED
    BY <1>18, <2>1, <2>2, AgeKeeps, ZenonT(40)
<1>19. CASE UNCHANGED vars \/ \E p \in dying : PodGone(p)
  BY <1>19 DEF vars, PodGone
<1>20. QED
  BY <1>1, <1>2, <1>3, <1>4, <1>5, <1>6, <1>7, <1>8, <1>9, <1>10, <1>11, <1>12, <1>13, <1>14,
      <1>15, <1>16, <1>17, <1>18, <1>19 DEF Next, Step

\* Every pod stays with its record or its call.
LEMMA PodRoundStep == ASSUME Undisturbed, IInv, [Next]_vars PROVE PodRoundInv'
<1> USE PoolAssumption, NoLeaseAssumption DEF Undisturbed, service, call, picking, At, Goto,
    Fault, TypeOK, IInv, Live, Acquiring, Using, PodRoundInv, OwnInv, LockInv, KindInv,
    RoundInv, Pods
<1>1. ASSUME NEW c \in Calls, Create(c) PROVE PodRoundInv'
  BY <1>1 DEF Create
<1>2. ASSUME NEW c \in Calls, Begin(c) PROVE PodRoundInv'
  BY <1>2 DEF Begin, Plan
<1>3. ASSUME NEW c \in Calls, Commit(c) PROVE PodRoundInv'
  <2>1. UNCHANGED <<pods, sess, slot>>
    BY <1>3 DEF Commit
  <2>2. \A q \in pods : q.session \in Sessions /\ q.round \in Calls
    OBVIOUS
  <2>3. pc[c] = "commit"
    BY <1>3 DEF Commit
  <2>4. QED
    BY <1>3, <2>1, <2>2, <2>3, CommitWrites, SMTT(30)
<1>4. ASSUME NEW c \in Calls, Stop(c) PROVE PodRoundInv'
  BY <1>4 DEF Stop, Told
<1>5. ASSUME NEW c \in Calls, Finalize(c) PROVE PodRoundInv'
  <2>1. UNCHANGED <<pods, sess>> /\ Live(c) /\ pc[c] \notin {"commit", "stop", "publish", "discard"}
    BY <1>5 DEF Finalize
  <2>2. \A d \in Calls \ {c} : pc'[d] = pc[d] /\ slot'[d] = slot[d]
    BY <1>5 DEF Finalize
  <2>3. \A s \in Sessions : s # sess[c] => rec'[s] = rec[s]
    BY <1>5 DEF Finalize
  <2>4. QED
    BY <2>1, <2>2, <2>3, PodFrame, SMTT(30)
<1>6. ASSUME NEW c \in Calls, Delete(c) PROVE PodRoundInv'
  <2>1. UNCHANGED <<pods, sess>> /\ Live(c) /\ pc[c] \notin {"commit", "stop", "publish", "discard"}
    BY <1>6 DEF Delete
  <2>2. \A d \in Calls \ {c} : pc'[d] = pc[d] /\ slot'[d] = slot[d]
    BY <1>6 DEF Delete
  <2>3. \A s \in Sessions : s # sess[c] => rec'[s] = rec[s]
    BY <1>6 DEF Delete
  <2>4. QED
    BY <2>1, <2>2, <2>3, PodFrame, SMTT(30)
<1>7. ASSUME NEW c \in Calls, ReleaseList(c) PROVE PodRoundInv'
  <2>1. UNCHANGED <<pods, sess>> /\ Live(c) /\ pc[c] \notin {"commit", "stop", "publish", "discard"}
    BY <1>7 DEF ReleaseList, AfterRelease
  <2>2. \A d \in Calls \ {c} : pc'[d] = pc[d] /\ slot'[d] = slot[d]
    BY <1>7 DEF ReleaseList, AfterRelease
  <2>3. \A s \in Sessions : s # sess[c] => rec'[s] = rec[s]
    BY <1>7 DEF ReleaseList, AfterRelease
  <2>4. QED
    BY <2>1, <2>2, <2>3, PodFrame, SMTT(30)
<1>8. ASSUME NEW c \in Calls, ReleasePut(c) PROVE PodRoundInv'
  <2>1. UNCHANGED <<pods, sess>> /\ Live(c) /\ pc[c] \notin {"commit", "stop", "publish", "discard"}
    BY <1>8 DEF ReleasePut, AfterRelease
  <2>2. \A d \in Calls \ {c} : pc'[d] = pc[d] /\ slot'[d] = slot[d]
    BY <1>8 DEF ReleasePut, AfterRelease
  <2>3. \A s \in Sessions : s # sess[c] => rec'[s] = rec[s]
    BY <1>8 DEF ReleasePut, AfterRelease
  <2>4. QED
    BY <2>1, <2>2, <2>3, PodFrame, SMTT(30)
<1>9. ASSUME NEW c \in Calls, List(c) PROVE PodRoundInv'
  BY <1>9 DEF List, Listed
<1>10. ASSUME NEW c \in Calls, Renew(c) PROVE PodRoundInv'
  <2>1. UNCHANGED <<pods, sess>> /\ Live(c) /\ pc[c] \notin {"commit", "stop", "publish", "discard"}
    BY <1>10 DEF Renew
  <2>2. \A d \in Calls \ {c} : pc'[d] = pc[d] /\ slot'[d] = slot[d]
    BY <1>10 DEF Renew
  <2>3. \A s \in Sessions : s # sess[c] => rec'[s] = rec[s]
    BY <1>10 DEF Renew
  <2>4. QED
    BY <2>1, <2>2, <2>3, PodFrame, SMTT(30)
<1>11. ASSUME NEW c \in Calls, Judge(c) PROVE PodRoundInv'
  BY <1>11 DEF Judge, Reclaimable, Stale
<1>12. ASSUME NEW c \in Calls, Claim(c) PROVE PodRoundInv'
  <2>1. UNCHANGED <<pods, sess>> /\ Live(c) /\ pc[c] \notin {"commit", "stop", "publish", "discard"}
    BY <1>12 DEF Claim
  <2>2. \A d \in Calls \ {c} : pc'[d] = pc[d] /\ slot'[d] = slot[d]
    BY <1>12 DEF Claim
  <2>3. \A s \in Sessions : s # sess[c] => rec'[s] = rec[s]
    BY <1>12 DEF Claim
  <2>4. QED
    BY <2>1, <2>2, <2>3, PodFrame, SMTT(30)
<1>13. ASSUME NEW c \in Calls, Ensure(c) PROVE PodRoundInv'
  <2>1. UNCHANGED <<pods, sess, rec, slot>> /\ Live(c) /\ pc[c] \notin {"commit", "stop", "publish", "discard"}
    BY <1>13 DEF Ensure
  <2>2. \A d \in Calls \ {c} : pc'[d] = pc[d] /\ slot'[d] = slot[d]
    BY <1>13 DEF Ensure
  <2>3. QED
    BY <2>1, <2>2, PodFrame, SMTT(30)
<1>14. ASSUME NEW c \in Calls, Provision(c) PROVE PodRoundInv'
  <2>1. UNCHANGED <<rec, sess, slot>> /\ pc[c] = "provision" /\ Live(c) /\ sess[c] \in Sessions
    BY <1>14 DEF Provision
  <2>2. CASE pods' = pods
    <3>1. \A d \in Calls \ {c} : pc'[d] = pc[d] /\ slot'[d] = slot[d]
      BY <1>14, <2>1 DEF Provision
    <3>2. UNCHANGED <<pods, sess, rec>> /\ Live(c) /\ pc[c] \notin {"commit", "stop", "publish", "discard"}
      BY <2>1, <2>2
    <3>3. QED
      BY <3>1, <3>2, PodFrame, SMTT(30)
  <2>3. CASE pods' = pods \cup {[round |-> c, session |-> sess[c], slot |-> slot[c]]} /\ pc' = [pc EXCEPT ![c] = "publish"]
    <3>1. \A q \in pods : q.session # sess[c] /\ q.session \in Sessions /\ q.round \in Calls
      BY <2>1, NoPods, SMTT(30)
    <3>2. QED
      BY <2>1, <2>3, <3>1
  <2>4. QED
    BY <1>14, <2>2, <2>3 DEF Provision
<1>15. ASSUME NEW c \in Calls, Publish(c) PROVE PodRoundInv'
  <2>1. UNCHANGED <<pods, sess, slot>> /\ pc[c] = "publish" /\ sess[c] \in Sessions
    BY <1>15 DEF Publish
  <2>2. \A q \in pods : q.session = sess[c] => q.round = c
    BY <2>1, SMTT(30)
  <2>3. \A q \in pods : q.session \in Sessions /\ q.round \in Calls
    OBVIOUS
  <2>4. CASE pc' = [pc EXCEPT ![c] = "done"] /\ rec' = [rec EXCEPT ![sess[c]] = [state |-> "active", round |-> c]]
    BY <2>1, <2>2, <2>3, <2>4
  <2>5. CASE pc' = [pc EXCEPT ![c] = "discard"] /\ rec' = [rec EXCEPT ![sess[c]] = [state |-> "active", round |-> c]]
    BY <2>1, <2>2, <2>3, <2>5
  <2>6. CASE pc' = [pc EXCEPT ![c] = "discard"] /\ UNCHANGED rec
    BY <2>1, <2>2, <2>3, <2>6
  <2>7. QED
    BY <1>15, <2>4, <2>5, <2>6 DEF Publish
<1>16. ASSUME NEW c \in Calls, Discard(c) PROVE PodRoundInv'
  BY <1>16 DEF Discard, Told
<1>17. ASSUME NEW c \in Calls, Crash(c) PROVE PodRoundInv'
  BY <1>17 DEF Crash
<1>18. ASSUME NEW t \in Slots, Age(t) PROVE PodRoundInv'
  BY <1>18 DEF Age
<1>19. CASE UNCHANGED vars \/ \E p \in dying : PodGone(p)
  BY <1>19 DEF vars, PodGone
<1>20. QED
  BY <1>1, <1>2, <1>3, <1>4, <1>5, <1>6, <1>7, <1>8, <1>9, <1>10, <1>11, <1>12, <1>13, <1>14,
      <1>15, <1>16, <1>17, <1>18, <1>19 DEF Next, Step

\* Nobody is given a second slot.
LEMMA OneStep == ASSUME Undisturbed, IInv, [Next]_vars PROVE OneInv'
<1> USE PoolAssumption, NoLeaseAssumption DEF Undisturbed, service, call, picking, At, Goto,
    Fault, TypeOK, IInv, Live, Acquiring, Using, OneInv, OwnInv, LockInv, CopyInv, Holder,
    Leases, Held
<1>1. ASSUME NEW c \in Calls, Create(c) PROVE OneInv'
  BY <1>1 DEF Create
<1>2. ASSUME NEW c \in Calls, Begin(c) PROVE OneInv'
  BY <1>2 DEF Begin, Plan
<1>3. ASSUME NEW c \in Calls, Commit(c) PROVE OneInv'
  BY <1>3 DEF Commit, Fenced
<1>4. ASSUME NEW c \in Calls, Stop(c) PROVE OneInv'
  BY <1>4 DEF Stop, Told
<1>5. ASSUME NEW c \in Calls, Finalize(c) PROVE OneInv'
  BY <1>5 DEF Finalize, Fenced
<1>6. ASSUME NEW c \in Calls, Delete(c) PROVE OneInv'
  BY <1>6 DEF Delete, Fenced
<1>7. ASSUME NEW c \in Calls, ReleaseList(c) PROVE OneInv'
  BY <1>7 DEF ReleaseList, AfterRelease, Listed
<1>8. ASSUME NEW c \in Calls, ReleasePut(c) PROVE OneInv'
  <2> HIDE DEF Holder
  <2>1. pc[c] = "releasePut" /\ Live(c) /\ sess[c] \in Sessions /\ UNCHANGED <<pods, sess>>
    BY <1>8 DEF ReleasePut
  <2>2. CASE slot[c] \notin seen[c]
    BY <1>8, <2>2 DEF ReleasePut, Holder
  <2>3. CASE slot[c] \in seen[c]
    <3>1. Rewritten(slot[c], None) /\ Holder(slot[c]) = sess[c]
      BY <1>8, <2>1, <2>3, ReleaseWrites DEF CopyInv
    <3>2. UNCHANGED slot /\ Holder(slot[c])' = None /\ \A x \in Slots \ {slot[c]} : Holder(x)' = Holder(x)
      BY <1>8, <3>1 DEF Rewritten, Holder, ReleasePut
    <3>3. \A d \in Calls : pc'[d] \in {"judge", "claim"} => pc[d] = pc'[d] /\ sess[d] \in Sessions
      BY <1>8, <2>1 DEF ReleasePut, AfterRelease
    <3>4. \A t, u \in Slots : Holder(t)' # None /\ Holder(t)' = Holder(u)' => t = u
      BY <3>2 DEF OneInv
    <3>5. ASSUME NEW d \in Calls, pc'[d] \in {"judge", "claim"}, NEW t \in Slots PROVE Holder(t)' # sess'[d]
      BY <2>1, <3>2, <3>3, <3>5 DEF OneInv
    <3>6. QED
      BY <3>4, <3>5 DEF OneInv
  <2>4. QED
    BY <2>2, <2>3
<1>9. ASSUME NEW c \in Calls, List(c) PROVE OneInv'
  BY <1>9 DEF List, Listed
<1>10. ASSUME NEW c \in Calls, Renew(c) PROVE OneInv'
  <2>1. \A d \in Calls : pc'[d] \in {"judge", "claim"} => pc[d] = pc'[d]
    BY <1>10 DEF Renew
  <2>2. UNCHANGED sess
    BY <1>10 DEF Renew
  <2>3. QED
    BY <1>10, <2>1, <2>2, RenewKeeps
<1>11. ASSUME NEW c \in Calls, Judge(c) PROVE OneInv'
  BY <1>11 DEF Judge, Reclaimable, Stale
<1>12. ASSUME NEW c \in Calls, Claim(c) PROVE OneInv'
  <2> HIDE DEF Holder
  <2>1. sess[c] \in Sessions /\ Live(c) /\ pc[c] = "claim" /\ UNCHANGED <<sess, pods>>
    BY <1>12 DEF Claim
  <2>2. \A d \in Calls \ {c} : pc'[d] = pc[d] /\ slot'[d] = slot[d] /\ cand'[d] = cand[d]
    BY <1>12 DEF Claim
  <2>3. CASE UNCHANGED <<lease, seen, slot>> /\ pc'[c] \in {"claim", "done"} /\ cand'[c] \subseteq cand[c]
    BY <2>1, <2>2, <2>3 DEF Holder
  <2>4. ASSUME pc' = [pc EXCEPT ![c] = "ensure"], cand' = cand,
               NEW u \in cand[c] \cap seen[c], Rewritten(u, sess[c]), slot' = [slot EXCEPT ![c] = u]
        PROVE  OneInv'
    <3>1. u \in Slots /\ (Holder(u) = None \/ (lease[u].old = TRUE /\ \A q \in pods : q.slot # u))
      BY <2>1, <2>4 DEF FreeInv
    <3>2. Holder(u)' = sess[c] /\ \A x \in Slots \ {u} : Holder(x)' = Holder(x) /\ lease'[x] = lease[x]
      BY <2>1, <2>4 DEF Rewritten, Holder
    <3>3. \A d \in Calls : pc'[d] \in {"judge", "claim"} => d # c /\ pc[d] = pc'[d] /\ sess[d] # sess[c]
      BY <2>1, <2>2, <2>4
    <3>4. QED
      BY <2>1, <3>1, <3>2, <3>3
  <2>5. \/ UNCHANGED <<lease, seen, slot>> /\ pc'[c] \in {"claim", "done"} /\ cand'[c] \subseteq cand[c]
        \/ /\ pc' = [pc EXCEPT ![c] = "ensure"] /\ cand' = cand
           /\ \E t \in cand[c] \cap seen[c] : t \in Slots /\ Rewritten(t, sess[c]) /\ slot' = [slot EXCEPT ![c] = t]
    BY <1>12, <2>1, ClaimWrites
  <2>6. QED
    BY <2>3, <2>4, <2>5
<1>13. ASSUME NEW c \in Calls, Ensure(c) PROVE OneInv'
  BY <1>13 DEF Ensure
<1>14. ASSUME NEW c \in Calls, Provision(c) PROVE OneInv'
  BY <1>14, SMTT(30) DEF Provision
<1>15. ASSUME NEW c \in Calls, Publish(c) PROVE OneInv'
  BY <1>15 DEF Publish, Fenced
<1>16. ASSUME NEW c \in Calls, Discard(c) PROVE OneInv'
  BY <1>16 DEF Discard, Told
<1>17. ASSUME NEW c \in Calls, Crash(c) PROVE OneInv'
  BY <1>17 DEF Crash
<1>18. ASSUME NEW t \in Slots, Age(t) PROVE OneInv'
  <2> HIDE DEF Holder
  <2>1. UNCHANGED <<pc, sess>>
    BY <1>18 DEF Age
  <2>2. QED
    BY <1>18, <2>1, AgeKeeps
<1>19. CASE UNCHANGED vars \/ \E p \in dying : PodGone(p)
  BY <1>19 DEF vars, PodGone
<1>20. QED
  BY <1>1, <1>2, <1>3, <1>4, <1>5, <1>6, <1>7, <1>8, <1>9, <1>10, <1>11, <1>12, <1>13, <1>14,
      <1>15, <1>16, <1>17, <1>18, <1>19 DEF Next, Step

\* A Lease changes only by a write that outdates every copy.
LEMMA CopyStep == ASSUME Undisturbed, IInv, [Next]_vars PROVE CopyInv'
<1> USE PoolAssumption, NoLeaseAssumption DEF Undisturbed, service, call, picking, At, Goto,
    Fault, TypeOK, IInv, Live, Acquiring, Using, CopyInv, OwnInv, Holder, Leases, Rewritten
<1>1. ASSUME NEW c \in Calls, Create(c) PROVE CopyInv'
  BY <1>1 DEF Create
<1>2. ASSUME NEW c \in Calls, Begin(c) PROVE CopyInv'
  BY <1>2 DEF Begin, Plan
<1>3. ASSUME NEW c \in Calls, Commit(c) PROVE CopyInv'
  BY <1>3 DEF Commit, Fenced
<1>4. ASSUME NEW c \in Calls, Stop(c) PROVE CopyInv'
  BY <1>4 DEF Stop, Told
<1>5. ASSUME NEW c \in Calls, Finalize(c) PROVE CopyInv'
  BY <1>5 DEF Finalize, Fenced
<1>6. ASSUME NEW c \in Calls, Delete(c) PROVE CopyInv'
  BY <1>6 DEF Delete, Fenced
<1>7. ASSUME NEW c \in Calls, ReleaseList(c) PROVE CopyInv'
  <2>1. CASE Held(sess[c]) = {}
    BY <1>7, <2>1 DEF ReleaseList, AfterRelease, Listed
  <2>2. CASE Held(sess[c]) # {}
    <3>1. Least(Held(sess[c])) \in Slots /\ Holder(Least(Held(sess[c]))) = sess[c]
      BY <2>2, LeastIsHeld
    <3>2. QED
      BY <1>7, <2>2, <3>1 DEF ReleaseList, AfterRelease, Listed
  <2>3. QED
    BY <2>1, <2>2
<1>8. ASSUME NEW c \in Calls, ReleasePut(c) PROVE CopyInv'
  BY <1>8, ReleaseWrites DEF ReleasePut, AfterRelease, Written
<1>9. ASSUME NEW c \in Calls, List(c) PROVE CopyInv'
  <2>1. CASE Held(sess[c]) = {}
    BY <1>9, <2>1 DEF List, Listed
  <2>2. CASE Held(sess[c]) # {}
    <3>1. Least(Held(sess[c])) \in Slots /\ Holder(Least(Held(sess[c]))) = sess[c]
      BY <2>2, LeastIsHeld
    <3>2. QED
      BY <1>9, <2>2, <3>1 DEF List, Listed
  <2>3. QED
    BY <2>1, <2>2
<1>10. ASSUME NEW c \in Calls, Renew(c) PROVE CopyInv'
  BY <1>10, RenewWrites DEF Renew, Written
<1>11. ASSUME NEW c \in Calls, Judge(c) PROVE CopyInv'
  BY <1>11 DEF Judge, Reclaimable, Stale
<1>12. ASSUME NEW c \in Calls, Claim(c) PROVE CopyInv'
  <2> HIDE DEF Holder
  <2>1. sess[c] \in Sessions /\ Live(c) /\ pc[c] = "claim" /\ UNCHANGED <<sess, pods>>
    BY <1>12 DEF Claim
  <2>2. \A d \in Calls \ {c} : pc'[d] = pc[d] /\ slot'[d] = slot[d] /\ cand'[d] = cand[d]
    BY <1>12 DEF Claim
  <2>3. CASE UNCHANGED <<lease, seen, slot>> /\ pc'[c] \in {"claim", "done"} /\ cand'[c] \subseteq cand[c]
    BY <2>1, <2>2, <2>3 DEF Holder
  <2>4. ASSUME pc' = [pc EXCEPT ![c] = "ensure"], cand' = cand,
               NEW u \in cand[c] \cap seen[c], Rewritten(u, sess[c]), slot' = [slot EXCEPT ![c] = u]
        PROVE  CopyInv'
    <3>1. u \in Slots /\ (Holder(u) = None \/ (lease[u].old = TRUE /\ \A q \in pods : q.slot # u))
      BY <2>1, <2>4 DEF FreeInv
    <3>2. Holder(u)' = sess[c] /\ \A x \in Slots \ {u} : Holder(x)' = Holder(x) /\ lease'[x] = lease[x]
      BY <2>1, <2>4 DEF Rewritten, Holder
    <3>3. \A d \in Calls : pc'[d] \in {"renew", "releasePut"} => d # c /\ pc[d] = pc'[d]
      BY <2>2, <2>4
    <3>4. \A d \in Calls : seen'[d] = seen[d] \ {u}
      BY <2>4 DEF Rewritten, Written
    <3>5. QED
      BY <2>1, <2>2, <3>2, <3>3, <3>4
  <2>5. \/ UNCHANGED <<lease, seen, slot>> /\ pc'[c] \in {"claim", "done"} /\ cand'[c] \subseteq cand[c]
        \/ /\ pc' = [pc EXCEPT ![c] = "ensure"] /\ cand' = cand
           /\ \E t \in cand[c] \cap seen[c] : t \in Slots /\ Rewritten(t, sess[c]) /\ slot' = [slot EXCEPT ![c] = t]
    BY <1>12, <2>1, ClaimWrites
  <2>6. QED
    BY <2>3, <2>4, <2>5
<1>13. ASSUME NEW c \in Calls, Ensure(c) PROVE CopyInv'
  BY <1>13 DEF Ensure
<1>14. ASSUME NEW c \in Calls, Provision(c) PROVE CopyInv'
  BY <1>14 DEF Provision
<1>15. ASSUME NEW c \in Calls, Publish(c) PROVE CopyInv'
  BY <1>15 DEF Publish, Fenced
<1>16. ASSUME NEW c \in Calls, Discard(c) PROVE CopyInv'
  BY <1>16 DEF Discard, Told
<1>17. ASSUME NEW c \in Calls, Crash(c) PROVE CopyInv'
  BY <1>17 DEF Crash
<1>18. ASSUME NEW t \in Slots, Age(t) PROVE CopyInv'
  <2>1. UNCHANGED <<pc, slot, seen, sess>>
    BY <1>18 DEF Age
  <2>2. QED
    BY <1>18, <2>1, AgeKeeps
<1>19. CASE UNCHANGED vars \/ \E p \in dying : PodGone(p)
  BY <1>19 DEF vars, PodGone
<1>20. QED
  BY <1>1, <1>2, <1>3, <1>4, <1>5, <1>6, <1>7, <1>8, <1>9, <1>10, <1>11, <1>12, <1>13, <1>14,
      <1>15, <1>16, <1>17, <1>18, <1>19 DEF Next, Step

\* A slot in use is neither taken nor aged.
LEMMA UseStep == ASSUME Undisturbed, IInv, [Next]_vars PROVE UseInv'
<1> USE PoolAssumption, NoLeaseAssumption DEF Undisturbed, service, call, picking, At, Goto,
    Fault, TypeOK, IInv, Live, Acquiring, Using, UseInv, OwnInv, LockInv, OneInv, KindInv,
    Holder, Leases, Rewritten
<1>1. ASSUME NEW c \in Calls, Create(c) PROVE UseInv'
  BY <1>1 DEF Create
<1>2. ASSUME NEW c \in Calls, Begin(c) PROVE UseInv'
  BY <1>2 DEF Begin, Plan
<1>3. ASSUME NEW c \in Calls, Commit(c) PROVE UseInv'
  BY <1>3 DEF Commit, Fenced
<1>4. ASSUME NEW c \in Calls, Stop(c) PROVE UseInv'
  BY <1>4 DEF Stop, Told
<1>5. ASSUME NEW c \in Calls, Finalize(c) PROVE UseInv'
  BY <1>5 DEF Finalize, Fenced
<1>6. ASSUME NEW c \in Calls, Delete(c) PROVE UseInv'
  BY <1>6 DEF Delete, Fenced
<1>7. ASSUME NEW c \in Calls, ReleaseList(c) PROVE UseInv'
  BY <1>7 DEF ReleaseList, AfterRelease, Listed
<1>8. ASSUME NEW c \in Calls, ReleasePut(c) PROVE UseInv'
  <2> HIDE DEF Holder
  <2>1. pc[c] = "releasePut" /\ Live(c) /\ sess[c] \in Sessions /\ UNCHANGED <<pods, sess>>
    BY <1>8 DEF ReleasePut
  <2>2. CASE slot[c] \notin seen[c]
    BY <1>8, <2>2 DEF ReleasePut, Holder
  <2>3. CASE slot[c] \in seen[c]
    <3>1. Rewritten(slot[c], None) /\ Holder(slot[c]) = sess[c]
      BY <1>8, <2>1, <2>3, ReleaseWrites DEF CopyInv
    <3>2. \A x \in Slots \ {slot[c]} : Holder(x)' = Holder(x) /\ lease'[x] = lease[x]
      BY <3>1 DEF Rewritten, Holder
    <3>3. \A d \in Calls : pc'[d] \in Using => d # c /\ pc[d] = pc'[d]
      BY <1>8, <2>1 DEF ReleasePut, AfterRelease
    <3>4. \A d \in Calls \ {c} : pc[d] \in Using => slot[d] # slot[c]
      BY <2>1, <3>1, SMTT(30)
    <3>5. UNCHANGED slot
      BY <1>8 DEF ReleasePut
    <3>6. QED
      BY <2>1, <3>2, <3>3, <3>4, <3>5
  <2>4. QED
    BY <2>2, <2>3
<1>9. ASSUME NEW c \in Calls, List(c) PROVE UseInv'
  BY <1>9 DEF List, Listed
<1>10. ASSUME NEW c \in Calls, Renew(c) PROVE UseInv'
  <2>1. pc[c] = "renew" /\ sess[c] \in Sessions /\ UNCHANGED <<sess, slot>>
    BY <1>10 DEF Renew
  <2>2. CASE slot[c] \notin seen[c]
    BY <1>10, <2>2 DEF Renew
  <2>3. CASE slot[c] \in seen[c]
    <3>1. Rewritten(slot[c], sess[c]) /\ pc' = [pc EXCEPT ![c] = "provision"] /\ Holder(slot[c]) = sess[c]
      BY <1>10, <2>1, <2>3, RenewWrites, ZenonT(40) DEF CopyInv
    <3>2. lease'[slot[c]].old = FALSE /\ \A x \in Slots \ {slot[c]} : lease'[x] = lease[x]
      BY <3>1 DEF Rewritten
    <3>3. \A x \in Slots : Holder(x)' = Holder(x)
      BY <1>10, RenewKeeps
    <3>4. \A d \in Calls : d = c \/ pc'[d] = pc[d]
      BY <3>1
    <3>5. QED
      BY <2>1, <3>1, <3>2, <3>3, <3>4
  <2>4. QED
    BY <2>2, <2>3
<1>11. ASSUME NEW c \in Calls, Judge(c) PROVE UseInv'
  BY <1>11 DEF Judge, Reclaimable, Stale
<1>12. ASSUME NEW c \in Calls, Claim(c) PROVE UseInv'
  <2> HIDE DEF Holder
  <2>1. sess[c] \in Sessions /\ Live(c) /\ pc[c] = "claim" /\ UNCHANGED <<sess, pods>>
    BY <1>12 DEF Claim
  <2>2. \A d \in Calls \ {c} : pc'[d] = pc[d] /\ slot'[d] = slot[d] /\ cand'[d] = cand[d]
    BY <1>12 DEF Claim
  <2>3. CASE UNCHANGED <<lease, seen, slot>> /\ pc'[c] \in {"claim", "done"} /\ cand'[c] \subseteq cand[c]
    BY <2>1, <2>2, <2>3 DEF Holder
  <2>4. ASSUME pc' = [pc EXCEPT ![c] = "ensure"], cand' = cand,
               NEW u \in cand[c] \cap seen[c], Rewritten(u, sess[c]), slot' = [slot EXCEPT ![c] = u]
        PROVE  UseInv'
    <3>1. u \in Slots /\ (Holder(u) = None \/ (lease[u].old = TRUE /\ \A q \in pods : q.slot # u))
      BY <2>1, <2>4 DEF FreeInv
    <3>2. Holder(u)' = sess[c] /\ \A x \in Slots \ {u} : Holder(x)' = Holder(x) /\ lease'[x] = lease[x]
      BY <2>1, <2>4 DEF Rewritten, Holder
    <3>3. \A d \in Calls \ {c} : pc[d] \in Using => slot[d] \in Slots \ {u}
      <4>1. \A d \in Calls : pc[d] \in Using => /\ Holder(slot[d]) = sess[d] /\ lease[slot[d]].old = FALSE
                                              /\ slot[d] \in Slots /\ sess[d] # None
        OBVIOUS
      <4>2. QED
        BY <3>1, <4>1
    <3>4. lease'[u].old = FALSE
      BY <2>4 DEF Rewritten
    <3>5. \A d \in Calls \ {c} : pc'[d] \in Using => Holder(slot[d])' = sess[d] /\ lease'[slot'[d]].old = FALSE
      BY <2>2, <3>2, <3>3
    <3>6. QED
      BY <2>1, <2>4, <3>2, <3>4, <3>5
  <2>5. \/ UNCHANGED <<lease, seen, slot>> /\ pc'[c] \in {"claim", "done"} /\ cand'[c] \subseteq cand[c]
        \/ /\ pc' = [pc EXCEPT ![c] = "ensure"] /\ cand' = cand
           /\ \E t \in cand[c] \cap seen[c] : t \in Slots /\ Rewritten(t, sess[c]) /\ slot' = [slot EXCEPT ![c] = t]
    BY <1>12, <2>1, ClaimWrites
  <2>6. QED
    BY <2>3, <2>4, <2>5
<1>13. ASSUME NEW c \in Calls, Ensure(c) PROVE UseInv'
  BY <1>13 DEF Ensure
<1>14. ASSUME NEW c \in Calls, Provision(c) PROVE UseInv'
  BY <1>14 DEF Provision
<1>15. ASSUME NEW c \in Calls, Publish(c) PROVE UseInv'
  BY <1>15 DEF Publish, Fenced
<1>16. ASSUME NEW c \in Calls, Discard(c) PROVE UseInv'
  BY <1>16 DEF Discard, Told
<1>17. ASSUME NEW c \in Calls, Crash(c) PROVE UseInv'
  BY <1>17 DEF Crash
<1>18. ASSUME NEW t \in Slots, Age(t) PROVE UseInv'
  BY <1>18, AgeWrites DEF Age
<1>19. CASE UNCHANGED vars \/ \E p \in dying : PodGone(p)
  BY <1>19 DEF vars, PodGone
<1>20. QED
  BY <1>1, <1>2, <1>3, <1>4, <1>5, <1>6, <1>7, <1>8, <1>9, <1>10, <1>11, <1>12, <1>13, <1>14,
      <1>15, <1>16, <1>17, <1>18, <1>19 DEF Next, Step

\* A slot that was judged free stays free until its Lease is written.
LEMMA FreeStep == ASSUME Undisturbed, IInv, [Next]_vars PROVE FreeInv'
<1> USE PoolAssumption, NoLeaseAssumption DEF Undisturbed, service, call, picking, At, Goto,
    Fault, TypeOK, IInv, Live, Acquiring, Using, FreeInv, OwnInv, LockInv, OneInv, UseInv,
    KindInv, PodSlotInv, PodRoundInv, CopyInv, Pods, Holder, Leases, Rewritten
<1>1. ASSUME NEW c \in Calls, Create(c) PROVE FreeInv'
  BY <1>1 DEF Create
<1>2. ASSUME NEW c \in Calls, Begin(c) PROVE FreeInv'
  BY <1>2 DEF Begin, Plan
<1>3. ASSUME NEW c \in Calls, Commit(c) PROVE FreeInv'
  <2>1. UNCHANGED <<lease, seen, cand, pods>>
    BY <1>3 DEF Commit
  <2>2. \A d \in Calls : pc'[d] \in {"judge", "claim"} => pc[d] = pc'[d]
    <3>1. pc' = [pc EXCEPT ![c] = "stop"]
      BY <1>3, CommitWrites
    <3>2. QED
      BY <3>1
  <2>3. QED
    BY <2>1, <2>2
<1>4. ASSUME NEW c \in Calls, Stop(c) PROVE FreeInv'
  BY <1>4 DEF Stop, Told
<1>5. ASSUME NEW c \in Calls, Finalize(c) PROVE FreeInv'
  BY <1>5 DEF Finalize, Fenced
<1>6. ASSUME NEW c \in Calls, Delete(c) PROVE FreeInv'
  BY <1>6 DEF Delete, Fenced
<1>7. ASSUME NEW c \in Calls, ReleaseList(c) PROVE FreeInv'
  BY <1>7 DEF ReleaseList, AfterRelease, Listed
<1>8. ASSUME NEW c \in Calls, ReleasePut(c) PROVE FreeInv'
  BY <1>8, ReleaseWrites DEF ReleasePut, AfterRelease, Written
<1>9. ASSUME NEW c \in Calls, List(c) PROVE FreeInv'
  BY <1>9 DEF List, Listed
<1>10. ASSUME NEW c \in Calls, Renew(c) PROVE FreeInv'
  BY <1>10, RenewWrites DEF Renew, Written
<1>11. ASSUME NEW c \in Calls, Judge(c) PROVE FreeInv'
  BY <1>11, SMTT(30) DEF Judge, Reclaimable, Stale
<1>12. ASSUME NEW c \in Calls, Claim(c) PROVE FreeInv'
  <2> HIDE DEF Holder
  <2>1. sess[c] \in Sessions /\ Live(c) /\ pc[c] = "claim" /\ UNCHANGED <<sess, pods>>
    BY <1>12 DEF Claim
  <2>2. \A d \in Calls \ {c} : pc'[d] = pc[d] /\ slot'[d] = slot[d] /\ cand'[d] = cand[d]
    BY <1>12 DEF Claim
  <2>3. CASE UNCHANGED <<lease, seen, slot>> /\ pc'[c] \in {"claim", "done"} /\ cand'[c] \subseteq cand[c]
    BY <2>1, <2>2, <2>3 DEF Holder
  <2>4. ASSUME pc' = [pc EXCEPT ![c] = "ensure"], cand' = cand,
               NEW u \in cand[c] \cap seen[c], Rewritten(u, sess[c]), slot' = [slot EXCEPT ![c] = u]
        PROVE  FreeInv'
    <3>1. u \in Slots /\ (Holder(u) = None \/ (lease[u].old = TRUE /\ \A q \in pods : q.slot # u))
      BY <2>1, <2>4 DEF FreeInv
    <3>2. Holder(u)' = sess[c] /\ \A x \in Slots \ {u} : Holder(x)' = Holder(x) /\ lease'[x] = lease[x]
      BY <2>1, <2>4 DEF Rewritten, Holder
    <3>3. \A d \in Calls : seen'[d] = seen[d] \ {u}
      BY <2>4 DEF Rewritten, Written
    <3>4. \A d \in Calls : pc'[d] \in {"judge", "claim"} => d # c /\ pc[d] = pc'[d]
      BY <2>2, <2>4
    <3>5. QED
      BY <2>1, <2>2, <2>4, <3>2, <3>3, <3>4
  <2>5. \/ UNCHANGED <<lease, seen, slot>> /\ pc'[c] \in {"claim", "done"} /\ cand'[c] \subseteq cand[c]
        \/ /\ pc' = [pc EXCEPT ![c] = "ensure"] /\ cand' = cand
           /\ \E t \in cand[c] \cap seen[c] : t \in Slots /\ Rewritten(t, sess[c]) /\ slot' = [slot EXCEPT ![c] = t]
    BY <1>12, <2>1, ClaimWrites
  <2>6. QED
    BY <2>3, <2>4, <2>5
<1>13. ASSUME NEW c \in Calls, Ensure(c) PROVE FreeInv'
  BY <1>13, SMTT(30) DEF Ensure
<1>14. ASSUME NEW c \in Calls, Provision(c) PROVE FreeInv'
  <2>1. UNCHANGED <<lease, seen, cand>> /\ pc[c] = "provision"
    BY <1>14 DEF Provision
  <2>2. \A q \in pods' \ pods : q.slot = slot[c]
    BY <1>14 DEF Provision
  <2>3. \A d \in Calls : pc'[d] \in {"judge", "claim"} => pc[d] = pc'[d]
    BY <1>14 DEF Provision
  <2>4. Holder(slot[c]) # None /\ lease[slot[c]].old = FALSE
    BY <2>1
  <2>5. QED
    BY <2>1, <2>2, <2>3, <2>4
<1>15. ASSUME NEW c \in Calls, Publish(c) PROVE FreeInv'
  BY <1>15 DEF Publish, Fenced
<1>16. ASSUME NEW c \in Calls, Discard(c) PROVE FreeInv'
  BY <1>16 DEF Discard, Told
<1>17. ASSUME NEW c \in Calls, Crash(c) PROVE FreeInv'
  BY <1>17 DEF Crash
<1>18. ASSUME NEW t \in Slots, Age(t) PROVE FreeInv'
  BY <1>18, AgeWrites DEF Age
<1>19. CASE UNCHANGED vars \/ \E p \in dying : PodGone(p)
  BY <1>19 DEF vars, PodGone
<1>20. QED
  BY <1>1, <1>2, <1>3, <1>4, <1>5, <1>6, <1>7, <1>8, <1>9, <1>10, <1>11, <1>12, <1>13, <1>14,
      <1>15, <1>16, <1>17, <1>18, <1>19 DEF Next, Step

\* An empty pool satisfies the invariant.
LEMMA InitHolds == Init => IInv
<1> SUFFICES ASSUME Init PROVE IInv
  OBVIOUS
<1> USE PoolAssumption DEF Init
<1>1. TypeOK
  <2>1. /\ lease \in [Slots -> Leases \cup {None}] /\ fence \in [Sessions -> Calls \cup {None}]
        /\ pods \subseteq Pods /\ dying \subseteq Pods /\ pc \in [Calls -> Labels] /\ kind \in [Calls -> Kinds \cup {None}]
        /\ sess \in [Calls -> Sessions \cup {None}] /\ round \in [Calls -> Calls \cup {None}]
        /\ seen \in [Calls -> SUBSET Slots] /\ cand \in [Calls -> SUBSET Slots]
    BY DEF Labels
  <2>2. rec \in [Sessions -> [state: {"new", "active", "committing", "frozen", "gone"}, round: Calls \cup {None}]]
    OBVIOUS
  <2>3. 0 \in Slots /\ 0 \in 0 .. N /\ 0 \in 0 .. MaxFaults
    BY DEF Slots
  <2>4. QED
    BY <2>1, <2>2, <2>3 DEF TypeOK
<1>2. OwnInv /\ LockInv /\ KindInv /\ RoundInv /\ PodSlotInv /\ PodRoundInv /\ FreeInv
  BY DEF OwnInv, LockInv, KindInv, RoundInv, PodSlotInv, PodRoundInv, FreeInv, Live, Acquiring, Using
<1>3. OneInv /\ CopyInv /\ UseInv
  BY DEF OneInv, CopyInv, UseInv, Holder, Using
<1>4. QED
  BY <1>1, <1>2, <1>3 DEF IInv

\* The invariant of the pool: locks, pods, Leases and the copies of them that calls
\* hold agree in every reachable state.
THEOREM InvHolds == ASSUME Undisturbed PROVE Spec => []IInv
<1>1. Init => IInv
  BY InitHolds
<1>2. IInv /\ [Next]_vars => IInv'
  BY TypeStep, OwnStep, LockStep, KindStep, RoundStep, PodSlotStep, PodRoundStep, OneStep, CopyStep, UseStep, FreeStep
     DEF IInv
<1>3. QED
  BY <1>1, <1>2, PTL DEF Spec

\* Two pods mount the same login slot only while one of them was already told to stop
\* (LeaseAuthPool, "leases login slots exclusively"), whatever calls crash, conflict or
\* reclaim.
THEOREM SlotsAreExclusive == ASSUME Undisturbed PROVE Spec => []SlotExclusive
<1>1. IInv => SlotExclusive
  <2> SUFFICES ASSUME IInv, NEW p \in pods, NEW q \in pods, p.slot = q.slot PROVE p = q
    BY DEF SlotExclusive
  <2> USE DEF IInv, TypeOK, PodSlotInv, PodRoundInv, LockInv, Pods, Live
  <2>1. p.session = q.session
    OBVIOUS
  <2>2. p.round \in Calls /\ q.round \in Calls
    OBVIOUS
  <2>3. p.round = q.round
    BY <2>1, <2>2, ZenonT(40)
  <2>4. QED
    BY <2>1, <2>3
<1>2. QED
  BY <1>1, InvHolds, PTL

\* A session holds one slot at most, so its one Release frees all it has (Acquire,
\* Release).
THEOREM SessionHoldsOneSlot == ASSUME Undisturbed PROVE Spec => []OneSlotPerSession
<1>1. IInv => OneSlotPerSession
  <2> SUFFICES ASSUME IInv, NEW s \in Sessions PROVE Cardinality(Held(s)) <= 1
    BY DEF OneSlotPerSession
  <2>1. \A t, u \in Held(s) : t = u
    BY PoolAssumption DEF IInv, OneInv, Held
  <2>2. CASE Held(s) = {}
    BY <2>2, FS_EmptySet
  <2>3. CASE Held(s) # {}
    <3>1. PICK t \in Held(s) : TRUE
      BY <2>3
    <3>2. Held(s) = {t}
      BY <2>1, <3>1
    <3>3. QED
      BY <3>2, FS_Singleton
  <2>4. QED
    BY <2>2, <2>3
<1>2. QED
  BY <1>1, InvHolds, PTL

\* A Lease changes hands, or is freed, only when every pod that mounts its slot was told
\* to stop (Release, claim, StaleHolder).
THEOREM RunningPodsKeepLease == ASSUME Undisturbed PROVE Spec => RunningKeepsLease
<1>1. IInv /\ IInv' => \A p \in pods : Holder(p.slot) = p.session => Holder(p.slot)' = p.session \/ p \notin pods'
  BY DEF IInv, PodSlotInv
<1>2. QED
  BY <1>1, InvHolds, PTL DEF RunningKeepsLease
=============================================================================
