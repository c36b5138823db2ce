---------------------------- MODULE SignInProofs ----------------------------
(***************************************************************************)
(* Proofs about SignIn, for every number of writes, sign-ins, logins and   *)
(* faults.  The two halves of the state do not meet in the argument:       *)
(* LoginInv is about the login file and its copies, SignInInv about the    *)
(* writes and the sign-in they may be the code of.                         *)
(***************************************************************************)
EXTENDS SignIn, TLAPS

-----------------------------------------------------------------------------
\* The login file.

\* The slot and HOME hold nothing the provider has not given out.
AgeInv ==
    /\ newest <= issued /\ slot <= issued
    /\ home \in Logins => home <= issued

\* A file the pull left in HOME goes away by a logout or a rewrite, a rewrite is of a
\* login, and a sign-in that succeeded left one.
AbsenceInv ==
    /\ placed /\ home = Absent => loggedOut
    /\ home \in MidRewrite => newest # Absent
    /\ pc = "save" => home \in Logins

Usable == newest # Absent /\ ~lost

\* Where the login the provider accepts is: HOME is never behind the slot, HOME is
\* rewritten only while the CLI runs, and between turns either the slot has the
\* login or the agent remembers that it could not copy it.
CopyInv ==
    /\ Usable /\ home \in Logins => home = newest
    /\ Usable /\ home = Absent => slot = newest /\ ~placed
    /\ Usable /\ home \in MidRewrite => pc = "run" /\ slot # newest
    /\ Usable /\ ~unpushed /\ pc \notin {"save", "run", "push"} => slot = newest

LoginInv == SlotTypeOK /\ AgeInv /\ AbsenceInv /\ CopyInv

\* The state of the login file.
slotState == <<slot, home, placed, unpushed, newest, issued, lost, loggedOut, faults>>

LEMMA Bounds == MaxLogin \in Nat /\ MaxLogin >= 1 /\ MaxFaults \in Nat
  BY AuthSlotAssumption

LEMMA LoginInit == Init => LoginInv
<1>. SUFFICES ASSUME Init PROVE LoginInv
  OBVIOUS
<1>1. /\ slot \in {0, 1} /\ newest = slot /\ issued = slot /\ home = 0 /\ pc = "idle"
      /\ placed = FALSE /\ unpushed = FALSE /\ lost = FALSE /\ loggedOut = FALSE /\ faults = 0
  BY DEF Init, SlotInit, Absent
<1>2. SlotTypeOK
  <2>1. slot \in {0} \cup 1 .. MaxLogin
    BY <1>1, Bounds
  <2>2. issued \in 0 .. MaxLogin /\ faults \in 0 .. MaxFaults
    BY <1>1, Bounds
  <2>. QED  BY <1>1, <2>1, <2>2 DEF SlotTypeOK, Absent, Partial, Gone, NoFile, MidRewrite, Logins
<1>3. AgeInv /\ AbsenceInv /\ CopyInv
  BY <1>1, Bounds DEF AgeInv, AbsenceInv, CopyInv, Usable, Absent, Partial, Gone, NoFile, MidRewrite, Logins
<1>. QED  BY <1>2, <1>3 DEF LoginInv

\* Copies back take HOME's login when it has one.
LEMMA CopiedBackIs ==
  ASSUME SlotTypeOK, NEW b \in BOOLEAN
  PROVE  /\ home \in Logins => CopiedBack(b) = home
         /\ home = Partial => CopiedBack(b) = slot
         /\ home \in NoFile => CopiedBack(b) = IF b THEN Absent ELSE slot
  BY Bounds DEF SlotTypeOK, CopiedBack, Absent, Partial, Gone, NoFile, MidRewrite, Logins

LEMMA LoginKept ==
  ASSUME LoginInv, UNCHANGED slotState,
         pc' = pc \/ (pc \notin {"save", "run", "push"} /\ pc' # "save")
  PROVE  LoginInv'
  BY DEF LoginInv, slotState, SlotTypeOK, AgeInv, AbsenceInv, CopyInv, Usable, Absent, Partial, Gone, NoFile, MidRewrite, Logins

LEMMA LoginPull ==
  ASSUME LoginInv, PullTurn
  PROVE  LoginInv'
<1>. USE Bounds DEF LoginInv, SlotTypeOK, AgeInv, AbsenceInv, CopyInv, Usable, Absent, Partial, Gone, NoFile, MidRewrite, Logins
<1>1. /\ pc = "prompt" /\ pc' = "gate" /\ loggedOut' = FALSE
      /\ UNCHANGED <<newest, issued, lost>>
  BY DEF PullTurn, Pull
<1>2. CASE /\ unpushed => home # Partial
           /\ slot' = IF unpushed THEN CopiedBack(FALSE) ELSE slot
           /\ Take(slot') /\ UNCHANGED faults
  <2>1. /\ home' = slot' /\ placed' \in BOOLEAN /\ (placed' <=> slot' # Absent) /\ unpushed' = FALSE
    BY <1>2, Zenon DEF Take
  <2>2. /\ home \in Logins /\ unpushed => slot' = home
        /\ ~(home \in Logins /\ unpushed) => slot' = slot
    BY <1>2, CopiedBackIs
  <2>3. (unpushed => home # Partial) /\ faults' = faults
    BY <1>2
  <2>p1. SlotTypeOK'
    BY <1>1, <2>1, <2>2, <2>3
  <2>p2. AgeInv' /\ AbsenceInv'
    BY <1>1, <2>1, <2>2, <2>3
  <2>p3. CopyInv'
    BY <1>1, <2>1, <2>2, <2>3
  <2>. QED  BY <2>p1, <2>p2, <2>p3
<1>3. CASE PullFails
  <2>1. CASE /\ unpushed
             /\ IF home = Partial THEN UNCHANGED <<slot, faults>>
                                  ELSE Fault /\ slot' \in {slot, CopiedBack(FALSE)}
             /\ placed' = (home \notin NoFile)
             /\ UNCHANGED <<home, unpushed>>
    <3>1. placed' \in BOOLEAN /\ (placed' <=> home \notin NoFile)
      BY <2>1, Zenon
    <3>3. faults' \in 0 .. MaxFaults
      <4>1. CASE home = Partial
        BY <2>1, <4>1
      <4>2. CASE home # Partial
        BY <2>1, <4>2 DEF Fault
      <4>. QED  BY <4>1, <4>2
    <3>2. /\ home \in Logins => slot' \in {slot, home}
          /\ home \notin Logins => slot' = slot
      BY <2>1, CopiedBackIs
    <3>p1. SlotTypeOK'
      BY <1>1, <2>1, <3>1, <3>2, <3>3
    <3>p2. AgeInv' /\ AbsenceInv'
      BY <1>1, <2>1, <3>1, <3>2, <3>3
    <3>p3. CopyInv'
      BY <1>1, <2>1, <3>1, <3>2, <3>3
    <3>. QED  BY <3>p1, <3>p2, <3>p3
  <2>2. CASE /\ unpushed => home # Partial
             /\ Fault
             /\ slot' = IF unpushed THEN CopiedBack(FALSE) ELSE slot
             /\ home' \in {home, slot'}
             /\ placed' = FALSE /\ unpushed' = FALSE
    <3>1. /\ home \in Logins /\ unpushed => slot' = home
          /\ ~(home \in Logins /\ unpushed) => slot' = slot
      BY <2>2, CopiedBackIs
    <3>2. faults' \in 0 .. MaxFaults
      BY <2>2 DEF Fault
    <3>3. slot' \in {Absent} \cup Logins /\ home' \in {Absent, Partial, Gone} \cup Logins
      BY <2>2, <3>1
    <3>4. home' \in {home, slot'} /\ placed' = FALSE /\ unpushed' = FALSE /\ (unpushed => home # Partial)
      BY <2>2
    <3>p1. SlotTypeOK'
      BY <1>1, <3>1, <3>2, <3>3, <3>4
    <3>p2. AgeInv' /\ AbsenceInv'
      BY <1>1, <3>1, <3>2, <3>3, <3>4
    <3>p3. CopyInv'
      BY <1>1, <3>1, <3>2, <3>3, <3>4
    <3>. QED  BY <3>p1, <3>p2, <3>p3
  <2>. QED  BY <1>3, <2>1, <2>2 DEF PullFails
<1>. QED  BY <1>2, <1>3 DEF PullTurn, Pull

LEMMA LoginPush ==
  ASSUME LoginInv, Push, pc \in {"save", "push"}, pc' \in {"run", "idle"}
  PROVE  LoginInv'
<1>. USE Bounds DEF LoginInv, SlotTypeOK, AgeInv, AbsenceInv, CopyInv, Usable, Absent, Partial, Gone, NoFile, MidRewrite, Logins
<1>1. UNCHANGED <<home, placed, newest, issued, lost, loggedOut>>
  BY DEF Push, login
<1>2. CASE slot' = CopiedBack(placed) /\ UNCHANGED <<unpushed, faults>>
  BY <1>1, <1>2, CopiedBackIs
<1>3. CASE Fault /\ unpushed' = TRUE /\ slot' \in {slot, CopiedBack(placed)}
  BY <1>1, <1>3, CopiedBackIs DEF Fault
<1>. QED  BY <1>2, <1>3 DEF Push

LEMMA LoginRun ==
  ASSUME LoginInv, Run
  PROVE  LoginInv'
<1>. USE Bounds DEF LoginInv, SlotTypeOK, AgeInv, AbsenceInv, CopyInv, Usable, Absent, Partial, Gone, NoFile, MidRewrite, Logins,
     slotMem, login, files, Issue
<1>1. pc = "run" /\ pc' = "run"
  BY DEF Run, memory
<1>2. CASE Rotate
  BY <1>1, <1>2 DEF Rotate
<1>3. CASE Rewritten
  BY <1>1, <1>3 DEF Rewritten
<1>4. CASE Logout
  BY <1>1, <1>4 DEF Logout
<1>5. CASE PushIfPresent
  BY <1>1, <1>5, CopiedBackIs DEF PushIfPresent
<1>. QED  BY <1>2, <1>3, <1>4, <1>5 DEF Run

LEMMA LoginStep ==
  ASSUME LoginInv, [Next]_vars
  PROVE  LoginInv'
<1>. USE DEF slotVars, files, slotMem, login, slotState
<1>1. CASE UNCHANGED vars
  BY <1>1, LoginKept DEF vars
<1>2. CASE Write \/ Expire \/ WindowEnds \/ Abort
  BY <1>2, LoginKept DEF Write, Expire, WindowEnds, Abort
<1>3. CASE Dequeue \/ ShowPage \/ Archive
  <2>1. UNCHANGED slotState /\ (pc' = pc \/ (pc \notin {"save", "run", "push"} /\ pc' # "save"))
    BY <1>3, Zenon DEF Dequeue, Classify, ShowPage, Archive
  <2>. QED  BY <2>1, LoginKept
<1>4. CASE CompleteLogin
  <2>1. CASE SignedIn /\ pc' = "save"
    <3>. USE Bounds DEF LoginInv, SlotTypeOK, AgeInv, AbsenceInv, CopyInv, Usable, Absent, Partial, Gone, NoFile, MidRewrite, Logins
    <3>1. issued + 1 \in 1 .. MaxLogin /\ newest' = issued + 1 /\ issued' = issued + 1 /\ home' = issued + 1
      BY <2>1 DEF SignedIn, Issue
    <3>2. UNCHANGED <<slot, placed, unpushed, loggedOut, faults>> /\ lost' = FALSE
      BY <2>1 DEF SignedIn
    <3>p1. SlotTypeOK'
      <4>1. newest' \in Logins /\ home' \in Logins /\ issued' \in 0 .. MaxLogin
        BY <3>1
      <4>. QED  BY <3>2, <4>1
    <3>p2. AgeInv' /\ AbsenceInv'
      BY <2>1 DEF SignedIn, Issue
    <3>p3. CopyInv'
      BY <2>1 DEF SignedIn, Issue
    <3>. QED  BY <3>p1, <3>p2, <3>p3
  <2>2. CASE pc' = "idle" /\ UNCHANGED slotVars
    BY <1>4, <2>2, LoginKept DEF CompleteLogin
  <2>. QED  BY <1>4, <2>1, <2>2 DEF CompleteLogin
<1>5. CASE SaveLogin
  BY <1>5, LoginPush DEF SaveLogin
<1>6. CASE PullTurn
  BY <1>6, LoginPull
<1>7. CASE SubscriptionGate
  <2>1. pc = "gate" /\ pc' # "save" /\ UNCHANGED <<slot, home, placed, unpushed, newest, issued, lost, loggedOut>>
    BY <1>7 DEF SubscriptionGate
  <2>2. faults' \in 0 .. MaxFaults
    BY <1>7, Bounds DEF SubscriptionGate, Fault, LoginInv, SlotTypeOK
  <2>. QED  BY <2>1, <2>2 DEF LoginInv, SlotTypeOK, AgeInv, AbsenceInv, CopyInv, Usable, Absent, Partial, Gone, NoFile, MidRewrite, Logins
<1>8. CASE Run
  BY <1>8, LoginRun
<1>9. CASE FinishRun
  BY <1>9 DEF FinishRun, CLIExits, LoginInv, SlotTypeOK, AgeInv, AbsenceInv, CopyInv, Usable, Absent, Partial, Gone, NoFile, MidRewrite, Logins
<1>10. CASE PushTurn
  BY <1>10, LoginPush DEF PushTurn
<1>11. CASE Restore
  <2>. USE Bounds DEF LoginInv, SlotTypeOK, AgeInv, AbsenceInv, CopyInv, Usable, Absent, Partial, Gone, NoFile, MidRewrite, Logins
  <2>1. /\ pc' = "idle" /\ home' = Absent /\ UNCHANGED <<slot, newest, issued>>
        /\ placed' = FALSE /\ unpushed' = FALSE /\ loggedOut' = FALSE
    BY <1>11 DEF Forget, ProcessEnds, Restore
  <2>2. lost' \in BOOLEAN /\ (lost' <=> lost \/ (newest # Absent /\ slot # newest))
    BY <1>11, Zenon DEF ProcessEnds, Restore
  <2>3. faults' \in 0 .. MaxFaults
    BY <1>11 DEF Fault, Restore
  <2>p1. SlotTypeOK'
    BY <2>1, <2>2, <2>3
  <2>p2. AgeInv' /\ AbsenceInv'
    BY <2>1, <2>2
  <2>p3. CopyInv'
    BY <2>1, <2>2
  <2>. QED  BY <2>p1, <2>p2, <2>p3
<1>12. CASE Restart
  <2>. USE Bounds DEF LoginInv, SlotTypeOK, AgeInv, AbsenceInv, CopyInv, Usable, Absent, Partial, Gone, NoFile, MidRewrite, Logins
  <2>1. /\ pc' = "idle" /\ home' = home /\ UNCHANGED <<slot, newest, issued>>
        /\ placed' = FALSE /\ unpushed' = FALSE /\ loggedOut' = FALSE
    BY <1>12 DEF Forget, ProcessEnds, Restart
  <2>2. lost' \in BOOLEAN /\ (lost' <=> lost \/ (newest # Absent /\ slot # newest))
    BY <1>12, Zenon DEF ProcessEnds, Restart
  <2>3. faults' \in 0 .. MaxFaults
    BY <1>12 DEF Fault, Restart
  <2>p1. SlotTypeOK'
    BY <2>1, <2>2, <2>3
  <2>p2. AgeInv' /\ AbsenceInv'
    BY <2>1, <2>2
  <2>p3. CopyInv'
    BY <2>1, <2>2
  <2>. QED  BY <2>p1, <2>p2, <2>p3
<1>. QED  BY <1>1, <1>2, <1>3, <1>4, <1>5, <1>6, <1>7, <1>8, <1>9, <1>10, <1>11, <1>12 DEF Next

\* The invariant of the login file.
THEOREM LoginInvHolds == Spec => []LoginInv
  BY LoginInit, LoginStep, PTL DEF Spec

\* The login the provider accepts is in the slot or in HOME, whichever copies fail and
\* in whichever order (pull, push and copyBackLocked of auth_slot.go).
THEOREM LoginIsKept == Spec => []NewestLoginKept
<1>1. LoginInv => NewestLoginKept
  BY Bounds DEF LoginInv, SlotTypeOK, CopyInv, Usable, NewestLoginKept, Absent, Partial, Gone, NoFile, MidRewrite, Logins
<1>. QED  BY <1>1, LoginInvHolds, PTL

LEMMA ClearStep ==
  ASSUME LoginInv, [Next]_vars, slot # Absent, slot' = Absent
  PROVE  pc = "push" /\ (loggedOut \/ home = Gone)
<1>. USE Bounds DEF LoginInv, SlotTypeOK, AbsenceInv, Absent, Partial, Gone, NoFile, MidRewrite, Logins
<1>. USE DEF slotVars, files, slotMem, login
<1>1. CASE UNCHANGED slot
  BY <1>1
<1>2. CASE Push /\ pc \in {"save", "push"}
  <2>1. slot' = CopiedBack(placed)
    BY <1>2 DEF Push
  <2>2. home \in NoFile /\ placed
    BY <2>1, CopiedBackIs
  <2>. QED  BY <1>2, <2>2
<1>3. CASE Pull
  <2>1. slot' = slot \/ slot' = CopiedBack(FALSE)
    BY <1>3 DEF Pull, PullFails
  <2>. QED  BY <2>1, CopiedBackIs
<1>4. CASE PushIfPresent
  BY <1>4, CopiedBackIs DEF PushIfPresent
<1>5. UNCHANGED slot \/ (Push /\ pc \in {"save", "push"}) \/ Pull \/ PushIfPresent
  <2>1. CASE SaveLogin \/ PullTurn \/ PushTurn \/ FinishRun
    BY <2>1 DEF SaveLogin, PullTurn, PushTurn, FinishRun, CLIExits
  <2>2. CASE Run
    BY <2>2 DEF Run, Rotate, Rewritten, Logout
  <2>3. CASE CompleteLogin \/ SubscriptionGate
    BY <2>3 DEF CompleteLogin, SignedIn, SubscriptionGate
  <2>4. CASE Restore \/ Restart
    BY <2>4 DEF Restore, Restart, ProcessEnds
  <2>5. CASE Write \/ Dequeue \/ ShowPage \/ Expire \/ WindowEnds \/ Archive \/ Abort \/ UNCHANGED vars
    BY <2>5 DEF Write, Dequeue, ShowPage, Expire, WindowEnds, Archive, Abort, vars
  <2>. QED  BY <2>1, <2>2, <2>3, <2>4, <2>5 DEF Next
<1>. QED  BY <1>1, <1>2, <1>3, <1>4, <1>5

\* No pull, poll or dead process takes the login out of the slot, and no failed pull makes
\* the copy at a turn's end take it: that copy removes it only after the CLI logged out, or
\* was killed while its rewrite had the file gone (copyBackLocked's removal, and the placed
\* flag of pull).
THEOREM OnlyLogoutClears == Spec => SlotClearedByLogout
<1>1. LoginInv /\ [Next]_vars
        => [slot # Absent /\ slot' = Absent => pc = "push" /\ (loggedOut \/ home = Gone)]_vars
  BY ClearStep
<1>. QED  BY <1>1, LoginInvHolds, PTL DEF Spec, SlotClearedByLogout

-----------------------------------------------------------------------------
\* The writes and the sign-ins.

\* The writes that have left the queue, those a dead process took with it included.
Taken == Len(sent) - Len(queue)

\* Writes are queued and counted in the order in which they were accepted.
QueueInv ==
    /\ Len(queue) <= enqueued /\ enqueued <= Len(sent) /\ Len(sent) <= MaxWrites
    /\ \A i \in 1 .. Len(queue) :
          queue[i].seq = enqueued - Len(queue) + i /\ queue[i].write = Taken + i

\* A late code of the sign-in that ended is still expected.
Ahead == dropped # None /\ dropped.until = "ahead"

\* At most one sign-in is known of at a time, the last one; what runs or is held has
\* left the queue.
StageInv ==
    /\ pending # None => dropped = None /\ pending.id = started /\ pending.held <= Taken
    /\ dropped # None => dropped.id <= started
    /\ Ahead => dropped.id = started
    /\ dropped # None /\ ~Ahead => dropped.id \in forgotten
    /\ pc \in {"prompt", "gate"} => pending = None
    /\ pc \in {"code", "save", "prompt", "gate"} => turn.prompt # None
    /\ pc \in {"code", "notice"} => turn.signIn # None
    /\ turn.prompt # None => turn.prompt <= Taken
    /\ \A w \in ran : w <= Taken
    /\ \A l \in forgotten : l <= started

\* The arrival count of a sign-in points at its first write, which is not yet taken.
Covers(after) ==
    /\ enqueued - Len(queue) <= after /\ after <= enqueued
    /\ after = enqueued => first[started] = None
    /\ after # enqueued => first[started] = after + 1 + (Len(sent) - enqueued)

WatchInv ==
    /\ pending # None => Covers(pending.after)
    /\ Ahead => Covers(dropped.after)

\* Sign-in l still takes the write that comes first after it.
Watched(l) == l = started /\ (pending # None \/ Ahead)

\* Write w runs as a prompt, has run, or is held to run.
Prompted(w) == w \in ran \/ w = turn.prompt \/ (pending # None /\ w = pending.held)

FirstOf(l) ==
    /\ l > started => first[l] = None
    /\ first[l] # None => first[l] <= Len(sent)
    /\ l <= started /\ l \notin forgotten /\ ~Watched(l) => first[l] # None /\ first[l] <= Taken
    /\ l \notin forgotten /\ first[l] # None => ~Prompted(first[l])

\* A sign-in this process remembers has taken its first write, or will: that write
\* is never a prompt.
FirstInv == \A l \in SignIns : FirstOf(l)

SignInInv == ConversationTypeOK /\ QueueInv /\ StageInv /\ WatchInv /\ FirstInv

LEMMA Limits == MaxWrites \in Nat /\ MaxSignIns \in Nat /\ None \notin Nat
  BY SignInAssumption

\* None is no write, no sign-in and none of the two records.
LEMMA NoneIsNone ==
  /\ None \notin Writes /\ None \notin SignIns
  /\ \A r \in Held : r # None
  /\ \A r \in Ended : r # None
  BY Limits, NoneAssumption DEF Writes, SignIns

LEMMA SignInInit == Init => SignInInv
<1>. SUFFICES ASSUME Init PROVE SignInInv
  OBVIOUS
<1>. USE Limits DEF Init
<1>1. ConversationTypeOK
  BY DEF ConversationTypeOK, NoTurn, Turns
<1>2. QueueInv
  BY DEF QueueInv
<1>3. StageInv
  BY DEF StageInv, Ahead, NoTurn
<1>4. WatchInv
  BY DEF WatchInv, Ahead
<1>5. FirstInv
  BY DEF FirstInv, FirstOf, SignIns
<1>. QED  BY <1>1, <1>2, <1>3, <1>4, <1>5 DEF SignInInv

LEMMA SignInWrite ==
  ASSUME SignInInv, Write
  PROVE  SignInInv'
<1>. USE Limits
<1>1. PICK what \in {None} \cup shown : sent' = Append(sent, what)
  BY DEF Write
<1>2. /\ enqueued' = enqueued + 1 /\ Len(sent) < MaxWrites
      /\ queue' = Append(queue, [write |-> Len(sent'), seq |-> enqueued'])
      /\ first' = IF started = 0 \/ first[started] # None THEN first
                  ELSE [first EXCEPT ![started] = Len(sent')]
      /\ UNCHANGED <<pending, dropped, pc, turn, accepting, procs, started, shown, forgotten, ran, workload>>
  BY DEF Write, slotVars
<1>. USE DEF SignInInv
<1>3. /\ sent \in Seq({None} \cup SignIns) /\ what \in {None} \cup SignIns /\ enqueued \in Nat
      /\ queue \in Seq(Jobs) /\ enqueued <= Len(sent) /\ Len(sent) \in Nat /\ Len(queue) \in Nat
  BY DEF ConversationTypeOK, QueueInv
<1>4. /\ sent' \in Seq({None} \cup SignIns) /\ Len(sent') = Len(sent) + 1
  BY <1>1, <1>3
<1>5. [write |-> Len(sent'), seq |-> enqueued'] \in Jobs
  BY <1>2, <1>3, <1>4 DEF Jobs, Writes
<1>6. /\ queue' \in Seq(Jobs) /\ Len(queue') = Len(queue) + 1
      /\ \A i \in 1 .. Len(queue) : queue'[i] = queue[i]
      /\ queue'[Len(queue) + 1] = [write |-> Len(sent'), seq |-> enqueued']
  BY <1>2, <1>3, <1>5
<1>7. Taken' = Taken
  BY <1>3, <1>4, <1>6 DEF Taken
<1>8. /\ first' \in [SignIns -> Writes \cup {None}]
      /\ \A l \in SignIns : l # started => first'[l] = first[l]
      /\ \A l \in SignIns : l = started => first'[l] = IF first[l] # None THEN first[l] ELSE Len(sent) + 1
  BY <1>2, <1>3, <1>4 DEF ConversationTypeOK, Writes, SignIns
<1>c. ConversationTypeOK'
  BY <1>2, <1>3, <1>4, <1>6, <1>8 DEF ConversationTypeOK
<1>q. QueueInv'
  <2>1. Len(queue') <= enqueued' /\ enqueued' <= Len(sent') /\ Len(sent') <= MaxWrites
    BY <1>2, <1>3, <1>4, <1>6 DEF QueueInv
  <2>2. ASSUME NEW i \in 1 .. Len(queue')
        PROVE  queue'[i].seq = enqueued' - Len(queue') + i /\ queue'[i].write = Taken' + i
    <3>1. CASE i \in 1 .. Len(queue)
      BY <1>2, <1>3, <1>6, <1>7, <3>1 DEF QueueInv
    <3>2. CASE i = Len(queue) + 1
      BY <1>2, <1>3, <1>4, <1>6, <1>7, <3>2 DEF Taken
    <3>. QED  BY <1>3, <1>6, <2>2, <3>1, <3>2
  <2>. QED  BY <2>1, <2>2 DEF QueueInv
<1>s. StageInv'
  BY <1>2, <1>7 DEF StageInv, Ahead
<1>w. WatchInv'
  <2>1. ASSUME NEW after \in 0 .. MaxWrites, Covers(after), started \in SignIns
        PROVE  Covers(after)'
    BY <1>2, <1>3, <1>4, <1>6, <1>8, <2>1 DEF Covers, Writes
  <2>2. CASE pending # None
    <3>1. pending.after \in 0 .. MaxWrites /\ started \in SignIns
      BY <2>2 DEF ConversationTypeOK, StageInv, Held
    <3>. QED  BY <1>2, <2>1, <2>2, <3>1 DEF WatchInv, Ahead, StageInv
  <2>3. CASE Ahead
    <3>1. dropped.after \in 0 .. MaxWrites /\ started \in SignIns
      BY <2>3 DEF ConversationTypeOK, StageInv, Ended, Ahead
    <3>. QED  BY <1>2, <2>1, <2>3, <3>1 DEF WatchInv, Ahead, StageInv
  <2>. QED  BY <1>2, <2>2, <2>3 DEF WatchInv, Ahead
<1>f. FirstInv'
  <2>1. ASSUME NEW l \in SignIns
        PROVE  FirstOf(l)'
    <3>1. FirstOf(l) /\ (Watched(l)' <=> Watched(l)) /\ l \in Nat /\ started \in Nat
      BY <1>2 DEF FirstInv, Watched, Ahead, SignIns, ConversationTypeOK
    <3>2. \A w : Prompted(w)' <=> Prompted(w)
      BY <1>2 DEF Prompted
    <3>3. ~Prompted(Len(sent) + 1)
      BY <1>3, NoneIsNone DEF Prompted, StageInv, Taken, ConversationTypeOK, Turns, Held, Writes
    <3>4. first[l] \in Writes \cup {None} /\ (first[l] # None => first[l] \in Nat)
      BY DEF ConversationTypeOK, Writes
    <3>5. CASE first'[l] = first[l]
      BY <1>2, <1>3, <1>4, <1>7, <3>1, <3>2, <3>4, <3>5 DEF FirstOf
    <3>6. CASE l = started /\ first[l] = None /\ first'[l] = Len(sent) + 1
      <4>1. l <= started /\ l \notin forgotten => Watched(l)
        BY <3>1, <3>6 DEF FirstOf
      <4>. QED  BY <1>2, <1>3, <1>4, <1>7, <3>1, <3>2, <3>3, <3>6, <4>1 DEF FirstOf
    <3>. QED  BY <1>8, <3>5, <3>6
  <2>. QED  BY <2>1, <1>2 DEF FirstInv
<1>. QED  BY <1>c, <1>q, <1>s, <1>w, <1>f

\* The write at the head of the queue is the next one, and leaves.
LEMMA HeadLeaves ==
  ASSUME SignInInv, queue # <<>>, queue' = Tail(queue), UNCHANGED <<sent, enqueued>>
  PROVE  /\ queue' \in Seq(Jobs) /\ Len(queue') = Len(queue) - 1 /\ Len(queue) > 0
         /\ Taken \in Nat /\ Taken' = Taken + 1
         /\ Head(queue).write = Taken + 1 /\ Head(queue).write \in Writes
         /\ Head(queue).seq = enqueued - Len(queue) + 1
         /\ QueueInv'
<1>. USE Limits DEF SignInInv
<1>1. /\ queue \in Seq(Jobs) /\ Len(queue) \in Nat /\ Len(sent) \in Nat /\ enqueued \in Nat
  BY DEF ConversationTypeOK
<1>2. Len(queue) > 0
  BY <1>1
<1>3. /\ queue' \in Seq(Jobs) /\ Len(queue') = Len(queue) - 1
      /\ \A i \in 1 .. Len(queue') : queue'[i] = queue[i + 1]
      /\ Head(queue) = queue[1] /\ queue[1] \in Jobs
  BY <1>1, <1>2
<1>4. Taken \in Nat /\ Taken' = Taken + 1
  BY <1>1, <1>3 DEF Taken, QueueInv
<1>5. Head(queue).write = Taken + 1 /\ Head(queue).seq = enqueued - Len(queue) + 1
  BY <1>1, <1>2, <1>3, <1>4 DEF QueueInv
<1>6. Head(queue).write \in Writes
  BY <1>3 DEF Jobs
<1>7. QueueInv'
  <2>1. Len(queue') <= enqueued' /\ enqueued' <= Len(sent') /\ Len(sent') <= MaxWrites
    BY <1>1, <1>3 DEF QueueInv
  <2>2. ASSUME NEW i \in 1 .. Len(queue')
        PROVE  queue'[i].seq = enqueued' - Len(queue') + i /\ queue'[i].write = Taken' + i
    <3>1. i + 1 \in 1 .. Len(queue) /\ queue'[i] = queue[i + 1]
      BY <1>1, <1>3
    <3>2. queue[i + 1].seq = enqueued - Len(queue) + (i + 1) /\ queue[i + 1].write = Taken + (i + 1)
      BY <3>1 DEF QueueInv
    <3>. QED  BY <1>1, <1>3, <1>4, <3>1, <3>2
  <2>. QED  BY <2>1, <2>2 DEF QueueInv
<1>. QED  BY <1>2, <1>3, <1>4, <1>5, <1>6, <1>7

LEMMA SignInDequeue ==
  ASSUME SignInInv, Dequeue
  PROVE  SignInInv'
<1>. USE Limits DEF SignInInv
<1>. DEFINE job == Head(queue)
<1>1. /\ pc = "idle" /\ queue # <<>> /\ queue' = Tail(queue) /\ Classify(job)
      /\ UNCHANGED <<sent, enqueued, accepting, procs, started, shown, first, forgotten, ran, workload>>
  BY DEF Dequeue, history, slotVars
<1>2. /\ queue' \in Seq(Jobs) /\ Len(queue') = Len(queue) - 1 /\ Len(queue) > 0
      /\ Taken \in Nat /\ Taken' = Taken + 1
      /\ job.write = Taken + 1 /\ job.write \in Writes
      /\ job.seq = enqueued - Len(queue) + 1
  BY <1>1, HeadLeaves
<1>q. QueueInv'
  BY <1>1, HeadLeaves
<1>. HIDE DEF job
<1>3. /\ Len(queue) \in Nat /\ Len(sent) \in Nat /\ enqueued \in Nat /\ started \in Nat /\ Len(queue) <= enqueued
      /\ Taken = Len(sent) - Len(queue)
      /\ \A l \in SignIns : l \in Nat /\ first[l] \in Writes \cup {None}
      /\ \A w \in Writes : w \in Nat /\ w # None
  BY DEF ConversationTypeOK, SignIns, Writes, QueueInv, Taken
<1>4. /\ pending # None => /\ pending \in Held /\ pending.id = started /\ started \in SignIns /\ dropped = None
                           /\ pending.held \in Writes /\ pending.held <= Taken /\ pending.after \in Nat
                           /\ Covers(pending.after)
      /\ dropped # None => dropped \in Ended /\ dropped.after \in Nat
      /\ Ahead => /\ started \in SignIns /\ dropped.id = started /\ dropped.after \in Nat
                  /\ Covers(dropped.after)
  BY DEF ConversationTypeOK, StageInv, WatchInv, Held, Ended, Ahead
<1>5. \A l \in SignIns : FirstOf(l)
  BY DEF FirstInv
<1>6. CASE pending # None /\ job.seq <= pending.after
  <2>1. /\ pc' = "idle" /\ turn' = NoTurn /\ UNCHANGED <<pending, dropped>>
    BY <1>1, <1>6 DEF Classify
  <2>c. ConversationTypeOK'
    BY <1>1, <1>2, <2>1 DEF ConversationTypeOK, NoTurn, Turns
  <2>s. StageInv'
    BY <1>1, <1>2, <1>3, <1>4, <1>6, <2>1, NoneIsNone DEF StageInv, Ahead, NoTurn, ConversationTypeOK
  <2>w. WatchInv'
    BY <1>1, <1>2, <1>3, <1>4, <1>6, <2>1 DEF WatchInv, Ahead, Covers
  <2>f. FirstInv'
    BY <1>1, <1>2, <1>3, <1>4, <1>5, <1>6, <2>1 DEF FirstInv, FirstOf, Watched, Prompted, Ahead, NoTurn
  <2>. QED  BY <1>q, <2>c, <2>s, <2>w, <2>f
<1>7. CASE pending # None /\ ~(job.seq <= pending.after)
  <2>1. /\ pc' = "code" /\ turn' = [write |-> job.write, signIn |-> pending.id, prompt |-> pending.held]
        /\ pending' = None /\ dropped = None /\ UNCHANGED dropped
    BY <1>1, <1>4, <1>7 DEF Classify, Turn
  <2>2. /\ first[started] = Taken + 1 /\ started \in SignIns
    BY <1>2, <1>3, <1>4, <1>7, SMTT(30) DEF Covers
  <2>c. ConversationTypeOK'
    BY <1>1, <1>2, <1>4, <1>7, <2>1 DEF ConversationTypeOK, Turns
  <2>s. StageInv'
    BY <1>1, <1>2, <1>3, <1>4, <1>7, <2>1, NoneIsNone, SMTT(30) DEF StageInv, Ahead, ConversationTypeOK
  <2>w. WatchInv'
    BY <2>1 DEF WatchInv, Ahead
  <2>f. FirstInv'
    <3>1. ASSUME NEW l \in SignIns
          PROVE  FirstOf(l)'
      <4>1. CASE l = started
        BY <1>1, <1>2, <1>3, <1>4, <1>5, <1>7, <2>1, <2>2, <4>1 DEF FirstOf, Watched, Prompted, Ahead
      <4>2. CASE l # started
        BY <1>1, <1>2, <1>3, <1>4, <1>5, <1>7, <2>1, <2>2, <4>2 DEF FirstOf, Watched, Prompted, Ahead
      <4>. QED  BY <4>1, <4>2
    <3>. QED  BY <3>1 DEF FirstInv
  <2>. QED  BY <1>q, <2>c, <2>s, <2>w, <2>f
<1>8. CASE pending = None /\ Ahead /\ job.seq > dropped.after
  <2>1. pc' = "idle" /\ turn' = NoTurn /\ dropped' = None /\ pending' = None
    BY <1>1, <1>8 DEF Classify, Ahead
  <2>2. /\ first[started] = Taken + 1 /\ started \in SignIns
    BY <1>2, <1>3, <1>4, <1>8, SMTT(30) DEF Covers
  <2>c. ConversationTypeOK'
    BY <1>1, <1>2, <2>1 DEF ConversationTypeOK, NoTurn, Turns
  <2>s. StageInv'
    BY <1>1, <1>2, <1>3, <2>1, NoneIsNone DEF StageInv, Ahead, NoTurn, ConversationTypeOK
  <2>w. WatchInv'
    BY <2>1 DEF WatchInv, Ahead
  <2>f. FirstInv'
    <3>1. ASSUME NEW l \in SignIns
          PROVE  FirstOf(l)'
      <4>1. CASE l = started
        BY <1>1, <1>2, <1>3, <1>5, <1>8, <2>1, <2>2, <4>1 DEF FirstOf, Watched, Prompted, Ahead, NoTurn, StageInv
      <4>2. CASE l # started
        BY <1>1, <1>2, <1>3, <1>5, <1>8, <2>1, <2>2, <4>2 DEF FirstOf, Watched, Prompted, Ahead, NoTurn
      <4>. QED  BY <4>1, <4>2
    <3>. QED  BY <3>1 DEF FirstInv
  <2>. QED  BY <1>q, <2>c, <2>s, <2>w, <2>f
<1>9. CASE pending = None /\ ~(Ahead /\ job.seq > dropped.after)
  <2>1. /\ pc' = "prompt" /\ turn' = [write |-> job.write, signIn |-> None, prompt |-> job.write]
        /\ pending' = None /\ dropped' = IF Ahead THEN dropped ELSE None
    BY <1>1, <1>9 DEF Classify, Ahead, Turn
  <2>2. Ahead' <=> Ahead
    BY <2>1 DEF Ahead
  <2>c. ConversationTypeOK'
    BY <1>1, <1>2, <2>1 DEF ConversationTypeOK, Turns
  <2>s. StageInv'
    BY <1>1, <1>2, <1>3, <1>4, <2>1, <2>2, NoneIsNone DEF StageInv, ConversationTypeOK
  <2>w. WatchInv'
    BY <1>1, <1>2, <1>3, <1>4, <1>9, <2>1, <2>2 DEF WatchInv, Covers
  <2>f. FirstInv'
    <3>1. ASSUME NEW l \in SignIns
          PROVE  FirstOf(l)'
      <4>1. Watched(l)' <=> Watched(l)
        BY <1>1, <1>9, <2>1, <2>2 DEF Watched
      <4>2. l \notin forgotten => first[l] # job.write
        <5>1. CASE Watched(l)
          BY <1>2, <1>3, <1>4, <1>9, <5>1 DEF Watched, Covers
        <5>2. CASE ~Watched(l)
          BY <1>2, <1>3, <1>5, <5>2 DEF FirstOf
        <5>. QED  BY <5>1, <5>2
      <4>3. l \notin forgotten /\ first[l] # None => ~Prompted(first[l])'
        BY <1>1, <1>5, <2>1, <4>2 DEF FirstOf, Prompted
      <4>. QED  BY <1>1, <1>2, <1>3, <1>5, <4>1, <4>3 DEF FirstOf
    <3>. QED  BY <3>1 DEF FirstInv
  <2>. QED  BY <1>q, <2>c, <2>s, <2>w, <2>f
<1>. QED  BY <1>6, <1>7, <1>8, <1>9

\* The worker goes on with its write: what it runs is the prompt of its turn.
LEMMA SignInWorker ==
  ASSUME SignInInv,
         UNCHANGED <<workload, sent, queue, enqueued, pending, dropped, started, first, forgotten>>,
         turn' \in Turns, turn'.prompt \in {turn.prompt, None},
         ran' \subseteq ran \cup {turn.prompt}, None \notin ran',
         procs' \subseteq SignIns, shown' \subseteq SignIns, accepting' \in BOOLEAN,
         pc' \in {"idle", "save", "gate", "run", "push"},
         pc' = "gate" => pc = "prompt",
         pc' \in {"save", "gate"} => turn'.prompt # None
  PROVE  SignInInv'
<1>. USE Limits DEF SignInInv
<1>1. Taken' = Taken
  BY DEF Taken
<1>c. ConversationTypeOK'
  <2>1. ran' \subseteq Writes
    BY DEF ConversationTypeOK, Turns
  <2>. QED  BY <2>1 DEF ConversationTypeOK
<1>q. QueueInv'
  BY <1>1 DEF QueueInv
<1>s. StageInv'
  BY <1>1 DEF StageInv, Ahead
<1>w. WatchInv'
  BY DEF WatchInv, Covers, Ahead
<1>f. FirstInv'
  <2>1. ASSUME NEW l \in SignIns
        PROVE  FirstOf(l)'
    <3>1. FirstOf(l) /\ (Watched(l)' <=> Watched(l))
      BY DEF FirstInv, Watched, Ahead
    <3>2. ASSUME NEW w \in Writes, Prompted(w)'
          PROVE  Prompted(w)
      BY <3>2, NoneIsNone DEF Prompted
    <3>3. first[l] # None => first[l] \in Writes
      BY DEF ConversationTypeOK
    <3>. QED  BY <1>1, <3>1, <3>2, <3>3 DEF FirstOf
  <2>. QED  BY <2>1 DEF FirstInv
<1>. QED  BY <1>c, <1>q, <1>s, <1>w, <1>f

\* A sign-in starts: no write has come after it.
LEMMA SignInStarts ==
  ASSUME SignInInv, pc = "gate", started < MaxSignIns, started' = started + 1,
         procs' = procs \cup {started'},
         pending' = [id |-> started', held |-> turn.prompt, after |-> enqueued],
         dropped' = None,
         forgotten' = IF dropped = None THEN forgotten ELSE forgotten \cup {dropped.id},
         pc' = "notice", turn' = [write |-> turn.write, signIn |-> started', prompt |-> None],
         UNCHANGED <<workload, sent, queue, enqueued, first, ran, shown, accepting>>
  PROVE  SignInInv'
<1>. USE Limits DEF SignInInv
<1>1. /\ started \in Nat /\ enqueued \in Nat /\ Len(queue) \in Nat /\ Len(sent) \in Nat
      /\ enqueued \in 0 .. MaxWrites /\ Len(queue) <= enqueued /\ Taken' = Taken
      /\ started + 1 \in SignIns /\ pending = None
      /\ turn.prompt \in Writes /\ turn.prompt <= Taken /\ turn.write \in Writes \cup {None}
  BY DEF ConversationTypeOK, QueueInv, SignIns, StageInv, Turns, Taken
<1>2. pending' \in Held /\ pending' # None
  BY <1>1, NoneIsNone DEF Held
<1>3. dropped # None => dropped.id \in SignIns /\ dropped.id <= started
  BY DEF ConversationTypeOK, StageInv, Ended
<1>c. ConversationTypeOK'
  <2>1. turn' \in Turns
    BY <1>1 DEF Turns
  <2>2. forgotten' \subseteq SignIns /\ procs' \subseteq SignIns /\ started' \in 0 .. MaxSignIns
    BY <1>1, <1>3 DEF ConversationTypeOK
  <2>. QED  BY <1>2, <2>1, <2>2 DEF ConversationTypeOK
<1>q. QueueInv'
  BY <1>1 DEF QueueInv
<1>s. StageInv'
  <2>1. \A l \in forgotten' : l <= started'
    BY <1>1, <1>3 DEF StageInv, ConversationTypeOK, SignIns
  <2>2. /\ pending'.id = started' /\ pending'.held <= Taken'
        /\ turn'.signIn # None /\ turn'.prompt = None
    BY <1>1, NoneIsNone
  <2>. QED  BY <1>1, <2>1, <2>2 DEF StageInv, Ahead
<1>4. \A l \in SignIns : FirstOf(l) /\ l \in Nat
  BY DEF FirstInv, SignIns
<1>w. WatchInv'
  <2>1. first[started + 1] = None
    BY <1>1, <1>4 DEF FirstOf
  <2>. QED  BY <1>1, <2>1 DEF WatchInv, Covers, Ahead
<1>f. FirstInv'
  <2>1. ASSUME NEW l \in SignIns
        PROVE  FirstOf(l)'
    <3>1. FirstOf(l) /\ l \in Nat /\ (Watched(l)' <=> l = started + 1)
      BY <1>2, <1>4 DEF Watched
    <3>2. \A w \in Writes : Prompted(w)' => Prompted(w)
      BY <1>1, <1>2, NoneIsNone DEF Prompted
    <3>3. first[l] # None => first[l] \in Writes
      BY DEF ConversationTypeOK
    <3>4. l \notin forgotten' => l \notin forgotten /\ ~Watched(l)
      BY <1>1 DEF Watched, Ahead, StageInv
    <3>. QED  BY <1>1, <3>1, <3>2, <3>3, <3>4 DEF FirstOf
  <2>. QED  BY <2>1 DEF FirstInv
<1>. QED  BY <1>c, <1>q, <1>s, <1>w, <1>f

\* A sign-in ends without its code, and is watched as before.
LEMMA SignInDropped ==
  ASSUME SignInInv, pending # None, DropPendingLogin, accepting' \in BOOLEAN,
         UNCHANGED <<workload, sent, queue, enqueued, pc, turn, started, shown, first, forgotten, ran>>
  PROVE  SignInInv'
<1>. USE Limits DEF SignInInv
<1>1. /\ pending' = None /\ procs' \subseteq procs
      /\ dropped' = [id |-> pending.id, after |-> pending.after, until |-> "ahead"]
  BY DEF DropPendingLogin
<1>2. pending.id \in SignIns /\ pending.id = started /\ pending.after \in 0 .. MaxWrites /\ Taken' = Taken
  BY DEF ConversationTypeOK, Held, StageInv, Taken
<1>3. dropped' \in Ended /\ dropped' # None /\ Ahead'
  BY <1>1, <1>2, NoneIsNone DEF Ended, Ahead
<1>c. ConversationTypeOK'
  BY <1>1, <1>3 DEF ConversationTypeOK
<1>q. QueueInv'
  BY <1>2 DEF QueueInv
<1>s. StageInv'
  BY <1>1, <1>2, <1>3 DEF StageInv, SignIns
<1>w. WatchInv'
  BY <1>1 DEF WatchInv, Covers
<1>f. FirstInv'
  BY <1>1, <1>2, <1>3 DEF FirstInv, FirstOf, Watched, Prompted
<1>. QED  BY <1>c, <1>q, <1>s, <1>w, <1>f

LEMMA SignInWindow ==
  ASSUME SignInInv, WindowEnds
  PROVE  SignInInv'
<1>. USE Limits DEF SignInInv
<1>1. /\ Ahead /\ dropped' = [dropped EXCEPT !.until = "past"]
      /\ forgotten' = forgotten \cup {dropped.id}
      /\ UNCHANGED <<workload, queue, enqueued, pending, pc, turn, accepting, procs, sent, started, shown, first, ran>>
  BY DEF WindowEnds, Ahead, slotVars
<1>2. dropped \in Ended /\ dropped.id \in SignIns /\ dropped.id = started /\ pending = None /\ Taken' = Taken
  BY <1>1 DEF ConversationTypeOK, Ended, StageInv, Ahead, Taken
<1>3. dropped' \in Ended /\ dropped'.id = dropped.id /\ ~Ahead'
  BY <1>1, <1>2 DEF Ended, Ahead
<1>c. ConversationTypeOK'
  BY <1>1, <1>2, <1>3 DEF ConversationTypeOK
<1>q. QueueInv'
  BY <1>1, <1>2 DEF QueueInv
<1>s. StageInv'
  BY <1>1, <1>2, <1>3 DEF StageInv, SignIns
<1>w. WatchInv'
  BY <1>1, <1>2, <1>3 DEF WatchInv
<1>f. FirstInv'
  BY <1>1, <1>2, <1>3 DEF FirstInv, FirstOf, Watched, Prompted
<1>. QED  BY <1>c, <1>q, <1>s, <1>w, <1>f

LEMMA SignInForgotten ==
  ASSUME SignInInv, Forget
  PROVE  SignInInv'
<1>. USE Limits DEF SignInInv
<1>1. /\ queue' = <<>> /\ enqueued' = 0 /\ pending' = None /\ dropped' = None
      /\ pc' = "idle" /\ turn' = NoTurn /\ accepting' = TRUE /\ procs' = {}
      /\ forgotten' = 1 .. started
      /\ UNCHANGED <<workload, sent, started, shown, first, ran>>
  BY DEF Forget
<1>2. /\ Len(sent) \in Nat /\ Taken' = Len(sent) /\ Taken <= Taken' /\ started \in 0 .. MaxSignIns
      /\ Len(queue) \in Nat /\ Taken \in Nat /\ Len(sent) <= MaxWrites
  BY <1>1 DEF Taken, ConversationTypeOK, QueueInv
<1>c. ConversationTypeOK'
  BY <1>1, <1>2 DEF ConversationTypeOK, SignIns, NoTurn, Turns
<1>q. QueueInv'
  BY <1>1, <1>2 DEF QueueInv
<1>s. StageInv'
  BY <1>1, <1>2 DEF StageInv, Ahead, NoTurn, ConversationTypeOK, Writes
<1>w. WatchInv'
  BY <1>1 DEF WatchInv, Ahead
<1>f. FirstInv'
  BY <1>1, <1>2 DEF FirstInv, FirstOf, SignIns, ConversationTypeOK
<1>. QED  BY <1>c, <1>q, <1>s, <1>w, <1>f

LEMMA SignInStep ==
  ASSUME SignInInv, [Next]_vars
  PROVE  SignInInv'
<1>. USE Limits DEF slotVars, history, memory
<1>0. /\ turn \in Turns /\ NoTurn \in Turns /\ NoTurn.prompt = None /\ None \notin ran
      /\ procs \subseteq SignIns /\ shown \subseteq SignIns /\ accepting \in BOOLEAN
      /\ pc \in {"code", "save", "prompt", "gate"} => turn.prompt # None
      /\ pc \in {"code", "notice"} => turn.signIn # None
      /\ pc \in {"idle", "code", "save", "prompt", "gate", "notice", "run", "push"}
  BY NoneIsNone DEF SignInInv, ConversationTypeOK, StageInv, NoTurn, Turns
<1>1. CASE UNCHANGED vars
  BY <1>1 DEF vars, SignInInv, ConversationTypeOK, QueueInv, StageInv, WatchInv, FirstInv, FirstOf, Watched, Prompted,
     Covers, Ahead, Taken
<1>2. CASE Write
  BY <1>2, SignInWrite
<1>3. CASE Dequeue
  BY <1>3, SignInDequeue
<1>4. CASE CompleteLogin
  <2>1. /\ pc = "code" /\ pc' \in {"save", "idle"} /\ procs' \subseteq SignIns
        /\ pc' = "save" => turn' = turn
        /\ turn' \in {turn, NoTurn}
        /\ UNCHANGED <<workload, sent, queue, enqueued, pending, dropped, started, first, forgotten, ran, shown, accepting>>
    BY <1>0, <1>4 DEF CompleteLogin
  <2>. QED  BY <1>0, <2>1, SignInWorker
<1>5. CASE SaveLogin
  <2>1. /\ pc = "save" /\ pc' = "run" /\ ran' = ran \cup {turn.prompt}
        /\ UNCHANGED <<workload, sent, queue, enqueued, pending, dropped, started, first, forgotten, turn, procs, shown, accepting>>
    BY <1>5 DEF SaveLogin
  <2>. QED  BY <1>0, <2>1, SignInWorker
<1>6. CASE PullTurn
  <2>1. /\ pc = "prompt" /\ pc' = "gate"
        /\ UNCHANGED <<workload, sent, queue, enqueued, pending, dropped, started, first, forgotten, ran, turn, procs, shown, accepting>>
    BY <1>6 DEF PullTurn
  <2>. QED  BY <1>0, <2>1, SignInWorker
<1>7. CASE SubscriptionGate
  <2>0. pc = "gate" /\ UNCHANGED <<workload, sent, queue, enqueued, first, shown, accepting>>
    BY <1>7 DEF SubscriptionGate
  <2>1. CASE /\ pc' = "run" /\ ran' = ran \cup {turn.prompt}
             /\ UNCHANGED <<pending, dropped, turn, procs, started, forgotten>>
    BY <1>0, <2>0, <2>1, SignInWorker
  <2>2. CASE /\ pc' = "idle" /\ turn' = NoTurn
             /\ UNCHANGED <<pending, dropped, procs, started, forgotten, ran>>
    BY <1>0, <2>0, <2>2, SignInWorker
  <2>3. CASE /\ started < MaxSignIns
             /\ started' = started + 1
             /\ procs' = procs \cup {started'}
             /\ pending' = [id |-> started', held |-> turn.prompt, after |-> enqueued]
             /\ dropped' = None
             /\ forgotten' = IF dropped = None THEN forgotten ELSE forgotten \cup {dropped.id}
             /\ pc' = "notice" /\ Turn(turn.write, started', None)
             /\ UNCHANGED ran
    BY <2>0, <2>3, SignInStarts DEF Turn
  <2>. QED  BY <1>7, <2>1, <2>2, <2>3 DEF SubscriptionGate
<1>8. CASE ShowPage
  <2>1. /\ pc = "notice" /\ pc' = "idle" /\ turn' = NoTurn /\ shown' = shown \cup {turn.signIn}
        /\ UNCHANGED <<workload, sent, queue, enqueued, pending, dropped, started, first, forgotten, ran, procs, accepting>>
    BY <1>8 DEF ShowPage
  <2>2. shown' \subseteq SignIns
    BY <1>0, <2>1 DEF Turns
  <2>. QED  BY <1>0, <2>1, <2>2, SignInWorker
<1>9. CASE Run \/ FinishRun \/ PushTurn
  <2>1. /\ pc' \in {"run", "push", "idle"} /\ turn' \in {turn, NoTurn}
        /\ UNCHANGED <<workload, sent, queue, enqueued, pending, dropped, started, first, forgotten, ran, procs, shown, accepting>>
    BY <1>9 DEF Run, FinishRun, PushTurn
  <2>. QED  BY <1>0, <2>1, SignInWorker
<1>10. CASE Expire
  BY <1>0, <1>10, SignInDropped DEF Expire
<1>11. CASE WindowEnds
  BY <1>11, SignInWindow
<1>12. CASE Archive
  <2>0. pc = "idle" /\ accepting' \in BOOLEAN
    BY <1>12 DEF Archive
  <2>1. CASE pending = None
    <3>1. UNCHANGED <<workload, sent, queue, enqueued, pending, dropped, started, first, forgotten, ran, turn, procs, shown, pc>>
      BY <1>12, <2>1 DEF Archive
    <3>. QED  BY <1>0, <2>0, <3>1, SignInWorker
  <2>2. CASE pending # None
    BY <1>12, <2>0, <2>2, SignInDropped DEF Archive
  <2>. QED  BY <2>1, <2>2
<1>13. CASE Abort
  <2>1. /\ accepting' = TRUE
        /\ UNCHANGED <<workload, sent, queue, enqueued, pending, dropped, started, first, forgotten, ran, turn, procs, shown, pc>>
    BY <1>13 DEF Abort
  <2>. QED
    BY <2>1 DEF SignInInv, ConversationTypeOK, QueueInv, StageInv, WatchInv, FirstInv, FirstOf, Watched, Prompted,
       Covers, Ahead, Taken
<1>14. CASE Restore \/ Restart
  BY <1>14, SignInForgotten DEF Restore, Restart
<1>. QED  BY <1>1, <1>2, <1>3, <1>4, <1>5, <1>6, <1>7, <1>8, <1>9, <1>10, <1>11, <1>12, <1>13, <1>14 DEF Next

\* The invariant of the writes and the sign-ins.
THEOREM SignInInvHolds == Spec => []SignInInv
  BY SignInInit, SignInStep, PTL DEF Spec

\* Every variable keeps its type.
THEOREM TypeCorrect == Spec => []TypeOK
<1>1. LoginInv /\ SignInInv => TypeOK
  BY DEF LoginInv, SignInInv, TypeOK
<1>. QED  BY <1>1, LoginInvHolds, SignInInvHolds, PTL

\* The write that may be a sign-in's code never reaches the model while the process
\* remembers the sign-in: pending, expired, or dropped by an archive that was aborted,
\* whatever was queued before it (classifyInputLocked and dropPendingLogin).
THEOREM CodesAreNoPrompts == Spec => []FirstWriteIsNoPrompt
<1>1. SignInInv => FirstWriteIsNoPrompt
  BY NoneIsNone DEF SignInInv, ConversationTypeOK, FirstInv, FirstOf, Prompted, FirstWriteIsNoPrompt
<1>. QED  BY <1>1, SignInInvHolds, PTL
=============================================================================
