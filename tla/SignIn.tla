------------------------------- MODULE SignIn -------------------------------
(***************************************************************************)
(* The sign-in of a Claude subscription through the conversation           *)
(* (data-plane/cmd/agent/claude_subscription.go and the turns of           *)
(* claude.go), over the auth slot.  A prompt that finds no login starts    *)
(* `claude auth login`, is held, and its turn ends with a notice that      *)
(* shows the sign-in page; the next write is taken as the code of that     *)
(* page, and the held prompt runs.  A sign-in ends without its code when   *)
(* it expires or when the session is archived.                             *)
(*                                                                         *)
(* Writes are numbered as the agent accepts them: write w carries sent[w], *)
(* the sign-in whose code it is, or None for a prompt.  Sign-ins are       *)
(* numbered too.  Admission, draining and the archive itself are           *)
(* PromptQueue's subject; here a drained archive is one step.              *)
(***************************************************************************)
EXTENDS AuthSlot, Sequences, FiniteSets

CONSTANTS None,
          MaxWrites,   \* bound on the writes of the user
          MaxSignIns   \* bound on the sign-ins that start

ASSUME SignInAssumption == MaxWrites \in Nat /\ MaxSignIns \in Nat /\ None \notin Nat

VARIABLES
    workload,  \* "claude": a subscription asks for its sign-in here; "codex" does not
    sent,      \* what each accepted write is
    queue,     \* the writes that wait, each with its arrival count
    enqueued,  \* the arrival count of this process
    pending,   \* the sign-in between its two writes, and the prompt it holds
    dropped,   \* the sign-in that ended while its code may be on its way
    pc, turn,  \* the worker: where it is, its write, sign-in and prompt to run
    accepting,
    procs,     \* the sign-ins whose CLI process runs
    started,   \* how many sign-ins started
    shown,     \* the sign-ins whose page the user has been shown
    first,     \* first[l]: the first write accepted after sign-in l
    forgotten, \* the sign-ins this process does not know of any more
    ran        \* the writes that ran as prompts

memory  == <<queue, enqueued, pending, dropped, pc, turn, accepting, procs>>
history == <<sent, started, shown, first, forgotten, ran>>
vars    == <<workload, slot, home, placed, unpushed, newest, issued, lost, loggedOut, faults,
             sent, queue, enqueued, pending, dropped, pc, turn, accepting, procs,
             started, shown, first, forgotten, ran>>
slotVars == <<workload, files, slotMem, login, faults>>

SignIns == 1 .. MaxSignIns
Writes  == 1 .. MaxWrites
Jobs    == [write: Writes, seq: 1 .. MaxWrites]
Turns   == [write: Writes \cup {None}, signIn: SignIns \cup {None}, prompt: Writes \cup {None}]
Held    == [id: SignIns, held: Writes, after: 0 .. MaxWrites]
Ended   == [id: SignIns, after: 0 .. MaxWrites, until: {"ahead", "past"}]

ASSUME NoneAssumption == None \notin Held \cup Ended

ConversationTypeOK ==
    /\ workload \in {"claude", "codex"}
    /\ sent \in Seq({None} \cup SignIns) /\ queue \in Seq(Jobs) /\ enqueued \in 0 .. MaxWrites
    /\ pending \in {None} \cup Held /\ dropped \in {None} \cup Ended
    /\ pc \in {"idle", "code", "save", "prompt", "gate", "notice", "run", "push"} /\ turn \in Turns
    /\ accepting \in BOOLEAN /\ procs \subseteq SignIns /\ started \in 0 .. MaxSignIns
    /\ shown \subseteq SignIns /\ forgotten \subseteq SignIns
    /\ first \in [SignIns -> Writes \cup {None}] /\ ran \subseteq Writes

TypeOK == SlotTypeOK /\ ConversationTypeOK

NoTurn == [write |-> None, signIn |-> None, prompt |-> None]
Turn(w, l, p) == turn' = [write |-> w, signIn |-> l, prompt |-> p]

Init ==
    /\ SlotInit /\ workload \in {"claude", "codex"}
    /\ sent = <<>> /\ queue = <<>> /\ enqueued = 0
    /\ pending = None /\ dropped = None
    /\ pc = "idle" /\ turn = NoTurn
    /\ accepting = TRUE /\ procs = {}
    /\ started = 0 /\ shown = {} /\ first = [l \in SignIns |-> None]
    /\ forgotten = {} /\ ran = {}

-----------------------------------------------------------------------------
\* The user sends a prompt, or the code of a page that was shown, once.
Write ==
    /\ accepting /\ Len(sent) < MaxWrites
    /\ \E what \in {None} \cup shown :
         /\ what # None => \A w \in DOMAIN sent : sent[w] # what
         /\ sent' = Append(sent, what)
    /\ enqueued' = enqueued + 1
    /\ queue' = Append(queue, [write |-> Len(sent'), seq |-> enqueued'])
    /\ first' = IF started = 0 \/ first[started] # None THEN first
                ELSE [first EXCEPT ![started] = Len(sent')]
    /\ UNCHANGED <<pending, dropped, pc, turn, accepting, procs, started, shown, forgotten, ran, slotVars>>

\* classifyInputLocked and the turns of openTurn that run nothing: a prompt
\* queued before the page was shown, and the late code of a sign-in that ended.
Classify(job) ==
    IF pending # None
      THEN /\ UNCHANGED dropped
           /\ IF job.seq <= pending.after
                THEN pc' = "idle" /\ turn' = NoTurn /\ UNCHANGED pending
                ELSE pc' = "code" /\ Turn(job.write, pending.id, pending.held) /\ pending' = None
      ELSE LET known == dropped # None /\ dropped.until = "ahead"
           IN  /\ UNCHANGED pending
               /\ IF known /\ job.seq > dropped.after
                    THEN pc' = "idle" /\ turn' = NoTurn /\ dropped' = None
                    ELSE /\ pc' = "prompt" /\ Turn(job.write, None, job.write)
                         /\ dropped' = IF known THEN dropped ELSE None

Dequeue ==
    /\ pc = "idle" /\ queue # <<>>
    /\ Classify(Head(queue))
    /\ queue' = Tail(queue)
    /\ UNCHANGED <<enqueued, accepting, procs, history, slotVars>>

\* completeLogin: only the code of this very sign-in is accepted.  Whatever
\* happens its process has ended.
CompleteLogin ==
    /\ pc = "code"
    /\ \/ sent[turn.write] = turn.signIn /\ SignedIn /\ pc' = "save" /\ UNCHANGED turn
       \/ pc' = "idle" /\ turn' = NoTurn /\ UNCHANGED slotVars
    /\ procs' = procs \ {turn.signIn}
    /\ UNCHANGED <<workload, queue, enqueued, pending, dropped, accepting, history>>

\* The login goes to the slot at once, then the held prompt runs.
SaveLogin ==
    /\ pc = "save"
    /\ Push
    /\ pc' = "run" /\ ran' = ran \cup {turn.prompt}
    /\ UNCHANGED <<workload, queue, enqueued, pending, dropped, turn, accepting, procs,
                   sent, started, shown, first, forgotten>>

PullTurn ==
    /\ pc = "prompt"
    /\ Pull
    /\ pc' = "gate"
    /\ UNCHANGED <<workload, queue, enqueued, pending, dropped, turn, accepting, procs, history>>

\* subscriptionGate, where there is one: a login is there; or it cannot be
\* told, or no sign-in can start; or a sign-in starts.
SubscriptionGate ==
    /\ pc = "gate"
    /\ \/ /\ workload = "codex" \/ home \in Logins
          /\ pc' = "run" /\ ran' = ran \cup {turn.prompt}
          /\ UNCHANGED <<pending, dropped, turn, procs, started, forgotten, faults>>
       \/ /\ workload = "claude" /\ Fault
          /\ pc' = "idle" /\ turn' = NoTurn
          /\ UNCHANGED <<pending, dropped, procs, started, forgotten, ran>>
       \/ /\ workload = "claude" /\ home \notin Logins /\ started < MaxSignIns
          /\ started' = started + 1
          /\ procs' = procs \cup {started'}
          /\ pending' = [id |-> started', held |-> turn.prompt, after |-> enqueued]
          /\ dropped' = None
          /\ forgotten' = IF dropped = None THEN forgotten ELSE forgotten \cup {dropped.id}
          /\ pc' = "notice" /\ Turn(turn.write, started', None)
          /\ UNCHANGED <<ran, faults>>
    /\ UNCHANGED <<queue, enqueued, accepting, sent, shown, first, workload, files, slotMem, login>>

\* The page is shown after the sign-in began to count writes as its code.
ShowPage ==
    /\ pc = "notice"
    /\ shown' = shown \cup {turn.signIn}
    /\ pc' = "idle" /\ turn' = NoTurn
    /\ UNCHANGED <<queue, enqueued, pending, dropped, accepting, procs,
                   sent, started, first, forgotten, ran, slotVars>>

-----------------------------------------------------------------------------
\* The CLI runs, and the agent copies its login while and after it does.

Run ==
    /\ pc = "run"
    /\ Rotate \/ Rewritten \/ Logout \/ PushIfPresent
    /\ UNCHANGED <<workload, memory, history>>

FinishRun ==
    /\ pc = "run"
    /\ CLIExits
    /\ pc' = "push"
    /\ UNCHANGED <<workload, queue, enqueued, pending, dropped, turn, accepting, procs, history>>

PushTurn ==
    /\ pc = "push"
    /\ Push
    /\ pc' = "idle" /\ turn' = NoTurn
    /\ UNCHANGED <<workload, queue, enqueued, pending, dropped, accepting, procs, history>>

-----------------------------------------------------------------------------
\* Sign-ins that end without their code.

\* Mutation: a dropped sign-in is not remembered.
DropSilently ==
    /\ pending' = None /\ UNCHANGED dropped
    /\ procs' = procs \ {pending.id}

DropPendingLogin ==
    /\ pending' = None
    /\ dropped' = [id |-> pending.id, after |-> pending.after, until |-> "ahead"]
    /\ procs' = procs \ {pending.id}

Expire ==
    /\ pending # None
    /\ DropPendingLogin
    /\ UNCHANGED <<queue, enqueued, pc, turn, accepting, history, slotVars>>

\* The time in which a late code is expected is over.
WindowEnds ==
    /\ dropped # None /\ dropped.until = "ahead"
    /\ dropped' = [dropped EXCEPT !.until = "past"]
    /\ forgotten' = forgotten \cup {dropped.id}
    /\ UNCHANGED <<queue, enqueued, pending, pc, turn, accepting, procs, sent, started, shown, first, ran, slotVars>>

\* beginCheckpoint, once the queue has drained.
Archive ==
    /\ accepting /\ pc = "idle" /\ queue = <<>>
    /\ accepting' = FALSE
    /\ IF pending = None THEN UNCHANGED <<pending, dropped, procs>> ELSE DropPendingLogin
    /\ UNCHANGED <<queue, enqueued, pc, turn, history, slotVars>>

Abort ==
    /\ ~accepting
    /\ accepting' = TRUE
    /\ UNCHANGED <<queue, enqueued, pending, dropped, pc, turn, procs, history, slotVars>>

\* What a new process remembers of the conversation's sign-ins: nothing.
Forget ==
    /\ queue' = <<>> /\ enqueued' = 0 /\ pending' = None /\ dropped' = None
    /\ pc' = "idle" /\ turn' = NoTurn /\ accepting' = TRUE /\ procs' = {}
    /\ forgotten' = 1 .. started
    /\ UNCHANGED <<workload, sent, started, shown, first, ran>>

\* The archived session is restored into a new pod.
Restore == ~accepting /\ Forget /\ ProcessEnds(FALSE) /\ UNCHANGED faults

Restart == Fault /\ Forget /\ ProcessEnds(TRUE)

Next ==
    \/ Write \/ Dequeue \/ CompleteLogin \/ SaveLogin \/ PullTurn \/ SubscriptionGate \/ ShowPage
    \/ Run \/ FinishRun \/ PushTurn
    \/ Expire \/ WindowEnds \/ Archive \/ Abort \/ Restore \/ Restart

Spec == Init /\ [][Next]_vars

-----------------------------------------------------------------------------
\* The first write after a sign-in began is its code, or is taken for it: while
\* the process knows of the sign-in that write never reaches the model, whether
\* the sign-in is pending, expired or was dropped by an archive that was aborted.
FirstWriteIsNoPrompt ==
    \A l \in SignIns : first[l] \in ran => l \in forgotten

\* The slot's login goes away only when the CLI itself logged out in this turn,
\* or was killed while its rewrite had the file gone; never because a failed pull
\* left HOME without the file, and never while the CLI still runs.
SlotClearedByLogout ==
    [][slot # Absent /\ slot' = Absent => pc = "push" /\ (loggedOut \/ home = Gone)]_vars

\* What push (auth_slot.go:147-149) says of a file that is missing at the turn's
\* end: "the CLI logged out".  A CLI killed in the middle of a rewrite refutes it.
MissingMeansLogout == [][slot # Absent /\ slot' = Absent => loggedOut]_vars
=============================================================================
