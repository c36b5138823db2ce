----------------------------- MODULE PromptQueue -----------------------------
(***************************************************************************)
(* One agent's prompt queue (data-plane/cmd/agent/claude.go,               *)
(* claudeWorkload): clients enqueue prompts, one worker runs them in turn, *)
(* a plugin refresh holds the worker between turns, and a checkpoint       *)
(* closes admission, drains the queue and archives what is left.           *)
(*                                                                         *)
(* Every action is one critical section of c.mu, or what happens between   *)
(* two of them.  The condition variable c.cond is explicit: waiting holds  *)
(* the goroutines asleep in Wait, a Broadcast wakes them all and a Signal  *)
(* any one of them.  Output is counted in entries; an archive holds the    *)
(* count, the prompts whose turn is over and the resume flag.              *)
(***************************************************************************)
EXTENDS Naturals, Sequences, FiniteSets

CONSTANTS Prompts,      \* prompts that clients send, each once
          Checkpoints,  \* /checkpoint requests, each with its own id
          None, Worker,
          MaxQueued,    \* maxClaudeQueuedPrompts
          MaxFaults,    \* bound on failed turns, persists, streams and restores
          Refreshes     \* bound on plugin refreshes

ASSUME QueueAssumption ==
    /\ MaxQueued \in Nat \ {0} /\ MaxFaults \in Nat /\ Refreshes \in Nat
    /\ Worker \notin Checkpoints /\ None \notin Prompts \cup Checkpoints

VARIABLES
    queue, ready, restoring, accepting, stopping,
    gate,       \* checkpointing, checkpointReady and checkpointID
    refreshing, active, hasRun,
    disk,       \* the resume flag in the state directory
    len,        \* entries in the output
    job,        \* the prompt in the worker's hands
    done,       \* prompts whose turn has ended
    worker, ckpt, refresh,   \* where the goroutines are
    expired,    \* checkpoint requests whose context is over
    waiting,
    archive,    \* what each checkpoint put into its archive
    shown,      \* how much of the output a reader has seen
    accepted,   \* prompts whose client got "queued"
    faults, refreshes

admission == <<ready, restoring, accepting, stopping, gate>>
turn      == <<active, hasRun, disk, job, done, worker>>
output    == <<len, shown>>
books     == <<accepted, faults, refreshes>>
vars      == <<queue, ready, restoring, accepting, stopping, gate, refreshing, active, hasRun, disk, len,
               job, done, worker, ckpt, refresh, expired, waiting, archive, shown, accepted, faults, refreshes>>

Closed(id, isReady) == [closed |-> TRUE, ready |-> isReady, id |-> id]
Open == [closed |-> FALSE, ready |-> FALSE, id |-> None]
Gates == [closed: BOOLEAN, ready: BOOLEAN, id: Checkpoints \cup {None}]
Archives == [len: Nat, done: SUBSET Prompts, hasRun: BOOLEAN]

\* A fresh agent serves at once; one in restore mode waits for its archive.
Init ==
    /\ queue = <<>>
    /\ ready \in BOOLEAN /\ accepting = ready /\ restoring = FALSE /\ stopping = FALSE
    /\ gate = Open
    /\ refreshing = FALSE /\ active = FALSE /\ hasRun = FALSE /\ disk = FALSE
    /\ len = 0 /\ shown = 0
    /\ job = None /\ done = {} /\ accepted = {}
    /\ worker = "check" /\ refresh = "idle"
    /\ ckpt = [c \in Checkpoints |-> "idle"]
    /\ expired = {} /\ waiting = {}
    /\ archive = [c \in Checkpoints |-> None]
    /\ faults = 0 /\ refreshes = 0

Fault == faults < MaxFaults /\ faults' = faults + 1

\* Goroutines asleep in c.cond.Wait go back to test their condition.
Wake(G) ==
    /\ waiting' = waiting \ G
    /\ worker' = IF Worker \in G THEN "check" ELSE worker
    /\ ckpt' = [c \in Checkpoints |-> IF c \in G THEN "drain" ELSE ckpt[c]]

Broadcast == Wake(waiting)
Signal    == \/ waiting = {} /\ Wake({})
             \/ \E g \in waiting : Wake({g})

-----------------------------------------------------------------------------
\* Clients.

\* Mutation: the worker is not told.
EnqueueSilent(p) ==
    /\ p \notin accepted /\ ~stopping /\ ready /\ accepting /\ Len(queue) < MaxQueued
    /\ queue' = Append(queue, p) /\ accepted' = accepted \cup {p}
    /\ UNCHANGED <<admission, refreshing, turn, output, ckpt, refresh, expired, waiting, archive, faults, refreshes>>

Enqueue(p) ==
    /\ p \notin accepted
    /\ ~stopping /\ ready /\ accepting
    /\ Len(queue) < MaxQueued
    /\ queue' = Append(queue, p)
    /\ accepted' = accepted \cup {p}
    /\ Signal
    /\ UNCHANGED <<admission, refreshing, active, hasRun, disk, job, done, output, refresh, expired, archive, faults, refreshes>>

Read ==
    /\ ready /\ ~stopping /\ shown' = len
    /\ UNCHANGED <<queue, admission, refreshing, turn, len, ckpt, refresh, expired, waiting, archive, books>>

-----------------------------------------------------------------------------
\* The worker.

\* Mutation: a refresh in progress does not hold the worker.
WorkerHeldFree == ~ready \/ queue = <<>>

WorkerHeld == ~ready \/ refreshing \/ queue = <<>>

WorkerCheck ==
    /\ worker = "check"
    /\ \/ stopping /\ worker' = "exited" /\ UNCHANGED <<queue, active, job, waiting>>
       \/ /\ ~stopping /\ WorkerHeld
          /\ worker' = "waiting" /\ waiting' = waiting \cup {Worker}
          /\ UNCHANGED <<queue, active, job>>
       \/ /\ ~stopping /\ ~WorkerHeld
          /\ job' = Head(queue) /\ queue' = Tail(queue) /\ active' = TRUE
          /\ worker' = "turn" /\ UNCHANGED waiting
    /\ UNCHANGED <<admission, refreshing, hasRun, disk, done, output, ckpt, refresh, expired, archive, books>>

\* The turn's record is written and the CLI runs, to its end, to its timeout or
\* until Close cancels it; or openTurn finds nothing to run.  The resume flag is persisted before the worker
\* reports idle; that may fail and is only logged.
WorkerRun ==
    /\ worker = "turn"
    /\ len' = len + 1
    /\ done' = done \cup {job}
    /\ \/ UNCHANGED <<hasRun, disk, faults>>
       \/ hasRun' = TRUE /\ disk' = TRUE /\ UNCHANGED faults
       \/ Fault /\ hasRun' = TRUE /\ UNCHANGED disk
       \/ Fault /\ disk' = hasRun /\ UNCHANGED hasRun
    /\ worker' = "settle"
    /\ UNCHANGED <<queue, admission, refreshing, active, job, shown, ckpt, refresh, expired, waiting, archive, accepted, refreshes>>

WorkerSettle ==
    /\ worker = "settle"
    /\ active' = FALSE /\ job' = None
    /\ waiting' = {} /\ worker' = "check"
    /\ ckpt' = [c \in Checkpoints |-> IF c \in waiting THEN "drain" ELSE ckpt[c]]
    /\ UNCHANGED <<queue, admission, refreshing, hasRun, disk, done, output, refresh, expired, archive, books>>

-----------------------------------------------------------------------------
\* The plugin refresh.

RefreshBegin ==
    /\ refresh = "idle" /\ refreshes < Refreshes
    /\ ~stopping /\ ready /\ accepting /\ ~gate.closed
    /\ ~refreshing /\ ~active /\ queue = <<>>
    /\ refreshing' = TRUE /\ refresh' = "rewriting" /\ refreshes' = refreshes + 1
    /\ UNCHANGED <<queue, admission, turn, output, ckpt, expired, waiting, archive, accepted, faults>>

\* Mutation: whoever waits for the refresh is not told.
RefreshEndSilent ==
    /\ refresh = "rewriting" /\ refreshing' = FALSE /\ refresh' = "notice"
    /\ UNCHANGED <<queue, admission, turn, output, ckpt, expired, waiting, archive, books>>

RefreshEnd ==
    /\ refresh = "rewriting"
    /\ refreshing' = FALSE
    /\ Broadcast
    /\ \/ refresh' = "notice" /\ UNCHANGED faults
       \/ Fault /\ refresh' = "idle"
    /\ UNCHANGED <<queue, admission, active, hasRun, disk, job, done, output, expired, archive, accepted, refreshes>>

\* The result is told in the output after the worker has been let go.
RefreshNotice ==
    /\ refresh = "notice"
    /\ len' = len + 1 /\ refresh' = "idle"
    /\ UNCHANGED <<queue, admission, refreshing, turn, shown, ckpt, expired, waiting, archive, books>>

-----------------------------------------------------------------------------
\* The checkpoint.

CkptBegin(c) ==
    /\ ckpt[c] = "idle"
    /\ IF ~stopping /\ ready /\ accepting /\ ~gate.closed
         THEN /\ accepting' = FALSE /\ gate' = Closed(c, FALSE)
              /\ ckpt' = [ckpt EXCEPT ![c] = "drain"]
         ELSE ckpt' = [ckpt EXCEPT ![c] = "refused"] /\ UNCHANGED <<accepting, gate>>
    /\ UNCHANGED <<queue, ready, restoring, stopping, refreshing, turn, output, refresh, expired, waiting, archive, books>>

\* reopenCheckpointLocked: everyone waiting is told.
Reopen(c, label) ==
    /\ gate' = Open
    /\ accepting' = (ready /\ ~stopping)
    /\ waiting' = IF ready /\ ~stopping THEN {} ELSE waiting
    /\ worker' = IF waiting' = {} /\ Worker \in waiting THEN "check" ELSE worker
    /\ ckpt' = [d \in Checkpoints |-> IF d = c THEN label
                                      ELSE IF d \in waiting \ waiting' THEN "drain" ELSE ckpt[d]]

Busy == active \/ refreshing \/ queue # <<>>

CkptDrain(c) ==
    /\ ckpt[c] = "drain"
    /\ \/ stopping /\ gate' = Open /\ ckpt' = [ckpt EXCEPT ![c] = "refused"]
          /\ UNCHANGED <<accepting, waiting, worker>>
       \/ ~stopping /\ c \in expired /\ Reopen(c, "refused")
       \/ /\ ~stopping /\ c \notin expired /\ Busy
          /\ waiting' = waiting \cup {c} /\ ckpt' = [ckpt EXCEPT ![c] = "waiting"]
          /\ UNCHANGED <<gate, accepting, worker>>
       \/ /\ ~stopping /\ c \notin expired /\ ~Busy
          /\ ckpt' = [ckpt EXCEPT ![c] = "persist"]
          /\ UNCHANGED <<gate, accepting, waiting, worker>>
    /\ UNCHANGED <<queue, ready, restoring, stopping, refreshing, active, hasRun, disk, job, done, output, refresh,
                   expired, archive, books>>

\* The client leaves or the drain timeout passes: AfterFunc broadcasts.
Expire(c) ==
    /\ ckpt[c] \in {"drain", "waiting"} /\ c \notin expired
    /\ expired' = expired \cup {c}
    /\ Broadcast
    /\ UNCHANGED <<queue, admission, refreshing, active, hasRun, disk, job, done, output, refresh, archive, books>>

\* The drained flag is written again, the state is validated and the output is
\* copied; the files of the state directory are read later.
CkptPersist(c) ==
    /\ ckpt[c] = "persist"
    /\ \/ /\ disk' = hasRun /\ ckpt' = [ckpt EXCEPT ![c] = "archive"]
          /\ archive' = [archive EXCEPT ![c] = [len |-> len, done |-> done, hasRun |-> FALSE]]
          /\ UNCHANGED <<gate, accepting, waiting, worker, faults>>
       \/ Fault /\ Reopen(c, "refused") /\ UNCHANGED <<disk, archive>>
    /\ UNCHANGED <<queue, ready, restoring, stopping, refreshing, active, hasRun, job, done, output, refresh,
                   expired, accepted, refreshes>>

CkptArchive(c) ==
    /\ ckpt[c] = "archive"
    /\ archive' = [archive EXCEPT ![c].hasRun = disk]
    /\ ckpt' = [ckpt EXCEPT ![c] = "stream"]
    /\ UNCHANGED <<queue, admission, refreshing, turn, output, refresh, expired, waiting, books>>

\* The archive is out and the gate stays closed; or the stream broke and the
\* deferred abortCheckpoint reopens it.
CkptStream(c) ==
    /\ ckpt[c] = "stream"
    /\ \/ /\ gate' = IF gate.closed THEN Closed(gate.id, TRUE) ELSE gate
          /\ accepting' = (accepting /\ ~gate.closed)
          /\ ckpt' = [ckpt EXCEPT ![c] = "answered"]
          /\ UNCHANGED <<waiting, worker, faults>>
       \/ Fault /\ Reopen(c, "refused")
    /\ UNCHANGED <<queue, ready, restoring, stopping, refreshing, active, hasRun, disk, job, done, output, refresh,
                   expired, archive, accepted, refreshes>>

\* Mutation: an abort reopens whichever checkpoint is there.
AbortAny(c) ==
    /\ ~stopping /\ ready /\ gate.closed /\ gate.ready
    /\ Reopen(c, "aborted")
    /\ UNCHANGED <<queue, ready, restoring, stopping, refreshing, active, hasRun, disk, job, done, output, refresh,
                   expired, archive, books>>

\* The control plane gives a streamed archive up (/checkpoint/abort); any other
\* abort finds nothing to do or is refused.
Abort(c) ==
    /\ ~stopping /\ ready
    /\ gate = Closed(c, TRUE)
    /\ Reopen(c, "aborted")
    /\ UNCHANGED <<queue, ready, restoring, stopping, refreshing, active, hasRun, disk, job, done, output, refresh,
                   expired, archive, books>>

-----------------------------------------------------------------------------
\* Restore and shutdown.

RestoreBegin ==
    /\ ~stopping /\ ~ready /\ ~restoring
    /\ restoring' = TRUE
    /\ UNCHANGED <<queue, ready, accepting, stopping, gate, refreshing, turn, output, ckpt, refresh, expired,
                   waiting, archive, books>>

RestoreEnd ==
    /\ restoring /\ restoring' = FALSE
    /\ \/ /\ ready' = TRUE /\ accepting' = TRUE
          /\ hasRun' \in BOOLEAN /\ disk' = hasRun'
          /\ Broadcast /\ UNCHANGED faults
       \/ Fault /\ UNCHANGED <<ready, accepting, hasRun, disk, waiting, worker, ckpt>>
    /\ UNCHANGED <<queue, stopping, gate, refreshing, active, job, done, output, refresh, expired, archive, accepted, refreshes>>

\* Mutation: the worker is not told.
CloseSilent ==
    /\ ~stopping /\ stopping' = TRUE /\ accepting' = FALSE
    /\ UNCHANGED <<queue, ready, restoring, gate, refreshing, turn, output, ckpt, refresh, expired, waiting, archive, books>>

Close ==
    /\ ~stopping
    /\ stopping' = TRUE /\ accepting' = FALSE
    /\ Broadcast
    /\ UNCHANGED <<queue, ready, restoring, gate, refreshing, active, hasRun, disk, job, done, output, refresh,
                   expired, archive, books>>

-----------------------------------------------------------------------------
WorkerStep  == WorkerCheck \/ WorkerRun \/ WorkerSettle
CkptStep(c) == CkptDrain(c) \/ CkptPersist(c) \/ CkptArchive(c) \/ CkptStream(c)

Next ==
    \/ WorkerStep \/ RefreshBegin \/ RefreshEnd \/ RefreshNotice
    \/ Read \/ RestoreBegin \/ RestoreEnd \/ Close
    \/ \E p \in Prompts : Enqueue(p)
    \/ \E c \in Checkpoints : CkptBegin(c) \/ CkptStep(c) \/ Expire(c) \/ Abort(c)

Spec == Init /\ [][Next]_vars

\* Goroutines run on, a run has a timeout and a refresh ends; nothing is assumed
\* of clients, nor that anyone gives a checkpoint up.
Fairness == /\ WF_vars(WorkerStep) /\ WF_vars(RefreshEnd)
            /\ \A c \in Checkpoints : WF_vars(CkptStep(c))

FairSpec == Spec /\ Fairness

-----------------------------------------------------------------------------
\* Every variable holds a value of its kind; the queue respects its limit
\* (enqueue).
TypeOK ==
    /\ queue \in Seq(Prompts) /\ Len(queue) <= MaxQueued
    /\ ready \in BOOLEAN /\ restoring \in BOOLEAN /\ accepting \in BOOLEAN /\ stopping \in BOOLEAN
    /\ refreshing \in BOOLEAN /\ active \in BOOLEAN /\ hasRun \in BOOLEAN /\ disk \in BOOLEAN
    /\ gate \in Gates
    /\ len \in Nat /\ shown \in Nat
    /\ job \in Prompts \cup {None} /\ done \subseteq accepted /\ accepted \subseteq Prompts
    /\ worker \in {"check", "waiting", "turn", "settle", "exited"}
    /\ ckpt \in [Checkpoints -> {"idle", "drain", "waiting", "persist", "archive", "stream", "answered",
                                 "aborted", "refused"}]
    /\ refresh \in {"idle", "rewriting", "notice"}
    /\ expired \subseteq Checkpoints /\ waiting \subseteq Checkpoints \cup {Worker}
    /\ archive \in [Checkpoints -> Archives \cup {None}]
    /\ faults \in 0 .. MaxFaults /\ refreshes \in 0 .. Refreshes

\* While an archive is taken, and until its gate is reopened, no turn runs and no
\* plugin is rewritten under it, and turn and rewrite never meet: the drain, the
\* held worker and the closed admission together keep the state directory still.
StateHoldsStill ==
    /\ ~(worker = "turn" /\ refresh = "rewriting")
    /\ \A c \in Checkpoints : ckpt[c] \in {"persist", "archive", "stream"} \/ gate = Closed(c, TRUE) =>
          worker \notin {"turn", "settle"} /\ refresh # "rewriting"

\* An archive that was answered and not aborted may be committed at any later
\* moment.  Until then it holds the turn of every prompt a client was told was
\* queued, also of those queued just before admission closed (beginCheckpoint,
\* "drains all accepted work"), and the resume flag those turns left, also where a
\* turn could not write it (AC-E4): neither a late abort of another generation nor
\* the end of a turn changes what the agent holds beyond its archive.
ArchiveHoldsAccepted ==
    \A c \in Checkpoints : ckpt[c] = "answered" =>
        accepted \subseteq archive[c].done /\ archive[c].hasRun = hasRun

\* No wakeup is lost: a prompt a client was told was queued is run, unless the
\* agent is shut down (Signal in enqueue, Broadcast elsewhere).
AcceptedIsRun == \A p \in Prompts : p \in accepted ~> (p \in done \/ stopping)

\* Nobody sleeps for good: a checkpoint request that began to drain is answered or
\* refused, since the end of the turn or of the refresh it sleeps on wakes it
\* (beginCheckpoint, cond.Wait), and Close returns, since the worker leaves its loop
\* wherever Close finds it.
SleepersWake ==
    /\ \A c \in Checkpoints : ckpt[c] = "drain" ~> ckpt[c] \in {"answered", "aborted", "refused"}
    /\ stopping ~> worker = "exited"

\* What a reader has seen of the output is in the archive the session resumes
\* from: "a pre-snapshot read cursor remains valid" (Restore, manager.go).
ReadCursorSurvives ==
    \A c \in Checkpoints : gate = Closed(c, TRUE) => shown <= archive[c].len

=============================================================================
