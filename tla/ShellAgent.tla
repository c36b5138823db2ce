----------------------------- MODULE ShellAgent -----------------------------
(***************************************************************************)
(* The agent of a shell session (data-plane/cmd/agent/main.go and          *)
(* checkpoint.go): one shell on a PTY and the tree of processes below it,  *)
(* writes to its input, its output buffer, and checkpoints that stop the   *)
(* tree, archive HOME with the buffer, and keep writes out until the pod   *)
(* is reclaimed or the checkpoint is aborted.  The stream that serves the  *)
(* buffer is OutputStream's subject.                                       *)
(*                                                                         *)
(* HOME is a version, the PTY and the buffer are lengths.  A process is    *)
(* found through its ancestors: it leaves the shell's tree for good when   *)
(* one of them exits.  One scan of /proc is one step: a process that has   *)
(* its SIGSTOP cannot fork any more, so a scan that finds nothing new has  *)
(* seen every child that was born before it.                               *)
(***************************************************************************)
EXTENDS Naturals, FiniteSets

CONSTANTS None,
          MaxPid,      \* bound on the processes, which the kernel numbers as they start
          Gens,        \* the generations of checkpoints
          Writers,     \* concurrent write requests
          MaxRounds,   \* maxPauseRounds
          MaxHome, MaxOut, MaxLives, MaxFaults   \* bounds of the model

ASSUME ShellAssumption ==
    /\ None \notin Gens
    /\ MaxRounds \in Nat \ {0}
    /\ {MaxPid, MaxHome, MaxOut, MaxLives, MaxFaults} \subseteq Nat

VARIABLES
    restoreMode, \* the pod was started to be restored into
    sh,          \* the shell: "none", "live" or "exited"
    ckpt,        \* shellCheckpoint: active, ready, id, paused
    restoring,   \* the /restore request: "no", "files" or "adopted"
    proc,        \* each process: "none", "running", "stopping", "stopped", "gone"
    ancestors,   \* each process's ancestors that live
    detached,    \* the processes that ever left the tree
    pc, pause,   \* the /checkpoint request: where it is; pauseTree's round, targets and pids
    writer,      \* each /write request: "idle" or "admitted"
    pty, out,    \* output not yet drained, and the buffer's length
    home,        \* the version of HOME
    walk,        \* the archive under way
    life, asked, faults

process == <<proc, ancestors, detached>>
request == <<pc, pause, walk>>
stream  == <<pty, out>>
world   == <<home, life, asked, faults>>
vars == <<restoreMode, sh, ckpt, restoring, proc, ancestors, detached, pc, pause, writer, pty, out, home,
          walk, life, asked, faults>>

Shell   == 0
Pids    == 0 .. MaxPid
Alive   == {p \in Pids : proc[p] \in {"running", "stopping", "stopped"}}
NoCkpt  == [active |-> FALSE, ready |-> FALSE, id |-> None, paused |-> {}]
NoPause == [round |-> 0, targets |-> {}, seen |-> {}, fresh |-> FALSE, settled |-> FALSE]
NoWalk  == [out |-> 0, first |-> 0, second |-> 0]

Slots   == [active: BOOLEAN, ready: BOOLEAN, id: Gens \cup {None}, paused: SUBSET Pids]
Pauses  == [round: 0 .. MaxRounds, targets: SUBSET Pids, seen: SUBSET Pids, fresh: BOOLEAN, settled: BOOLEAN]
Walks   == [out: Nat, first: Nat, second: Nat]

TypeOK ==
    /\ restoreMode \in BOOLEAN /\ sh \in {"none", "live", "exited"}
    /\ ckpt \in Slots
    /\ restoring \in {"no", "files", "adopted"}
    /\ proc \in [Pids -> {"none", "running", "stopping", "stopped", "gone"}]
    /\ ancestors \in [Pids -> SUBSET Pids] /\ detached \subseteq Pids
    /\ pc \in {"idle", "lock", "scan", "stop", "settle", "scrollback", "home", "rest", "stream"}
    /\ pause \in Pauses
    /\ writer \in [Writers -> {"idle", "admitted"}]
    /\ pty \in Nat /\ out \in Nat /\ home \in Nat /\ walk \in Walks
    /\ life \in 0 .. MaxLives /\ asked \in Gens \cup {None} /\ faults \in 0 .. MaxFaults

Fault == faults < MaxFaults /\ faults' = faults + 1

\* A process that starts in this pod: a fresh shell, or one that awaits its archive.
Booted(fresh) ==
    /\ sh' = (IF fresh THEN "live" ELSE "none") /\ ckpt' = NoCkpt /\ restoring' = "no"
    /\ proc' = [p \in Pids |-> IF p = Shell /\ fresh THEN "running" ELSE "none"]
    /\ ancestors' = [p \in Pids |-> {}] /\ detached' = {}
    /\ pc' = "idle" /\ pause' = NoPause /\ writer' = [w \in Writers |-> "idle"]
    /\ pty' = 0 /\ out' = 0

Init ==
    /\ restoreMode = FALSE /\ sh = "live" /\ ckpt = NoCkpt /\ restoring = "no"
    /\ proc = [p \in Pids |-> IF p = Shell THEN "running" ELSE "none"]
    /\ ancestors = [p \in Pids |-> {}] /\ detached = {}
    /\ pc = "idle" /\ pause = NoPause /\ writer = [w \in Writers |-> "idle"]
    /\ pty = 0 /\ out = 0 /\ home = 0 /\ walk = NoWalk
    /\ life = 0 /\ asked = None /\ faults = 0

-----------------------------------------------------------------------------
\* The processes of the session.

ProcessTree == {p \in Alive : p = Shell \/ Shell \in ancestors[p]}

Fork(p) ==
    /\ proc[p] = "running"
    /\ \E q \in Pids :
         /\ proc[q] = "none" /\ \A r \in Pids : proc[r] = "none" => q <= r
         /\ proc' = [proc EXCEPT ![q] = "running"]
         /\ ancestors' = [ancestors EXCEPT ![q] = {p} \cup ancestors[p]]
    /\ UNCHANGED <<restoreMode, sh, ckpt, restoring, detached, request, writer, stream, world>>

\* Whatever is below an exiting process is handed to the namespace's init.
Exit(p) ==
    /\ proc[p] = "running"
    /\ proc' = [proc EXCEPT ![p] = "gone"]
    /\ LET below == {q \in Alive : p \in ancestors[q]}
       IN  /\ ancestors' = [q \in Pids |-> IF q \in below THEN ancestors[q] \ ({p} \cup ancestors[p])
                                                          ELSE ancestors[q]]
           /\ detached' = detached \cup below
    /\ sh' = (IF p = Shell THEN "exited" ELSE sh)
    /\ UNCHANGED <<restoreMode, ckpt, restoring, request, writer, stream, world>>

\* SIGSTOP lands when the process next enters the kernel; until then it works.
Works(p) == proc[p] \in {"running", "stopping"}

WriteFile(p) ==
    /\ Works(p) /\ home < MaxHome
    /\ home' = home + 1
    /\ UNCHANGED <<restoreMode, sh, ckpt, restoring, process, request, writer, stream,
                   life, asked, faults>>

PutOutput(p) ==
    /\ Works(p) /\ pty + out < MaxOut
    /\ pty' = pty + 1
    /\ UNCHANGED <<restoreMode, sh, ckpt, restoring, process, request, writer, out, world>>

StopLands(p) ==
    /\ proc[p] = "stopping"
    /\ proc' = [proc EXCEPT ![p] = "stopped"]
    /\ UNCHANGED <<restoreMode, sh, ckpt, restoring, ancestors, detached, request, writer, stream, world>>

Drain ==
    /\ pty > 0
    /\ out' = out + pty /\ pty' = 0
    /\ UNCHANGED <<restoreMode, sh, ckpt, restoring, process, request, writer, world>>

-----------------------------------------------------------------------------
\* Writes.  admission is held shared from the check to the PTY; a checkpoint
\* that waits for it lets no new reader in, and mu is its own while it pauses.

Pausing == pc \in {"scan", "stop", "settle"}

\* Mutation: the check does not wait for the checkpoint that is starting.
AdmitUnlocked(w) ==
    /\ writer[w] = "idle" /\ sh = "live" /\ ~Pausing /\ ~ckpt.active
    /\ writer' = [writer EXCEPT ![w] = "late"]
    /\ UNCHANGED <<restoreMode, sh, ckpt, restoring, process, request, stream, world>>

Admit(w) ==
    /\ writer[w] = "idle" /\ sh = "live"
    /\ pc # "lock" /\ ~Pausing /\ ~ckpt.active
    /\ writer' = [writer EXCEPT ![w] = "admitted"]
    /\ UNCHANGED <<restoreMode, sh, ckpt, restoring, process, request, stream, world>>

\* The terminal echoes what it is given; a write to a dead shell fails.
WritePTY(w) ==
    /\ writer[w] # "idle"
    /\ writer' = [writer EXCEPT ![w] = "idle"]
    /\ IF sh = "live"
         THEN pty' = (IF pty + out < MaxOut THEN pty + 1 ELSE pty)
         ELSE UNCHANGED pty
    /\ UNCHANGED <<restoreMode, sh, ckpt, restoring, process, request, out, world>>

-----------------------------------------------------------------------------
\* Checkpoints.

HandleCheckpoint ==
    /\ pc = "idle"
    /\ pc' = "lock"
    /\ UNCHANGED <<restoreMode, sh, ckpt, restoring, process, pause, walk, writer, stream, world>>

\* The request holds admission and mu until the tree has stopped.
BeginCheckpoint(g) ==
    /\ pc = "lock" /\ \A w \in Writers : writer[w] # "admitted"
    /\ IF sh = "live" /\ ~ckpt.active
         THEN /\ pc' = "scan" /\ pause' = NoPause /\ walk' = NoWalk
              /\ ckpt' = [NoCkpt EXCEPT !.active = TRUE, !.id = g]
         ELSE pc' = "idle" /\ UNCHANGED <<ckpt, pause, walk>>
    /\ UNCHANGED <<restoreMode, sh, restoring, process, writer, stream, world>>

\* Mutation: one round is taken to be enough.
ScanOnce ==
    /\ pc = "scan"
    /\ IF pause.round = 1 \/ ProcessTree = {}
         THEN pc' = "settle" /\ pause' = [pause EXCEPT !.fresh = FALSE]
         ELSE /\ pc' = "stop"
              /\ pause' = [pause EXCEPT !.targets = ProcessTree, !.round = 1]
    /\ UNCHANGED <<restoreMode, sh, ckpt, restoring, process, walk, writer, stream, world>>

\* One round of pauseTree: everything in the tree it has not signalled yet.
Scan ==
    /\ pc = "scan"
    /\ LET targets == ProcessTree \ pause.seen
       IN  IF pause.round = MaxRounds \/ targets = {}
             THEN pc' = "settle" /\ pause' = [pause EXCEPT !.fresh = (targets # {})]
             ELSE pc' = "stop" /\ pause' = [pause EXCEPT !.targets = targets, !.round = @ + 1]
    /\ UNCHANGED <<restoreMode, sh, ckpt, restoring, process, walk, writer, stream, world>>

\* SIGSTOP, parents first; a process that is gone by now is not resumed later.
Stop ==
    /\ pc = "stop"
    /\ LET p == CHOOSE p \in pause.targets : \A q \in pause.targets : p <= q
       IN  /\ IF p \in Alive
                THEN /\ proc' = [proc EXCEPT ![p] = IF @ = "running" THEN "stopping" ELSE @]
                     /\ ckpt' = [ckpt EXCEPT !.paused = @ \cup {p}]
                ELSE UNCHANGED <<proc, ckpt>>
           /\ pause' = [pause EXCEPT !.targets = @ \ {p}, !.seen = @ \cup {p}]
    /\ pc' = (IF pause'.targets = {} THEN "scan" ELSE "stop")
    /\ UNCHANGED <<restoreMode, sh, restoring, ancestors, detached, walk, writer, stream, world>>

\* waitStopped: every process has stopped, or the time is up.
WaitStopped ==
    /\ pc = "settle"
    /\ \/ /\ \A p \in ckpt.paused : ~Works(p)
          /\ pause' = [NoPause EXCEPT !.settled = TRUE, !.fresh = pause.fresh] /\ UNCHANGED faults
       \/ Fault /\ pause' = NoPause
    /\ pc' = "scrollback"
    /\ UNCHANGED <<restoreMode, sh, ckpt, restoring, process, walk, writer, stream, home, life, asked>>

\* The buffer is copied first, then HOME is walked.
WriteStateArchive ==
    /\ \/ pc = "scrollback" /\ pc' = "home" /\ walk' = [walk EXCEPT !.out = out]
       \/ pc = "home" /\ pc' = "rest" /\ walk' = [walk EXCEPT !.first = home]
       \/ pc = "rest" /\ pc' = "stream" /\ walk' = [walk EXCEPT !.second = home]
    /\ UNCHANGED <<restoreMode, sh, ckpt, restoring, process, pause, writer, stream, world>>

Resumed == [p \in Pids |-> IF p \in ckpt.paused /\ p \in Alive THEN "running" ELSE proc[p]]

Reopen == ckpt' = NoCkpt /\ proc' = Resumed /\ pause' = NoPause /\ walk' = NoWalk

\* The walk or the stream to the control plane fails.
AbortCheckpoint ==
    /\ pc \in {"home", "rest", "stream"} /\ Fault
    /\ Reopen
    /\ pc' = "idle"
    /\ UNCHANGED <<restoreMode, sh, restoring, ancestors, detached, writer, stream, home, life, asked>>

CompleteCheckpoint ==
    /\ pc = "stream"
    /\ ckpt' = [ckpt EXCEPT !.ready = ckpt.active]
    /\ pc' = "idle"
    /\ UNCHANGED <<restoreMode, sh, restoring, process, pause, walk, writer, stream, world>>

\* Mutation: the abort of any generation opens the gate.
AbortAnyCheckpoint(g) ==
    /\ sh # "none" /\ ~Pausing
    /\ asked' = g
    /\ IF ckpt.active /\ ckpt.ready THEN Reopen ELSE UNCHANGED <<ckpt, proc, pause, walk>>
    /\ UNCHANGED <<restoreMode, sh, restoring, ancestors, detached, pc, writer, stream,
                   home, life, faults>>

AbortCompletedCheckpoint(g) ==
    /\ sh # "none" /\ ~Pausing
    /\ asked' = g
    /\ IF ckpt.active /\ ckpt.id = g /\ ckpt.ready THEN Reopen ELSE UNCHANGED <<ckpt, proc, pause, walk>>
    /\ UNCHANGED <<restoreMode, sh, restoring, ancestors, detached, pc, writer, stream,
                   home, life, faults>>

-----------------------------------------------------------------------------
\* The pod's life.

\* The shell exited or the container was killed: the kubelet starts it again,
\* with the same environment and the same volume.
Restart ==
    /\ life < MaxLives
    /\ \/ sh = "exited" /\ UNCHANGED faults
       \/ Fault
    /\ Booted(~restoreMode)
    /\ life' = life + 1
    /\ UNCHANGED <<restoreMode, walk, home, asked>>

\* The snapshot was committed: the pod is reclaimed and a new one awaits its archive.
Reclaim ==
    /\ ckpt.ready /\ pc = "idle" /\ life < MaxLives
    /\ Booted(FALSE)
    /\ restoreMode' = TRUE /\ home' = 0 /\ life' = life + 1
    /\ UNCHANGED <<walk, asked, faults>>

\* handleRestore holds the checkpoint slot until its shell is adopted.
BeginRestore ==
    /\ sh = "none" /\ ~ckpt.active
    /\ ckpt' = [ckpt EXCEPT !.active = TRUE] /\ restoring' = "files"
    /\ UNCHANGED <<restoreMode, sh, process, request, writer, stream, world>>

Adopt ==
    /\ restoring = "files"
    /\ home' = walk.second /\ out' = walk.out
    /\ sh' = "live" /\ proc' = [proc EXCEPT ![Shell] = "running"]
    /\ restoring' = "adopted"
    /\ UNCHANGED <<restoreMode, ckpt, ancestors, detached, request, writer, pty, life, asked, faults>>

EndRestore ==
    /\ \/ restoring = "adopted" /\ UNCHANGED faults
       \/ restoring = "files" /\ Fault
    /\ ckpt' = NoCkpt /\ restoring' = "no"
    /\ UNCHANGED <<restoreMode, sh, process, request, writer, stream, home, life, asked>>

Next ==
    \/ \E p \in Pids : Fork(p) \/ Exit(p) \/ WriteFile(p) \/ PutOutput(p) \/ StopLands(p)
    \/ \E w \in Writers : Admit(w) \/ WritePTY(w)
    \/ \E g \in Gens : BeginCheckpoint(g) \/ AbortCompletedCheckpoint(g)
    \/ HandleCheckpoint \/ Scan \/ Stop \/ WaitStopped \/ WriteStateArchive \/ AbortCheckpoint \/ CompleteCheckpoint
    \/ Drain \/ Restart \/ Reclaim \/ BeginRestore \/ Adopt \/ EndRestore

Spec == Init /\ [][Next]_vars

-----------------------------------------------------------------------------
Archived == ckpt.active /\ ckpt.id # None /\ (pc = "stream" \/ ckpt.ready)

\* The archive of HOME is one moment, and HOME has not moved since, however the
\* tree grew while it was being stopped.  What pauseTree itself gives up on is
\* left out: a process that has left the tree, one that was still working when
\* the wait ended, one that was found in the last round.
ArchiveHoldsStill ==
    Archived /\ pause.settled /\ ~pause.fresh /\ detached = {} =>
      walk.first = home /\ walk.second = home

\* main.go, on admission: no accepted input lands after the archive's scrollback
\* was taken, whichever write was between its check and the PTY.
InputBeforeScrollback ==
    Pausing \/ pc \in {"scrollback", "home", "rest", "stream"} \/ Archived => \A w \in Writers : writer[w] = "idle"

\* To the control plane the agent is a checkpoint gate.
Gate == INSTANCE CheckpointGate WITH
    gate <- IF sh = "none" \/ restoring # "no" THEN "awaiting"
            ELSE IF ~ckpt.active THEN "open"
            ELSE IF ckpt.ready THEN "ready" ELSE "streaming",
    gen  <- ckpt.id

ImplementsGate == Gate!Spec
=============================================================================
