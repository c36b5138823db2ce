--------------------------- MODULE ShellAgentProofs ---------------------------
(***************************************************************************)
(* Proofs that the shell agent keeps HOME and the input still under a      *)
(* checkpoint and is the gate the control plane relies on, for any number  *)
(* of processes, writers, generations and scan rounds.                     *)
(***************************************************************************)
EXTENDS ShellAgent, TLAPS, WellFoundedInduction

Working == {"scan", "stop", "settle", "scrollback", "home", "rest", "stream"}

\* Who holds the checkpoint slot: a request that works, an archive that is out, or
\* a restore.
SlotInv ==
    /\ pc \in Working => ckpt.active = TRUE /\ ckpt.ready = FALSE /\ ckpt.id \in Gens /\ sh # "none"
    /\ ckpt.ready = TRUE => ckpt.active = TRUE /\ ckpt.id \in Gens /\ sh # "none"
    /\ ckpt.id # None => pc \in Working \/ ckpt.ready = TRUE
    /\ restoring # "no" => ckpt.active = TRUE /\ ckpt.id = None
    /\ restoring = "no" /\ ckpt.active = TRUE => ckpt.id # None
    /\ restoring = "files" => sh = "none"
    /\ restoring = "no" /\ sh = "none" => ckpt.active = FALSE

\* No write is between its check and the PTY while the slot is a checkpoint's.
WriterInv == ckpt.id # None => \A w \in Writers : writer[w] = "idle"

\* As long as nothing was handed to init, everything alive is below the shell; a
\* pod that awaits its archive runs nothing.
TreeInv ==
    /\ detached = {} => \A p \in Alive : p = Shell \/ Shell \in ancestors[p]
    /\ sh = "none" => Alive = {}

\* What pauseTree has signalled cannot fork and will be resumed; when its last
\* scan found nothing new, that is all there is.
PauseInv ==
    /\ pc \in {"scan", "stop", "settle"} =>
         \A p \in pause.seen : (proc[p] \in {"stopping", "stopped"} /\ p \in ckpt.paused) \/ proc[p] = "gone"
    /\ pc = "stop" => pause.targets # {} /\ \A p \in pause.targets : proc[p] # "none"
    /\ pc = "settle" /\ pause.fresh = FALSE /\ detached = {} => Alive \subseteq pause.seen
    /\ pc \in {"scan", "stop", "settle"} => pause.settled = FALSE

\* After a wait that saw every process stop, none moves until the gate reopens.
StillInv ==
    /\ pause.settled = TRUE => ckpt.id # None
    /\ pause.settled = TRUE /\ pause.fresh = FALSE /\ detached = {} => \A p \in Alive : proc[p] = "stopped"

\* What the walk has read of HOME so far is what HOME is.
WalkInv ==
    pause.settled = TRUE /\ pause.fresh = FALSE /\ detached = {} =>
      /\ pc \in {"rest", "stream"} \/ ckpt.ready = TRUE => walk.first = home
      /\ pc = "stream" \/ ckpt.ready = TRUE => walk.second = home

IInv == TypeOK /\ SlotInv /\ WriterInv /\ TreeInv /\ PauseInv /\ StillInv /\ WalkInv

\* A set of processes that is not empty has a first one: what Stop signals next.
LEMMA FirstTarget ==
    ASSUME NEW T, T \subseteq Pids, T # {} PROVE \E p \in T : \A q \in T : p <= q
<1>1. T \subseteq Nat
  BY ShellAssumption DEF Pids
<1>2. PICK p \in T : \A q \in T : ~(<<q, p>> \in OpToRel(<, Nat))
  BY <1>1, NatLessThanWellFounded, WFMin, Zenon
<1>3. \A q \in T : ~(q < p)
  BY <1>1, <1>2 DEF OpToRel
<1>4. QED
  BY <1>1, <1>3

\* What one SIGSTOP of pauseTree does.
Signalled(p) ==
    /\ pause' = [pause EXCEPT !.targets = @ \ {p}, !.seen = @ \cup {p}]
    /\ p \in Alive => /\ proc' = [proc EXCEPT ![p] = IF @ = "running" THEN "stopping" ELSE @]
                      /\ ckpt' = [ckpt EXCEPT !.paused = @ \cup {p}]
    /\ p \notin Alive => UNCHANGED <<proc, ckpt>>

\* Stop signals one of its targets.
LEMMA StopSignals == ASSUME TypeOK, PauseInv, Stop PROVE \E p \in pause.targets : p \in Pids /\ Signalled(p)
<1> DEFINE first == CHOOSE p \in pause.targets : \A q \in pause.targets : p <= q
<1>1. pause.targets \subseteq Pids /\ pause.targets # {}
  BY DEF TypeOK, Pauses, PauseInv, Stop
<1>2. first \in pause.targets
  BY <1>1, FirstTarget
<1>3. Signalled(first)
  BY DEF Stop, Signalled
<1>4. QED
  BY <1>1, <1>2, <1>3

\* An empty slot, pause and walk are of their types.
LEMMA EmptyTypes == NoCkpt \in Slots /\ NoPause \in Pauses /\ NoWalk \in Walks
  BY ShellAssumption DEF NoCkpt, NoPause, NoWalk, Slots, Pauses, Walks, Pids

\* Every step keeps the variables in their types.
LEMMA TypeStep == ASSUME IInv, [Next]_vars PROVE TypeOK'
<1> USE ShellAssumption DEF process, request, stream, world, Fault, TypeOK, IInv, Shell, Pids,
    Alive, NoCkpt, NoPause, NoWalk, Slots, Pauses, Walks, Working, Pausing
<1>1. ASSUME NEW p \in Pids, Fork(p) PROVE TypeOK'
  <2>1. restoreMode' \in BOOLEAN /\ sh' \in {"none", "live", "exited"} /\ restoring' \in {"no", "files", "adopted"}
    BY <1>1 DEF Fork
  <2>2. ckpt' \in Slots
    BY <1>1 DEF Fork
  <2>3. proc' \in [Pids -> {"none", "running", "stopping", "stopped", "gone"}]
    BY <1>1 DEF Fork
  <2>4. ancestors' \in [Pids -> SUBSET Pids] /\ detached' \subseteq Pids
    BY <1>1, SMTT(30) DEF Fork
  <2>5. pc' \in {"idle", "lock", "scan", "stop", "settle", "scrollback", "home", "rest", "stream"}
    BY <1>1 DEF Fork
  <2>6. pause' \in Pauses
    BY <1>1 DEF Fork
  <2>7. writer' \in [Writers -> {"idle", "admitted"}]
    BY <1>1 DEF Fork
  <2>8. pty' \in Nat /\ out' \in Nat /\ home' \in Nat
    BY <1>1 DEF Fork
  <2>9. walk' \in Walks
    BY <1>1 DEF Fork
  <2>10. life' \in 0 .. MaxLives /\ asked' \in Gens \cup {None} /\ faults' \in 0 .. MaxFaults
    BY <1>1 DEF Fork
  <2>11. QED
    BY <2>1, <2>2, <2>3, <2>4, <2>5, <2>6, <2>7, <2>8, <2>9, <2>10
<1>2. ASSUME NEW p \in Pids, Exit(p) PROVE TypeOK'
  <2>1. restoreMode' \in BOOLEAN /\ sh' \in {"none", "live", "exited"} /\ restoring' \in {"no", "files", "adopted"}
    BY <1>2 DEF Exit
  <2>2. ckpt' \in Slots
    BY <1>2 DEF Exit
  <2>3. proc' \in [Pids -> {"none", "running", "stopping", "stopped", "gone"}]
    BY <1>2 DEF Exit
  <2>4. ancestors' \in [Pids -> SUBSET Pids] /\ detached' \subseteq Pids
    BY <1>2 DEF Exit
  <2>5. pc' \in {"idle", "lock", "scan", "stop", "settle", "scrollback", "home", "rest", "stream"}
    BY <1>2 DEF Exit
  <2>6. pause' \in Pauses
    BY <1>2 DEF Exit
  <2>7. writer' \in [Writers -> {"idle", "admitted"}]
    BY <1>2 DEF Exit
  <2>8. pty' \in Nat /\ out' \in Nat /\ home' \in Nat
    BY <1>2 DEF Exit
  <2>9. walk' \in Walks
    BY <1>2 DEF Exit
  <2>10. life' \in 0 .. MaxLives /\ asked' \in Gens \cup {None} /\ faults' \in 0 .. MaxFaults
    BY <1>2 DEF Exit
  <2>11. QED
    BY <2>1, <2>2, <2>3, <2>4, <2>5, <2>6, <2>7, <2>8, <2>9, <2>10
<1>3. ASSUME NEW p \in Pids, WriteFile(p) PROVE TypeOK'
  BY <1>3, SMTT(30) DEF WriteFile, Works
<1>4. ASSUME NEW p \in Pids, PutOutput(p) PROVE TypeOK'
  BY <1>4, SMTT(30) DEF PutOutput, Works
<1>5. ASSUME NEW p \in Pids, StopLands(p) PROVE TypeOK'
  BY <1>5, SMTT(30) DEF StopLands
<1>6. ASSUME Drain PROVE TypeOK'
  BY <1>6 DEF Drain
<1>7. ASSUME NEW w \in Writers, Admit(w) PROVE TypeOK'
  BY <1>7 DEF Admit
<1>8. ASSUME NEW w \in Writers, WritePTY(w) PROVE TypeOK'
  <2>1. restoreMode' \in BOOLEAN /\ sh' \in {"none", "live", "exited"} /\ restoring' \in {"no", "files", "adopted"}
    BY <1>8 DEF WritePTY
  <2>2. ckpt' \in Slots
    BY <1>8 DEF WritePTY
  <2>3. proc' \in [Pids -> {"none", "running", "stopping", "stopped", "gone"}]
    BY <1>8 DEF WritePTY
  <2>4. ancestors' \in [Pids -> SUBSET Pids] /\ detached' \subseteq Pids
    BY <1>8 DEF WritePTY
  <2>5. pc' \in {"idle", "lock", "scan", "stop", "settle", "scrollback", "home", "rest", "stream"}
    BY <1>8 DEF WritePTY
  <2>6. pause' \in Pauses
    BY <1>8 DEF WritePTY
  <2>7. writer' \in [Writers -> {"idle", "admitted"}]
    BY <1>8 DEF WritePTY
  <2>8. pty' \in Nat /\ out' \in Nat /\ home' \in Nat
    BY <1>8 DEF WritePTY
  <2>9. walk' \in Walks
    BY <1>8 DEF WritePTY
  <2>10. life' \in 0 .. MaxLives /\ asked' \in Gens \cup {None} /\ faults' \in 0 .. MaxFaults
    BY <1>8 DEF WritePTY
  <2>11. QED
    BY <2>1, <2>2, <2>3, <2>4, <2>5, <2>6, <2>7, <2>8, <2>9, <2>10
<1>9. ASSUME HandleCheckpoint PROVE TypeOK'
  BY <1>9 DEF HandleCheckpoint
<1>10. ASSUME NEW g \in Gens, BeginCheckpoint(g) PROVE TypeOK'
  <2>1. restoreMode' \in BOOLEAN /\ sh' \in {"none", "live", "exited"} /\ restoring' \in {"no", "files", "adopted"}
    BY <1>10 DEF BeginCheckpoint
  <2>2. ckpt' \in Slots
    <3>1. [NoCkpt EXCEPT !.active = TRUE, !.id = g] \in Slots
      BY EmptyTypes DEF Slots, NoCkpt
    <3>2. QED
      BY <1>10, <3>1 DEF BeginCheckpoint
  <2>3. proc' \in [Pids -> {"none", "running", "stopping", "stopped", "gone"}]
    BY <1>10 DEF BeginCheckpoint
  <2>4. ancestors' \in [Pids -> SUBSET Pids] /\ detached' \subseteq Pids
    BY <1>10 DEF BeginCheckpoint
  <2>5. pc' \in {"idle", "lock", "scan", "stop", "settle", "scrollback", "home", "rest", "stream"}
    BY <1>10 DEF BeginCheckpoint
  <2>6. pause' \in Pauses
    BY <1>10, EmptyTypes DEF BeginCheckpoint
  <2>7. writer' \in [Writers -> {"idle", "admitted"}]
    BY <1>10 DEF BeginCheckpoint
  <2>8. pty' \in Nat /\ out' \in Nat /\ home' \in Nat
    BY <1>10 DEF BeginCheckpoint
  <2>9. walk' \in Walks
    BY <1>10, EmptyTypes DEF BeginCheckpoint
  <2>10. life' \in 0 .. MaxLives /\ asked' \in Gens \cup {None} /\ faults' \in 0 .. MaxFaults
    BY <1>10 DEF BeginCheckpoint
  <2>11. QED
    BY <2>1, <2>2, <2>3, <2>4, <2>5, <2>6, <2>7, <2>8, <2>9, <2>10
<1>11. ASSUME Scan PROVE TypeOK'
  <2>1. restoreMode' \in BOOLEAN /\ sh' \in {"none", "live", "exited"} /\ restoring' \in {"no", "files", "adopted"}
    BY <1>11 DEF Scan
  <2>2. ckpt' \in Slots
    BY <1>11 DEF Scan
  <2>3. proc' \in [Pids -> {"none", "running", "stopping", "stopped", "gone"}]
    BY <1>11 DEF Scan
  <2>4. ancestors' \in [Pids -> SUBSET Pids] /\ detached' \subseteq Pids
    BY <1>11 DEF Scan
  <2>5. pc' \in {"idle", "lock", "scan", "stop", "settle", "scrollback", "home", "rest", "stream"}
    BY <1>11 DEF Scan
  <2>6. pause' \in Pauses
    <3>1. ProcessTree \ pause.seen \subseteq Pids
      BY DEF ProcessTree, Alive
    <3>2. pause.round # MaxRounds => pause.round + 1 \in 0 .. MaxRounds
      BY SMTT(30) DEF Pauses
    <3>3. CASE pause.round = MaxRounds \/ ProcessTree \ pause.seen = {}
      <4>1. pause' = [pause EXCEPT !.fresh = (ProcessTree \ pause.seen # {})]
        BY <1>11, <3>3, Zenon DEF Scan
      <4>2. (ProcessTree \ pause.seen # {}) \in BOOLEAN
        OBVIOUS
      <4>3. QED
        BY <4>1, <4>2 DEF Pauses
    <3>4. CASE ~(pause.round = MaxRounds \/ ProcessTree \ pause.seen = {})
      <4>1. pause' = [pause EXCEPT !.targets = ProcessTree \ pause.seen, !.round = pause.round + 1]
        BY <1>11, <3>4 DEF Scan
      <4>2. QED
        BY <3>1, <3>2, <3>4, <4>1 DEF Pauses
    <3>5. QED
      BY <3>3, <3>4
  <2>7. writer' \in [Writers -> {"idle", "admitted"}]
    BY <1>11 DEF Scan
  <2>8. pty' \in Nat /\ out' \in Nat /\ home' \in Nat
    BY <1>11 DEF Scan
  <2>9. walk' \in Walks
    BY <1>11 DEF Scan
  <2>10. life' \in 0 .. MaxLives /\ asked' \in Gens \cup {None} /\ faults' \in 0 .. MaxFaults
    BY <1>11 DEF Scan
  <2>11. QED
    BY <2>1, <2>2, <2>3, <2>4, <2>5, <2>6, <2>7, <2>8, <2>9, <2>10
<1>12. ASSUME Stop PROVE TypeOK'
  <2>0. PICK p \in pause.targets : p \in Pids /\ Signalled(p)
    BY <1>12, StopSignals
  <2>1. restoreMode' \in BOOLEAN /\ sh' \in {"none", "live", "exited"} /\ restoring' \in {"no", "files", "adopted"}
    BY <1>12 DEF Stop
  <2>2. ckpt' \in Slots
    <3>1. ckpt.paused \cup {p} \subseteq Pids
      BY <2>0 DEF Slots
    <3>2. [ckpt EXCEPT !.paused = @ \cup {p}] \in Slots
      BY <3>1 DEF Slots
    <3>3. QED
      BY <2>0, <3>2 DEF Signalled
  <2>3. proc' \in [Pids -> {"none", "running", "stopping", "stopped", "gone"}]
    <3>1. (IF proc[p] = "running" THEN "stopping" ELSE proc[p]) \in {"none", "running", "stopping", "stopped", "gone"}
      BY <2>0
    <3>2. QED
      BY <2>0, <3>1 DEF Signalled
  <2>4. ancestors' \in [Pids -> SUBSET Pids] /\ detached' \subseteq Pids
    BY <1>12 DEF Stop
  <2>5. pc' \in {"idle", "lock", "scan", "stop", "settle", "scrollback", "home", "rest", "stream"}
    BY <1>12 DEF Stop
  <2>6. pause' \in Pauses
    BY <2>0 DEF Signalled
  <2>7. writer' \in [Writers -> {"idle", "admitted"}]
    BY <1>12 DEF Stop
  <2>8. pty' \in Nat /\ out' \in Nat /\ home' \in Nat
    BY <1>12 DEF Stop
  <2>9. walk' \in Walks
    BY <1>12 DEF Stop
  <2>10. life' \in 0 .. MaxLives /\ asked' \in Gens \cup {None} /\ faults' \in 0 .. MaxFaults
    BY <1>12 DEF Stop
  <2>11. QED
    BY <2>1, <2>2, <2>3, <2>4, <2>5, <2>6, <2>7, <2>8, <2>9, <2>10
<1>13. ASSUME WaitStopped PROVE TypeOK'
  <2>1. restoreMode' \in BOOLEAN /\ sh' \in {"none", "live", "exited"} /\ restoring' \in {"no", "files", "adopted"}
    BY <1>13 DEF WaitStopped
  <2>2. ckpt' \in Slots
    BY <1>13 DEF WaitStopped
  <2>3. proc' \in [Pids -> {"none", "running", "stopping", "stopped", "gone"}]
    BY <1>13 DEF WaitStopped
  <2>4. ancestors' \in [Pids -> SUBSET Pids] /\ detached' \subseteq Pids
    BY <1>13 DEF WaitStopped
  <2>5. pc' \in {"idle", "lock", "scan", "stop", "settle", "scrollback", "home", "rest", "stream"}
    BY <1>13 DEF WaitStopped
  <2>6. pause' \in Pauses
    <3>1. [NoPause EXCEPT !.settled = TRUE, !.fresh = pause.fresh] \in Pauses
      BY EmptyTypes DEF NoPause, Pauses
    <3>2. QED
      BY <1>13, <3>1, EmptyTypes DEF WaitStopped
  <2>7. writer' \in [Writers -> {"idle", "admitted"}]
    BY <1>13 DEF WaitStopped
  <2>8. pty' \in Nat /\ out' \in Nat /\ home' \in Nat
    BY <1>13 DEF WaitStopped
  <2>9. walk' \in Walks
    BY <1>13 DEF WaitStopped
  <2>10. life' \in 0 .. MaxLives /\ asked' \in Gens \cup {None} /\ faults' \in 0 .. MaxFaults
    BY <1>13, SMTT(30) DEF WaitStopped
  <2>11. QED
    BY <2>1, <2>2, <2>3, <2>4, <2>5, <2>6, <2>7, <2>8, <2>9, <2>10
<1>14. ASSUME WriteStateArchive PROVE TypeOK'
  <2>1. restoreMode' \in BOOLEAN /\ sh' \in {"none", "live", "exited"} /\ restoring' \in {"no", "files", "adopted"}
    BY <1>14 DEF WriteStateArchive
  <2>2. ckpt' \in Slots
    BY <1>14 DEF WriteStateArchive
  <2>3. proc' \in [Pids -> {"none", "running", "stopping", "stopped", "gone"}]
    BY <1>14 DEF WriteStateArchive
  <2>4. ancestors' \in [Pids -> SUBSET Pids] /\ detached' \subseteq Pids
    BY <1>14 DEF WriteStateArchive
  <2>5. pc' \in {"idle", "lock", "scan", "stop", "settle", "scrollback", "home", "rest", "stream"}
    BY <1>14 DEF WriteStateArchive
  <2>6. pause' \in Pauses
    BY <1>14 DEF WriteStateArchive
  <2>7. writer' \in [Writers -> {"idle", "admitted"}]
    BY <1>14 DEF WriteStateArchive
  <2>8. pty' \in Nat /\ out' \in Nat /\ home' \in Nat
    BY <1>14 DEF WriteStateArchive
  <2>9. walk' \in Walks
    BY <1>14 DEF WriteStateArchive, Walks
  <2>10. life' \in 0 .. MaxLives /\ asked' \in Gens \cup {None} /\ faults' \in 0 .. MaxFaults
    BY <1>14 DEF WriteStateArchive
  <2>11. QED
    BY <2>1, <2>2, <2>3, <2>4, <2>5, <2>6, <2>7, <2>8, <2>9, <2>10
<1>15. ASSUME AbortCheckpoint PROVE TypeOK'
  BY <1>15 DEF AbortCheckpoint, Reopen, Resumed
<1>16. ASSUME CompleteCheckpoint PROVE TypeOK'
  BY <1>16 DEF CompleteCheckpoint
<1>17. ASSUME NEW g \in Gens, AbortCompletedCheckpoint(g) PROVE TypeOK'
  <2>1. restoreMode' \in BOOLEAN /\ sh' \in {"none", "live", "exited"} /\ restoring' \in {"no", "files", "adopted"}
    BY <1>17 DEF AbortCompletedCheckpoint, Reopen, Resumed
  <2>2. ckpt' \in Slots
    BY <1>17, EmptyTypes DEF AbortCompletedCheckpoint, Reopen
  <2>3. proc' \in [Pids -> {"none", "running", "stopping", "stopped", "gone"}]
    BY <1>17 DEF AbortCompletedCheckpoint, Reopen, Resumed
  <2>4. ancestors' \in [Pids -> SUBSET Pids] /\ detached' \subseteq Pids
    BY <1>17 DEF AbortCompletedCheckpoint, Reopen, Resumed
  <2>5. pc' \in {"idle", "lock", "scan", "stop", "settle", "scrollback", "home", "rest", "stream"}
    BY <1>17 DEF AbortCompletedCheckpoint, Reopen, Resumed
  <2>6. pause' \in Pauses
    BY <1>17, EmptyTypes DEF AbortCompletedCheckpoint, Reopen
  <2>7. writer' \in [Writers -> {"idle", "admitted"}]
    BY <1>17 DEF AbortCompletedCheckpoint, Reopen, Resumed
  <2>8. pty' \in Nat /\ out' \in Nat /\ home' \in Nat
    BY <1>17 DEF AbortCompletedCheckpoint, Reopen, Resumed
  <2>9. walk' \in Walks
    BY <1>17, EmptyTypes DEF AbortCompletedCheckpoint, Reopen
  <2>10. life' \in 0 .. MaxLives /\ asked' \in Gens \cup {None} /\ faults' \in 0 .. MaxFaults
    BY <1>17 DEF AbortCompletedCheckpoint, Reopen, Resumed
  <2>11. QED
    BY <2>1, <2>2, <2>3, <2>4, <2>5, <2>6, <2>7, <2>8, <2>9, <2>10
<1>18. ASSUME Restart PROVE TypeOK'
  BY <1>18, SMTT(30) DEF Restart, Booted
<1>19. ASSUME Reclaim PROVE TypeOK'
  BY <1>19 DEF Reclaim, Booted
<1>20. ASSUME BeginRestore PROVE TypeOK'
  BY <1>20 DEF BeginRestore
<1>21. ASSUME Adopt PROVE TypeOK'
  BY <1>21 DEF Adopt
<1>22. ASSUME EndRestore PROVE TypeOK'
  BY <1>22, SMTT(30) DEF EndRestore
<1>24. CASE UNCHANGED vars
  BY <1>24 DEF vars
<1>25. QED
  BY <1>1, <1>2, <1>3, <1>4, <1>5, <1>6, <1>7, <1>8, <1>9, <1>10, <1>11, <1>12, <1>13, <1>14,
      <1>15, <1>16, <1>17, <1>18, <1>19, <1>20, <1>21, <1>22, <1>24 DEF Next

\* The slot changes hands only through whoever holds it.
LEMMA SlotStep == ASSUME IInv, [Next]_vars PROVE SlotInv'
<1> USE ShellAssumption DEF process, request, stream, world, Fault, TypeOK, IInv, Shell, Pids,
    Alive, NoCkpt, NoPause, NoWalk, Slots, Pauses, Walks, Working, Pausing, SlotInv, TreeInv
<1>1. ASSUME NEW p \in Pids, Fork(p) PROVE SlotInv'
  BY <1>1 DEF Fork
<1>2. ASSUME NEW p \in Pids, Exit(p) PROVE SlotInv'
  BY <1>2 DEF Exit
<1>3. ASSUME NEW p \in Pids, WriteFile(p) PROVE SlotInv'
  BY <1>3 DEF WriteFile, Works
<1>4. ASSUME NEW p \in Pids, PutOutput(p) PROVE SlotInv'
  BY <1>4 DEF PutOutput, Works
<1>5. ASSUME NEW p \in Pids, StopLands(p) PROVE SlotInv'
  BY <1>5 DEF StopLands
<1>6. ASSUME Drain PROVE SlotInv'
  BY <1>6 DEF Drain
<1>7. ASSUME NEW w \in Writers, Admit(w) PROVE SlotInv'
  BY <1>7 DEF Admit
<1>8. ASSUME NEW w \in Writers, WritePTY(w) PROVE SlotInv'
  BY <1>8 DEF WritePTY
<1>9. ASSUME HandleCheckpoint PROVE SlotInv'
  BY <1>9 DEF HandleCheckpoint
<1>10. ASSUME NEW g \in Gens, BeginCheckpoint(g) PROVE SlotInv'
  <2>1. CASE sh = "live" /\ ckpt.active = FALSE
    <3>1. ckpt'.active = TRUE /\ ckpt'.ready = FALSE /\ ckpt'.id = g /\ pc' = "scan"
      BY <1>10, <2>1, ZenonT(40) DEF BeginCheckpoint
    <3>2. restoring' = "no" /\ sh' = "live"
      BY <1>10, <2>1 DEF BeginCheckpoint
    <3>3. QED
      BY <3>1, <3>2
  <2>2. CASE ~(sh = "live" /\ ckpt.active = FALSE)
    BY <1>10, <2>2 DEF BeginCheckpoint
  <2>3. QED
    BY <2>1, <2>2
<1>11. ASSUME Scan PROVE SlotInv'
  BY <1>11 DEF Scan
<1>12. ASSUME Stop PROVE SlotInv'
  BY <1>12, ZenonT(40) DEF Stop
<1>13. ASSUME WaitStopped PROVE SlotInv'
  BY <1>13 DEF WaitStopped
<1>14. ASSUME WriteStateArchive PROVE SlotInv'
  BY <1>14 DEF WriteStateArchive
<1>15. ASSUME AbortCheckpoint PROVE SlotInv'
  BY <1>15 DEF AbortCheckpoint, Reopen, Resumed
<1>16. ASSUME CompleteCheckpoint PROVE SlotInv'
  BY <1>16 DEF CompleteCheckpoint
<1>17. ASSUME NEW g \in Gens, AbortCompletedCheckpoint(g) PROVE SlotInv'
  BY <1>17 DEF AbortCompletedCheckpoint, Reopen, Resumed
<1>18. ASSUME Restart PROVE SlotInv'
  BY <1>18 DEF Restart, Booted
<1>19. ASSUME Reclaim PROVE SlotInv'
  BY <1>19 DEF Reclaim, Booted
<1>20. ASSUME BeginRestore PROVE SlotInv'
  BY <1>20 DEF BeginRestore
<1>21. ASSUME Adopt PROVE SlotInv'
  BY <1>21 DEF Adopt
<1>22. ASSUME EndRestore PROVE SlotInv'
  BY <1>22 DEF EndRestore
<1>24. CASE UNCHANGED vars
  BY <1>24 DEF vars
<1>25. QED
  BY <1>1, <1>2, <1>3, <1>4, <1>5, <1>6, <1>7, <1>8, <1>9, <1>10, <1>11, <1>12, <1>13, <1>14,
      <1>15, <1>16, <1>17, <1>18, <1>19, <1>20, <1>21, <1>22, <1>24 DEF Next

\* A write is let in only while no checkpoint holds the slot.
LEMMA WriterStep == ASSUME IInv, [Next]_vars PROVE WriterInv'
<1> USE ShellAssumption DEF process, request, stream, world, Fault, TypeOK, IInv, Shell, Pids,
    Alive, NoCkpt, NoPause, NoWalk, Slots, Pauses, Walks, Working, Pausing, SlotInv, WriterInv
<1>1. ASSUME NEW p \in Pids, Fork(p) PROVE WriterInv'
  BY <1>1 DEF Fork
<1>2. ASSUME NEW p \in Pids, Exit(p) PROVE WriterInv'
  BY <1>2 DEF Exit
<1>3. ASSUME NEW p \in Pids, WriteFile(p) PROVE WriterInv'
  BY <1>3 DEF WriteFile, Works
<1>4. ASSUME NEW p \in Pids, PutOutput(p) PROVE WriterInv'
  BY <1>4 DEF PutOutput, Works
<1>5. ASSUME NEW p \in Pids, StopLands(p) PROVE WriterInv'
  BY <1>5 DEF StopLands
<1>6. ASSUME Drain PROVE WriterInv'
  BY <1>6 DEF Drain
<1>7. ASSUME NEW w \in Writers, Admit(w) PROVE WriterInv'
  BY <1>7 DEF Admit
<1>8. ASSUME NEW w \in Writers, WritePTY(w) PROVE WriterInv'
  BY <1>8 DEF WritePTY
<1>9. ASSUME HandleCheckpoint PROVE WriterInv'
  BY <1>9 DEF HandleCheckpoint
<1>10. ASSUME NEW g \in Gens, BeginCheckpoint(g) PROVE WriterInv'
  BY <1>10 DEF BeginCheckpoint
<1>11. ASSUME Scan PROVE WriterInv'
  BY <1>11 DEF Scan
<1>12. ASSUME Stop PROVE WriterInv'
  BY <1>12 DEF Stop
<1>13. ASSUME WaitStopped PROVE WriterInv'
  BY <1>13 DEF WaitStopped
<1>14. ASSUME WriteStateArchive PROVE WriterInv'
  BY <1>14 DEF WriteStateArchive
<1>15. ASSUME AbortCheckpoint PROVE WriterInv'
  BY <1>15 DEF AbortCheckpoint, Reopen, Resumed
<1>16. ASSUME CompleteCheckpoint PROVE WriterInv'
  BY <1>16 DEF CompleteCheckpoint
<1>17. ASSUME NEW g \in Gens, AbortCompletedCheckpoint(g) PROVE WriterInv'
  BY <1>17 DEF AbortCompletedCheckpoint, Reopen, Resumed
<1>18. ASSUME Restart PROVE WriterInv'
  BY <1>18 DEF Restart, Booted
<1>19. ASSUME Reclaim PROVE WriterInv'
  BY <1>19 DEF Reclaim, Booted
<1>20. ASSUME BeginRestore PROVE WriterInv'
  BY <1>20 DEF BeginRestore
<1>21. ASSUME Adopt PROVE WriterInv'
  BY <1>21 DEF Adopt
<1>22. ASSUME EndRestore PROVE WriterInv'
  BY <1>22 DEF EndRestore
<1>24. CASE UNCHANGED vars
  BY <1>24 DEF vars
<1>25. QED
  BY <1>1, <1>2, <1>3, <1>4, <1>5, <1>6, <1>7, <1>8, <1>9, <1>10, <1>11, <1>12, <1>13, <1>14,
      <1>15, <1>16, <1>17, <1>18, <1>19, <1>20, <1>21, <1>22, <1>24 DEF Next

\* What is born below the shell stays below it, or is handed to init.
LEMMA TreeStep == ASSUME IInv, [Next]_vars PROVE TreeInv'
<1> USE ShellAssumption DEF process, request, stream, world, Fault, TypeOK, IInv, Shell, Pids,
    Alive, NoCkpt, NoPause, NoWalk, Slots, Pauses, Walks, Working, Pausing, TreeInv
<1>1. ASSUME NEW p \in Pids, Fork(p) PROVE TreeInv'
  BY <1>1, SMTT(30) DEF Fork
<1>2. ASSUME NEW p \in Pids, Exit(p) PROVE TreeInv'
  BY <1>2 DEF Exit
<1>3. ASSUME NEW p \in Pids, WriteFile(p) PROVE TreeInv'
  BY <1>3 DEF WriteFile, Works
<1>4. ASSUME NEW p \in Pids, PutOutput(p) PROVE TreeInv'
  BY <1>4 DEF PutOutput, Works
<1>5. ASSUME NEW p \in Pids, StopLands(p) PROVE TreeInv'
  BY <1>5 DEF StopLands
<1>6. ASSUME Drain PROVE TreeInv'
  BY <1>6 DEF Drain
<1>7. ASSUME NEW w \in Writers, Admit(w) PROVE TreeInv'
  BY <1>7 DEF Admit
<1>8. ASSUME NEW w \in Writers, WritePTY(w) PROVE TreeInv'
  BY <1>8 DEF WritePTY
<1>9. ASSUME HandleCheckpoint PROVE TreeInv'
  BY <1>9 DEF HandleCheckpoint
<1>10. ASSUME NEW g \in Gens, BeginCheckpoint(g) PROVE TreeInv'
  BY <1>10 DEF BeginCheckpoint
<1>11. ASSUME Scan PROVE TreeInv'
  BY <1>11 DEF Scan
<1>12. ASSUME Stop PROVE TreeInv'
  BY <1>12, ZenonT(40) DEF Stop
<1>13. ASSUME WaitStopped PROVE TreeInv'
  BY <1>13 DEF WaitStopped
<1>14. ASSUME WriteStateArchive PROVE TreeInv'
  BY <1>14 DEF WriteStateArchive
<1>15. ASSUME AbortCheckpoint PROVE TreeInv'
  BY <1>15 DEF AbortCheckpoint, Reopen, Resumed
<1>16. ASSUME CompleteCheckpoint PROVE TreeInv'
  BY <1>16 DEF CompleteCheckpoint
<1>17. ASSUME NEW g \in Gens, AbortCompletedCheckpoint(g) PROVE TreeInv'
  BY <1>17, SMTT(30) DEF AbortCompletedCheckpoint, Reopen, Resumed
<1>18. ASSUME Restart PROVE TreeInv'
  BY <1>18 DEF Restart, Booted
<1>19. ASSUME Reclaim PROVE TreeInv'
  BY <1>19 DEF Reclaim, Booted
<1>20. ASSUME BeginRestore PROVE TreeInv'
  BY <1>20 DEF BeginRestore
<1>21. ASSUME Adopt PROVE TreeInv'
  BY <1>21 DEF Adopt
<1>22. ASSUME EndRestore PROVE TreeInv'
  BY <1>22 DEF EndRestore
<1>24. CASE UNCHANGED vars
  BY <1>24 DEF vars
<1>25. QED
  BY <1>1, <1>2, <1>3, <1>4, <1>5, <1>6, <1>7, <1>8, <1>9, <1>10, <1>11, <1>12, <1>13, <1>14,
      <1>15, <1>16, <1>17, <1>18, <1>19, <1>20, <1>21, <1>22, <1>24 DEF Next

\* A signalled process stays signalled while the tree is being stopped.
LEMMA PauseStep == ASSUME IInv, [Next]_vars PROVE PauseInv'
<1> USE ShellAssumption DEF process, request, stream, world, Fault, TypeOK, IInv, Shell, Pids,
    Alive, NoCkpt, NoPause, NoWalk, Slots, Pauses, Walks, Working, Pausing, SlotInv, TreeInv,
    PauseInv, ProcessTree
<1>1. ASSUME NEW p \in Pids, Fork(p) PROVE PauseInv'
  <2>1. PICK q \in Pids : proc[q] = "none" /\ proc' = [proc EXCEPT ![q] = "running"]
    BY <1>1 DEF Fork
  <2>2. UNCHANGED <<pc, pause, ckpt, detached>> /\ proc[p] = "running"
    BY <1>1 DEF Fork
  <2>3. pause.seen \subseteq Pids /\ pause.targets \subseteq Pids
    OBVIOUS
  <2>4. \A r \in Pids : proc[r] # "none" => proc'[r] = proc[r]
    BY <2>1
  <2>5. ~(pc = "settle" /\ pause.fresh = FALSE /\ detached = {})
    BY <2>2
  <2>6. QED
    BY <2>2, <2>3, <2>4, <2>5, SMTT(30)
<1>2. ASSUME NEW p \in Pids, Exit(p) PROVE PauseInv'
  BY <1>2, SMTT(30) DEF Exit
<1>3. ASSUME NEW p \in Pids, WriteFile(p) PROVE PauseInv'
  BY <1>3 DEF WriteFile, Works
<1>4. ASSUME NEW p \in Pids, PutOutput(p) PROVE PauseInv'
  BY <1>4 DEF PutOutput, Works
<1>5. ASSUME NEW p \in Pids, StopLands(p) PROVE PauseInv'
  BY <1>5, SMTT(30) DEF StopLands
<1>6. ASSUME Drain PROVE PauseInv'
  BY <1>6 DEF Drain
<1>7. ASSUME NEW w \in Writers, Admit(w) PROVE PauseInv'
  BY <1>7 DEF Admit
<1>8. ASSUME NEW w \in Writers, WritePTY(w) PROVE PauseInv'
  BY <1>8 DEF WritePTY
<1>9. ASSUME HandleCheckpoint PROVE PauseInv'
  BY <1>9 DEF HandleCheckpoint
<1>10. ASSUME NEW g \in Gens, BeginCheckpoint(g) PROVE PauseInv'
  BY <1>10, SMTT(30) DEF BeginCheckpoint
<1>11. ASSUME Scan PROVE PauseInv'
  <2> DEFINE found == ProcessTree \ pause.seen
  <2>1. CASE pause.round = MaxRounds \/ found = {}
    <3>1. pc' = "settle" /\ pause' = [pause EXCEPT !.fresh = (found # {})] /\ UNCHANGED <<proc, ckpt, detached>>
      BY <1>11, <2>1 DEF Scan
    <3>2. pause'.seen = pause.seen /\ pause'.settled = FALSE
      BY <1>11, <3>1 DEF Scan
    <3>3. pause'.fresh = FALSE => found = {}
      BY <3>1
    <3>4. pause'.fresh = FALSE /\ detached = {} => Alive \subseteq pause.seen
      BY <3>3
    <3>5. QED
      BY <1>11, <3>1, <3>2, <3>4, SMTT(30) DEF Scan
  <2>2. CASE ~(pause.round = MaxRounds \/ found = {})
    <3>1. pc' = "stop" /\ pause' = [pause EXCEPT !.targets = found, !.round = pause.round + 1]
          /\ UNCHANGED <<proc, ckpt, detached>>
      BY <1>11, <2>2 DEF Scan
    <3>2. pause'.seen = pause.seen /\ pause'.settled = FALSE /\ pause'.targets = found
      BY <1>11, <3>1 DEF Scan
    <3>3. QED
      BY <1>11, <2>2, <3>1, <3>2, SMTT(30) DEF Scan
  <2>3. QED
    BY <2>1, <2>2
<1>12. ASSUME Stop PROVE PauseInv'
  <2>1. PICK p \in pause.targets : p \in Pids /\ Signalled(p)
    BY <1>12, StopSignals
  <2>2. pc = "stop" /\ pc' \in {"scan", "stop"} /\ (pc' = "stop" => pause'.targets # {})
    BY <1>12 DEF Stop
  <2>3. pause'.targets = pause.targets \ {p} /\ pause'.seen = pause.seen \cup {p} /\ pause'.settled = FALSE
    BY <2>1, <2>2 DEF Signalled
  <2>4. proc[p] # "none"
    BY <2>2
  <2>5. CASE p \in Alive
    <3>1. proc'[p] \in {"stopping", "stopped"}
      BY <2>1, <2>5 DEF Signalled
    <3>2. \A q \in Pids \ {p} : proc'[q] = proc[q]
      BY <2>1, <2>5, SMTT(30) DEF Signalled
    <3>3. ckpt'.paused = ckpt.paused \cup {p}
      BY <2>1, <2>5 DEF Signalled
    <3>4. pause.seen \subseteq Pids /\ pause.targets \subseteq Pids
      OBVIOUS
    <3>5. \A q \in pause'.seen : (proc'[q] \in {"stopping", "stopped"} /\ q \in ckpt'.paused) \/ proc'[q] = "gone"
      BY <2>2, <2>3, <3>1, <3>2, <3>3, <3>4
    <3>6. \A q \in pause'.targets : proc'[q] # "none"
      BY <2>2, <2>3, <3>2, <3>4
    <3>7. QED
      BY <2>2, <2>3, <3>5, <3>6
  <2>6. CASE p \notin Alive
    BY <2>1, <2>2, <2>3, <2>4, <2>6, SMTT(30) DEF Signalled
  <2>7. QED
    BY <2>5, <2>6
<1>13. ASSUME WaitStopped PROVE PauseInv'
  BY <1>13 DEF WaitStopped
<1>14. ASSUME WriteStateArchive PROVE PauseInv'
  BY <1>14 DEF WriteStateArchive
<1>15. ASSUME AbortCheckpoint PROVE PauseInv'
  BY <1>15 DEF AbortCheckpoint, Reopen, Resumed
<1>16. ASSUME CompleteCheckpoint PROVE PauseInv'
  BY <1>16 DEF CompleteCheckpoint
<1>17. ASSUME NEW g \in Gens, AbortCompletedCheckpoint(g) PROVE PauseInv'
  BY <1>17 DEF AbortCompletedCheckpoint, Reopen, Resumed
<1>18. ASSUME Restart PROVE PauseInv'
  BY <1>18 DEF Restart, Booted
<1>19. ASSUME Reclaim PROVE PauseInv'
  BY <1>19 DEF Reclaim, Booted
<1>20. ASSUME BeginRestore PROVE PauseInv'
  BY <1>20 DEF BeginRestore
<1>21. ASSUME Adopt PROVE PauseInv'
  BY <1>21 DEF Adopt
<1>22. ASSUME EndRestore PROVE PauseInv'
  BY <1>22 DEF EndRestore
<1>24. CASE UNCHANGED vars
  BY <1>24 DEF vars
<1>25. QED
  BY <1>1, <1>2, <1>3, <1>4, <1>5, <1>6, <1>7, <1>8, <1>9, <1>10, <1>11, <1>12, <1>13, <1>14,
      <1>15, <1>16, <1>17, <1>18, <1>19, <1>20, <1>21, <1>22, <1>24 DEF Next

\* A tree that was seen to stop stays stopped.
LEMMA StillStep == ASSUME IInv, [Next]_vars PROVE StillInv'
<1> USE ShellAssumption DEF process, request, stream, world, Fault, TypeOK, IInv, Shell, Pids,
    Alive, NoCkpt, NoPause, NoWalk, Slots, Pauses, Walks, Working, Pausing, SlotInv, TreeInv,
    PauseInv, StillInv
<1>1. ASSUME NEW p \in Pids, Fork(p) PROVE StillInv'
  BY <1>1 DEF Fork
<1>2. ASSUME NEW p \in Pids, Exit(p) PROVE StillInv'
  BY <1>2 DEF Exit
<1>3. ASSUME NEW p \in Pids, WriteFile(p) PROVE StillInv'
  BY <1>3 DEF WriteFile, Works
<1>4. ASSUME NEW p \in Pids, PutOutput(p) PROVE StillInv'
  BY <1>4 DEF PutOutput, Works
<1>5. ASSUME NEW p \in Pids, StopLands(p) PROVE StillInv'
  BY <1>5 DEF StopLands
<1>6. ASSUME Drain PROVE StillInv'
  BY <1>6 DEF Drain
<1>7. ASSUME NEW w \in Writers, Admit(w) PROVE StillInv'
  BY <1>7 DEF Admit
<1>8. ASSUME NEW w \in Writers, WritePTY(w) PROVE StillInv'
  BY <1>8 DEF WritePTY
<1>9. ASSUME HandleCheckpoint PROVE StillInv'
  BY <1>9 DEF HandleCheckpoint
<1>10. ASSUME NEW g \in Gens, BeginCheckpoint(g) PROVE StillInv'
  BY <1>10, SMTT(30) DEF BeginCheckpoint
<1>11. ASSUME Scan PROVE StillInv'
  BY <1>11 DEF Scan
<1>12. ASSUME Stop PROVE StillInv'
  BY <1>12 DEF Stop
<1>13. ASSUME WaitStopped PROVE StillInv'
  <2>1. CASE pause' = NoPause
    BY <2>1
  <2>2. CASE /\ \A p \in ckpt.paused : ~Works(p)
             /\ pause' = [NoPause EXCEPT !.settled = TRUE, !.fresh = pause.fresh]
    <3>1. pause'.fresh = pause.fresh /\ pc = "settle" /\ UNCHANGED <<ckpt, proc, detached>>
      BY <1>13, <2>2 DEF WaitStopped
    <3>2. pause.fresh = FALSE /\ detached = {} => \A p \in Alive : proc[p] = "stopped"
      BY <2>2, <3>1 DEF Works
    <3>3. QED
      BY <3>1, <3>2
  <2>3. QED
    BY <1>13, <2>1, <2>2 DEF WaitStopped
<1>14. ASSUME WriteStateArchive PROVE StillInv'
  BY <1>14 DEF WriteStateArchive
<1>15. ASSUME AbortCheckpoint PROVE StillInv'
  BY <1>15 DEF AbortCheckpoint, Reopen, Resumed
<1>16. ASSUME CompleteCheckpoint PROVE StillInv'
  BY <1>16 DEF CompleteCheckpoint
<1>17. ASSUME NEW g \in Gens, AbortCompletedCheckpoint(g) PROVE StillInv'
  BY <1>17, SMTT(30) DEF AbortCompletedCheckpoint, Reopen, Resumed
<1>18. ASSUME Restart PROVE StillInv'
  BY <1>18 DEF Restart, Booted
<1>19. ASSUME Reclaim PROVE StillInv'
  BY <1>19 DEF Reclaim, Booted
<1>20. ASSUME BeginRestore PROVE StillInv'
  BY <1>20 DEF BeginRestore
<1>21. ASSUME Adopt PROVE StillInv'
  BY <1>21 DEF Adopt
<1>22. ASSUME EndRestore PROVE StillInv'
  BY <1>22 DEF EndRestore
<1>24. CASE UNCHANGED vars
  BY <1>24 DEF vars
<1>25. QED
  BY <1>1, <1>2, <1>3, <1>4, <1>5, <1>6, <1>7, <1>8, <1>9, <1>10, <1>11, <1>12, <1>13, <1>14,
      <1>15, <1>16, <1>17, <1>18, <1>19, <1>20, <1>21, <1>22, <1>24 DEF Next

\* HOME does not move under a tree that stands still.
LEMMA WalkStep == ASSUME IInv, [Next]_vars PROVE WalkInv'
<1> USE ShellAssumption DEF process, request, stream, world, Fault, TypeOK, IInv, Shell, Pids,
    Alive, NoCkpt, NoPause, NoWalk, Slots, Pauses, Walks, Working, Pausing, SlotInv, StillInv,
    WalkInv
<1>1. ASSUME NEW p \in Pids, Fork(p) PROVE WalkInv'
  BY <1>1 DEF Fork
<1>2. ASSUME NEW p \in Pids, Exit(p) PROVE WalkInv'
  BY <1>2 DEF Exit
<1>3. ASSUME NEW p \in Pids, WriteFile(p) PROVE WalkInv'
  BY <1>3 DEF WriteFile, Works
<1>4. ASSUME NEW p \in Pids, PutOutput(p) PROVE WalkInv'
  BY <1>4 DEF PutOutput, Works
<1>5. ASSUME NEW p \in Pids, StopLands(p) PROVE WalkInv'
  BY <1>5 DEF StopLands
<1>6. ASSUME Drain PROVE WalkInv'
  BY <1>6 DEF Drain
<1>7. ASSUME NEW w \in Writers, Admit(w) PROVE WalkInv'
  BY <1>7 DEF Admit
<1>8. ASSUME NEW w \in Writers, WritePTY(w) PROVE WalkInv'
  BY <1>8 DEF WritePTY
<1>9. ASSUME HandleCheckpoint PROVE WalkInv'
  BY <1>9 DEF HandleCheckpoint
<1>10. ASSUME NEW g \in Gens, BeginCheckpoint(g) PROVE WalkInv'
  BY <1>10, SMTT(30) DEF BeginCheckpoint
<1>11. ASSUME Scan PROVE WalkInv'
  BY <1>11 DEF Scan
<1>12. ASSUME Stop PROVE WalkInv'
  <2>1. PICK p \in pause.targets : p \in Pids /\ Signalled(p)
    BY <1>12, StopSignals
  <2>2. pause'.settled = FALSE
    BY <1>12, <2>1 DEF Signalled, Stop, PauseInv
  <2>3. QED
    BY <2>2
<1>13. ASSUME WaitStopped PROVE WalkInv'
  BY <1>13 DEF WaitStopped
<1>14. ASSUME WriteStateArchive PROVE WalkInv'
  BY <1>14, SMTT(30) DEF WriteStateArchive
<1>15. ASSUME AbortCheckpoint PROVE WalkInv'
  BY <1>15 DEF AbortCheckpoint, Reopen, Resumed
<1>16. ASSUME CompleteCheckpoint PROVE WalkInv'
  BY <1>16 DEF CompleteCheckpoint
<1>17. ASSUME NEW g \in Gens, AbortCompletedCheckpoint(g) PROVE WalkInv'
  BY <1>17 DEF AbortCompletedCheckpoint, Reopen, Resumed
<1>18. ASSUME Restart PROVE WalkInv'
  BY <1>18 DEF Restart, Booted
<1>19. ASSUME Reclaim PROVE WalkInv'
  BY <1>19 DEF Reclaim, Booted
<1>20. ASSUME BeginRestore PROVE WalkInv'
  BY <1>20 DEF BeginRestore
<1>21. ASSUME Adopt PROVE WalkInv'
  BY <1>21 DEF Adopt
<1>22. ASSUME EndRestore PROVE WalkInv'
  BY <1>22 DEF EndRestore
<1>24. CASE UNCHANGED vars
  BY <1>24 DEF vars
<1>25. QED
  BY <1>1, <1>2, <1>3, <1>4, <1>5, <1>6, <1>7, <1>8, <1>9, <1>10, <1>11, <1>12, <1>13, <1>14,
      <1>15, <1>16, <1>17, <1>18, <1>19, <1>20, <1>21, <1>22, <1>24 DEF Next

\* A fresh shell with nothing below it satisfies the invariant.
LEMMA InitHolds == Init => IInv
<1> SUFFICES ASSUME Init PROVE IInv
  OBVIOUS
<1> USE ShellAssumption DEF Init
<1>1. TypeOK
  <2>1. 0 \in 0 .. MaxLives /\ 0 \in 0 .. MaxFaults
    OBVIOUS
  <2>2. proc \in [Pids -> {"none", "running", "stopping", "stopped", "gone"}]
        /\ ancestors \in [Pids -> SUBSET Pids] /\ writer \in [Writers -> {"idle", "admitted"}]
    OBVIOUS
  <2>3. QED
    BY <2>1, <2>2, EmptyTypes DEF TypeOK
<1>2. SlotInv /\ WriterInv /\ PauseInv /\ StillInv /\ WalkInv
  BY DEF SlotInv, WriterInv, PauseInv, StillInv, WalkInv, Working, NoCkpt, NoPause
<1>3. TreeInv
  BY DEF TreeInv, Alive, Shell, Pids
<1>4. QED
  BY <1>1, <1>2, <1>3 DEF IInv

\* The invariant of the shell agent: who holds the slot, what the pause has seen and
\* what the walk has read agree in every reachable state.
THEOREM InvHolds == Spec => []IInv
<1>1. Init => IInv
  BY InitHolds
<1>2. IInv /\ [Next]_vars => IInv'
  BY TypeStep, SlotStep, WriterStep, TreeStep, PauseStep, StillStep, WalkStep DEF IInv
<1>3. QED
  BY <1>1, <1>2, PTL DEF Spec

\* An archive of HOME is one moment, and HOME does not move behind it (pauseTree,
\* waitStopped, writeStateArchive).
THEOREM HomeHoldsStill == Spec => []ArchiveHoldsStill
<1>1. IInv => ArchiveHoldsStill
  BY DEF IInv, TypeOK, ArchiveHoldsStill, Archived, WalkInv, Slots, Pauses
<1>2. QED
  BY <1>1, InvHolds, PTL

\* No accepted input lands behind the scrollback of an archive (admission).
THEOREM InputPrecedesScrollback == Spec => []InputBeforeScrollback
<1>1. IInv => InputBeforeScrollback
  BY ShellAssumption DEF IInv, TypeOK, InputBeforeScrollback, Archived, Pausing, SlotInv, WriterInv, Slots, Working
<1>2. QED
  BY <1>1, InvHolds, PTL

\* Every step of the agent is a step of the gate, or none of the gate's business:
\* what the control plane relies on of a checkpoint gate holds of the shell agent.
LEMMA GateStep == ASSUME IInv, [Next]_vars PROVE [Gate!Next]_(Gate!gateVars)
<1> USE ShellAssumption DEF IInv, TypeOK, SlotInv, Working, Pausing, Slots, NoCkpt, process, request, stream, world,
        Gate!gateVars
<1>1. ASSUME NEW p \in Pids, Fork(p) \/ WriteFile(p) \/ PutOutput(p) \/ StopLands(p) PROVE UNCHANGED Gate!gateVars
  BY <1>1 DEF Fork, WriteFile, PutOutput, StopLands
<1>2. ASSUME NEW p \in Pids, Exit(p) PROVE UNCHANGED Gate!gateVars
  BY <1>2 DEF Exit, TreeInv, Alive
<1>3. ASSUME NEW w \in Writers, Admit(w) \/ WritePTY(w) PROVE UNCHANGED Gate!gateVars
  BY <1>3 DEF Admit, WritePTY
<1>4. ASSUME HandleCheckpoint \/ Scan \/ WaitStopped \/ WriteStateArchive \/ Drain
      PROVE UNCHANGED Gate!gateVars
  BY <1>4 DEF HandleCheckpoint, Scan, WaitStopped, WriteStateArchive, Drain
<1>5. ASSUME Stop PROVE UNCHANGED Gate!gateVars
  <2>1. PICK p \in pause.targets : p \in Pids /\ Signalled(p)
    BY <1>5, StopSignals
  <2>2. ckpt'.active = ckpt.active /\ ckpt'.ready = ckpt.ready /\ ckpt'.id = ckpt.id
    BY <2>1 DEF Signalled
  <2>3. QED
    BY <1>5, <2>2 DEF Stop
<1>6. ASSUME NEW g \in Gens, BeginCheckpoint(g) PROVE Gate!Close(g) \/ UNCHANGED Gate!gateVars
  <2>1. CASE sh = "live" /\ ckpt.active = FALSE
    <3>1. ckpt'.active = TRUE /\ ckpt'.ready = FALSE /\ ckpt'.id = g
      BY <1>6, <2>1 DEF BeginCheckpoint
    <3>2. restoring = "no" /\ UNCHANGED <<sh, restoring, life, asked>>
      BY <1>6, <2>1 DEF BeginCheckpoint
    <3>3. QED
      BY <2>1, <3>1, <3>2 DEF Gate!Close
  <2>2. CASE ~(sh = "live" /\ ckpt.active = FALSE)
    BY <1>6, <2>2 DEF BeginCheckpoint
  <2>3. QED
    BY <2>1, <2>2
<1>7. ASSUME NEW g \in Gens, AbortCompletedCheckpoint(g) PROVE Gate!Abort(g)
  BY <1>7 DEF AbortCompletedCheckpoint, Reopen, Gate!Abort
<1>8. ASSUME AbortCheckpoint PROVE Gate!Reopen
  BY <1>8 DEF AbortCheckpoint, Reopen, Fault, Gate!Reopen
<1>9. ASSUME CompleteCheckpoint PROVE Gate!Finish
  BY <1>9 DEF CompleteCheckpoint, Gate!Finish
<1>10. ASSUME Restart \/ Reclaim PROVE Gate!Restart
  BY <1>10 DEF Restart, Reclaim, Booted, Gate!Restart
<1>11. ASSUME BeginRestore \/ Adopt PROVE UNCHANGED Gate!gateVars
  BY <1>11 DEF BeginRestore, Adopt
<1>12. ASSUME EndRestore PROVE Gate!Serve \/ UNCHANGED Gate!gateVars
  BY <1>12 DEF EndRestore, Gate!Serve
<1>13. CASE UNCHANGED vars
  BY <1>13 DEF vars
<1>14. QED
  BY <1>1, <1>2, <1>3, <1>4, <1>5, <1>6, <1>7, <1>8, <1>9, <1>10, <1>11, <1>12, <1>13 DEF Next, Gate!Next

\* The shell agent implements the checkpoint gate (CheckpointGate): a gate that
\* streams is reopened only by the failure of that stream, one whose archive is out
\* only by the abort of its own generation or by the end of its process.
THEOREM ShellImplementsGate == Spec => ImplementsGate
<1>1. Init => Gate!Init
  BY DEF Init, Gate!Init, NoCkpt
<1>2. IInv /\ [Next]_vars => [Gate!Next]_(Gate!gateVars)
  BY GateStep
<1>3. QED
  BY <1>1, <1>2, InvHolds, PTL DEF Spec, ImplementsGate, Gate!Spec
=============================================================================
