-------------------------- MODULE PromptQueueProofs --------------------------
(***************************************************************************)
(* Proofs that a checkpoint of the prompt queue finds the state directory  *)
(* at rest and archives every prompt that was accepted, for any number of  *)
(* prompts, checkpoints and refreshes and any queue limit; and that the    *)
(* output pipeline shows no credential, no forged marker and no broken     *)
(* rune, that a run is recorded as the redaction of all that came in, and  *)
(* that the proxy passes on what is right however the answer goes on, for  *)
(* any credentials, texts, limits and cuts into writes.                    *)
(***************************************************************************)
EXTENDS PromptQueue, OutputPipeline, FiniteSetTheorems, WellFoundedInduction, TLAPS

\* The flags the goroutines leave under c.mu say where they are.
TurnInv ==
    /\ worker \in {"turn", "settle"} <=> active = TRUE
    /\ active = TRUE <=> job \in Prompts
    /\ refresh = "rewriting" <=> refreshing = TRUE
    /\ ~(active = TRUE /\ refreshing = TRUE)

\* Whoever is asleep in cond.Wait, and nobody else, is in waiting.
WaitInv ==
    /\ Worker \in waiting <=> worker = "waiting"
    /\ \A c \in Checkpoints : c \in waiting <=> ckpt[c] = "waiting"

\* The gate belongs to one checkpoint, which has not ended, and admission is
\* closed with it.
GateInv ==
    /\ accepting = TRUE => ready = TRUE /\ gate = Open
    /\ ready = FALSE => gate = Open
    /\ restoring = TRUE => ready = FALSE
    /\ gate.closed = FALSE => gate = Open
    /\ gate.closed = TRUE => gate.id \in Checkpoints
    /\ \A c \in Checkpoints :
         /\ ckpt[c] \in {"drain", "waiting", "persist", "archive", "stream"} => gate = Closed(c, FALSE)
         /\ ckpt[c] = "answered" <=> gate = Closed(c, TRUE)

\* From the end of its drain on, a checkpoint has the state directory to itself.
QuietInv ==
    \A c \in Checkpoints : ckpt[c] \in {"persist", "archive", "stream", "answered"} =>
        active = FALSE /\ refreshing = FALSE /\ queue = <<>>

\* No accepted prompt is lost between the queue, the worker and the done ones.
AcceptedInv ==
    /\ \A p \in accepted : p \in done \/ p = job \/ \E i \in 1 .. Len(queue) : queue[i] = p
    /\ \A i \in 1 .. Len(queue) : queue[i] \in accepted
    /\ job \in Prompts => job \in accepted
    /\ worker = "settle" => job \in done

\* What the archive of a running or answered checkpoint holds already.
ArchiveInv ==
    \A c \in Checkpoints :
        /\ ckpt[c] \in {"archive", "stream", "answered"} =>
             archive[c] \in Archives /\ accepted \subseteq archive[c].done
        /\ ckpt[c] = "archive" => disk = hasRun
        /\ ckpt[c] \in {"stream", "answered"} => archive[c].hasRun = hasRun

IInv == TypeOK /\ TurnInv /\ WaitInv /\ GateInv /\ QuietInv /\ AcceptedInv /\ ArchiveInv

\* An open gate is a gate.
LEMMA OpenType == Open \in Gates
  BY DEF Open, Gates

\* Every critical section keeps the variables in their types.
LEMMA TypeStep == ASSUME IInv, [Next]_vars PROVE TypeOK'
<1> USE QueueAssumption DEF admission, turn, output, books, Fault, TypeOK, IInv, TurnInv,
    AcceptedInv
<1>1. ASSUME NEW p \in Prompts, Enqueue(p) PROVE TypeOK'
  BY <1>1 DEF Enqueue, Signal, Wake
<1>2. ASSUME Read PROVE TypeOK'
  BY <1>2 DEF Read
<1>3. ASSUME WorkerCheck PROVE TypeOK'
  <2>1. queue' \in Seq(Prompts) /\ Len(queue') <= MaxQueued
    BY <1>3 DEF WorkerCheck, WorkerHeld
  <2>2. ready' \in BOOLEAN /\ restoring' \in BOOLEAN /\ accepting' \in BOOLEAN /\ stopping' \in BOOLEAN
    BY <1>3 DEF WorkerCheck, WorkerHeld
  <2>3. refreshing' \in BOOLEAN /\ active' \in BOOLEAN /\ hasRun' \in BOOLEAN /\ disk' \in BOOLEAN
    BY <1>3 DEF WorkerCheck, WorkerHeld
  <2>4. gate' \in Gates
    BY <1>3 DEF WorkerCheck, WorkerHeld
  <2>5. len' \in Nat /\ shown' \in Nat
    BY <1>3 DEF WorkerCheck, WorkerHeld
  <2>6. job' \in Prompts \cup {None} /\ done' \subseteq accepted' /\ accepted' \subseteq Prompts
    BY <1>3 DEF WorkerCheck, WorkerHeld
  <2>7. worker' \in {"check", "waiting", "turn", "settle", "exited"}
    BY <1>3 DEF WorkerCheck, WorkerHeld
  <2>8. ckpt' \in [Checkpoints -> {"idle", "drain", "waiting", "persist", "archive", "stream", "answered",
                                      "aborted", "refused"}]
    BY <1>3 DEF WorkerCheck, WorkerHeld
  <2>9. refresh' \in {"idle", "rewriting", "notice"}
    BY <1>3 DEF WorkerCheck, WorkerHeld
  <2>10. expired' \subseteq Checkpoints /\ waiting' \subseteq Checkpoints \cup {Worker}
    BY <1>3 DEF WorkerCheck, WorkerHeld
  <2>11. archive' \in [Checkpoints -> Archives \cup {None}]
    BY <1>3 DEF WorkerCheck, WorkerHeld
  <2>12. faults' \in 0 .. MaxFaults /\ refreshes' \in 0 .. Refreshes
    BY <1>3 DEF WorkerCheck, WorkerHeld
  <2>13. QED
    BY <2>1, <2>2, <2>3, <2>4, <2>5, <2>6, <2>7, <2>8, <2>9, <2>10, <2>11, <2>12
<1>4. ASSUME WorkerRun PROVE TypeOK'
  <2>1. queue' \in Seq(Prompts) /\ Len(queue') <= MaxQueued
    BY <1>4 DEF WorkerRun
  <2>2. ready' \in BOOLEAN /\ restoring' \in BOOLEAN /\ accepting' \in BOOLEAN /\ stopping' \in BOOLEAN
    BY <1>4 DEF WorkerRun
  <2>3. refreshing' \in BOOLEAN /\ active' \in BOOLEAN /\ hasRun' \in BOOLEAN /\ disk' \in BOOLEAN
    BY <1>4 DEF WorkerRun
  <2>4. gate' \in Gates
    BY <1>4 DEF WorkerRun
  <2>5. len' \in Nat /\ shown' \in Nat
    BY <1>4 DEF WorkerRun
  <2>6. job' \in Prompts \cup {None} /\ done' \subseteq accepted' /\ accepted' \subseteq Prompts
    BY <1>4 DEF WorkerRun
  <2>7. worker' \in {"check", "waiting", "turn", "settle", "exited"}
    BY <1>4 DEF WorkerRun
  <2>8. ckpt' \in [Checkpoints -> {"idle", "drain", "waiting", "persist", "archive", "stream", "answered",
                                      "aborted", "refused"}]
    BY <1>4 DEF WorkerRun
  <2>9. refresh' \in {"idle", "rewriting", "notice"}
    BY <1>4 DEF WorkerRun
  <2>10. expired' \subseteq Checkpoints /\ waiting' \subseteq Checkpoints \cup {Worker}
    BY <1>4 DEF WorkerRun
  <2>11. archive' \in [Checkpoints -> Archives \cup {None}]
    BY <1>4 DEF WorkerRun
  <2>12. faults' \in 0 .. MaxFaults /\ refreshes' \in 0 .. Refreshes
    BY <1>4 DEF WorkerRun
  <2>13. QED
    BY <2>1, <2>2, <2>3, <2>4, <2>5, <2>6, <2>7, <2>8, <2>9, <2>10, <2>11, <2>12
<1>5. ASSUME WorkerSettle PROVE TypeOK'
  BY <1>5 DEF WorkerSettle
<1>6. ASSUME RefreshBegin PROVE TypeOK'
  BY <1>6 DEF RefreshBegin
<1>7. ASSUME RefreshEnd PROVE TypeOK'
  <2>1. queue' \in Seq(Prompts) /\ Len(queue') <= MaxQueued
    BY <1>7 DEF RefreshEnd, Broadcast, Wake
  <2>2. ready' \in BOOLEAN /\ restoring' \in BOOLEAN /\ accepting' \in BOOLEAN /\ stopping' \in BOOLEAN
    BY <1>7 DEF RefreshEnd, Broadcast, Wake
  <2>3. refreshing' \in BOOLEAN /\ active' \in BOOLEAN /\ hasRun' \in BOOLEAN /\ disk' \in BOOLEAN
    BY <1>7 DEF RefreshEnd, Broadcast, Wake
  <2>4. gate' \in Gates
    BY <1>7 DEF RefreshEnd, Broadcast, Wake
  <2>5. len' \in Nat /\ shown' \in Nat
    BY <1>7 DEF RefreshEnd, Broadcast, Wake
  <2>6. job' \in Prompts \cup {None} /\ done' \subseteq accepted' /\ accepted' \subseteq Prompts
    BY <1>7 DEF RefreshEnd, Broadcast, Wake
  <2>7. worker' \in {"check", "waiting", "turn", "settle", "exited"}
    BY <1>7 DEF RefreshEnd, Broadcast, Wake
  <2>8. ckpt' \in [Checkpoints -> {"idle", "drain", "waiting", "persist", "archive", "stream", "answered",
                                      "aborted", "refused"}]
    BY <1>7 DEF RefreshEnd, Broadcast, Wake
  <2>9. refresh' \in {"idle", "rewriting", "notice"}
    BY <1>7 DEF RefreshEnd, Broadcast, Wake
  <2>10. expired' \subseteq Checkpoints /\ waiting' \subseteq Checkpoints \cup {Worker}
    BY <1>7 DEF RefreshEnd, Broadcast, Wake
  <2>11. archive' \in [Checkpoints -> Archives \cup {None}]
    BY <1>7 DEF RefreshEnd, Broadcast, Wake
  <2>12. faults' \in 0 .. MaxFaults /\ refreshes' \in 0 .. Refreshes
    BY <1>7 DEF RefreshEnd, Broadcast, Wake
  <2>13. QED
    BY <2>1, <2>2, <2>3, <2>4, <2>5, <2>6, <2>7, <2>8, <2>9, <2>10, <2>11, <2>12
<1>8. ASSUME RefreshNotice PROVE TypeOK'
  BY <1>8 DEF RefreshNotice
<1>9. ASSUME NEW c \in Checkpoints, CkptBegin(c) PROVE TypeOK'
  <2>1. queue' \in Seq(Prompts) /\ Len(queue') <= MaxQueued
    BY <1>9 DEF CkptBegin
  <2>2. ready' \in BOOLEAN /\ restoring' \in BOOLEAN /\ accepting' \in BOOLEAN /\ stopping' \in BOOLEAN
    BY <1>9 DEF CkptBegin
  <2>3. refreshing' \in BOOLEAN /\ active' \in BOOLEAN /\ hasRun' \in BOOLEAN /\ disk' \in BOOLEAN
    BY <1>9 DEF CkptBegin
  <2>4. gate' \in Gates
    <3>1. Closed(c, FALSE) \in Gates
      BY DEF Closed, Gates
    <3>2. gate' = Closed(c, FALSE) \/ gate' = gate
      BY <1>9 DEF CkptBegin
    <3>3. QED
      BY <3>1, <3>2, Zenon
  <2>5. len' \in Nat /\ shown' \in Nat
    BY <1>9 DEF CkptBegin
  <2>6. job' \in Prompts \cup {None} /\ done' \subseteq accepted' /\ accepted' \subseteq Prompts
    BY <1>9 DEF CkptBegin
  <2>7. worker' \in {"check", "waiting", "turn", "settle", "exited"}
    BY <1>9 DEF CkptBegin
  <2>8. ckpt' \in [Checkpoints -> {"idle", "drain", "waiting", "persist", "archive", "stream", "answered",
                                      "aborted", "refused"}]
    BY <1>9 DEF CkptBegin
  <2>9. refresh' \in {"idle", "rewriting", "notice"}
    BY <1>9 DEF CkptBegin
  <2>10. expired' \subseteq Checkpoints /\ waiting' \subseteq Checkpoints \cup {Worker}
    BY <1>9 DEF CkptBegin
  <2>11. archive' \in [Checkpoints -> Archives \cup {None}]
    BY <1>9 DEF CkptBegin
  <2>12. faults' \in 0 .. MaxFaults /\ refreshes' \in 0 .. Refreshes
    BY <1>9 DEF CkptBegin
  <2>13. QED
    BY <2>1, <2>2, <2>3, <2>4, <2>5, <2>6, <2>7, <2>8, <2>9, <2>10, <2>11, <2>12
<1>10. ASSUME NEW c \in Checkpoints, CkptDrain(c) PROVE TypeOK'
  <2>1. queue' \in Seq(Prompts) /\ Len(queue') <= MaxQueued
    BY <1>10 DEF CkptDrain, Reopen
  <2>2. ready' \in BOOLEAN /\ restoring' \in BOOLEAN /\ accepting' \in BOOLEAN /\ stopping' \in BOOLEAN
    BY <1>10 DEF CkptDrain, Reopen
  <2>3. refreshing' \in BOOLEAN /\ active' \in BOOLEAN /\ hasRun' \in BOOLEAN /\ disk' \in BOOLEAN
    BY <1>10 DEF CkptDrain, Reopen
  <2>4. gate' \in Gates
    BY <1>10, OpenType DEF CkptDrain, Reopen
  <2>5. len' \in Nat /\ shown' \in Nat
    BY <1>10 DEF CkptDrain, Reopen
  <2>6. job' \in Prompts \cup {None} /\ done' \subseteq accepted' /\ accepted' \subseteq Prompts
    BY <1>10 DEF CkptDrain, Reopen
  <2>7. worker' \in {"check", "waiting", "turn", "settle", "exited"}
    BY <1>10 DEF CkptDrain, Reopen
  <2>8. ckpt' \in [Checkpoints -> {"idle", "drain", "waiting", "persist", "archive", "stream", "answered",
                                      "aborted", "refused"}]
    BY <1>10 DEF CkptDrain, Reopen
  <2>9. refresh' \in {"idle", "rewriting", "notice"}
    BY <1>10 DEF CkptDrain, Reopen
  <2>10. expired' \subseteq Checkpoints /\ waiting' \subseteq Checkpoints \cup {Worker}
    BY <1>10 DEF CkptDrain, Reopen
  <2>11. archive' \in [Checkpoints -> Archives \cup {None}]
    BY <1>10 DEF CkptDrain, Reopen
  <2>12. faults' \in 0 .. MaxFaults /\ refreshes' \in 0 .. Refreshes
    BY <1>10 DEF CkptDrain, Reopen
  <2>13. QED
    BY <2>1, <2>2, <2>3, <2>4, <2>5, <2>6, <2>7, <2>8, <2>9, <2>10, <2>11, <2>12
<1>11. ASSUME NEW c \in Checkpoints, CkptPersist(c) PROVE TypeOK'
  <2>1. queue' \in Seq(Prompts) /\ Len(queue') <= MaxQueued
    BY <1>11 DEF CkptPersist, Reopen
  <2>2. ready' \in BOOLEAN /\ restoring' \in BOOLEAN /\ accepting' \in BOOLEAN /\ stopping' \in BOOLEAN
    BY <1>11 DEF CkptPersist, Reopen
  <2>3. refreshing' \in BOOLEAN /\ active' \in BOOLEAN /\ hasRun' \in BOOLEAN /\ disk' \in BOOLEAN
    BY <1>11 DEF CkptPersist, Reopen
  <2>4. gate' \in Gates
    BY <1>11, OpenType DEF CkptPersist, Reopen
  <2>5. len' \in Nat /\ shown' \in Nat
    BY <1>11 DEF CkptPersist, Reopen
  <2>6. job' \in Prompts \cup {None} /\ done' \subseteq accepted' /\ accepted' \subseteq Prompts
    BY <1>11 DEF CkptPersist, Reopen
  <2>7. worker' \in {"check", "waiting", "turn", "settle", "exited"}
    BY <1>11 DEF CkptPersist, Reopen
  <2>8. ckpt' \in [Checkpoints -> {"idle", "drain", "waiting", "persist", "archive", "stream", "answered",
                                      "aborted", "refused"}]
    BY <1>11 DEF CkptPersist, Reopen
  <2>9. refresh' \in {"idle", "rewriting", "notice"}
    BY <1>11 DEF CkptPersist, Reopen
  <2>10. expired' \subseteq Checkpoints /\ waiting' \subseteq Checkpoints \cup {Worker}
    BY <1>11 DEF CkptPersist, Reopen
  <2>11. archive' \in [Checkpoints -> Archives \cup {None}]
    <3>1. [len |-> len, done |-> done, hasRun |-> FALSE] \in Archives
      BY DEF Archives
    <3>2. QED
      BY <1>11, <3>1, ZenonT(40) DEF CkptPersist
  <2>12. faults' \in 0 .. MaxFaults /\ refreshes' \in 0 .. Refreshes
    BY <1>11 DEF CkptPersist, Reopen
  <2>13. QED
    BY <2>1, <2>2, <2>3, <2>4, <2>5, <2>6, <2>7, <2>8, <2>9, <2>10, <2>11, <2>12
<1>12. ASSUME NEW c \in Checkpoints, CkptArchive(c) PROVE TypeOK'
  <2>1. queue' \in Seq(Prompts) /\ Len(queue') <= MaxQueued
    BY <1>12 DEF CkptArchive
  <2>2. ready' \in BOOLEAN /\ restoring' \in BOOLEAN /\ accepting' \in BOOLEAN /\ stopping' \in BOOLEAN
    BY <1>12 DEF CkptArchive
  <2>3. refreshing' \in BOOLEAN /\ active' \in BOOLEAN /\ hasRun' \in BOOLEAN /\ disk' \in BOOLEAN
    BY <1>12 DEF CkptArchive
  <2>4. gate' \in Gates
    BY <1>12 DEF CkptArchive
  <2>5. len' \in Nat /\ shown' \in Nat
    BY <1>12 DEF CkptArchive
  <2>6. job' \in Prompts \cup {None} /\ done' \subseteq accepted' /\ accepted' \subseteq Prompts
    BY <1>12 DEF CkptArchive
  <2>7. worker' \in {"check", "waiting", "turn", "settle", "exited"}
    BY <1>12 DEF CkptArchive
  <2>8. ckpt' \in [Checkpoints -> {"idle", "drain", "waiting", "persist", "archive", "stream", "answered",
                                      "aborted", "refused"}]
    BY <1>12 DEF CkptArchive
  <2>9. refresh' \in {"idle", "rewriting", "notice"}
    BY <1>12 DEF CkptArchive
  <2>10. expired' \subseteq Checkpoints /\ waiting' \subseteq Checkpoints \cup {Worker}
    BY <1>12 DEF CkptArchive
  <2>11. archive' \in [Checkpoints -> Archives \cup {None}]
    <3>1. archive[c] \in Archives
      BY <1>12 DEF CkptArchive, ArchiveInv
    <3>2. [archive[c] EXCEPT !.hasRun = disk] \in Archives
      BY <3>1 DEF Archives
    <3>3. archive' = [archive EXCEPT ![c] = [archive[c] EXCEPT !.hasRun = disk]]
      BY <1>12 DEF CkptArchive
    <3>4. QED
      BY <3>2, <3>3
  <2>12. faults' \in 0 .. MaxFaults /\ refreshes' \in 0 .. Refreshes
    BY <1>12 DEF CkptArchive
  <2>13. QED
    BY <2>1, <2>2, <2>3, <2>4, <2>5, <2>6, <2>7, <2>8, <2>9, <2>10, <2>11, <2>12
<1>13. ASSUME NEW c \in Checkpoints, CkptStream(c) PROVE TypeOK'
  <2>1. queue' \in Seq(Prompts) /\ Len(queue') <= MaxQueued
    BY <1>13 DEF Open, Closed, CkptStream, Reopen
  <2>2. ready' \in BOOLEAN /\ restoring' \in BOOLEAN /\ accepting' \in BOOLEAN /\ stopping' \in BOOLEAN
    BY <1>13 DEF Open, Closed, CkptStream, Reopen
  <2>3. refreshing' \in BOOLEAN /\ active' \in BOOLEAN /\ hasRun' \in BOOLEAN /\ disk' \in BOOLEAN
    BY <1>13 DEF Open, Closed, CkptStream, Reopen
  <2>4. gate' \in Gates
    <3>1. gate = Closed(c, FALSE)
      BY <1>13 DEF GateInv, CkptStream
    <3>2. gate.closed = TRUE /\ gate.id = c
      BY <3>1 DEF Closed
    <3>3. gate' = Closed(c, TRUE) \/ gate' = Open
      BY <1>13, <3>2 DEF CkptStream, Reopen
    <3>4. Closed(c, TRUE) \in Gates
      BY DEF Closed, Gates
    <3>5. QED
      BY <3>3, <3>4, OpenType, Zenon
  <2>5. len' \in Nat /\ shown' \in Nat
    BY <1>13 DEF Open, Closed, CkptStream, Reopen
  <2>6. job' \in Prompts \cup {None} /\ done' \subseteq accepted' /\ accepted' \subseteq Prompts
    BY <1>13 DEF Open, Closed, CkptStream, Reopen
  <2>7. worker' \in {"check", "waiting", "turn", "settle", "exited"}
    BY <1>13 DEF Open, Closed, CkptStream, Reopen
  <2>8. ckpt' \in [Checkpoints -> {"idle", "drain", "waiting", "persist", "archive", "stream", "answered",
                                      "aborted", "refused"}]
    BY <1>13 DEF Open, Closed, CkptStream, Reopen
  <2>9. refresh' \in {"idle", "rewriting", "notice"}
    BY <1>13 DEF Open, Closed, CkptStream, Reopen
  <2>10. expired' \subseteq Checkpoints /\ waiting' \subseteq Checkpoints \cup {Worker}
    BY <1>13 DEF Open, Closed, CkptStream, Reopen
  <2>11. archive' \in [Checkpoints -> Archives \cup {None}]
    BY <1>13 DEF Open, Closed, CkptStream, Reopen
  <2>12. faults' \in 0 .. MaxFaults /\ refreshes' \in 0 .. Refreshes
    BY <1>13 DEF Open, Closed, CkptStream, Reopen
  <2>13. QED
    BY <2>1, <2>2, <2>3, <2>4, <2>5, <2>6, <2>7, <2>8, <2>9, <2>10, <2>11, <2>12
<1>14. ASSUME NEW c \in Checkpoints, Expire(c) PROVE TypeOK'
  BY <1>14 DEF Expire, Broadcast, Wake
<1>15. ASSUME NEW c \in Checkpoints, Abort(c) PROVE TypeOK'
  <2>1. queue' \in Seq(Prompts) /\ Len(queue') <= MaxQueued
    BY <1>15 DEF Abort, Reopen
  <2>2. ready' \in BOOLEAN /\ restoring' \in BOOLEAN /\ accepting' \in BOOLEAN /\ stopping' \in BOOLEAN
    BY <1>15 DEF Abort, Reopen
  <2>3. refreshing' \in BOOLEAN /\ active' \in BOOLEAN /\ hasRun' \in BOOLEAN /\ disk' \in BOOLEAN
    BY <1>15 DEF Abort, Reopen
  <2>4. gate' \in Gates
    BY <1>15, OpenType DEF Abort, Reopen
  <2>5. len' \in Nat /\ shown' \in Nat
    BY <1>15 DEF Abort, Reopen
  <2>6. job' \in Prompts \cup {None} /\ done' \subseteq accepted' /\ accepted' \subseteq Prompts
    BY <1>15 DEF Abort, Reopen
  <2>7. worker' \in {"check", "waiting", "turn", "settle", "exited"}
    BY <1>15 DEF Abort, Reopen
  <2>8. ckpt' \in [Checkpoints -> {"idle", "drain", "waiting", "persist", "archive", "stream", "answered",
                                      "aborted", "refused"}]
    BY <1>15 DEF Abort, Reopen
  <2>9. refresh' \in {"idle", "rewriting", "notice"}
    BY <1>15 DEF Abort, Reopen
  <2>10. expired' \subseteq Checkpoints /\ waiting' \subseteq Checkpoints \cup {Worker}
    BY <1>15 DEF Abort, Reopen
  <2>11. archive' \in [Checkpoints -> Archives \cup {None}]
    BY <1>15 DEF Abort, Reopen
  <2>12. faults' \in 0 .. MaxFaults /\ refreshes' \in 0 .. Refreshes
    BY <1>15 DEF Abort, Reopen
  <2>13. QED
    BY <2>1, <2>2, <2>3, <2>4, <2>5, <2>6, <2>7, <2>8, <2>9, <2>10, <2>11, <2>12
<1>16. ASSUME RestoreBegin PROVE TypeOK'
  BY <1>16 DEF RestoreBegin
<1>17. ASSUME RestoreEnd PROVE TypeOK'
  <2>1. queue' \in Seq(Prompts) /\ Len(queue') <= MaxQueued
    BY <1>17 DEF RestoreEnd, Broadcast, Wake
  <2>2. ready' \in BOOLEAN /\ restoring' \in BOOLEAN /\ accepting' \in BOOLEAN /\ stopping' \in BOOLEAN
    BY <1>17 DEF RestoreEnd, Broadcast, Wake
  <2>3. refreshing' \in BOOLEAN /\ active' \in BOOLEAN /\ hasRun' \in BOOLEAN /\ disk' \in BOOLEAN
    BY <1>17 DEF RestoreEnd, Broadcast, Wake
  <2>4. gate' \in Gates
    BY <1>17 DEF RestoreEnd, Broadcast, Wake
  <2>5. len' \in Nat /\ shown' \in Nat
    BY <1>17 DEF RestoreEnd, Broadcast, Wake
  <2>6. job' \in Prompts \cup {None} /\ done' \subseteq accepted' /\ accepted' \subseteq Prompts
    BY <1>17 DEF RestoreEnd, Broadcast, Wake
  <2>7. worker' \in {"check", "waiting", "turn", "settle", "exited"}
    BY <1>17 DEF RestoreEnd, Broadcast, Wake
  <2>8. ckpt' \in [Checkpoints -> {"idle", "drain", "waiting", "persist", "archive", "stream", "answered",
                                      "aborted", "refused"}]
    BY <1>17 DEF RestoreEnd, Broadcast, Wake
  <2>9. refresh' \in {"idle", "rewriting", "notice"}
    BY <1>17 DEF RestoreEnd, Broadcast, Wake
  <2>10. expired' \subseteq Checkpoints /\ waiting' \subseteq Checkpoints \cup {Worker}
    BY <1>17 DEF RestoreEnd, Broadcast, Wake
  <2>11. archive' \in [Checkpoints -> Archives \cup {None}]
    BY <1>17 DEF RestoreEnd, Broadcast, Wake
  <2>12. faults' \in 0 .. MaxFaults /\ refreshes' \in 0 .. Refreshes
    BY <1>17 DEF RestoreEnd, Broadcast, Wake
  <2>13. QED
    BY <2>1, <2>2, <2>3, <2>4, <2>5, <2>6, <2>7, <2>8, <2>9, <2>10, <2>11, <2>12
<1>18. ASSUME Close PROVE TypeOK'
  BY <1>18 DEF Close, Broadcast, Wake
<1>19. CASE UNCHANGED vars
  BY <1>19 DEF vars
<1>20. QED
  BY <1>1, <1>2, <1>3, <1>4, <1>5, <1>6, <1>7, <1>8, <1>9, <1>10, <1>11, <1>12, <1>13, <1>14,
      <1>15, <1>16, <1>17, <1>18, <1>19 DEF Next, WorkerStep, CkptStep

\* Every critical section keeps the flags in step with the goroutines.
LEMMA TurnStep == ASSUME IInv, [Next]_vars PROVE TurnInv'
<1> USE QueueAssumption DEF admission, turn, output, books, Open, Closed, Fault, Archives,
    TypeOK, IInv, TurnInv, WaitInv, AcceptedInv
<1>1. ASSUME NEW p \in Prompts, Enqueue(p) PROVE TurnInv'
  BY <1>1 DEF Enqueue, Signal, Wake
<1>2. ASSUME Read PROVE TurnInv'
  BY <1>2 DEF Read
<1>3. ASSUME WorkerCheck PROVE TurnInv'
  BY <1>3 DEF WorkerCheck, WorkerHeld
<1>4. ASSUME WorkerRun PROVE TurnInv'
  BY <1>4 DEF WorkerRun
<1>5. ASSUME WorkerSettle PROVE TurnInv'
  BY <1>5 DEF WorkerSettle
<1>6. ASSUME RefreshBegin PROVE TurnInv'
  BY <1>6 DEF RefreshBegin
<1>7. ASSUME RefreshEnd PROVE TurnInv'
  BY <1>7 DEF RefreshEnd, Broadcast, Wake
<1>8. ASSUME RefreshNotice PROVE TurnInv'
  BY <1>8 DEF RefreshNotice
<1>9. ASSUME NEW c \in Checkpoints, CkptBegin(c) PROVE TurnInv'
  BY <1>9 DEF CkptBegin
<1>10. ASSUME NEW c \in Checkpoints, CkptDrain(c) PROVE TurnInv'
  BY <1>10 DEF CkptDrain, Reopen, Busy
<1>11. ASSUME NEW c \in Checkpoints, CkptPersist(c) PROVE TurnInv'
  BY <1>11 DEF CkptPersist, Reopen
<1>12. ASSUME NEW c \in Checkpoints, CkptArchive(c) PROVE TurnInv'
  BY <1>12 DEF CkptArchive
<1>13. ASSUME NEW c \in Checkpoints, CkptStream(c) PROVE TurnInv'
  BY <1>13 DEF CkptStream, Reopen
<1>14. ASSUME NEW c \in Checkpoints, Expire(c) PROVE TurnInv'
  BY <1>14 DEF Expire, Broadcast, Wake
<1>15. ASSUME NEW c \in Checkpoints, Abort(c) PROVE TurnInv'
  BY <1>15 DEF Abort, Reopen
<1>16. ASSUME RestoreBegin PROVE TurnInv'
  BY <1>16 DEF RestoreBegin
<1>17. ASSUME RestoreEnd PROVE TurnInv'
  BY <1>17 DEF RestoreEnd, Broadcast, Wake
<1>18. ASSUME Close PROVE TurnInv'
  BY <1>18 DEF Close, Broadcast, Wake
<1>19. CASE UNCHANGED vars
  BY <1>19 DEF vars
<1>20. QED
  BY <1>1, <1>2, <1>3, <1>4, <1>5, <1>6, <1>7, <1>8, <1>9, <1>10, <1>11, <1>12, <1>13, <1>14,
      <1>15, <1>16, <1>17, <1>18, <1>19 DEF Next, WorkerStep, CkptStep

\* Every wakeup takes a sleeper out of Wait, every Wait puts one there.
LEMMA WaitStep == ASSUME IInv, [Next]_vars PROVE WaitInv'
<1> USE QueueAssumption DEF admission, turn, output, books, Open, Closed, Fault, Archives,
    TypeOK, IInv, TurnInv, WaitInv
<1>1. ASSUME NEW p \in Prompts, Enqueue(p) PROVE WaitInv'
  BY <1>1 DEF Enqueue, Signal, Wake
<1>2. ASSUME Read PROVE WaitInv'
  BY <1>2 DEF Read
<1>3. ASSUME WorkerCheck PROVE WaitInv'
  BY <1>3 DEF WorkerCheck, WorkerHeld
<1>4. ASSUME WorkerRun PROVE WaitInv'
  BY <1>4 DEF WorkerRun
<1>5. ASSUME WorkerSettle PROVE WaitInv'
  BY <1>5 DEF WorkerSettle
<1>6. ASSUME RefreshBegin PROVE WaitInv'
  BY <1>6 DEF RefreshBegin
<1>7. ASSUME RefreshEnd PROVE WaitInv'
  BY <1>7 DEF RefreshEnd, Broadcast, Wake
<1>8. ASSUME RefreshNotice PROVE WaitInv'
  BY <1>8 DEF RefreshNotice
<1>9. ASSUME NEW c \in Checkpoints, CkptBegin(c) PROVE WaitInv'
  BY <1>9 DEF CkptBegin
<1>10. ASSUME NEW c \in Checkpoints, CkptDrain(c) PROVE WaitInv'
  BY <1>10 DEF CkptDrain, Reopen, Busy
<1>11. ASSUME NEW c \in Checkpoints, CkptPersist(c) PROVE WaitInv'
  BY <1>11 DEF CkptPersist, Reopen
<1>12. ASSUME NEW c \in Checkpoints, CkptArchive(c) PROVE WaitInv'
  BY <1>12 DEF CkptArchive
<1>13. ASSUME NEW c \in Checkpoints, CkptStream(c) PROVE WaitInv'
  BY <1>13 DEF CkptStream, Reopen
<1>14. ASSUME NEW c \in Checkpoints, Expire(c) PROVE WaitInv'
  BY <1>14 DEF Expire, Broadcast, Wake
<1>15. ASSUME NEW c \in Checkpoints, Abort(c) PROVE WaitInv'
  BY <1>15 DEF Abort, Reopen
<1>16. ASSUME RestoreBegin PROVE WaitInv'
  BY <1>16 DEF RestoreBegin
<1>17. ASSUME RestoreEnd PROVE WaitInv'
  BY <1>17 DEF RestoreEnd, Broadcast, Wake
<1>18. ASSUME Close PROVE WaitInv'
  BY <1>18 DEF Close, Broadcast, Wake
<1>19. CASE UNCHANGED vars
  BY <1>19 DEF vars
<1>20. QED
  BY <1>1, <1>2, <1>3, <1>4, <1>5, <1>6, <1>7, <1>8, <1>9, <1>10, <1>11, <1>12, <1>13, <1>14,
      <1>15, <1>16, <1>17, <1>18, <1>19 DEF Next, WorkerStep, CkptStep

\* The gate changes hands only through its owner.
LEMMA GateStep == ASSUME IInv, [Next]_vars PROVE GateInv'
<1> USE QueueAssumption DEF admission, turn, output, books, Open, Closed, Fault, Archives,
    TypeOK, IInv, WaitInv, GateInv
<1>1. ASSUME NEW p \in Prompts, Enqueue(p) PROVE GateInv'
  BY <1>1 DEF Enqueue, Signal, Wake
<1>2. ASSUME Read PROVE GateInv'
  BY <1>2 DEF Read
<1>3. ASSUME WorkerCheck PROVE GateInv'
  BY <1>3 DEF WorkerCheck, WorkerHeld
<1>4. ASSUME WorkerRun PROVE GateInv'
  BY <1>4 DEF WorkerRun
<1>5. ASSUME WorkerSettle PROVE GateInv'
  BY <1>5 DEF WorkerSettle
<1>6. ASSUME RefreshBegin PROVE GateInv'
  BY <1>6 DEF RefreshBegin
<1>7. ASSUME RefreshEnd PROVE GateInv'
  BY <1>7 DEF RefreshEnd, Broadcast, Wake
<1>8. ASSUME RefreshNotice PROVE GateInv'
  BY <1>8 DEF RefreshNotice
<1>9. ASSUME NEW c \in Checkpoints, CkptBegin(c) PROVE GateInv'
  BY <1>9 DEF CkptBegin
<1>10. ASSUME NEW c \in Checkpoints, CkptDrain(c) PROVE GateInv'
  BY <1>10 DEF CkptDrain, Reopen, Busy
<1>11. ASSUME NEW c \in Checkpoints, CkptPersist(c) PROVE GateInv'
  BY <1>11 DEF CkptPersist, Reopen
<1>12. ASSUME NEW c \in Checkpoints, CkptArchive(c) PROVE GateInv'
  BY <1>12 DEF CkptArchive
<1>13. ASSUME NEW c \in Checkpoints, CkptStream(c) PROVE GateInv'
  BY <1>13 DEF CkptStream, Reopen
<1>14. ASSUME NEW c \in Checkpoints, Expire(c) PROVE GateInv'
  BY <1>14 DEF Expire, Broadcast, Wake
<1>15. ASSUME NEW c \in Checkpoints, Abort(c) PROVE GateInv'
  BY <1>15 DEF Abort, Reopen
<1>16. ASSUME RestoreBegin PROVE GateInv'
  BY <1>16 DEF RestoreBegin
<1>17. ASSUME RestoreEnd PROVE GateInv'
  BY <1>17 DEF RestoreEnd, Broadcast, Wake
<1>18. ASSUME Close PROVE GateInv'
  BY <1>18 DEF Close, Broadcast, Wake
<1>19. CASE UNCHANGED vars
  BY <1>19 DEF vars
<1>20. QED
  BY <1>1, <1>2, <1>3, <1>4, <1>5, <1>6, <1>7, <1>8, <1>9, <1>10, <1>11, <1>12, <1>13, <1>14,
      <1>15, <1>16, <1>17, <1>18, <1>19 DEF Next, WorkerStep, CkptStep

\* Nothing starts under a checkpoint that has drained.
LEMMA QuietStep == ASSUME IInv, [Next]_vars PROVE QuietInv'
<1> USE QueueAssumption DEF admission, turn, output, books, Open, Closed, Fault, Archives,
    TypeOK, IInv, TurnInv, WaitInv, GateInv, QuietInv
<1>1. ASSUME NEW p \in Prompts, Enqueue(p) PROVE QuietInv'
  BY <1>1 DEF Enqueue, Signal, Wake
<1>2. ASSUME Read PROVE QuietInv'
  BY <1>2 DEF Read
<1>3. ASSUME WorkerCheck PROVE QuietInv'
  BY <1>3 DEF WorkerCheck, WorkerHeld
<1>4. ASSUME WorkerRun PROVE QuietInv'
  BY <1>4 DEF WorkerRun
<1>5. ASSUME WorkerSettle PROVE QuietInv'
  BY <1>5 DEF WorkerSettle
<1>6. ASSUME RefreshBegin PROVE QuietInv'
  BY <1>6 DEF RefreshBegin
<1>7. ASSUME RefreshEnd PROVE QuietInv'
  BY <1>7 DEF RefreshEnd, Broadcast, Wake
<1>8. ASSUME RefreshNotice PROVE QuietInv'
  BY <1>8 DEF RefreshNotice
<1>9. ASSUME NEW c \in Checkpoints, CkptBegin(c) PROVE QuietInv'
  BY <1>9 DEF CkptBegin
<1>10. ASSUME NEW c \in Checkpoints, CkptDrain(c) PROVE QuietInv'
  BY <1>10 DEF CkptDrain, Reopen, Busy
<1>11. ASSUME NEW c \in Checkpoints, CkptPersist(c) PROVE QuietInv'
  BY <1>11 DEF CkptPersist, Reopen
<1>12. ASSUME NEW c \in Checkpoints, CkptArchive(c) PROVE QuietInv'
  BY <1>12 DEF CkptArchive
<1>13. ASSUME NEW c \in Checkpoints, CkptStream(c) PROVE QuietInv'
  BY <1>13 DEF CkptStream, Reopen
<1>14. ASSUME NEW c \in Checkpoints, Expire(c) PROVE QuietInv'
  BY <1>14 DEF Expire, Broadcast, Wake
<1>15. ASSUME NEW c \in Checkpoints, Abort(c) PROVE QuietInv'
  BY <1>15 DEF Abort, Reopen
<1>16. ASSUME RestoreBegin PROVE QuietInv'
  BY <1>16 DEF RestoreBegin
<1>17. ASSUME RestoreEnd PROVE QuietInv'
  BY <1>17 DEF RestoreEnd, Broadcast, Wake
<1>18. ASSUME Close PROVE QuietInv'
  BY <1>18 DEF Close, Broadcast, Wake
<1>19. CASE UNCHANGED vars
  BY <1>19 DEF vars
<1>20. QED
  BY <1>1, <1>2, <1>3, <1>4, <1>5, <1>6, <1>7, <1>8, <1>9, <1>10, <1>11, <1>12, <1>13, <1>14,
      <1>15, <1>16, <1>17, <1>18, <1>19 DEF Next, WorkerStep, CkptStep

\* Every accepted prompt stays accounted for.
LEMMA AcceptedStep == ASSUME IInv, [Next]_vars PROVE AcceptedInv'
<1> USE QueueAssumption DEF admission, turn, output, books, Open, Closed, Fault, Archives,
    TypeOK, IInv, TurnInv, AcceptedInv
<1>1. ASSUME NEW p \in Prompts, Enqueue(p) PROVE AcceptedInv'
  BY <1>1 DEF Enqueue, Signal, Wake
<1>2. ASSUME Read PROVE AcceptedInv'
  BY <1>2 DEF Read
<1>3. ASSUME WorkerCheck PROVE AcceptedInv'
  <2>1. CASE worker' # "turn"
    BY <1>3, <2>1 DEF WorkerCheck
  <2>2. CASE worker' = "turn"
    <3>1. queue # <<>> /\ job' = Head(queue) /\ queue' = Tail(queue) /\ worker = "check"
          /\ UNCHANGED <<done, accepted>>
      BY <1>3, <2>2 DEF WorkerCheck, WorkerHeld
    <3>2. Len(queue) \in Nat \ {0} /\ Len(queue') = Len(queue) - 1 /\ job' = queue[1]
      BY <3>1
    <3>3. \A i \in 1 .. Len(queue') : i + 1 \in 1 .. Len(queue) /\ queue'[i] = queue[i + 1]
      BY <3>1, <3>2
    <3>4. \A i \in 1 .. Len(queue) : queue[i] = job' \/ \E j \in 1 .. Len(queue') : queue'[j] = queue[i]
      <4> TAKE i \in 1 .. Len(queue)
      <4>1. CASE i = 1
        BY <3>2, <4>1
      <4>2. CASE i # 1
        <5>1. i - 1 \in 1 .. Len(queue') /\ (i - 1) + 1 = i
          BY <3>2, <4>2
        <5>2. QED
          BY <3>3, <5>1
      <4>3. QED
        BY <4>1, <4>2
    <3>5. job \notin Prompts /\ job = None
      BY <3>1
    <3>6. \A p \in accepted : p \in done \/ p = job' \/ \E i \in 1 .. Len(queue') : queue'[i] = p
      BY <3>4, <3>5
    <3>7. job' \in accepted /\ \A i \in 1 .. Len(queue') : queue'[i] \in accepted
      BY <3>2, <3>3
    <3>8. QED
      BY <2>2, <3>1, <3>6, <3>7
  <2>3. QED
    BY <2>1, <2>2
<1>4. ASSUME WorkerRun PROVE AcceptedInv'
  BY <1>4 DEF WorkerRun
<1>5. ASSUME WorkerSettle PROVE AcceptedInv'
  BY <1>5 DEF WorkerSettle
<1>6. ASSUME RefreshBegin PROVE AcceptedInv'
  BY <1>6 DEF RefreshBegin
<1>7. ASSUME RefreshEnd PROVE AcceptedInv'
  BY <1>7 DEF RefreshEnd, Broadcast, Wake
<1>8. ASSUME RefreshNotice PROVE AcceptedInv'
  BY <1>8 DEF RefreshNotice
<1>9. ASSUME NEW c \in Checkpoints, CkptBegin(c) PROVE AcceptedInv'
  BY <1>9 DEF CkptBegin
<1>10. ASSUME NEW c \in Checkpoints, CkptDrain(c) PROVE AcceptedInv'
  BY <1>10 DEF CkptDrain, Reopen, Busy
<1>11. ASSUME NEW c \in Checkpoints, CkptPersist(c) PROVE AcceptedInv'
  BY <1>11 DEF CkptPersist, Reopen
<1>12. ASSUME NEW c \in Checkpoints, CkptArchive(c) PROVE AcceptedInv'
  BY <1>12 DEF CkptArchive
<1>13. ASSUME NEW c \in Checkpoints, CkptStream(c) PROVE AcceptedInv'
  BY <1>13 DEF CkptStream, Reopen
<1>14. ASSUME NEW c \in Checkpoints, Expire(c) PROVE AcceptedInv'
  BY <1>14 DEF Expire, Broadcast, Wake
<1>15. ASSUME NEW c \in Checkpoints, Abort(c) PROVE AcceptedInv'
  BY <1>15 DEF Abort, Reopen
<1>16. ASSUME RestoreBegin PROVE AcceptedInv'
  BY <1>16 DEF RestoreBegin
<1>17. ASSUME RestoreEnd PROVE AcceptedInv'
  BY <1>17 DEF RestoreEnd, Broadcast, Wake
<1>18. ASSUME Close PROVE AcceptedInv'
  BY <1>18 DEF Close, Broadcast, Wake
<1>19. CASE UNCHANGED vars
  BY <1>19 DEF vars
<1>20. QED
  BY <1>1, <1>2, <1>3, <1>4, <1>5, <1>6, <1>7, <1>8, <1>9, <1>10, <1>11, <1>12, <1>13, <1>14,
      <1>15, <1>16, <1>17, <1>18, <1>19 DEF Next, WorkerStep, CkptStep

\* What an archive holds stays what the agent holds.
LEMMA ArchiveStep == ASSUME IInv, [Next]_vars PROVE ArchiveInv'
<1> USE QueueAssumption DEF admission, turn, output, books, Open, Closed, Fault, Archives,
    TypeOK, IInv, TurnInv, WaitInv, GateInv, QuietInv, AcceptedInv, ArchiveInv
<1>1. ASSUME NEW p \in Prompts, Enqueue(p) PROVE ArchiveInv'
  BY <1>1 DEF Enqueue, Signal, Wake
<1>2. ASSUME Read PROVE ArchiveInv'
  BY <1>2 DEF Read
<1>3. ASSUME WorkerCheck PROVE ArchiveInv'
  BY <1>3 DEF WorkerCheck, WorkerHeld
<1>4. ASSUME WorkerRun PROVE ArchiveInv'
  BY <1>4 DEF WorkerRun
<1>5. ASSUME WorkerSettle PROVE ArchiveInv'
  BY <1>5 DEF WorkerSettle
<1>6. ASSUME RefreshBegin PROVE ArchiveInv'
  BY <1>6 DEF RefreshBegin
<1>7. ASSUME RefreshEnd PROVE ArchiveInv'
  BY <1>7 DEF RefreshEnd, Broadcast, Wake
<1>8. ASSUME RefreshNotice PROVE ArchiveInv'
  BY <1>8 DEF RefreshNotice
<1>9. ASSUME NEW c \in Checkpoints, CkptBegin(c) PROVE ArchiveInv'
  BY <1>9 DEF CkptBegin
<1>10. ASSUME NEW c \in Checkpoints, CkptDrain(c) PROVE ArchiveInv'
  BY <1>10 DEF CkptDrain, Reopen, Busy
<1>11. ASSUME NEW c \in Checkpoints, CkptPersist(c) PROVE ArchiveInv'
  <2>1. ckpt'[c] = "archive" => accepted \subseteq done
    BY <1>11 DEF CkptPersist
  <2>2. [len |-> len, done |-> done, hasRun |-> FALSE] \in Archives
    BY DEF Archives
  <2>3. CASE ckpt' = [ckpt EXCEPT ![c] = "archive"] /\ disk' = hasRun
             /\ archive' = [archive EXCEPT ![c] = [len |-> len, done |-> done, hasRun |-> FALSE]]
    <3>1. \A d \in Checkpoints \ {c} : ckpt'[d] \notin {"archive", "stream", "answered"}
      BY <1>11, <2>3 DEF CkptPersist
    <3>2. archive'[c] \in Archives /\ accepted \subseteq archive'[c].done /\ ckpt'[c] = "archive"
      BY <2>1, <2>2, <2>3
    <3>3. QED
      BY <1>11, <2>3, <3>1, <3>2 DEF CkptPersist
  <2>4. CASE Reopen(c, "refused") /\ UNCHANGED <<disk, archive>>
    BY <1>11, <2>4 DEF CkptPersist, Reopen
  <2>5. QED
    BY <1>11, <2>3, <2>4 DEF CkptPersist
<1>12. ASSUME NEW c \in Checkpoints, CkptArchive(c) PROVE ArchiveInv'
  BY <1>12 DEF CkptArchive
<1>13. ASSUME NEW c \in Checkpoints, CkptStream(c) PROVE ArchiveInv'
  BY <1>13 DEF CkptStream, Reopen
<1>14. ASSUME NEW c \in Checkpoints, Expire(c) PROVE ArchiveInv'
  BY <1>14 DEF Expire, Broadcast, Wake
<1>15. ASSUME NEW c \in Checkpoints, Abort(c) PROVE ArchiveInv'
  BY <1>15 DEF Abort, Reopen
<1>16. ASSUME RestoreBegin PROVE ArchiveInv'
  BY <1>16 DEF RestoreBegin
<1>17. ASSUME RestoreEnd PROVE ArchiveInv'
  BY <1>17 DEF RestoreEnd, Broadcast, Wake
<1>18. ASSUME Close PROVE ArchiveInv'
  BY <1>18 DEF Close, Broadcast, Wake
<1>19. CASE UNCHANGED vars
  BY <1>19 DEF vars
<1>20. QED
  BY <1>1, <1>2, <1>3, <1>4, <1>5, <1>6, <1>7, <1>8, <1>9, <1>10, <1>11, <1>12, <1>13, <1>14,
      <1>15, <1>16, <1>17, <1>18, <1>19 DEF Next, WorkerStep, CkptStep

\* The queue of a fresh agent, ready or awaiting its archive, is in order.
LEMMA InitHolds == Init => IInv
<1> SUFFICES ASSUME Init PROVE IInv
  OBVIOUS
<1>1. TypeOK
  <2>1. queue \in Seq(Prompts) /\ Len(queue) <= MaxQueued /\ gate \in Gates
    BY QueueAssumption, OpenType DEF Init
  <2>2. archive \in [Checkpoints -> Archives \cup {None}]
    BY DEF Init
  <2>3. ready \in BOOLEAN /\ restoring \in BOOLEAN /\ accepting \in BOOLEAN /\ stopping \in BOOLEAN
    BY DEF Init
  <2>4. refreshing \in BOOLEAN /\ active \in BOOLEAN /\ hasRun \in BOOLEAN /\ disk \in BOOLEAN
    BY DEF Init
  <2>5. ckpt \in [Checkpoints -> {"idle", "drain", "waiting", "persist", "archive", "stream", "answered",
                                  "aborted", "refused"}]
    BY DEF Init
  <2>6. faults \in 0 .. MaxFaults /\ refreshes \in 0 .. Refreshes /\ len \in Nat /\ shown \in Nat
    BY QueueAssumption DEF Init
  <2>7. /\ job \in Prompts \cup {None} /\ done \subseteq accepted /\ accepted \subseteq Prompts
        /\ worker \in {"check", "waiting", "turn", "settle", "exited"}
        /\ refresh \in {"idle", "rewriting", "notice"}
        /\ expired \subseteq Checkpoints /\ waiting \subseteq Checkpoints \cup {Worker}
    BY DEF Init
  <2>8. QED
    BY <2>1, <2>2, <2>3, <2>4, <2>5, <2>6, <2>7 DEF TypeOK
<1>2. TurnInv /\ WaitInv /\ QuietInv /\ AcceptedInv /\ ArchiveInv
  BY QueueAssumption DEF Init, TurnInv, WaitInv, QuietInv, AcceptedInv, ArchiveInv
<1>3. GateInv
  BY QueueAssumption DEF Init, GateInv, Open, Closed
<1>4. QED
  BY <1>1, <1>2, <1>3 DEF IInv

\* The invariant of the prompt queue (claudeWorkload): flags, sleepers, gate,
\* accepted prompts and archives stay in step in every reachable state.
THEOREM InvHolds == Spec => []IInv
<1>1. Init => IInv
  BY InitHolds
<1>2. IInv /\ [Next]_vars => IInv'
  BY TypeStep, TurnStep, WaitStep, GateStep, QuietStep, AcceptedStep, ArchiveStep DEF IInv
<1>3. QED
  BY <1>1, <1>2, PTL DEF Spec

\* Every variable keeps its kind and the queue its limit (enqueue).
THEOREM TypeCorrect == Spec => []TypeOK
<1>1. IInv => TypeOK
  BY DEF IInv
<1>2. QED
  BY <1>1, InvHolds, PTL

\* No turn runs and no plugin is rewritten under a checkpoint that has drained
\* (beginCheckpoint, workerLoop, refreshPlugins).
THEOREM DirectoryHoldsStill == Spec => []StateHoldsStill
<1>1. IInv => StateHoldsStill
  BY DEF IInv, StateHoldsStill, TypeOK, TurnInv, GateInv, QuietInv, Closed
<1>2. QED
  BY <1>1, InvHolds, PTL

\* An answered archive holds every accepted prompt and the resume flag.
THEOREM ArchiveIsComplete == Spec => []ArchiveHoldsAccepted
<1>1. IInv => ArchiveHoldsAccepted
  BY DEF IInv, ArchiveHoldsAccepted, ArchiveInv
<1>2. QED
  BY <1>1, InvHolds, PTL

\* The step that reopens a gate whose archive is out is the abort of the very
\* checkpoint that closed it.
ReopenedByName == \A c \in Checkpoints : gate = Closed(c, TRUE) /\ gate' # gate => Abort(c)

\* Once an archive is out, the control plane may commit it: no other checkpoint,
\* refresh, restore, turn or shutdown reopens its gate, only the abort that names
\* its generation does (abortCheckpoint, reopenCheckpointLocked).
THEOREM OnlyItsAbortReopens == Spec => [][ReopenedByName]_vars
<1>1. IInv /\ [Next]_vars => [ReopenedByName]_vars
  <2> SUFFICES ASSUME IInv, Next, NEW c \in Checkpoints, gate = Closed(c, TRUE), gate' # gate, ~Abort(c)
               PROVE FALSE
    BY DEF ReopenedByName
  <2> USE QueueAssumption DEF IInv, TypeOK, GateInv, Open, Closed, admission
  <2>1. ckpt[c] = "answered" /\ ready = TRUE /\ restoring = FALSE
    OBVIOUS
  <2>2. ASSUME NEW d \in Checkpoints, CkptBegin(d) \/ CkptStep(d) \/ Expire(d) PROVE FALSE
    <3>1. ckpt[d] \notin {"drain", "waiting", "persist", "archive", "stream"}
      OBVIOUS
    <3>2. QED
      BY <2>2, <3>1 DEF CkptBegin, CkptStep, CkptDrain, CkptPersist, CkptArchive, CkptStream, Expire
  <2>3. ASSUME NEW d \in Checkpoints, Abort(d) PROVE FALSE
    BY <2>3 DEF Abort
  <2>4. ASSUME NEW p \in Prompts, Enqueue(p) PROVE FALSE
    BY <2>4 DEF Enqueue
  <2>5. ASSUME WorkerStep \/ RefreshBegin \/ RefreshEnd \/ RefreshNotice PROVE FALSE
    BY <2>5 DEF WorkerStep, WorkerCheck, WorkerRun, WorkerSettle, RefreshBegin, RefreshEnd, RefreshNotice
  <2>6. ASSUME Read \/ RestoreBegin \/ RestoreEnd \/ Close PROVE FALSE
    BY <2>6 DEF Read, RestoreBegin, RestoreEnd, Close
  <2>7. QED
    BY <2>2, <2>3, <2>4, <2>5, <2>6 DEF Next
<1>2. QED
  BY <1>1, InvHolds, PTL DEF Spec

-----------------------------------------------------------------------------
\* Every set of numbers has a least one.
LEMMA LeastNatural == ASSUME NEW T, T \subseteq Nat, T # {} PROVE \E x \in T : \A y \in T : x <= y
<1>1. IsWellFoundedOn(OpToRel(<, Nat), Nat)
  BY NatLessThanWellFounded
<1>2. \E x \in T : \A y \in T : ~(<<y, x>> \in OpToRel(<, Nat))
  BY <1>1, WFMin
<1>3. \A x, y \in Nat : y < x => <<y, x>> \in OpToRel(<, Nat)
  BY SMT DEF OpToRel
<1>4. PICK x \in T : \A y \in T : ~(<<y, x>> \in OpToRel(<, Nat))
  BY <1>2
<1>5. ASSUME NEW y \in T PROVE x <= y
  <2>1. x \in Nat /\ y \in Nat /\ ~(y < x)
    BY <1>3, <1>4
  <2>2. QED
    BY <2>1
<1>6. QED
  BY <1>5

\* Induction over the places of a text, from its end.
LEMMA FromTheEnd ==
  ASSUME NEW n \in Nat, NEW S, \A i \in 1 .. n : (\A j \in i + 1 .. n : j \in S) => i \in S
  PROVE  \A i \in 1 .. n : i \in S
<1> DEFINE T == {k \in 0 .. n : n - k >= 1 /\ n - k \notin S}
<1>1. SUFFICES ASSUME NEW i \in 1 .. n, i \notin S PROVE FALSE
  OBVIOUS
<1>2. n - i \in T
  <2>1. n - i \in 0 .. n /\ n - (n - i) = i
    OBVIOUS
  <2>2. QED
    BY <1>1, <2>1
<1>3. T \subseteq Nat
  OBVIOUS
<1>4. PICK k \in T : \A j \in T : k <= j
  <2> HIDE DEF T
  <2>1. QED
    BY <1>2, <1>3, LeastNatural
<1>5. n - k \in 1 .. n /\ n - k \notin S
  BY <1>4
<1>6. ASSUME NEW j \in (n - k) + 1 .. n PROVE j \in S
  <2>1. n - j \in 0 .. n /\ n - (n - j) = j /\ n - j < k /\ j >= 1
    BY <1>5
  <2>2. n - j \notin T
    BY <1>4, <2>1
  <2>3. QED
    BY <2>1, <2>2
<1>7. QED
  BY <1>5, <1>6

\* A recursion from the end of a text has a result.
Recursion(n, V, H) ==
    /\ H \in [[1 .. n -> V] \X (1 .. n) -> V]
    /\ \A f, g \in [1 .. n -> V], i \in 1 .. n :
          (\A j \in i + 1 .. n : f[j] = g[j]) => H[<<f, i>>] = H[<<g, i>>]
HasResult(n, V, H) == \E f \in [1 .. n -> V] : \A i \in 1 .. n : f[i] = H[<<f, i>>]

LEMMA RecursionFromTheEnd ==
  ASSUME NEW n \in Nat, NEW V, V # {}, NEW H, Recursion(n, V, H)
  PROVE  HasResult(n, V, H)
<1> USE DEF Recursion, HasResult
<1> DEFINE S == {k \in 1 .. n : \E f \in [1 .. n -> V] : \A i \in k .. n : f[i] = H[<<f, i>>]}
<1>1. PICK v \in V : TRUE
  OBVIOUS
<1>2. ASSUME NEW k \in 1 .. n, \A j \in k + 1 .. n : j \in S PROVE k \in S
  <2>1. \E f \in [1 .. n -> V] : \A i \in k + 1 .. n : f[i] = H[<<f, i>>]
    <3>1. CASE k = n
      <4>1. [i \in 1 .. n |-> v] \in [1 .. n -> V] /\ k + 1 .. n = {}
        BY <3>1
      <4>2. QED
        BY <4>1
    <3>2. CASE k # n
      <4>1. k + 1 \in k + 1 .. n
        BY <3>2
      <4>2. k + 1 \in S
        BY <1>2, <4>1
      <4>3. QED
        BY <4>2
    <3>3. QED
      BY <3>1, <3>2
  <2>2. PICK f \in [1 .. n -> V] : \A i \in k + 1 .. n : f[i] = H[<<f, i>>]
    BY <2>1
  <2> DEFINE g == [f EXCEPT ![k] = H[<<f, k>>]]
  <2>3. H[<<f, k>>] \in V
    OBVIOUS
  <2>4. g \in [1 .. n -> V] /\ g[k] = H[<<f, k>>] /\ \A j \in k + 1 .. n : g[j] = f[j]
    BY <2>3
  <2> HIDE DEF g
  <2>5. ASSUME NEW i \in k .. n PROVE g[i] = H[<<g, i>>]
    <3>1. i \in 1 .. n /\ \A j \in i + 1 .. n : f[j] = g[j]
      BY <2>4
    <3>2. H[<<f, i>>] = H[<<g, i>>]
      BY <2>4, <3>1
    <3>3. CASE i = k
      BY <2>4, <3>2, <3>3
    <3>4. CASE i # k
      <4>1. i \in k + 1 .. n
        BY <3>4
      <4>2. f[i] = H[<<f, i>>] /\ g[i] = f[i]
        BY <2>2, <2>4, <4>1
      <4>3. QED
        BY <3>2, <4>2
    <3>5. QED
      BY <3>3, <3>4
  <2>6. QED
    BY <2>4, <2>5
<1>3. CASE n = 0
  <2>1. [i \in 1 .. n |-> v] \in [1 .. n -> V] /\ 1 .. n = {}
    BY <1>3
  <2>2. QED
    BY <2>1
<1>4. CASE n > 0
  <2>1. 1 \in 1 .. n
    BY <1>4
  <2>2. 1 \in S
    <3> HIDE DEF S
    <3>1. QED
      BY <1>2, <2>1, FromTheEnd
  <2>3. QED
    BY <2>2
<1>5. n = 0 \/ n > 0
  OBVIOUS
<1>6. QED
  BY <1>3, <1>4, <1>5

-----------------------------------------------------------------------------
\* Texts and their parts.
Syms == Bytes \cup {"?", "R", "T", "P", "O", "M", "F"}

LEMMA Parts ==
  ASSUME NEW t \in Seq(Syms)
  PROVE  /\ Len(t) \in Nat /\ \A i \in 1 .. Len(t) : t[i] \in Syms
         /\ \A k \in 0 .. Len(t) :
              First(t, k) \in Seq(Syms) /\ Len(First(t, k)) = k /\ \A i \in 1 .. k : First(t, k)[i] = t[i]
         /\ \A k \in 1 .. Len(t) + 1 :
              /\ From(t, k) \in Seq(Syms) /\ Len(From(t, k)) = Len(t) + 1 - k
              /\ \A i \in 1 .. Len(t) + 1 - k : From(t, k)[i] = t[k + i - 1]
<1>1. Len(t) \in Nat /\ \A i \in 1 .. Len(t) : t[i] \in Syms
  OBVIOUS
<1>2. ASSUME NEW k \in 0 .. Len(t)
      PROVE  First(t, k) \in Seq(Syms) /\ Len(First(t, k)) = k /\ \A i \in 1 .. k : First(t, k)[i] = t[i]
  BY <1>1 DEF First
<1>3. ASSUME NEW k \in 1 .. Len(t) + 1
      PROVE  /\ From(t, k) \in Seq(Syms) /\ Len(From(t, k)) = Len(t) + 1 - k
             /\ \A i \in 1 .. Len(t) + 1 - k : From(t, k)[i] = t[k + i - 1]
  BY <1>1 DEF From
<1>4. QED
  BY <1>1, <1>2, <1>3

LEMMA Joined ==
  ASSUME NEW x \in Seq(Syms), NEW y \in Seq(Syms)
  PROVE  /\ x \o y \in Seq(Syms) /\ Len(x \o y) = Len(x) + Len(y)
         /\ \A i \in 1 .. Len(x) : (x \o y)[i] = x[i]
         /\ \A i \in 1 .. Len(y) : (x \o y)[Len(x) + i] = y[i]
         /\ \A i \in Len(x) + 1 .. Len(x) + Len(y) : (x \o y)[i] = y[i - Len(x)]
  OBVIOUS

LEMMA SameText ==
  ASSUME NEW x \in Seq(Syms), NEW y \in Seq(Syms), Len(x) = Len(y), \A i \in 1 .. Len(x) : x[i] = y[i]
  PROVE  x = y
  OBVIOUS

LEMMA JoinedThrice ==
  ASSUME NEW x \in Seq(Syms), NEW y \in Seq(Syms), NEW z \in Seq(Syms)
  PROVE  (x \o y) \o z = x \o (y \o z)
  OBVIOUS

Regrouped(x, y, z) == (x \o y) \o z = x \o (y \o z)

LEMMA Regroup == \A x, y, z \in Seq(Syms) : Regrouped(x, y, z)
  BY JoinedThrice DEF Regrouped

LEMMA CutInTwo ==
  ASSUME NEW t \in Seq(Syms), NEW k \in 0 .. Len(t)
  PROVE  First(t, k) \o From(t, k + 1) = t
<1> DEFINE x == First(t, k)
           y == From(t, k + 1)
<1>1. k + 1 \in 1 .. Len(t) + 1 /\ Len(t) \in Nat /\ k \in Nat
  BY Parts
<1>2. /\ x \in Seq(Syms) /\ Len(x) = k /\ \A i \in 1 .. k : x[i] = t[i]
      /\ y \in Seq(Syms) /\ Len(y) = Len(t) - k /\ \A i \in 1 .. Len(t) - k : y[i] = t[k + i]
  <2>1. /\ y \in Seq(Syms) /\ Len(y) = Len(t) + 1 - (k + 1)
        /\ \A i \in 1 .. Len(t) + 1 - (k + 1) : y[i] = t[(k + 1) + i - 1]
    BY <1>1, Parts
  <2>2. Len(t) + 1 - (k + 1) = Len(t) - k /\ \A i \in Nat : (k + 1) + i - 1 = k + i
    BY <1>1
  <2>3. x \in Seq(Syms) /\ Len(x) = k /\ \A i \in 1 .. k : x[i] = t[i]
    BY <1>1, Parts
  <2> HIDE DEF x, y
  <2>4. ASSUME NEW i \in 1 .. Len(t) - k PROVE y[i] = t[k + i]
    <3>1. i \in Nat /\ i \in 1 .. Len(t) + 1 - (k + 1)
      BY <1>1, <2>2
    <3>2. QED
      BY <2>1, <2>2, <3>1
  <2>5. QED
    BY <2>1, <2>2, <2>3, <2>4
<1> HIDE DEF x, y
<1>3. x \o y \in Seq(Syms) /\ Len(x \o y) = Len(t)
  BY <1>1, <1>2, Joined
<1>4. ASSUME NEW i \in 1 .. Len(t) PROVE (x \o y)[i] = t[i]
  <2>1. CASE i <= k
    BY <1>1, <1>2, <2>1, Joined
  <2>2. CASE i > k
    <3>1. i \in Len(x) + 1 .. Len(x) + Len(y) /\ i - k \in 1 .. Len(t) - k /\ k + (i - k) = i
      BY <1>1, <1>2, <2>2
    <3>2. (x \o y)[i] = y[i - k]
      BY <1>2, <3>1, Joined
    <3>3. QED
      BY <1>2, <3>1, <3>2
  <2>3. i <= k \/ i > k
    BY <1>1
  <2>4. QED
    BY <2>1, <2>2, <2>3
<1>5. x \o y = t
  BY <1>3, <1>4, SameText
<1>6. QED
  BY <1>5 DEF x, y

-----------------------------------------------------------------------------
\* Text of whole runes, without the symbol c.
Sound(x, c) ==
    \A i \in 1 .. Len(x) :
        /\ x[i] # c
        /\ x[i] = "u" => i < Len(x) /\ x[i + 1] = "v"
        /\ x[i] = "v" => i > 1 /\ x[i - 1] = "u"

LEMMA SoundJoin ==
  ASSUME NEW c, NEW x \in Seq(Syms), NEW y \in Seq(Syms), Sound(x, c), Sound(y, c)
  PROVE  Sound(x \o y, c)
<1> DEFINE z == x \o y
<1>1. /\ Len(x) \in Nat /\ Len(y) \in Nat /\ Len(z) = Len(x) + Len(y)
      /\ \A i \in 1 .. Len(x) : z[i] = x[i]
      /\ \A i \in Len(x) + 1 .. Len(x) + Len(y) : z[i] = y[i - Len(x)]
  BY Parts, Joined
<1> HIDE DEF z
<1>2. ASSUME NEW i \in 1 .. Len(z)
      PROVE  z[i] # c /\ (z[i] = "u" => i < Len(z) /\ z[i + 1] = "v") /\ (z[i] = "v" => i > 1 /\ z[i - 1] = "u")
  <2>1. CASE i <= Len(x)
    <3>1. i \in 1 .. Len(x) /\ z[i] = x[i] /\ i \in Nat
      BY <1>1, <2>1
    <3>2. x[i] = "u" => i < Len(x) /\ z[i + 1] = "v"
      <4>1. x[i] = "u" => i < Len(x) /\ x[i + 1] = "v"
        BY <3>1 DEF Sound
      <4>2. i < Len(x) => i + 1 \in 1 .. Len(x)
        BY <1>1, <3>1
      <4>3. i < Len(x) => z[i + 1] = x[i + 1]
        BY <1>1, <4>2
      <4>4. QED
        BY <4>1, <4>3
    <3>3. x[i] = "v" => i > 1 /\ z[i - 1] = "u"
      <4>1. x[i] = "v" => i > 1 /\ x[i - 1] = "u"
        BY <3>1 DEF Sound
      <4>2. i > 1 => z[i - 1] = x[i - 1]
        BY <1>1, <3>1
      <4>3. QED
        BY <4>1, <4>2
    <3>4. QED
      BY <1>1, <3>1, <3>2, <3>3 DEF Sound
  <2>2. CASE i > Len(x)
    <3> DEFINE j == i - Len(x)
    <3>1. j \in 1 .. Len(y) /\ z[i] = y[j] /\ i \in Nat
      BY <1>1, <2>2
    <3>2. y[j] = "u" => j < Len(y) /\ y[j + 1] = "v"
      BY <3>1 DEF Sound
    <3>3. j < Len(y) => z[i + 1] = y[j + 1]
      BY <1>1, <3>1
    <3>4. y[j] = "v" => j > 1 /\ y[j - 1] = "u"
      BY <3>1 DEF Sound
    <3>5. j > 1 => i > 1 /\ z[i - 1] = y[j - 1]
      BY <1>1, <3>1
    <3>6. y[j] # c
      BY <3>1 DEF Sound
    <3>7. j < Len(y) => i < Len(z)
      BY <1>1, <3>1
    <3> HIDE DEF j
    <3>8. QED
      BY <3>1, <3>2, <3>3, <3>4, <3>5, <3>6, <3>7
  <2>3. QED
    BY <1>1, <2>1, <2>2
<1>3. QED
  BY <1>2 DEF Sound, z

LEMMA SoundFirst ==
  ASSUME NEW c, NEW x \in Seq(Syms), Sound(x, c), NEW k \in 0 .. Len(x), k < Len(x) /\ k > 0 => x[k + 1] # "v"
  PROVE  Sound(First(x, k), c)
<1>1. Len(x) \in Nat /\ Len(First(x, k)) = k /\ \A i \in 1 .. k : First(x, k)[i] = x[i]
  BY Parts
<1>2. ASSUME NEW i \in 1 .. k
      PROVE  x[i] # c /\ (x[i] = "u" => i < k /\ x[i + 1] = "v") /\ (x[i] = "v" => i > 1 /\ x[i - 1] = "u")
  <2>1. i \in 1 .. Len(x)
    BY <1>1
  <2>2. x[i] # c /\ (x[i] = "u" => i < Len(x) /\ x[i + 1] = "v") /\ (x[i] = "v" => i > 1 /\ x[i - 1] = "u")
    BY <2>1 DEF Sound
  <2>3. i = k \/ i < k
    BY <1>1
  <2>4. QED
    BY <1>1, <2>2, <2>3
<1>3. \A i \in 1 .. k : (i < k => First(x, k)[i + 1] = x[i + 1]) /\ (i > 1 => First(x, k)[i - 1] = x[i - 1])
  BY <1>1
<1>4. QED
  BY <1>1, <1>2, <1>3 DEF Sound

LEMMA SoundFrom ==
  ASSUME NEW c, NEW x \in Seq(Syms), Sound(x, c), NEW k \in 1 .. Len(x) + 1, k > 1 /\ k <= Len(x) => x[k] # "v"
  PROVE  Sound(From(x, k), c)
<1> DEFINE y == From(x, k)
           n == Len(x) + 1 - k
<1>1. Len(x) \in Nat /\ k \in Nat /\ Len(y) = n /\ n \in Nat /\ \A i \in 1 .. n : y[i] = x[k + i - 1]
  BY Parts
<1> HIDE DEF y
<1>2. ASSUME NEW i \in 1 .. n
      PROVE  y[i] # c /\ (y[i] = "u" => i < n /\ y[i + 1] = "v") /\ (y[i] = "v" => i > 1 /\ y[i - 1] = "u")
  <2> DEFINE j == k + i - 1
  <2>1. j \in 1 .. Len(x) /\ y[i] = x[j] /\ (i < n <=> j < Len(x)) /\ i \in Nat
    BY <1>1
  <2>2. x[j] # c /\ (x[j] = "u" => j < Len(x) /\ x[j + 1] = "v") /\ (x[j] = "v" => j > 1 /\ x[j - 1] = "u")
    BY <2>1 DEF Sound
  <2>3. i < n => y[i + 1] = x[j + 1]
    BY <1>1, <2>1
  <2>4. i > 1 => y[i - 1] = x[j - 1]
    BY <1>1, <2>1
  <2>5. i = 1 => x[j] # "v"
    <3>1. SUFFICES ASSUME i = 1, x[j] = "v" PROVE FALSE
      OBVIOUS
    <3>2. j = k /\ k > 1 /\ k <= Len(x)
      BY <1>1, <2>1, <2>2, <3>1
    <3>3. QED
      BY <3>1, <3>2
  <2>6. i = 1 \/ i > 1
    BY <2>1
  <2> HIDE DEF j
  <2>7. QED
    BY <2>1, <2>2, <2>3, <2>4, <2>5, <2>6
<1>3. QED
  BY <1>1, <1>2 DEF Sound, y

\* validUTF8PrefixAtMost cuts between runes.
LEMMA PrefixIsSound ==
  ASSUME NEW c, NEW t \in Seq(Syms), Sound(t, c), NEW limit \in Nat
  PROVE  \E k \in 0 .. Len(t) :
           /\ k <= limit /\ PrefixAtMost(t, limit) = First(t, k)
           /\ Sound(First(t, k), c) /\ Sound(From(t, k + 1), c)
           /\ limit >= Len(t) => k = Len(t)
           /\ limit < Len(t) => k + 1 >= limit
<1> DEFINE cut == Least(limit, Len(t))
           k == IF cut < Len(t) /\ cut > 0 /\ t[cut + 1] = "v" THEN cut - 1 ELSE cut
<1>1. Len(t) \in Nat /\ cut \in 0 .. Len(t) /\ cut <= limit /\ (limit >= Len(t) => cut = Len(t)) /\ (limit < Len(t) => cut = limit)
  BY Parts DEF Least
<1>2. PrefixAtMost(t, limit) = First(t, k)
  BY DEF PrefixAtMost
<1> HIDE DEF cut
<1>3. k \in 0 .. Len(t) /\ k <= limit /\ (limit >= Len(t) => k = Len(t)) /\ (limit < Len(t) => k + 1 >= limit)
  BY <1>1
<1>4. k < Len(t) /\ k > 0 => t[k + 1] # "v"
  <2>1. CASE cut < Len(t) /\ cut > 0 /\ t[cut + 1] = "v"
    <3>1. cut + 1 \in 1 .. Len(t) /\ cut \in Nat
      BY <1>1, <2>1
    <3>2. t[cut] = "u"
      BY <1>1, <2>1, <3>1 DEF Sound
    <3>3. k + 1 = cut
      BY <2>1, <3>1
    <3>4. QED
      BY <3>2, <3>3
  <2>2. CASE ~(cut < Len(t) /\ cut > 0 /\ t[cut + 1] = "v")
    BY <2>2
  <2>3. QED
    BY <2>1, <2>2
<1> HIDE DEF k
<1>5. Sound(First(t, k), c)
  BY <1>3, <1>4, SoundFirst
<1>6. Sound(From(t, k + 1), c)
  <2>1. k + 1 \in 1 .. Len(t) + 1 /\ (k + 1 > 1 /\ k + 1 <= Len(t) => t[k + 1] # "v")
    BY <1>1, <1>3, <1>4
  <2>2. QED
    BY <2>1, SoundFrom
<1>7. QED
  BY <1>2, <1>3, <1>5, <1>6

-----------------------------------------------------------------------------
\* What Runes and Without make of a text.
RuneStep(t, f) ==
    [i \in 1 .. Len(t) + 2 |->
        IF i > Len(t) THEN << >>
        ELSE IF t[i] = "u" /\ i < Len(t) /\ t[i + 1] = "v" THEN <<"u", "v">> \o f[i + 2]
        ELSE <<IF t[i] \in {"u", "v"} THEN "?" ELSE t[i]>> \o f[i + 1]]

KeptStep(t, c, f) ==
    [i \in 1 .. Len(t) + 1 |->
        IF i > Len(t) THEN << >> ELSE (IF t[i] = c THEN << >> ELSE <<t[i]>>) \o f[i + 1]]

LEMMA RunesFound ==
  ASSUME NEW t \in Seq(Syms)
  PROVE  \E f : f = RuneStep(t, f) /\ Runes(t) = f[1]
<1> DEFINE n == Len(t) + 2
           V == Seq(Syms)
           H == [p \in [1 .. n -> V] \X (1 .. n) |-> RuneStep(t, p[1])[p[2]]]
<1>1. n \in Nat /\ V # {} /\ Len(t) \in Nat
  BY Parts
<1>2. ASSUME NEW f \in [1 .. n -> V], NEW i \in 1 .. n PROVE RuneStep(t, f)[i] \in V
  <2>1. CASE i > Len(t)
    <3>1. RuneStep(t, f)[i] = << >>
      BY <2>1 DEF RuneStep
    <3>2. QED
      BY <3>1
  <2>2. CASE ~(i > Len(t)) /\ t[i] = "u" /\ i < Len(t) /\ t[i + 1] = "v"
    <3>1. RuneStep(t, f)[i] = <<"u", "v">> \o f[i + 2]
      BY <2>2 DEF RuneStep
    <3>2. i + 2 \in 1 .. n /\ <<"u", "v">> \in Seq(Syms)
      BY <1>1, <2>2 DEF Syms, Bytes
    <3>3. f[i + 2] \in Seq(Syms)
      BY <3>2
    <3>4. QED
      BY <3>1, <3>2, <3>3, Joined
  <2>3. CASE ~(i > Len(t)) /\ ~(t[i] = "u" /\ i < Len(t) /\ t[i + 1] = "v")
    <3> DEFINE s == IF t[i] \in {"u", "v"} THEN "?" ELSE t[i]
    <3>1. RuneStep(t, f)[i] = <<s>> \o f[i + 1]
      BY <2>3 DEF RuneStep
    <3>2. i + 1 \in 1 .. n /\ i \in 1 .. Len(t)
      BY <1>1, <2>3
    <3>3. s \in Syms
      BY <3>2, Parts DEF Syms
    <3>4. <<s>> \in Seq(Syms) /\ f[i + 1] \in Seq(Syms)
      BY <3>2, <3>3
    <3>5. QED
      BY <3>1, <3>4, Joined
  <2>4. QED
    BY <2>1, <2>2, <2>3
<1>3. H \in [[1 .. n -> V] \X (1 .. n) -> V]
  BY <1>2
<1>4. ASSUME NEW f \in [1 .. n -> V], NEW g \in [1 .. n -> V], NEW i \in 1 .. n,
             \A j \in i + 1 .. n : f[j] = g[j]
      PROVE  H[<<f, i>>] = H[<<g, i>>]
  <2>1. H[<<f, i>>] = RuneStep(t, f)[i] /\ H[<<g, i>>] = RuneStep(t, g)[i]
    OBVIOUS
  <2>2. ~(i > Len(t)) => f[i + 1] = g[i + 1] /\ f[i + 2] = g[i + 2]
    BY <1>1, <1>4
  <2>3. RuneStep(t, f)[i] = RuneStep(t, g)[i]
    BY <2>2 DEF RuneStep
  <2>4. QED
    BY <2>1, <2>3
<1>5. \A f \in [1 .. n -> V], i \in 1 .. n : H[<<f, i>>] = RuneStep(t, f)[i]
  OBVIOUS
<1>6. \E f \in [1 .. n -> V] : \A i \in 1 .. n : f[i] = H[<<f, i>>]
  <2> HIDE DEF n, V, H
  <2>1. Recursion(n, V, H)
    BY <1>3, <1>4 DEF Recursion
  <2>2. HasResult(n, V, H)
    BY <1>1, <2>1, RecursionFromTheEnd
  <2>3. QED
    BY <2>2 DEF HasResult
<1> HIDE DEF H
<1>7. PICK f \in [1 .. n -> V] : \A i \in 1 .. n : f[i] = RuneStep(t, f)[i]
  BY <1>5, <1>6
<1>8. f = RuneStep(t, f)
  BY <1>7 DEF RuneStep
<1> DEFINE it == CHOOSE g : g = RuneStep(t, g)
<1>9. it = RuneStep(t, it)
  <2>1. \E g : g = RuneStep(t, g)
    BY <1>8
  <2>2. QED
    BY <2>1
<1>10. Runes(t) = it[1]
  BY DEF Runes, RuneStep
<1>11. QED
  BY <1>9, <1>10

LEMMA KeptFound ==
  ASSUME NEW t \in Seq(Syms), NEW c
  PROVE  \E f : f = KeptStep(t, c, f) /\ Without(t, c) = f[1]
<1> DEFINE n == Len(t) + 1
           V == Seq(Syms)
           H == [p \in [1 .. n -> V] \X (1 .. n) |-> KeptStep(t, c, p[1])[p[2]]]
<1>1. n \in Nat /\ V # {} /\ Len(t) \in Nat
  BY Parts
<1>2. ASSUME NEW f \in [1 .. n -> V], NEW i \in 1 .. n PROVE KeptStep(t, c, f)[i] \in V
  <2>1. CASE i > Len(t)
    <3>1. KeptStep(t, c, f)[i] = << >>
      BY <2>1 DEF KeptStep
    <3>2. QED
      BY <3>1
  <2>2. CASE ~(i > Len(t))
    <3> DEFINE s == IF t[i] = c THEN << >> ELSE <<t[i]>>
    <3>1. KeptStep(t, c, f)[i] = s \o f[i + 1]
      BY <2>2 DEF KeptStep
    <3>2. i + 1 \in 1 .. n /\ i \in 1 .. Len(t)
      BY <1>1, <2>2
    <3>3. t[i] \in Syms
      BY <3>2, Parts
    <3>4. s \in Seq(Syms) /\ f[i + 1] \in Seq(Syms)
      BY <3>2, <3>3
    <3> HIDE DEF s
    <3>5. QED
      BY <3>1, <3>4, Joined
  <2>3. QED
    BY <2>1, <2>2
<1>3. H \in [[1 .. n -> V] \X (1 .. n) -> V]
  BY <1>2
<1>4. ASSUME NEW f \in [1 .. n -> V], NEW g \in [1 .. n -> V], NEW i \in 1 .. n,
             \A j \in i + 1 .. n : f[j] = g[j]
      PROVE  H[<<f, i>>] = H[<<g, i>>]
  <2>1. H[<<f, i>>] = KeptStep(t, c, f)[i] /\ H[<<g, i>>] = KeptStep(t, c, g)[i]
    OBVIOUS
  <2>2. ~(i > Len(t)) => f[i + 1] = g[i + 1]
    BY <1>1, <1>4
  <2>3. KeptStep(t, c, f)[i] = KeptStep(t, c, g)[i]
    BY <2>2 DEF KeptStep
  <2>4. QED
    BY <2>1, <2>3
<1>5. \A f \in [1 .. n -> V], i \in 1 .. n : H[<<f, i>>] = KeptStep(t, c, f)[i]
  OBVIOUS
<1>6. \E f \in [1 .. n -> V] : \A i \in 1 .. n : f[i] = H[<<f, i>>]
  <2> HIDE DEF n, V, H
  <2>1. Recursion(n, V, H)
    BY <1>3, <1>4 DEF Recursion
  <2>2. HasResult(n, V, H)
    BY <1>1, <2>1, RecursionFromTheEnd
  <2>3. QED
    BY <2>2 DEF HasResult
<1> HIDE DEF H
<1>7. PICK f \in [1 .. n -> V] : \A i \in 1 .. n : f[i] = KeptStep(t, c, f)[i]
  BY <1>5, <1>6
<1>8. f = KeptStep(t, c, f)
  BY <1>7 DEF KeptStep
<1> DEFINE it == CHOOSE g : g = KeptStep(t, c, g)
<1>9. it = KeptStep(t, c, it)
  <2>1. \E g : g = KeptStep(t, c, g)
    BY <1>8
  <2>2. QED
    BY <2>1
<1>10. Without(t, c) = it[1]
  BY DEF Without, KeptStep
<1>11. QED
  BY <1>9, <1>10

\* Their recursions, place by place.
IsRunes(t, f) ==
    \A i \in 1 .. Len(t) + 2 :
        /\ i > Len(t) => f[i] = << >>
        /\ i <= Len(t) /\ t[i] = "u" /\ i < Len(t) /\ t[i + 1] = "v" => f[i] = <<"u", "v">> \o f[i + 2]
        /\ i <= Len(t) /\ ~(t[i] = "u" /\ i < Len(t) /\ t[i + 1] = "v") =>
             f[i] = <<IF t[i] \in {"u", "v"} THEN "?" ELSE t[i]>> \o f[i + 1]

IsKept(t, c, f) ==
    \A i \in 1 .. Len(t) + 1 :
        /\ i > Len(t) => f[i] = << >>
        /\ i <= Len(t) /\ t[i] = c => f[i] = << >> \o f[i + 1]
        /\ i <= Len(t) /\ t[i] # c => f[i] = <<t[i]>> \o f[i + 1]

LEMMA RuneUnfolds ==
  ASSUME NEW t \in Seq(Syms)
  PROVE  \E f : IsRunes(t, f) /\ Runes(t) = f[1]
<1>1. PICK f : f = RuneStep(t, f) /\ Runes(t) = f[1]
  BY RunesFound
<1>2. ASSUME NEW i \in 1 .. Len(t) + 2
      PROVE  f[i] = IF i > Len(t) THEN << >>
                    ELSE IF t[i] = "u" /\ i < Len(t) /\ t[i + 1] = "v" THEN <<"u", "v">> \o f[i + 2]
                    ELSE <<IF t[i] \in {"u", "v"} THEN "?" ELSE t[i]>> \o f[i + 1]
  <2>1. f[i] = RuneStep(t, f)[i]
    BY <1>1
  <2>2. QED
    BY <2>1 DEF RuneStep
<1>3. \A i \in 1 .. Len(t) + 2 : i > Len(t) <=> ~(i <= Len(t))
  BY Parts
<1>4. IsRunes(t, f)
  BY <1>2, <1>3 DEF IsRunes
<1>5. QED
  BY <1>1, <1>4

LEMMA KeptUnfolds ==
  ASSUME NEW t \in Seq(Syms), NEW c
  PROVE  \E f : IsKept(t, c, f) /\ Without(t, c) = f[1]
<1>1. PICK f : f = KeptStep(t, c, f) /\ Without(t, c) = f[1]
  BY KeptFound
<1>2. ASSUME NEW i \in 1 .. Len(t) + 1
      PROVE  f[i] = IF i > Len(t) THEN << >> ELSE (IF t[i] = c THEN << >> ELSE <<t[i]>>) \o f[i + 1]
  <2>1. f[i] = KeptStep(t, c, f)[i]
    BY <1>1
  <2>2. QED
    BY <2>1 DEF KeptStep
<1>3. \A i \in 1 .. Len(t) + 1 : i > Len(t) <=> ~(i <= Len(t))
  BY Parts
<1>4. IsKept(t, c, f)
  BY <1>2, <1>3 DEF IsKept
<1>5. QED
  BY <1>1, <1>4

LEMMA ShortSound ==
  /\ \A c : << >> \in Seq(Syms) /\ Sound(<< >>, c)
  /\ \A c : c \notin {"u", "v"} => <<"u", "v">> \in Seq(Syms) /\ Sound(<<"u", "v">>, c)
  /\ \A c, s : s \in Syms /\ s \notin {"u", "v", c} => <<s>> \in Seq(Syms) /\ Sound(<<s>>, c)
<1>1. \A c : << >> \in Seq(Syms) /\ Sound(<< >>, c)
  BY DEF Sound
<1>2. ASSUME NEW c, c \notin {"u", "v"} PROVE <<"u", "v">> \in Seq(Syms) /\ Sound(<<"u", "v">>, c)
  BY <1>2 DEF Sound, Syms, Bytes
<1>3. ASSUME NEW c, NEW s \in Syms, s \notin {"u", "v", c} PROVE <<s>> \in Seq(Syms) /\ Sound(<<s>>, c)
  BY <1>3 DEF Sound
<1>4. QED
  BY <1>1, <1>2, <1>3

\* A normalizer lets whole runes through.
LEMMA RunesSound ==
  ASSUME NEW t \in Seq(Syms)
  PROVE  Runes(t) \in Seq(Syms) /\ Sound(Runes(t), "none")
<1>1. PICK f : IsRunes(t, f) /\ Runes(t) = f[1]
  BY RuneUnfolds
<1> DEFINE n == Len(t) + 2
           S == {i \in 1 .. n : f[i] \in Seq(Syms) /\ Sound(f[i], "none")}
<1>2. n \in Nat /\ Len(t) \in Nat
  BY Parts
<1>3. ASSUME NEW i \in 1 .. n, \A j \in i + 1 .. n : j \in S PROVE i \in S
  <2>1. CASE i > Len(t)
    <3>1. f[i] = << >>
      BY <1>1, <2>1 DEF IsRunes
    <3>2. QED
      BY <3>1, ShortSound
  <2>2. CASE i <= Len(t) /\ t[i] = "u" /\ i < Len(t) /\ t[i + 1] = "v"
    <3>1. f[i] = <<"u", "v">> \o f[i + 2]
      BY <1>1, <2>2 DEF IsRunes
    <3>2. i + 2 \in i + 1 .. n
      BY <1>2, <2>2
    <3>3. f[i + 2] \in Seq(Syms) /\ Sound(f[i + 2], "none")
      BY <1>3, <3>2
    <3>4. <<"u", "v">> \in Seq(Syms) /\ Sound(<<"u", "v">>, "none")
      BY ShortSound
    <3> DEFINE y == f[i + 2]
    <3> HIDE DEF y
    <3>5. f[i] = <<"u", "v">> \o y /\ y \in Seq(Syms) /\ Sound(y, "none")
      BY <3>1, <3>3 DEF y
    <3>6. f[i] \in Seq(Syms)
      BY <3>4, <3>5, Joined
    <3>7. Sound(f[i], "none")
      BY <3>4, <3>5, SoundJoin
    <3>8. QED
      BY <3>6, <3>7
  <2>3. CASE i <= Len(t) /\ ~(t[i] = "u" /\ i < Len(t) /\ t[i + 1] = "v")
    <3> DEFINE s == IF t[i] \in {"u", "v"} THEN "?" ELSE t[i]
    <3>1. f[i] = <<s>> \o f[i + 1]
      BY <1>1, <2>3 DEF IsRunes
    <3>2. i + 1 \in i + 1 .. n /\ i \in 1 .. Len(t)
      BY <1>2, <2>3
    <3>3. f[i + 1] \in Seq(Syms) /\ Sound(f[i + 1], "none")
      BY <1>3, <3>2
    <3>4. s \in Syms /\ s \notin {"u", "v", "none"}
      BY <3>2, Parts DEF Syms, Bytes
    <3> HIDE DEF s
    <3>5. <<s>> \in Seq(Syms) /\ Sound(<<s>>, "none")
      BY <3>4, ShortSound
    <3> DEFINE y == f[i + 1]
    <3> HIDE DEF y
    <3>6. f[i] = <<s>> \o y /\ y \in Seq(Syms) /\ Sound(y, "none")
      BY <3>1, <3>3 DEF y
    <3>7. f[i] \in Seq(Syms)
      BY <3>5, <3>6, Joined
    <3>8. Sound(f[i], "none")
      BY <3>5, <3>6, SoundJoin
    <3>9. QED
      BY <3>7, <3>8
  <2>4. i > Len(t) \/ i <= Len(t)
    BY <1>2
  <2>5. QED
    BY <2>1, <2>2, <2>3, <2>4
<1>4. 1 \in S
  <2>1. 1 \in 1 .. n
    BY <1>2
  <2> HIDE DEF S, n
  <2>2. QED
    BY <1>2, <1>3, <2>1, FromTheEnd
<1>5. QED
  BY <1>1, <1>4

\* To take a symbol out that is no part of a rune breaks none.
LEMMA WithoutSound ==
  ASSUME NEW t \in Seq(Syms), Sound(t, "none"), NEW c, c \notin {"u", "v"}
  PROVE  Without(t, c) \in Seq(Syms) /\ Sound(Without(t, c), c)
<1>1. PICK f : IsKept(t, c, f) /\ Without(t, c) = f[1]
  BY KeptUnfolds
<1> DEFINE n == Len(t) + 1
           S == {i \in 1 .. n : f[i] \in Seq(Syms) /\ ((i <= Len(t) => t[i] # "v") => Sound(f[i], c))}
<1>2. n \in Nat /\ Len(t) \in Nat
  BY Parts
<1>3. ASSUME NEW i \in 1 .. n, \A j \in i + 1 .. n : j \in S PROVE i \in S
  <2>1. CASE i > Len(t)
    <3>1. f[i] = << >>
      BY <1>1, <2>1 DEF IsKept
    <3>2. QED
      BY <3>1, ShortSound
  <2>2. CASE i <= Len(t)
    <3> DEFINE s == IF t[i] = c THEN << >> ELSE <<t[i]>>
    <3>0. i \in Nat /\ i \in 1 .. Len(t) /\ i + 1 \in i + 1 .. n
      BY <1>2, <2>2
    <3>1. f[i] = s \o f[i + 1] /\ f[i + 1] \in Seq(Syms)
      BY <1>1, <1>3, <2>2, <3>0 DEF IsKept
    <3>2. t[i] \in Syms
      BY <3>0, Parts
    <3>3. s \in Seq(Syms)
      BY <3>2
    <3>4. f[i] \in Seq(Syms)
      <4> HIDE DEF s
      <4>1. QED
        BY <3>1, <3>3, Joined
    <3>5. ASSUME t[i] \notin {"u", "v"} PROVE Sound(f[i], c)
      <4>1. i + 1 <= Len(t) => t[i + 1] # "v"
        <5>1. SUFFICES ASSUME i + 1 <= Len(t), t[i + 1] = "v" PROVE FALSE
          OBVIOUS
        <5>2. i + 1 \in 1 .. Len(t) /\ (i + 1) - 1 = i
          BY <1>2, <3>0, <5>1
        <5>3. QED
          BY <3>5, <5>1, <5>2 DEF Sound
      <4>2. Sound(f[i + 1], c)
        BY <1>3, <3>0, <4>1
      <4>3. Sound(s, c)
        BY <3>2, <3>5, ShortSound
      <4> HIDE DEF s
      <4>4. QED
        BY <3>1, <3>3, <4>2, <4>3, SoundJoin
    <3>6. ASSUME t[i] = "u" PROVE Sound(f[i], c)
      <4>1. i < Len(t) /\ t[i + 1] = "v"
        BY <3>0, <3>6 DEF Sound
      <4>2. i + 1 \in 1 .. n /\ i + 1 <= Len(t) /\ (i + 1) + 1 = i + 2 /\ i + 2 \in i + 1 .. n
        BY <1>2, <3>0, <4>1
      <4>3. f[i + 1] = <<"v">> \o f[i + 2]
        BY <1>1, <4>1, <4>2 DEF IsKept
      <4>4. f[i] = <<"u">> \o f[i + 1]
        BY <3>1, <3>6
      <4>5. i + 2 <= Len(t) => t[i + 2] # "v"
        <5>1. SUFFICES ASSUME i + 2 <= Len(t), t[i + 2] = "v" PROVE FALSE
          OBVIOUS
        <5>2. i + 2 \in 1 .. Len(t) /\ (i + 2) - 1 = i + 1
          BY <1>2, <3>0, <5>1
        <5>3. QED
          BY <4>1, <5>1, <5>2 DEF Sound
      <4>6. f[i + 2] \in Seq(Syms) /\ Sound(f[i + 2], c)
        BY <1>3, <4>2, <4>5
      <4>7. <<"u">> \in Seq(Syms) /\ <<"v">> \in Seq(Syms) /\ <<"u">> \o <<"v">> = <<"u", "v">>
        <5>1. "u" \in Syms /\ "v" \in Syms
          BY DEF Syms, Bytes
        <5>2. <<"u">> \in Seq(Syms) /\ <<"v">> \in Seq(Syms) /\ <<"u", "v">> \in Seq(Syms)
          BY <5>1
        <5> DEFINE x == <<"u">> \o <<"v">>
        <5>3. x \in Seq(Syms) /\ Len(x) = 2 /\ x[1] = "u" /\ x[2] = "v"
          BY <5>2
        <5>4. x = [k \in 1 .. 2 |-> x[k]] /\ <<"u", "v">> = [k \in 1 .. 2 |-> IF k = 1 THEN "u" ELSE "v"]
          BY <5>3
        <5> HIDE DEF x
        <5>5. x = <<"u", "v">>
          BY <5>3, <5>4
        <5>6. QED
          BY <5>2, <5>5 DEF x
      <4>8. f[i] = <<"u", "v">> \o f[i + 2]
        <5>1. <<"u">> \o (<<"v">> \o f[i + 2]) = (<<"u">> \o <<"v">>) \o f[i + 2]
          BY <4>6, <4>7, JoinedThrice, Zenon
        <5>2. QED
          BY <4>3, <4>4, <4>7, <5>1, Zenon
      <4>9. <<"u", "v">> \in Seq(Syms) /\ Sound(<<"u", "v">>, c)
        BY ShortSound
      <4>10. QED
        BY <4>6, <4>8, <4>9, SoundJoin
    <3>7. QED
      BY <3>4, <3>5, <3>6, <2>2
  <2>3. i > Len(t) \/ i <= Len(t)
    BY <1>2
  <2>4. QED
    BY <2>1, <2>2, <2>3
<1>4. 1 \in S
  <2>1. 1 \in 1 .. n
    BY <1>2
  <2> HIDE DEF S, n
  <2>2. QED
    BY <1>2, <1>3, <2>1, FromTheEnd
<1>5. 1 <= Len(t) => t[1] # "v"
  <2>1. SUFFICES ASSUME 1 <= Len(t), t[1] = "v" PROVE FALSE
    OBVIOUS
  <2>2. 1 \in 1 .. Len(t)
    BY <1>2, <2>1
  <2>3. QED
    BY <2>1, <2>2 DEF Sound
<1>6. QED
  BY <1>1, <1>4, <1>5


\* Text without a notice of the platform.
Plain == Syms \ {"P"}

LEMMA PlainIs ==
  /\ \A t \in Seq(Plain) : t \in Seq(Syms)
  /\ \A x, y \in Seq(Plain) : x \o y \in Seq(Plain)
  /\ \A t \in Seq(Plain) : \A k \in 0 .. Len(t) : First(t, k) \in Seq(Plain)
  /\ << >> \in Seq(Plain)
<1>1. Plain \subseteq Syms
  BY DEF Plain
<1>2. ASSUME NEW t \in Seq(Plain) PROVE t \in Seq(Syms)
  BY <1>1
<1>3. ASSUME NEW x \in Seq(Plain), NEW y \in Seq(Plain) PROVE x \o y \in Seq(Plain)
  OBVIOUS
<1>4. ASSUME NEW t \in Seq(Plain), NEW k \in 0 .. Len(t) PROVE First(t, k) \in Seq(Plain)
  BY DEF First
<1>5. << >> \in Seq(Plain)
  OBVIOUS
<1>6. QED
  BY <1>2, <1>3, <1>4, <1>5

LEMMA RunesPlain ==
  ASSUME NEW t \in Seq(Plain)
  PROVE  Runes(t) \in Seq(Plain)
<1>0. t \in Seq(Syms)
  BY PlainIs
<1>1. PICK f : IsRunes(t, f) /\ Runes(t) = f[1]
  BY <1>0, RuneUnfolds
<1> DEFINE n == Len(t) + 2
           S == {i \in 1 .. n : f[i] \in Seq(Plain)}
<1>2. n \in Nat /\ Len(t) \in Nat
  BY <1>0, Parts
<1>3. ASSUME NEW i \in 1 .. n, \A j \in i + 1 .. n : j \in S PROVE i \in S
  <2>1. CASE i > Len(t)
    <3>1. f[i] = << >>
      BY <1>1, <2>1 DEF IsRunes
    <3>2. QED
      BY <3>1, PlainIs
  <2>2. CASE i <= Len(t) /\ t[i] = "u" /\ i < Len(t) /\ t[i + 1] = "v"
    <3>1. f[i] = <<"u", "v">> \o f[i + 2]
      BY <1>1, <2>2 DEF IsRunes
    <3>2. i + 2 \in i + 1 .. n
      BY <1>2, <2>2
    <3>3. <<"u", "v">> \in Seq(Plain) /\ f[i + 2] \in Seq(Plain)
      BY <1>3, <3>2 DEF Plain, Syms, Bytes
    <3>4. QED
      BY <3>1, <3>3, PlainIs
  <2>3. CASE i <= Len(t) /\ ~(t[i] = "u" /\ i < Len(t) /\ t[i + 1] = "v")
    <3> DEFINE s == IF t[i] \in {"u", "v"} THEN "?" ELSE t[i]
    <3>1. f[i] = <<s>> \o f[i + 1]
      BY <1>1, <2>3 DEF IsRunes
    <3>2. i + 1 \in i + 1 .. n /\ i \in 1 .. Len(t)
      BY <1>2, <2>3
    <3>3. s \in Plain
      <4>1. t[i] \in Plain
        BY <3>2
      <4>2. "?" \in Plain
        BY DEF Plain, Syms
      <4>3. QED
        BY <4>1, <4>2
    <3> HIDE DEF s
    <3>4. <<s>> \in Seq(Plain) /\ f[i + 1] \in Seq(Plain)
      BY <1>3, <3>2, <3>3
    <3>5. QED
      BY <3>1, <3>4, PlainIs
  <2>4. i > Len(t) \/ i <= Len(t)
    BY <1>2
  <2>5. QED
    BY <2>1, <2>2, <2>3, <2>4
<1>4. 1 \in S
  <2>1. 1 \in 1 .. n
    BY <1>2
  <2> HIDE DEF S, n
  <2>2. QED
    BY <1>2, <1>3, <2>1, FromTheEnd
<1>5. QED
  BY <1>1, <1>4

LEMMA WithoutPlain ==
  ASSUME NEW t \in Seq(Plain), NEW c
  PROVE  Without(t, c) \in Seq(Plain)
<1>0. t \in Seq(Syms)
  BY PlainIs
<1>1. PICK f : IsKept(t, c, f) /\ Without(t, c) = f[1]
  BY <1>0, KeptUnfolds
<1> DEFINE n == Len(t) + 1
           S == {i \in 1 .. n : f[i] \in Seq(Plain)}
<1>2. n \in Nat /\ Len(t) \in Nat
  BY <1>0, Parts
<1>3. ASSUME NEW i \in 1 .. n, \A j \in i + 1 .. n : j \in S PROVE i \in S
  <2>1. CASE i > Len(t)
    <3>1. f[i] = << >>
      BY <1>1, <2>1 DEF IsKept
    <3>2. QED
      BY <3>1, PlainIs
  <2>2. CASE i <= Len(t)
    <3>1. i + 1 \in i + 1 .. n /\ i \in 1 .. Len(t)
      BY <1>2, <2>2
    <3>2. f[i + 1] \in Seq(Plain) /\ t[i] \in Plain
      BY <1>3, <3>1
    <3>3. << >> \in Seq(Plain) /\ <<t[i]>> \in Seq(Plain)
      BY <3>2
    <3>4. f[i] = << >> \o f[i + 1] \/ f[i] = <<t[i]>> \o f[i + 1]
      BY <1>1, <2>2 DEF IsKept
    <3>5. QED
      BY <3>2, <3>3, <3>4, PlainIs
  <2>3. i > Len(t) \/ i <= Len(t)
    BY <1>2
  <2>4. QED
    BY <2>1, <2>2, <2>3
<1>4. 1 \in S
  <2>1. 1 \in 1 .. n
    BY <1>2
  <2> HIDE DEF S, n
  <2>2. QED
    BY <1>2, <1>3, <2>1, FromTheEnd
<1>5. QED
  BY <1>1, <1>4
-----------------------------------------------------------------------------
\* Where a credential is, and where one might still come to be.

\* The credential l is in t, from i on.
At(t, i, l) == i + Len(l) - 1 <= Len(t) /\ \A j \in 1 .. Len(l) : t[i + j - 1] = l[j]

\* So far as t goes, it could be.
Fits(t, i, l) == \A j \in 1 .. Len(l) : i + j - 1 <= Len(t) => t[i + j - 1] = l[j]

Clean(t) == \A i \in 1 .. Len(t), l \in Literals : ~At(t, i, l)

\* However t goes on, no credential will have begun among its first n symbols.
Shut(t, n) == \A i \in 1 .. n, l \in Literals : ~Fits(t, i, l)

LEMMA LiteralIs ==
  ASSUME NEW l \in Literals
  PROVE  Len(l) \in Nat /\ Len(l) >= 1 /\ l \in Seq(Syms) /\ \A j \in 1 .. Len(l) : l[j] \in Secret
<1>1. l \in Seq(Secret) /\ l # << >>
  BY PipelineAssumption
<1>2. Len(l) \in Nat /\ Len(l) >= 1 /\ \A j \in 1 .. Len(l) : l[j] \in Secret
  BY <1>1
<1>3. Secret \subseteq Syms
  BY DEF Secret, Syms, Bytes
<1>4. l \in Seq(Syms)
  BY <1>1, <1>3
<1>5. QED
  BY <1>2, <1>4

LEMMA StartsIs ==
  ASSUME NEW t \in Seq(Syms), NEW i \in 1 .. Len(t), NEW l \in Literals
  PROVE  Starts(t, i, l) <=> At(t, i, l)
<1>1. Len(l) \in Nat /\ Len(l) >= 1 /\ l \in Seq(Syms) /\ Len(t) \in Nat /\ i \in Nat
  BY LiteralIs, Parts
<1>2. SUFFICES ASSUME i + Len(l) - 1 <= Len(t)
               PROVE  SubSeq(t, i, i + Len(l) - 1) = l <=> \A j \in 1 .. Len(l) : t[i + j - 1] = l[j]
  BY DEF Starts, At
<1> DEFINE s == SubSeq(t, i, i + Len(l) - 1)
<1>3. s \in Seq(Syms) /\ Len(s) = Len(l) /\ \A j \in 1 .. Len(l) : s[j] = t[i + j - 1]
  BY <1>1, <1>2
<1> HIDE DEF s
<1>4. s = l <=> \A j \in 1 .. Len(l) : t[i + j - 1] = l[j]
  BY <1>1, <1>3, SameText
<1>5. QED
  BY <1>4 DEF s

LEMMA FoundIs == ASSUME NEW t \in Seq(Syms) PROVE Found(t) = {} <=> Clean(t)
<1>1. \A i \in 1 .. Len(t), l \in Literals : Starts(t, i, l) <=> At(t, i, l)
  BY StartsIs
<1>2. Found(t) = {} <=> \A i \in 1 .. Len(t), l \in Literals : ~Starts(t, i, l)
  <2>1. ASSUME NEW i \in 1 .. Len(t), NEW l \in Literals, Starts(t, i, l) PROVE <<i, l>> \in Found(t)
    BY <2>1 DEF Found
  <2>2. ASSUME NEW m \in Found(t)
        PROVE  m[1] \in 1 .. Len(t) /\ m[2] \in Literals /\ Starts(t, m[1], m[2])
    BY DEF Found
  <2>3. QED
    BY <2>1, <2>2
<1>3. QED
  BY <1>1, <1>2 DEF Clean

LEMMA ShutGrows ==
  ASSUME NEW t \in Seq(Syms), NEW y \in Seq(Syms), NEW n \in Nat, n <= Len(t), Shut(t, n)
  PROVE  Shut(t \o y, n)
<1>1. SUFFICES ASSUME NEW i \in 1 .. n, NEW l \in Literals, Fits(t \o y, i, l) PROVE FALSE
  BY DEF Shut
<1>2. Len(l) \in Nat /\ Len(t) \in Nat /\ Len(y) \in Nat /\ i \in Nat /\ i >= 1
  BY LiteralIs, Parts
<1>3. Len(t \o y) = Len(t) + Len(y) /\ \A k \in 1 .. Len(t) : (t \o y)[k] = t[k]
  BY Joined
<1>4. ASSUME NEW j \in 1 .. Len(l), i + j - 1 <= Len(t) PROVE t[i + j - 1] = l[j]
  <2>1. i + j - 1 \in 1 .. Len(t) /\ i + j - 1 <= Len(t \o y)
    BY <1>2, <1>3, <1>4
  <2>2. QED
    BY <1>1, <1>3, <2>1 DEF Fits
<1>5. Fits(t, i, l)
  BY <1>4 DEF Fits
<1>6. QED
  BY <1>5 DEF Shut

LEMMA ShutIsClean ==
  ASSUME NEW x \in Seq(Syms), NEW y \in Seq(Syms), Shut(x \o y, Len(x))
  PROVE  Clean(x)
<1>1. SUFFICES ASSUME NEW i \in 1 .. Len(x), NEW l \in Literals, At(x, i, l) PROVE FALSE
  BY DEF Clean
<1>2. Len(l) \in Nat /\ Len(x) \in Nat /\ i \in Nat /\ i >= 1
  BY LiteralIs, Parts
<1>3. \A k \in 1 .. Len(x) : (x \o y)[k] = x[k]
  BY Joined
<1>4. ASSUME NEW j \in 1 .. Len(l) PROVE (x \o y)[i + j - 1] = l[j]
  <2>1. i + j - 1 \in 1 .. Len(x)
    BY <1>1, <1>2 DEF At
  <2>2. QED
    BY <1>1, <1>3, <2>1 DEF At
<1>5. Fits(x \o y, i, l)
  BY <1>4 DEF Fits
<1>6. QED
  BY <1>5 DEF Shut

LEMMA CleanParts ==
  ASSUME NEW x \in Seq(Syms), NEW y \in Seq(Syms), Clean(x \o y)
  PROVE  Clean(x) /\ Clean(y)
<1>1. /\ Len(x) \in Nat /\ Len(y) \in Nat /\ Len(x \o y) = Len(x) + Len(y)
      /\ \A k \in 1 .. Len(x) : (x \o y)[k] = x[k]
      /\ \A k \in 1 .. Len(y) : (x \o y)[Len(x) + k] = y[k]
  BY Parts, Joined
<1>2. ASSUME NEW i \in 1 .. Len(x), NEW l \in Literals, At(x, i, l) PROVE FALSE
  <2>1. Len(l) \in Nat /\ i \in Nat /\ i >= 1
    BY LiteralIs
  <2>2. ASSUME NEW j \in 1 .. Len(l) PROVE (x \o y)[i + j - 1] = l[j]
    <3>1. i + j - 1 \in 1 .. Len(x)
      BY <1>1, <1>2, <2>1 DEF At
    <3>2. QED
      BY <1>1, <1>2, <3>1 DEF At
  <2>3. i + Len(l) - 1 <= Len(x \o y) /\ i \in 1 .. Len(x \o y)
    BY <1>1, <1>2, <2>1 DEF At
  <2>4. At(x \o y, i, l)
    BY <2>2, <2>3 DEF At
  <2>5. QED
    BY <2>3, <2>4 DEF Clean
<1>3. ASSUME NEW i \in 1 .. Len(y), NEW l \in Literals, At(y, i, l) PROVE FALSE
  <2> DEFINE k == Len(x) + i
  <2>1. Len(l) \in Nat /\ i \in Nat /\ i >= 1
    BY LiteralIs
  <2>2. ASSUME NEW j \in 1 .. Len(l) PROVE (x \o y)[k + j - 1] = l[j]
    <3>1. i + j - 1 \in 1 .. Len(y) /\ k + j - 1 = Len(x) + (i + j - 1)
      BY <1>1, <1>3, <2>1 DEF At
    <3>2. QED
      BY <1>1, <1>3, <3>1 DEF At
  <2>3. k + Len(l) - 1 <= Len(x \o y) /\ k \in 1 .. Len(x \o y)
    BY <1>1, <1>3, <2>1 DEF At
  <2> HIDE DEF k
  <2>4. At(x \o y, k, l)
    BY <2>2, <2>3 DEF At
  <2>5. QED
    BY <2>3, <2>4 DEF Clean
<1>4. QED
  BY <1>2, <1>3 DEF Clean

\* Two clean texts between which no credential can lie.
Apart(x, y) == x = << >> \/ y = << >> \/ x[Len(x)] \notin Secret \/ y[1] \notin Secret

LEMMA CleanJoin ==
  ASSUME NEW x \in Seq(Syms), NEW y \in Seq(Syms), Clean(x), Clean(y), Apart(x, y)
  PROVE  Clean(x \o y)
<1> DEFINE z == x \o y
<1>1. /\ Len(x) \in Nat /\ Len(y) \in Nat /\ Len(z) = Len(x) + Len(y)
      /\ \A k \in 1 .. Len(x) : z[k] = x[k]
      /\ \A k \in 1 .. Len(y) : z[Len(x) + k] = y[k]
  BY Parts, Joined
<1>0. (x = << >> => Len(x) = 0) /\ (y = << >> => Len(y) = 0)
  OBVIOUS
<1> HIDE DEF z
<1>2. SUFFICES ASSUME NEW i \in 1 .. Len(z), NEW l \in Literals, At(z, i, l) PROVE FALSE
  BY DEF Clean, z
<1>3. Len(l) \in Nat /\ Len(l) >= 1 /\ i \in Nat /\ i >= 1 /\ \A j \in 1 .. Len(l) : l[j] \in Secret
  BY LiteralIs
<1>4. i + Len(l) - 1 <= Len(z) /\ \A j \in 1 .. Len(l) : z[i + j - 1] = l[j]
  BY <1>2 DEF At
<1>5. CASE i + Len(l) - 1 <= Len(x)
  <2>1. i \in 1 .. Len(x)
    BY <1>1, <1>3, <1>5
  <2>2. ASSUME NEW j \in 1 .. Len(l) PROVE x[i + j - 1] = l[j]
    <3>1. i + j - 1 \in 1 .. Len(x)
      BY <1>1, <1>3, <1>5
    <3>2. QED
      BY <1>1, <1>4, <3>1
  <2>3. At(x, i, l)
    BY <1>5, <2>2 DEF At
  <2>4. QED
    BY <2>1, <2>3 DEF Clean
<1>6. CASE i > Len(x)
  <2> DEFINE k == i - Len(x)
  <2>1. k \in 1 .. Len(y) /\ i = Len(x) + k /\ k \in Nat
    BY <1>1, <1>3, <1>6
  <2>2. ASSUME NEW j \in 1 .. Len(l) PROVE y[k + j - 1] = l[j]
    <3>1. k + j - 1 \in 1 .. Len(y) /\ Len(x) + (k + j - 1) = i + j - 1
      BY <1>1, <1>3, <1>4, <2>1
    <3>2. QED
      BY <1>1, <1>4, <3>1
  <2>3. k + Len(l) - 1 <= Len(y)
    BY <1>1, <1>3, <1>4, <2>1
  <2> HIDE DEF k
  <2>4. At(y, k, l)
    BY <2>2, <2>3 DEF At
  <2>5. QED
    BY <2>1, <2>4 DEF Clean
<1>7. CASE ~(i + Len(l) - 1 <= Len(x)) /\ ~(i > Len(x))
  <2> DEFINE j == Len(x) - i + 1
  <2>1. /\ Len(x) >= 1 /\ Len(y) >= 1 /\ j \in 1 .. Len(l) /\ j + 1 \in 1 .. Len(l)
        /\ i + j - 1 = Len(x) /\ i + (j + 1) - 1 = Len(x) + 1
    BY <1>1, <1>3, <1>4, <1>7
  <2> HIDE DEF j
  <2>2. z[Len(x)] \in Secret /\ z[Len(x) + 1] \in Secret
    BY <1>3, <1>4, <2>1
  <2>3. z[Len(x)] = x[Len(x)] /\ z[Len(x) + 1] = y[1]
    BY <1>1, <2>1
  <2>4. QED
    BY <1>0, <2>1, <2>2, <2>3 DEF Apart
<1>8. QED
  BY <1>5, <1>6, <1>7

\* A clean text whose end is no part of a credential is done with.
LEMMA ShutAtEnd ==
  ASSUME NEW x \in Seq(Syms), Clean(x), x # << >> => x[Len(x)] \notin Secret
  PROVE  Shut(x, Len(x))
<1>1. SUFFICES ASSUME NEW i \in 1 .. Len(x), NEW l \in Literals, Fits(x, i, l) PROVE FALSE
  BY DEF Shut
<1>2. /\ Len(l) \in Nat /\ Len(l) >= 1 /\ Len(x) \in Nat /\ i \in Nat /\ i >= 1 /\ i <= Len(x) /\ x # << >>
      /\ \A j \in 1 .. Len(l) : l[j] \in Secret
  BY LiteralIs, Parts
<1>3. CASE i + Len(l) - 1 <= Len(x)
  <2>1. \A j \in 1 .. Len(l) : i + j - 1 <= Len(x)
    BY <1>2, <1>3
  <2>2. At(x, i, l)
    BY <1>1, <1>3, <2>1 DEF At, Fits
  <2>3. QED
    BY <2>2 DEF Clean
<1>4. CASE ~(i + Len(l) - 1 <= Len(x))
  <2> DEFINE j == Len(x) - i + 1
  <2>1. j \in 1 .. Len(l) /\ i + j - 1 = Len(x)
    BY <1>2, <1>4
  <2> HIDE DEF j
  <2>2. x[Len(x)] = l[j]
    BY <1>1, <1>2, <2>1 DEF Fits
  <2>3. QED
    BY <1>2, <2>1, <2>2
<1>5. QED
  BY <1>3, <1>4

\* A symbol that is no part of a credential may come in anywhere.
LEMMA ShutInsert ==
  ASSUME NEW x \in Seq(Syms), NEW z \in Seq(Syms), NEW k \in 0 .. Len(z), Shut(x \o z, Len(x) + k),
         NEW c \in Syms, c \notin Secret
  PROVE  Shut((x \o <<c>>) \o z, Len(x) + 1 + k)
<1> DEFINE w == (x \o <<c>>) \o z
           v == x \o z
<1>1. /\ Len(x) \in Nat /\ Len(z) \in Nat /\ Len(w) = Len(x) + 1 + Len(z) /\ Len(v) = Len(x) + Len(z)
      /\ \A i \in 1 .. Len(x) : w[i] = x[i] /\ v[i] = x[i]
      /\ w[Len(x) + 1] = c
      /\ \A i \in 1 .. Len(z) : w[Len(x) + 1 + i] = z[i] /\ v[Len(x) + i] = z[i]
  <2>1. <<c>> \in Seq(Syms) /\ Len(<<c>>) = 1 /\ <<c>>[1] = c
    OBVIOUS
  <2>2. Len(x) \in Nat /\ Len(z) \in Nat
    BY Parts
  <2> DEFINE y == x \o <<c>>
  <2>3. /\ y \in Seq(Syms) /\ Len(y) = Len(x) + 1 /\ y[Len(x) + 1] = c
        /\ \A i \in 1 .. Len(x) : y[i] = x[i]
    BY <2>1, <2>2
  <2>4. /\ Len(v) = Len(x) + Len(z) /\ \A i \in 1 .. Len(x) : v[i] = x[i]
        /\ \A i \in 1 .. Len(z) : v[Len(x) + i] = z[i]
    BY Joined
  <2> HIDE DEF y
  <2>5. /\ Len(y \o z) = Len(y) + Len(z) /\ \A i \in 1 .. Len(y) : (y \o z)[i] = y[i]
        /\ \A i \in 1 .. Len(z) : (y \o z)[Len(y) + i] = z[i]
    BY <2>3, Joined
  <2>6. w = y \o z
    BY DEF y
  <2> HIDE DEF w, v
  <2>7. Len(x) + 1 \in 1 .. Len(y) /\ \A i \in 1 .. Len(x) : i \in 1 .. Len(y)
    BY <2>2, <2>3
  <2>8. QED
    BY <2>2, <2>3, <2>4, <2>5, <2>6, <2>7
<1> HIDE DEF w, v
<1>2. SUFFICES ASSUME NEW i \in 1 .. Len(x) + 1 + k, NEW l \in Literals, Fits(w, i, l) PROVE FALSE
  BY DEF Shut, w
<1>3. Len(l) \in Nat /\ Len(l) >= 1 /\ i \in Nat /\ i >= 1 /\ \A j \in 1 .. Len(l) : l[j] \in Secret
  BY <1>1, LiteralIs
<1>4. \A j \in 1 .. Len(l) : i + j - 1 # Len(x) + 1
  <2>1. SUFFICES ASSUME NEW j \in 1 .. Len(l), i + j - 1 = Len(x) + 1 PROVE FALSE
    OBVIOUS
  <2>2. w[Len(x) + 1] = l[j]
    BY <1>1, <1>2, <2>1 DEF Fits
  <2>3. QED
    BY <1>1, <1>3, <2>2
<1>5. CASE i <= Len(x)
  <2>1. i + Len(l) - 1 <= Len(x)
    <3>1. SUFFICES ASSUME i + Len(l) - 1 > Len(x) PROVE FALSE
      BY <1>1, <1>3
    <3>2. Len(x) + 2 - i \in 1 .. Len(l) /\ i + (Len(x) + 2 - i) - 1 = Len(x) + 1
      BY <1>1, <1>3, <1>5, <3>1
    <3>3. QED
      BY <1>4, <3>2
  <2>2. ASSUME NEW j \in 1 .. Len(l) PROVE v[i + j - 1] = l[j]
    <3>1. i + j - 1 \in 1 .. Len(x) /\ i + j - 1 <= Len(w)
      BY <1>1, <1>3, <2>1
    <3>2. QED
      BY <1>1, <1>2, <3>1 DEF Fits
  <2>3. Fits(v, i, l)
    BY <2>2 DEF Fits
  <2>4. i \in 1 .. Len(x) + k
    BY <1>1, <1>3, <1>5
  <2>5. QED
    BY <2>3, <2>4 DEF Shut, v
<1>6. CASE i = Len(x) + 1
  <2>1. 1 \in 1 .. Len(l) /\ i + 1 - 1 = Len(x) + 1
    BY <1>1, <1>3, <1>6
  <2>2. QED
    BY <1>4, <2>1
<1>7. CASE i > Len(x) + 1
  <2>1. i - 1 \in 1 .. Len(x) + k
    BY <1>1, <1>3, <1>7
  <2>2. ASSUME NEW j \in 1 .. Len(l), (i - 1) + j - 1 <= Len(v) PROVE v[(i - 1) + j - 1] = l[j]
    <3> DEFINE q == i + j - 1 - (Len(x) + 1)
    <3>1. /\ q \in 1 .. Len(z) /\ Len(x) + 1 + q = i + j - 1 /\ Len(x) + q = (i - 1) + j - 1
          /\ i + j - 1 <= Len(w)
      BY <1>1, <1>3, <1>7, <2>2
    <3> HIDE DEF q
    <3>2. w[i + j - 1] = z[q] /\ v[(i - 1) + j - 1] = z[q]
      BY <1>1, <3>1
    <3>3. QED
      BY <1>2, <3>1, <3>2 DEF Fits
  <2>3. Fits(v, i - 1, l)
    BY <2>2 DEF Fits
  <2>4. QED
    BY <2>1, <2>3 DEF Shut, v
<1>8. QED
  BY <1>1, <1>3, <1>5, <1>6, <1>7

-----------------------------------------------------------------------------
\* The redactor.

\* The match it takes is the leftmost, and of those the longest.
LEMMA BestIs ==
  ASSUME NEW t \in Seq(Syms), Found(t) # {}
  PROVE  /\ BestMatch(t)[1] \in 1 .. Len(t) /\ BestMatch(t)[2] \in Literals
         /\ At(t, BestMatch(t)[1], BestMatch(t)[2])
         /\ \A i \in 1 .. BestMatch(t)[1] - 1, l \in Literals : ~At(t, i, l)
         /\ \A l \in Literals : At(t, BestMatch(t)[1], l) => Len(l) <= Len(BestMatch(t)[2])
<1> DEFINE Best(m) == \A k \in Found(t) : m[1] < k[1] \/ (m[1] = k[1] /\ Len(m[2]) >= Len(k[2]))
<1>0. Len(t) \in Nat
  BY Parts
<1>1. ASSUME NEW m \in Found(t)
      PROVE  m[1] \in 1 .. Len(t) /\ m[2] \in Literals /\ At(t, m[1], m[2]) /\ m[1] \in Nat /\ Len(m[2]) \in Nat
  <2>1. m[1] \in 1 .. Len(t) /\ m[2] \in Literals /\ Starts(t, m[1], m[2])
    BY DEF Found
  <2>2. QED
    BY <1>0, <2>1, StartsIs, LiteralIs
<1>2. \A i \in 1 .. Len(t), l \in Literals : At(t, i, l) => <<i, l>> \in Found(t)
  BY StartsIs DEF Found
<1>3. \E m \in Found(t) : Best(m)
  <2> DEFINE A == {m[1] : m \in Found(t)}
  <2>1. A \subseteq Nat /\ A # {}
    BY <1>1
  <2>2. PICK i \in A : \A j \in A : i <= j
    <3> HIDE DEF A
    <3>1. QED
      BY <2>1, LeastNatural
  <2> DEFINE B == {Len(t) - Len(m[2]) : m \in {k \in Found(t) : k[1] = i}}
  <2>3. B # {}
    BY <2>2
  <2>4. B \subseteq Nat
    <3>1. SUFFICES ASSUME NEW m \in Found(t) PROVE Len(t) - Len(m[2]) \in Nat
      OBVIOUS
    <3>2. Len(m[2]) \in Nat /\ m[1] \in Nat /\ m[1] >= 1 /\ m[1] + Len(m[2]) - 1 <= Len(t)
      BY <1>0, <1>1 DEF At
    <3>3. QED
      BY <1>0, <3>2
  <2>5. PICK b \in B : \A d \in B : b <= d
    <3> HIDE DEF B
    <3>1. QED
      BY <2>3, <2>4, LeastNatural
  <2>6. PICK m \in Found(t) : m[1] = i /\ b = Len(t) - Len(m[2])
    BY <2>5
  <2>7. ASSUME NEW k \in Found(t) PROVE m[1] < k[1] \/ (m[1] = k[1] /\ Len(m[2]) >= Len(k[2]))
    <3>1. /\ m[1] \in Nat /\ k[1] \in Nat /\ Len(m[2]) \in Nat /\ Len(k[2]) \in Nat /\ m[1] <= k[1]
      BY <1>1, <2>2, <2>6
    <3>2. k[1] = m[1] => Len(t) - Len(m[2]) <= Len(t) - Len(k[2])
      BY <2>5, <2>6
    <3>3. QED
      BY <1>0, <3>1, <3>2
  <2>8. QED
    BY <2>7
<1> DEFINE m == BestMatch(t)
<1>4. m \in Found(t) /\ Best(m)
  <2>1. m = CHOOSE x \in Found(t) : Best(x)
    BY DEF BestMatch
  <2> HIDE DEF Best, m
  <2>2. QED
    BY <1>3, <2>1
<1> HIDE DEF m
<1>5. m[1] \in 1 .. Len(t) /\ m[2] \in Literals /\ At(t, m[1], m[2]) /\ m[1] \in Nat
  BY <1>1, <1>4
<1>6. ASSUME NEW i \in 1 .. m[1] - 1, NEW l \in Literals, At(t, i, l) PROVE FALSE
  <2>1. i \in 1 .. Len(t) /\ i \in Nat /\ i < m[1]
    BY <1>0, <1>5
  <2>2. <<i, l>> \in Found(t)
    BY <1>2, <1>6, <2>1
  <2>3. m[1] < <<i, l>>[1] \/ m[1] = <<i, l>>[1]
    BY <1>4, <2>2
  <2>4. QED
    BY <1>5, <2>1, <2>3
<1>7. ASSUME NEW l \in Literals, At(t, m[1], l) PROVE Len(l) <= Len(m[2])
  <2>1. <<m[1], l>> \in Found(t)
    BY <1>2, <1>5, <1>7
  <2>2. m[1] < <<m[1], l>>[1] \/ Len(m[2]) >= Len(<<m[1], l>>[2])
    BY <1>4, <2>1
  <2>3. Len(m[2]) \in Nat /\ Len(l) \in Nat
    BY <1>5, LiteralIs
  <2>4. QED
    BY <1>5, <2>2, <2>3
<1>8. QED
  BY <1>5, <1>6, <1>7 DEF m

\* What is kept back begins like a credential, and nothing longer at the end does.
LEMMA KeepIs ==
  ASSUME NEW t \in Seq(Syms), Clean(t)
  PROVE  /\ Keep(t) \in 0 .. Len(t)
         /\ Keep(t) > 0 => t[Len(t) - Keep(t) + 1] \in Secret
         /\ Shut(t, Len(t) - Keep(t))
<1> DEFINE Like(n) == \E l \in Literals : n < Len(l) /\ Ending(t, n) = First(l, n)
           held == {0} \cup {n \in 1 .. Len(t) : Like(n)}
           k == Keep(t)
<1>0. Len(t) \in Nat
  BY Parts
<1>1. ASSUME NEW n \in 1 .. Len(t)
      PROVE  /\ n \in Nat /\ Ending(t, n) \in Seq(Syms) /\ Len(Ending(t, n)) = n
             /\ \A j \in 1 .. n : Ending(t, n)[j] = t[Len(t) - n + j]
  <2> DEFINE q == Len(t) - n + 1
  <2>1. q \in 1 .. Len(t) + 1 /\ Len(t) + 1 - q = n /\ n \in Nat /\ \A j \in Nat : q + j - 1 = Len(t) - n + j
    BY <1>0
  <2>2. Ending(t, n) = From(t, q)
    BY DEF Ending
  <2> HIDE DEF q
  <2>3. /\ From(t, q) \in Seq(Syms) /\ Len(From(t, q)) = Len(t) + 1 - q
        /\ \A j \in 1 .. Len(t) + 1 - q : From(t, q)[j] = t[q + j - 1]
    BY <2>1, Parts
  <2>4. ASSUME NEW j \in 1 .. n PROVE From(t, q)[j] = t[Len(t) - n + j]
    <3>1. j \in Nat /\ j \in 1 .. Len(t) + 1 - q
      BY <2>1
    <3>2. From(t, q)[j] = t[q + j - 1] /\ q + j - 1 = Len(t) - n + j
      BY <2>1, <2>3, <3>1
    <3>3. QED
      BY <3>2
  <2>5. QED
    BY <2>1, <2>2, <2>3, <2>4
<1>2. k \in held /\ \A n \in held : n <= k
  <2> DEFINE T == {Len(t) - n : n \in held}
  <2>1. T \subseteq Nat /\ T # {}
    BY <1>0
  <2>2. PICK b \in T : \A d \in T : b <= d
    <3> HIDE DEF T
    <3>1. QED
      BY <2>1, LeastNatural
  <2>3. PICK n \in held : b = Len(t) - n
    BY <2>2
  <2>4. ASSUME NEW j \in held PROVE j <= n
    <3>1. Len(t) - j \in T
      OBVIOUS
    <3>2. n \in Nat /\ j \in Nat
      BY <1>0
    <3> HIDE DEF T
    <3>3. Len(t) - n <= Len(t) - j
      BY <2>2, <2>3, <3>1
    <3>4. QED
      BY <1>0, <3>2, <3>3
  <2>5. k = CHOOSE x \in held : \A y \in held : y <= x
    BY DEF Keep
  <2> HIDE DEF held, k
  <2>6. QED
    BY <2>4, <2>5
<1>3. k \in 0 .. Len(t) /\ (k > 0 => k \in 1 .. Len(t) /\ Like(k))
  BY <1>0, <1>2
<1>4. ASSUME k > 0 PROVE t[Len(t) - k + 1] \in Secret
  <2> HIDE DEF k, Like
  <2>1. PICK l \in Literals : k < Len(l) /\ Ending(t, k) = First(l, k)
    BY <1>3, <1>4 DEF Like
  <2>2. l \in Seq(Syms) /\ Len(l) \in Nat /\ k \in 0 .. Len(l) /\ 1 \in 1 .. k /\ 1 \in 1 .. Len(l) /\ l[1] \in Secret
    BY <1>0, <1>3, <1>4, <2>1, LiteralIs
  <2>3. First(l, k)[1] = l[1]
    BY <2>2, Parts
  <2>4. Ending(t, k)[1] = t[Len(t) - k + 1]
    BY <1>1, <1>3, <1>4, <2>2
  <2>5. QED
    BY <2>1, <2>2, <2>3, <2>4
<1>5. ASSUME NEW i \in 1 .. Len(t) - k, NEW l \in Literals, Fits(t, i, l) PROVE FALSE
  <2> DEFINE n == Len(t) - i + 1
  <2>1. /\ i \in Nat /\ i >= 1 /\ i \in 1 .. Len(t) /\ n \in 1 .. Len(t) /\ n \in Nat /\ n > k /\ Len(t) - n = i - 1
        /\ Len(l) \in Nat /\ l \in Seq(Syms)
    BY <1>0, <1>3, LiteralIs
  <2>2. CASE i + Len(l) - 1 <= Len(t)
    <3>1. \A j \in 1 .. Len(l) : i + j - 1 <= Len(t)
      BY <1>0, <2>1, <2>2
    <3>2. At(t, i, l)
      BY <1>5, <2>2, <3>1 DEF At, Fits
    <3>3. QED
      BY <2>1, <3>2 DEF Clean
  <2>3. CASE ~(i + Len(l) - 1 <= Len(t))
    <3>1. n < Len(l) /\ n \in 0 .. Len(l)
      BY <1>0, <2>1, <2>3
    <3>2. First(l, n) \in Seq(Syms) /\ Len(First(l, n)) = n /\ \A j \in 1 .. n : First(l, n)[j] = l[j]
      BY <2>1, <3>1, Parts
    <3>3. ASSUME NEW j \in 1 .. n PROVE Ending(t, n)[j] = l[j]
      <4>1. j \in 1 .. Len(l) /\ i + j - 1 <= Len(t) /\ Len(t) - n + j = i + j - 1
        BY <1>0, <2>1, <3>1
      <4> HIDE DEF n
      <4>2. QED
        BY <1>1, <1>5, <2>1, <4>1 DEF Fits
    <3> HIDE DEF n
    <3>4. Ending(t, n) \in Seq(Syms) /\ Len(Ending(t, n)) = n
      BY <1>1, <2>1
    <3>5. Ending(t, n) = First(l, n)
      BY <3>2, <3>3, <3>4, SameText
    <3>6. n \in held
      BY <2>1, <3>1, <3>5
    <3>7. QED
      BY <1>2, <1>3, <2>1, <3>6
  <2>4. QED
    BY <2>2, <2>3
<1>6. QED
  BY <1>3, <1>4, <1>5 DEF Shut

\* How the redactor goes through a text.
Behind(rest) == BestMatch(rest)[1] + Len(BestMatch(rest)[2])
Let(rest, final) == Len(rest) - (IF final THEN 0 ELSE Keep(rest))

DrainStep(t, final, f) ==
    [i \in 1 .. Len(t) + 1 |->
        LET rest == From(t, i)
            m    == BestMatch(rest)
            k    == IF final THEN 0 ELSE Keep(rest)
            next == f[i + m[1] - 1 + Len(m[2])]
        IN  IF Found(rest) # {}
            THEN [next EXCEPT !.out = First(rest, m[1] - 1) \o <<"R">> \o @]
            ELSE [out |-> First(rest, Len(rest) - k), held |-> From(rest, Len(rest) - k + 1)]]

Drained == [out: Seq(Syms), held: Seq(Syms)]

LEMMA RestIs ==
  ASSUME NEW t \in Seq(Syms), NEW i \in 1 .. Len(t) + 1
  PROVE  /\ i \in Nat /\ Len(t) \in Nat /\ From(t, i) \in Seq(Syms) /\ Len(From(t, i)) = Len(t) + 1 - i
         /\ Len(From(t, i)) \in Nat
         /\ Found(From(t, i)) # {} =>
              /\ BestMatch(From(t, i))[1] \in Nat /\ Len(BestMatch(From(t, i))[2]) \in Nat
              /\ BestMatch(From(t, i))[1] - 1 \in 0 .. Len(From(t, i))
              /\ Behind(From(t, i)) \in 2 .. Len(From(t, i)) + 1
              /\ i + BestMatch(From(t, i))[1] - 1 + Len(BestMatch(From(t, i))[2]) = i + (Behind(From(t, i)) - 1)
              /\ i + (Behind(From(t, i)) - 1) \in i + 1 .. Len(t) + 1
         /\ Found(From(t, i)) = {} => \A final \in BOOLEAN : Let(From(t, i), final) \in 0 .. Len(From(t, i))
<1> DEFINE rest == From(t, i)
           m == BestMatch(rest)
<1>1. i \in Nat /\ Len(t) \in Nat /\ rest \in Seq(Syms) /\ Len(rest) = Len(t) + 1 - i /\ Len(rest) \in Nat
  BY Parts
<1> HIDE DEF rest
<1>2. ASSUME Found(rest) # {}
      PROVE  /\ m[1] \in Nat /\ Len(m[2]) \in Nat /\ m[1] - 1 \in 0 .. Len(rest)
             /\ Behind(rest) \in 2 .. Len(rest) + 1
             /\ i + m[1] - 1 + Len(m[2]) = i + (Behind(rest) - 1)
             /\ i + (Behind(rest) - 1) \in i + 1 .. Len(t) + 1
  <2>1. m[1] \in 1 .. Len(rest) /\ m[2] \in Literals /\ m[1] + Len(m[2]) - 1 <= Len(rest)
    BY <1>1, <1>2, BestIs DEF At
  <2>2. Len(m[2]) \in Nat /\ Len(m[2]) >= 1
    BY <2>1, LiteralIs
  <2>3. Behind(rest) = m[1] + Len(m[2])
    BY DEF Behind
  <2> DEFINE a == m[1]
             b == Len(m[2])
             c == Behind(rest)
             z == Len(rest)
  <2>4. a \in 1 .. z /\ a + b - 1 <= z /\ b \in Nat /\ b >= 1 /\ c = a + b /\ z \in Nat /\ z = Len(t) + 1 - i
    BY <1>1, <2>1, <2>2, <2>3
  <2>5. a \in Nat /\ b \in Nat
    BY <2>4
  <2> HIDE DEF a, b, c, z
  <2>6. a - 1 \in 0 .. z /\ c \in 2 .. z + 1 /\ i + a - 1 + b = i + (c - 1) /\ i + (c - 1) \in i + 1 .. Len(t) + 1
    BY <1>1, <2>4, <2>5
  <2>7. QED
    BY <2>5, <2>6 DEF a, b, c, z
<1>3. ASSUME Found(rest) = {}, NEW final \in BOOLEAN PROVE Let(rest, final) \in 0 .. Len(rest)
  <2>1. Keep(rest) \in 0 .. Len(rest)
    BY <1>1, <1>3, FoundIs, KeepIs
  <2>2. QED
    BY <1>1, <2>1 DEF Let
<1>4. QED
  BY <1>1, <1>2, <1>3 DEF rest

\* d is the result from i on, given the results f behind it.
DrainsTo(t, final, f, i, d) ==
    LET rest == From(t, i) IN
    /\ d \in Drained
    /\ Found(rest) = {} =>
         d.out = First(rest, Let(rest, final)) /\ d.held = From(rest, Let(rest, final) + 1)
    /\ Found(rest) # {} =>
         /\ d.out = (First(rest, BestMatch(rest)[1] - 1) \o <<"R">>) \o f[i + (Behind(rest) - 1)].out
         /\ d.held = f[i + (Behind(rest) - 1)].held

IsDrained(t, final, f) == \A i \in 1 .. Len(t) + 1 : DrainsTo(t, final, f, i, f[i])

LEMMA DrainStepIs ==
  ASSUME NEW t \in Seq(Syms), NEW final \in BOOLEAN, NEW f, NEW i \in 1 .. Len(t) + 1,
         \A j \in i + 1 .. Len(t) + 1 : f[j] \in Drained
  PROVE  DrainsTo(t, final, f, i, DrainStep(t, final, f)[i])
<1> DEFINE rest == From(t, i)
           m == BestMatch(rest)
           d == DrainStep(t, final, f)[i]
           next == f[i + (Behind(rest) - 1)]
           x == First(rest, m[1] - 1) \o <<"R">>
<1>1. CASE Found(rest) = {}
  <2> DEFINE k == IF final THEN 0 ELSE Keep(rest)
  <2>1. d = [out |-> First(rest, Len(rest) - k), held |-> From(rest, Len(rest) - k + 1)]
    BY <1>1 DEF DrainStep
  <2>2. Len(rest) - k = Let(rest, final)
    BY DEF Let
  <2> HIDE DEF k, d
  <2>3. d = [out |-> First(rest, Let(rest, final)), held |-> From(rest, Let(rest, final) + 1)]
    BY <2>1, <2>2
  <2>4. Let(rest, final) \in 0 .. Len(rest) /\ rest \in Seq(Syms) /\ Len(rest) \in Nat
    BY <1>1, RestIs
  <2>5. Let(rest, final) + 1 \in 1 .. Len(rest) + 1
    BY <2>4
  <2> HIDE DEF rest
  <2>6. First(rest, Let(rest, final)) \in Seq(Syms) /\ From(rest, Let(rest, final) + 1) \in Seq(Syms)
    BY <2>4, <2>5, Parts
  <2>7. QED
    BY <1>1, <2>3, <2>6 DEF Drained, DrainsTo, d, rest
<1>2. CASE Found(rest) # {}
  <2>1. /\ i + (Behind(rest) - 1) \in i + 1 .. Len(t) + 1 /\ rest \in Seq(Syms) /\ m[1] - 1 \in 0 .. Len(rest)
        /\ i + m[1] - 1 + Len(m[2]) = i + (Behind(rest) - 1)
    BY <1>2, RestIs
  <2>2. next \in Drained
    BY <2>1
  <2>3. d = [next EXCEPT !.out = x \o next.out]
    <3>1. d = [f[i + m[1] - 1 + Len(m[2])] EXCEPT !.out = First(rest, m[1] - 1) \o <<"R">> \o @]
      BY <1>2 DEF DrainStep
    <3>2. QED
      BY <2>1, <3>1
  <2>4. x \in Seq(Syms)
    <3>1. "R" \in Syms
      BY DEF Syms
    <3> DEFINE k == m[1] - 1
    <3>4. k \in 0 .. Len(rest)
      BY <2>1
    <3> HIDE DEF k, rest
    <3>5. First(rest, k) \in Seq(Syms)
      BY <2>1, <3>4, Parts
    <3>2. First(rest, m[1] - 1) \in Seq(Syms) /\ <<"R">> \in Seq(Syms)
      BY <3>1, <3>5 DEF k
    <3>3. QED
      BY <3>2, Joined
  <2> HIDE DEF x, next, d
  <2>5. next.out \in Seq(Syms) /\ next.held \in Seq(Syms) /\ next = [out |-> next.out, held |-> next.held]
    BY <2>2 DEF Drained
  <2>6. d.out = x \o next.out /\ d.held = next.held /\ d = [out |-> x \o next.out, held |-> next.held]
    BY <2>3, <2>5
  <2>7. x \o next.out \in Seq(Syms)
    BY <2>4, <2>5, Joined
  <2>8. d \in Drained
    BY <2>5, <2>6, <2>7 DEF Drained
  <2>9. QED
    BY <1>2, <2>6, <2>8 DEF x, next, d, DrainsTo
<1>3. QED
  BY <1>1, <1>2

LEMMA DrainUnfolds ==
  ASSUME NEW t \in Seq(Syms), NEW final \in BOOLEAN
  PROVE  \E f : IsDrained(t, final, f) /\ Drain(t, final) = f[1]
<1> DEFINE n == Len(t) + 1
           V == Drained
           H == [p \in [1 .. n -> V] \X (1 .. n) |-> DrainStep(t, final, p[1])[p[2]]]
<1>1. n \in Nat /\ V # {} /\ Len(t) \in Nat
  <2>1. [out |-> << >>, held |-> << >>] \in Drained
    BY ShortSound DEF Drained
  <2>2. QED
    BY <2>1, Parts
<1>2. ASSUME NEW f \in [1 .. n -> V], NEW i \in 1 .. n PROVE DrainStep(t, final, f)[i] \in V
  <2>1. \A j \in i + 1 .. Len(t) + 1 : f[j] \in Drained
    BY <1>1
  <2>2. QED
    BY <2>1, DrainStepIs DEF DrainsTo
<1>3. H \in [[1 .. n -> V] \X (1 .. n) -> V]
  BY <1>2
<1>4. ASSUME NEW f \in [1 .. n -> V], NEW g \in [1 .. n -> V], NEW i \in 1 .. n,
             \A j \in i + 1 .. n : f[j] = g[j]
      PROVE  H[<<f, i>>] = H[<<g, i>>]
  <2> DEFINE rest == From(t, i)
             m == BestMatch(rest)
             k == i + m[1] - 1 + Len(m[2])
  <2>1. H[<<f, i>>] = DrainStep(t, final, f)[i] /\ H[<<g, i>>] = DrainStep(t, final, g)[i]
    OBVIOUS
  <2>2. Found(rest) # {} => f[k] = g[k]
    <3>1. Found(rest) # {} => k \in i + 1 .. Len(t) + 1
      BY RestIs
    <3> HIDE DEF k
    <3>2. QED
      BY <1>4, <3>1
  <2>3. DrainStep(t, final, f)[i] = DrainStep(t, final, g)[i]
    BY <2>2 DEF DrainStep
  <2>4. QED
    BY <2>1, <2>3
<1>5. \A f \in [1 .. n -> V], i \in 1 .. n : H[<<f, i>>] = DrainStep(t, final, f)[i]
  OBVIOUS
<1>6. \E f \in [1 .. n -> V] : \A i \in 1 .. n : f[i] = H[<<f, i>>]
  <2> HIDE DEF n, V, H
  <2>1. Recursion(n, V, H)
    BY <1>3, <1>4 DEF Recursion
  <2>2. HasResult(n, V, H)
    BY <1>1, <2>1, RecursionFromTheEnd
  <2>3. QED
    BY <2>2 DEF HasResult
<1> HIDE DEF H
<1>7. PICK f \in [1 .. n -> V] : \A i \in 1 .. n : f[i] = DrainStep(t, final, f)[i]
  BY <1>5, <1>6
<1>8. f = DrainStep(t, final, f)
  BY <1>7 DEF DrainStep
<1> DEFINE it == CHOOSE g : g = DrainStep(t, final, g)
<1>9. it = DrainStep(t, final, it)
  <2>1. \E g : g = DrainStep(t, final, g)
    BY <1>8
  <2>2. QED
    BY <2>1
<1>10. Drain(t, final) = it[1]
  BY DEF Drain, DrainStep
<1> HIDE DEF it
<1>11. \A i \in 1 .. n : it[i] = DrainStep(t, final, it)[i]
  BY <1>9
<1> DEFINE S == {i \in 1 .. n : it[i] \in Drained}
<1>12. ASSUME NEW i \in 1 .. n PROVE i \in S
  <2>1. ASSUME NEW k \in 1 .. n, \A j \in k + 1 .. n : j \in S PROVE k \in S
    <3>1. \A j \in k + 1 .. Len(t) + 1 : it[j] \in Drained
      BY <2>1
    <3>2. DrainStep(t, final, it)[k] \in Drained
      BY <3>1, DrainStepIs DEF DrainsTo
    <3>3. QED
      BY <1>11, <3>2
  <2> HIDE DEF S, n
  <2>2. QED
    BY <1>1, <2>1, FromTheEnd
<1>13. IsDrained(t, final, it)
  <2>1. SUFFICES ASSUME NEW i \in 1 .. Len(t) + 1 PROVE DrainsTo(t, final, it, i, it[i])
    BY DEF IsDrained
  <2>2. \A j \in i + 1 .. Len(t) + 1 : it[j] \in Drained
    BY <1>1, <1>12
  <2>3. it[i] = DrainStep(t, final, it)[i]
    BY <1>11
  <2>4. DrainsTo(t, final, it, i, DrainStep(t, final, it)[i])
    BY <2>2, DrainStepIs
  <2>5. QED
    BY <2>3, <2>4
<1>14. QED
  BY <1>10, <1>13


-----------------------------------------------------------------------------
\* What the redactor lets go of.

LEMMA LetIs ==
  ASSUME NEW t \in Seq(Syms), Clean(t), NEW final \in BOOLEAN
  PROVE  /\ Let(t, final) \in 0 .. Len(t)
         /\ Let(t, final) < Len(t) => t[Let(t, final) + 1] \in Secret
         /\ final => Let(t, final) = Len(t)
         /\ ~final => Shut(t, Let(t, final))
<1>1. Len(t) \in Nat /\ Keep(t) \in 0 .. Len(t) /\ (Keep(t) > 0 => t[Len(t) - Keep(t) + 1] \in Secret)
  BY Parts, KeepIs
<1>2. Shut(t, Len(t) - Keep(t))
  BY KeepIs
<1>3. CASE final
  <2>1. Let(t, final) = Len(t)
    BY <1>1, <1>3 DEF Let
  <2>2. Let(t, final) \in 0 .. Len(t) /\ ~(Let(t, final) < Len(t))
    BY <1>1, <2>1
  <2>3. QED
    BY <1>3, <2>1, <2>2, Zenon
<1>4. CASE ~final
  <2>1. Let(t, final) = Len(t) - Keep(t)
    BY <1>4 DEF Let
  <2>2. Len(t) - Keep(t) < Len(t) => Keep(t) > 0
    BY <1>1
  <2>3. Len(t) - Keep(t) \in 0 .. Len(t)
    BY <1>1
  <2>4. QED
    BY <1>1, <1>2, <1>4, <2>1, <2>2, <2>3
<1>5. QED
  BY <1>3, <1>4

\* The redactor cuts a text beside credentials only, and so never within a rune.
LEMMA DrainIsSound ==
  ASSUME NEW t \in Seq(Syms), NEW c, c # "R", Sound(t, c), NEW final \in BOOLEAN
  PROVE  /\ Drain(t, final) \in Drained
         /\ Sound(Drain(t, final).out, c) /\ Sound(Drain(t, final).held, c)
<1>1. PICK f : IsDrained(t, final, f) /\ Drain(t, final) = f[1]
  BY DrainUnfolds
<1> DEFINE n == Len(t) + 1
           S == {i \in 1 .. n : (i > 1 /\ i <= Len(t) => t[i] # "v") => Sound(f[i].out, c) /\ Sound(f[i].held, c)}
<1>2. n \in Nat /\ Len(t) \in Nat
  BY Parts
<1>3. ASSUME NEW i \in 1 .. n, \A j \in i + 1 .. n : j \in S PROVE i \in S
  <2> DEFINE rest == From(t, i)
  <2>1. SUFFICES ASSUME i > 1 /\ i <= Len(t) => t[i] # "v" PROVE Sound(f[i].out, c) /\ Sound(f[i].held, c)
    OBVIOUS
  <2>2. DrainsTo(t, final, f, i, f[i])
    BY <1>1 DEF IsDrained
  <2>3. /\ rest \in Seq(Syms) /\ Len(rest) = Len(t) + 1 - i /\ Len(rest) \in Nat /\ i \in Nat
        /\ \A k \in 1 .. Len(t) + 1 - i : rest[k] = t[i + k - 1]
    BY RestIs, Parts
  <2>4. Sound(rest, c)
    BY <2>1, SoundFrom
  <2>5. CASE Found(rest) = {}
    <3> DEFINE k == Let(rest, final)
    <3>1. f[i].out = First(rest, k) /\ f[i].held = From(rest, k + 1)
      BY <2>2, <2>5 DEF DrainsTo
    <3> HIDE DEF rest
    <3>2. k \in 0 .. Len(rest) /\ (k < Len(rest) => rest[k + 1] \in Secret)
      BY <2>3, <2>5, FoundIs, LetIs
    <3> HIDE DEF k
    <3>3. k < Len(rest) => rest[k + 1] # "v"
      BY <3>2 DEF Secret
    <3>4. Sound(First(rest, k), c)
      BY <2>3, <2>4, <3>2, <3>3, SoundFirst
    <3>5. k + 1 \in 1 .. Len(rest) + 1 /\ (k + 1 <= Len(rest) => rest[k + 1] # "v")
      BY <2>3, <3>2, <3>3
    <3>6. Sound(From(rest, k + 1), c)
      BY <2>3, <2>4, <3>5, SoundFrom
    <3>7. QED
      BY <3>1, <3>4, <3>6
  <2>6. CASE Found(rest) # {}
    <3> DEFINE m == BestMatch(rest)
               a == m[1]
               b == Behind(rest)
               j == i + (b - 1)
    <3>1. /\ f[i].out = (First(rest, a - 1) \o <<"R">>) \o f[j].out
          /\ f[i].held = f[j].held
      BY <2>2, <2>6 DEF DrainsTo
    <3>2. a - 1 \in 0 .. Len(rest) /\ b \in 2 .. Len(rest) + 1 /\ j \in i + 1 .. n /\ a \in Nat
      BY <2>6, RestIs
    <3>3. f[j] \in Drained
      <4>1. j \in 1 .. Len(t) + 1
        BY <1>2, <2>3, <3>2
      <4>2. QED
        BY <1>1, <4>1 DEF IsDrained, DrainsTo
    <3>4. a \in 1 .. Len(rest) /\ m[2] \in Literals /\ At(rest, a, m[2])
      <4> HIDE DEF rest
      <4>1. QED
        BY <2>3, <2>6, BestIs
    <3>5. b = a + Len(m[2])
      BY DEF Behind
    <3> HIDE DEF rest, a, b, j, m
    <3>6. Len(m[2]) \in Nat /\ Len(m[2]) >= 1 /\ \A q \in 1 .. Len(m[2]) : m[2][q] \in Secret
      BY <3>4, LiteralIs
    <3>7. rest[a] \in Secret /\ rest[b - 1] \in Secret
      <4>1. 1 \in 1 .. Len(m[2]) /\ Len(m[2]) \in 1 .. Len(m[2]) /\ a + 1 - 1 = a /\ a + Len(m[2]) - 1 = b - 1
        BY <3>2, <3>5, <3>6
      <4>2. QED
        BY <3>4, <3>6, <4>1 DEF At
    <3>8. Sound(First(rest, a - 1), c) /\ First(rest, a - 1) \in Seq(Syms)
      <4> DEFINE k == a - 1
      <4>1. k \in 0 .. Len(rest) /\ k + 1 = a /\ (k < Len(rest) /\ k > 0 => rest[k + 1] # "v")
        BY <3>2, <3>7 DEF Secret
      <4> HIDE DEF k
      <4>2. Sound(First(rest, k), c) /\ First(rest, k) \in Seq(Syms)
        BY <2>3, <2>4, <4>1, SoundFirst, Parts
      <4>3. QED
        BY <4>2 DEF k
    <3>9. <<"R">> \in Seq(Syms) /\ Sound(<<"R">>, c)
      <4>1. "R" \in Syms /\ "R" \notin {"u", "v", c}
        BY DEF Syms
      <4>2. QED
        BY <4>1, ShortSound
    <3>10. j <= Len(t) => t[j] # "v"
      <4>1. SUFFICES ASSUME j <= Len(t), t[j] = "v" PROVE FALSE
        OBVIOUS
      <4>2. j \in 1 .. Len(t) /\ b - 1 \in 1 .. Len(t) + 1 - i /\ i + (b - 1) - 1 = j - 1
        BY <1>2, <2>3, <3>2, <4>1 DEF j
      <4>3. t[j - 1] = rest[b - 1]
        BY <2>3, <4>2
      <4>4. t[j - 1] = "u"
        BY <4>1, <4>2 DEF Sound
      <4>5. QED
        BY <3>7, <4>3, <4>4 DEF Secret
    <3>11. Sound(f[j].out, c) /\ Sound(f[j].held, c)
      BY <1>3, <3>2, <3>10
    <3>12. f[j].out \in Seq(Syms)
      BY <3>3 DEF Drained
    <3> DEFINE x == First(rest, a - 1)
               y == f[j].out
               z == x \o <<"R">>
    <3>13. x \in Seq(Syms) /\ y \in Seq(Syms) /\ Sound(x, c) /\ Sound(y, c) /\ f[i].out = z \o y
      BY <3>1, <3>8, <3>11, <3>12
    <3> HIDE DEF x, y
    <3>14. z \in Seq(Syms) /\ Sound(z, c)
      BY <3>9, <3>13, SoundJoin, Joined
    <3> HIDE DEF z
    <3>15. Sound(z \o y, c)
      BY <3>13, <3>14, SoundJoin
    <3>16. QED
      BY <3>1, <3>11, <3>13, <3>15
  <2>7. QED
    BY <2>5, <2>6
<1>4. 1 \in S /\ f[1] \in Drained
  <2>1. 1 \in 1 .. n
    BY <1>2
  <2>2. f[1] \in Drained
    BY <1>1, <2>1 DEF IsDrained, DrainsTo
  <2> HIDE DEF S, n
  <2>3. QED
    BY <1>2, <1>3, <2>1, <2>2, FromTheEnd
<1>5. QED
  BY <1>1, <1>4

\* A text of which the first part is done with.
LEMMA ShutJoin ==
  ASSUME NEW w \in Seq(Syms), NEW r \in Seq(Syms), NEW n \in 0 .. Len(r), Shut(w \o r, Len(w)), Shut(r, n)
  PROVE  Shut(w \o r, Len(w) + n)
<1>1. /\ Len(w) \in Nat /\ Len(r) \in Nat /\ Len(w \o r) = Len(w) + Len(r) /\ n \in Nat
      /\ \A k \in 1 .. Len(r) : (w \o r)[Len(w) + k] = r[k]
  BY Parts, Joined
<1>2. SUFFICES ASSUME NEW i \in 1 .. Len(w) + n, NEW l \in Literals, Fits(w \o r, i, l) PROVE FALSE
  BY DEF Shut
<1>3. i \in Nat /\ i >= 1 /\ Len(l) \in Nat
  BY <1>1, LiteralIs
<1>4. CASE i <= Len(w)
  <2>1. i \in 1 .. Len(w)
    BY <1>1, <1>3, <1>4
  <2>2. QED
    BY <1>2, <2>1 DEF Shut
<1>5. CASE i > Len(w)
  <2> DEFINE k == i - Len(w)
  <2>1. k \in 1 .. n /\ k \in Nat /\ i = Len(w) + k
    BY <1>1, <1>3, <1>5
  <2> HIDE DEF k
  <2>2. ASSUME NEW j \in 1 .. Len(l), k + j - 1 <= Len(r) PROVE r[k + j - 1] = l[j]
    <3>1. k + j - 1 \in 1 .. Len(r) /\ Len(w) + (k + j - 1) = i + j - 1 /\ i + j - 1 <= Len(w \o r)
      BY <1>1, <1>3, <2>1, <2>2
    <3>2. QED
      BY <1>1, <1>2, <3>1 DEF Fits
  <2>3. Fits(r, k, l)
    BY <2>2 DEF Fits
  <2>4. QED
    BY <2>1, <2>3 DEF Shut
<1>6. QED
  BY <1>1, <1>3, <1>4, <1>5

LEMMA ShutCleanJoin ==
  ASSUME NEW w \in Seq(Syms), NEW x \in Seq(Syms), NEW y \in Seq(Syms), Shut(w \o (x \o y), Len(w)), Clean(x)
  PROVE  Clean(w \o x)
<1> DEFINE v == w \o x
           u == w \o (x \o y)
<1>1. /\ Len(w) \in Nat /\ Len(x) \in Nat /\ v \in Seq(Syms) /\ Len(v) = Len(w) + Len(x)
      /\ \A k \in 1 .. Len(x) : v[Len(w) + k] = x[k]
  BY Parts, Joined
<1>2. u = v \o y
  BY JoinedThrice
<1> HIDE DEF v, u
<1>3. \A k \in 1 .. Len(v) : u[k] = v[k]
  BY <1>1, <1>2, Joined
<1>4. SUFFICES ASSUME NEW i \in 1 .. Len(v), NEW l \in Literals, At(v, i, l) PROVE FALSE
  BY DEF Clean, v
<1>5. i \in Nat /\ i >= 1 /\ Len(l) \in Nat /\ Len(l) >= 1
  BY <1>1, LiteralIs
<1>6. CASE i <= Len(w)
  <2>1. ASSUME NEW j \in 1 .. Len(l) PROVE u[i + j - 1] = l[j]
    <3>1. i + j - 1 \in 1 .. Len(v) /\ v[i + j - 1] = l[j]
      BY <1>1, <1>4, <1>5 DEF At
    <3>2. QED
      BY <1>3, <3>1
  <2>2. Fits(u, i, l) /\ i \in 1 .. Len(w)
    BY <1>1, <1>5, <1>6, <2>1 DEF Fits
  <2>3. QED
    BY <2>2 DEF Shut, u
<1>7. CASE i > Len(w)
  <2> DEFINE k == i - Len(w)
  <2>1. k \in 1 .. Len(x) /\ k \in Nat /\ i = Len(w) + k
    BY <1>1, <1>5, <1>7
  <2> HIDE DEF k
  <2>2. ASSUME NEW j \in 1 .. Len(l) PROVE x[k + j - 1] = l[j]
    <3>1. k + j - 1 \in 1 .. Len(x) /\ Len(w) + (k + j - 1) = i + j - 1 /\ v[i + j - 1] = l[j]
      BY <1>1, <1>4, <1>5, <2>1 DEF At
    <3>2. QED
      BY <1>1, <3>1
  <2>3. k + Len(l) - 1 <= Len(x)
    BY <1>1, <1>4, <1>5, <2>1 DEF At
  <2>4. At(x, k, l)
    BY <2>2, <2>3 DEF At
  <2>5. QED
    BY <2>1, <2>4 DEF Clean
<1>8. QED
  BY <1>1, <1>5, <1>6, <1>7

\* Behind a text w that is done with, the redactor lets go of text that is done with
\* too; at the end, of all of it, and no credential is in it.
Settled(w, d, final) ==
    /\ ~final => Shut((w \o d.out) \o d.held, Len(w) + Len(d.out))
    /\ final => Clean(w \o d.out) /\ d.held = << >>

LEMMA DrainSettles ==
  ASSUME NEW t \in Seq(Syms), NEW final \in BOOLEAN, NEW w \in Seq(Syms), Shut(w \o t, Len(w))
  PROVE  Settled(w, Drain(t, final), final)
<1>1. PICK f : IsDrained(t, final, f) /\ Drain(t, final) = f[1]
  BY DrainUnfolds
<1> DEFINE n == Len(t) + 1
           S == {i \in 1 .. n : \A v \in Seq(Syms) : Shut(v \o From(t, i), Len(v)) => Settled(v, f[i], final)}
<1>2. n \in Nat /\ Len(t) \in Nat
  BY Parts
<1>3. ASSUME NEW i \in 1 .. n, \A j \in i + 1 .. n : j \in S PROVE i \in S
  <2> DEFINE rest == From(t, i)
  <2>1. SUFFICES ASSUME NEW v \in Seq(Syms), Shut(v \o rest, Len(v)) PROVE Settled(v, f[i], final)
    OBVIOUS
  <2>2. DrainsTo(t, final, f, i, f[i])
    BY <1>1 DEF IsDrained
  <2>3. rest \in Seq(Syms) /\ Len(rest) \in Nat /\ i \in Nat /\ Len(v) \in Nat
    BY RestIs, Parts
  <2>4. CASE Found(rest) = {}
    <3> DEFINE k == Let(rest, final)
    <3>1. f[i].out = First(rest, k) /\ f[i].held = From(rest, k + 1)
      BY <2>2, <2>4 DEF DrainsTo
    <3> HIDE DEF rest
    <3>2. Clean(rest)
      BY <2>3, <2>4, FoundIs
    <3>3. k \in 0 .. Len(rest) /\ (final => k = Len(rest)) /\ (~final => Shut(rest, k))
      BY <2>3, <3>2, LetIs
    <3> HIDE DEF k
    <3>4. k + 1 \in 1 .. Len(rest) + 1 /\ k \in Nat
      BY <2>3, <3>3
    <3> DEFINE x == First(rest, k)
               y == From(rest, k + 1)
    <3>5. x \in Seq(Syms) /\ y \in Seq(Syms) /\ x \o y = rest /\ Len(x) = k /\ Len(y) = Len(rest) + 1 - (k + 1)
      BY <2>3, <3>3, <3>4, CutInTwo, Parts
    <3> HIDE DEF x, y
    <3>6. (v \o x) \o y = v \o rest
      BY <3>5, JoinedThrice
    <3>7. ASSUME ~final PROVE Shut((v \o x) \o y, Len(v) + Len(x))
      <4>1. Shut(rest, k)
        BY <3>3, <3>7
      <4>2. Shut(v \o rest, Len(v) + k)
        BY <2>1, <2>3, <3>3, <4>1, ShutJoin
      <4>3. QED
        BY <3>5, <3>6, <4>2
    <3>8. ASSUME final PROVE Clean(v \o x) /\ y = << >>
      <4>1. k = Len(rest)
        BY <3>3, <3>8
      <4>2. Len(y) = 0
        BY <2>3, <3>5, <4>1
      <4>3. y = << >>
        BY <3>5, <4>2
      <4>4. x = rest
        BY <3>5, <4>3
      <4>5. Shut(v \o (x \o y), Len(v))
        BY <2>1, <3>5
      <4>6. Clean(v \o x)
        BY <3>2, <3>5, <4>4, <4>5, ShutCleanJoin
      <4>7. QED
        BY <4>3, <4>6
    <3>9. f[i].out = x /\ f[i].held = y
      BY <3>1 DEF x, y
    <3>10. QED
      BY <3>7, <3>8, <3>9 DEF Settled
  <2>5. CASE Found(rest) # {}
    <3> DEFINE m == BestMatch(rest)
               a == m[1] - 1
               j == i + (Behind(rest) - 1)
               x == First(rest, a)
               y == From(rest, a + 1)
               z == x \o <<"R">>
               d == f[j]
    <3>1. f[i].out = z \o d.out /\ f[i].held = d.held
      BY <2>2, <2>5 DEF DrainsTo
    <3>2. a \in 0 .. Len(rest) /\ j \in i + 1 .. n
      BY <2>5, RestIs
    <3>3. d \in Drained /\ From(t, j) \in Seq(Syms)
      <4>1. j \in 1 .. Len(t) + 1
        BY <1>2, <2>3, <3>2
      <4> HIDE DEF j
      <4>2. QED
        BY <1>1, <4>1, Parts DEF IsDrained, DrainsTo
    <3>4. \A q \in 1 .. a, l \in Literals : ~At(rest, q, l)
      <4> HIDE DEF rest
      <4>1. QED
        BY <2>3, <2>5, BestIs
    <3> HIDE DEF rest, j, a, d
    <3>5. a + 1 \in 1 .. Len(rest) + 1 /\ a \in Nat
      BY <2>3, <3>2
    <3>6. /\ x \in Seq(Syms) /\ Len(x) = a /\ (\A q \in 1 .. a : x[q] = rest[q])
          /\ y \in Seq(Syms) /\ x \o y = rest
      BY <2>3, <3>2, <3>5, Parts, CutInTwo
    <3> HIDE DEF x, y
    <3>7. Clean(x)
      <4>1. SUFFICES ASSUME NEW q \in 1 .. Len(x), NEW l \in Literals, At(x, q, l) PROVE FALSE
        BY DEF Clean
      <4>2. q \in Nat /\ q >= 1 /\ Len(l) \in Nat
        BY <3>5, <3>6, LiteralIs
      <4>3. ASSUME NEW k \in 1 .. Len(l) PROVE rest[q + k - 1] = l[k]
        <5>1. q + k - 1 \in 1 .. a /\ x[q + k - 1] = l[k]
          BY <3>5, <3>6, <4>1, <4>2 DEF At
        <5>2. QED
          BY <3>6, <5>1
      <4>4. q + Len(l) - 1 <= Len(rest)
        BY <2>3, <3>2, <3>5, <3>6, <4>1, <4>2 DEF At
      <4>5. At(rest, q, l)
        BY <4>3, <4>4 DEF At
      <4>6. QED
        BY <3>4, <3>6, <4>5
    <3>8. Clean(v \o x) /\ v \o x \in Seq(Syms)
      <4>1. Shut(v \o (x \o y), Len(v))
        BY <2>1, <3>6
      <4>2. QED
        BY <3>6, <3>7, <4>1, ShutCleanJoin, Joined
    <3>9. <<"R">> \in Seq(Syms) /\ Clean(<<"R">>) /\ <<"R">>[1] \notin Secret /\ Len(<<"R">>) = 1
      <4>1. <<"R">> \in Seq(Syms) /\ Len(<<"R">>) = 1 /\ <<"R">>[1] = "R" /\ "R" \notin Secret
        BY DEF Syms, Secret
      <4>2. ASSUME NEW q \in 1 .. Len(<<"R">>), NEW l \in Literals, At(<<"R">>, q, l) PROVE FALSE
        <5>1. q = 1 /\ 1 \in 1 .. Len(l) /\ l[1] \in Secret /\ q + 1 - 1 = 1
          BY <4>1, LiteralIs
        <5>2. <<"R">>[q + 1 - 1] = l[1]
          BY <4>2, <5>1 DEF At
        <5>3. QED
          BY <4>1, <5>1, <5>2
      <4>3. QED
        BY <4>1, <4>2 DEF Clean
    <3> DEFINE r == <<"R">>
               u == v \o x
               s == u \o r
    <3>10. r \in Seq(Syms) /\ Clean(r) /\ r[1] \notin Secret /\ Len(r) = 1 /\ u \in Seq(Syms) /\ Clean(u)
      BY <3>8, <3>9
    <3>11. s = v \o z
      BY <3>6, <3>9, JoinedThrice
    <3>20. z \in Seq(Syms)
      BY <3>6, <3>9, Joined
    <3> HIDE DEF r, u, z
    <3>12. s \in Seq(Syms) /\ Len(s) = Len(u) + 1 /\ s[Len(u) + 1] = r[1] /\ Len(u) \in Nat
      <4>1. 1 \in 1 .. Len(r)
        BY <3>10
      <4>2. s \in Seq(Syms) /\ Len(s) = Len(u) + Len(r) /\ s[Len(u) + 1] = r[1]
        <5>1. u \in Seq(Syms) /\ r \in Seq(Syms)
          BY <3>10
        <5>2. s \in Seq(Syms) /\ Len(s) = Len(u) + Len(r) /\ \A q \in 1 .. Len(r) : s[Len(u) + q] = r[q]
          BY <5>1, Joined
        <5> HIDE DEF s
        <5>3. QED
          BY <4>1, <5>2
      <4>3. Len(u) \in Nat
        BY <3>10, Parts
      <4>4. QED
        BY <3>10, <4>2, <4>3
    <3>13. Apart(u, r)
      BY <3>10 DEF Apart
    <3>14. Clean(s)
      BY <3>10, <3>13, CleanJoin
    <3> HIDE DEF s
    <3>15. Shut(s, Len(s))
      <4>1. s[Len(s)] \notin Secret
        BY <3>10, <3>12
      <4>2. QED
        BY <3>12, <3>14, <4>1, ShutAtEnd
    <3>16. Shut(s \o From(t, j), Len(s))
      <4> DEFINE g == From(t, j)
      <4>1. g \in Seq(Syms) /\ Len(s) \in Nat
        BY <3>3, <3>12
      <4> HIDE DEF g
      <4>2. Shut(s \o g, Len(s))
        BY <3>12, <3>15, <4>1, ShutGrows
      <4>3. QED
        BY <4>2 DEF g
    <3>17. Settled(s, d, final)
      BY <1>3, <3>2, <3>12, <3>16 DEF d
    <3> DEFINE e == d.out
    <3>18. e \in Seq(Syms) /\ f[i].out = z \o e
      BY <3>1, <3>3 DEF Drained
    <3> HIDE DEF e
    <3>19. v \o f[i].out = s \o e
      <4>1. (v \o z) \o e = v \o (z \o e)
        BY <3>18, <3>20, JoinedThrice
      <4>2. QED
        BY <3>11, <3>18, <4>1
    <3>21. Len(v) + Len(f[i].out) = Len(s) + Len(e)
      <4>1. Len(z) \in Nat /\ Len(e) \in Nat /\ Len(s) = Len(v) + Len(z) /\ Len(f[i].out) = Len(z) + Len(e)
        BY <3>11, <3>18, <3>20, Parts, Joined
      <4>2. QED
        BY <2>3, <4>1
    <3>22. QED
      BY <3>1, <3>17, <3>19, <3>21 DEF Settled, e
  <2>6. QED
    BY <2>4, <2>5
<1>4. 1 \in S
  <2>1. 1 \in 1 .. n
    BY <1>2
  <2> HIDE DEF S, n
  <2>2. QED
    BY <1>2, <1>3, <2>1, FromTheEnd
<1>5. From(t, 1) = t
  <2>1. From(t, 1) \in Seq(Syms) /\ Len(From(t, 1)) = Len(t) /\ \A k \in 1 .. Len(t) : From(t, 1)[k] = t[k]
    BY <1>2 DEF From
  <2>2. QED
    BY <2>1, SameText
<1>6. QED
  BY <1>1, <1>4, <1>5

-----------------------------------------------------------------------------
\* The bounded record and the sink.
Sinks == [held: Seq(Syms), seen: Nat, emitted: Nat, pending: Seq(Syms), truncated: BOOLEAN, full: BOOLEAN]
Sts   == [out: Seq(Syms), sink: Sinks]

LEMMA Limits ==
  /\ RunLimit \in Nat /\ RunLimit >= 1 /\ RecordLimit \in Nat /\ RecordLimit >= 1 /\ ProxyLimit \in Nat
  /\ DataLimit \in Nat /\ RunRoom \in Nat /\ RunRoom <= RunLimit
  /\ Least(Len(Marker), RunLimit) \in 0 .. 2
<1>1. /\ RunLimit \in Nat /\ RunLimit >= 1 /\ RecordLimit \in Nat /\ RecordLimit >= 1 /\ ProxyLimit \in Nat
  BY PipelineAssumption
<1>2. Len(Full) = 2 /\ Len(Marker) = 2
  BY DEF Full, Marker
<1>3. QED
  BY <1>1, <1>2 DEF DataLimit, RunRoom, Least

LEMMA MarksAre ==
  /\ Full \in Seq(Syms) /\ Len(Full) = 2 /\ Full[1] = "F" /\ Full[2] = "F"
  /\ Marker \in Seq(Syms) /\ Len(Marker) = 2 /\ Marker[1] = "M" /\ Marker[2] = "M"
  BY DEF Full, Marker, Syms

\* Text that has nothing of a credential in it.
LEMMA CleanIfBare ==
  ASSUME NEW x \in Seq(Syms), \A i \in 1 .. Len(x) : x[i] \notin Secret
  PROVE  Clean(x)
<1>1. SUFFICES ASSUME NEW i \in 1 .. Len(x), NEW l \in Literals, At(x, i, l) PROVE FALSE
  BY DEF Clean
<1>2. Len(l) >= 1 /\ Len(l) \in Nat /\ l[1] \in Secret /\ 1 \in 1 .. Len(l) /\ i \in Nat /\ i + 1 - 1 = i
  BY LiteralIs, Parts
<1>3. x[i + 1 - 1] = l[1]
  BY <1>1, <1>2 DEF At
<1>4. QED
  BY <1>2, <1>3

LEMMA FullIs ==
  /\ \A c : c # "F" => Sound(Full, c)
  /\ Clean(Full)
<1>1. \A i \in 1 .. Len(Full) : Full[i] = "F"
  BY MarksAre
<1>2. "F" \notin Secret
  BY DEF Secret
<1>3. Clean(Full)
  BY <1>1, <1>2, MarksAre, CleanIfBare
<1>4. \A c : c # "F" => Sound(Full, c)
  BY <1>1 DEF Sound
<1>5. QED
  BY <1>3, <1>4

\* What the record becomes.
Recorded(o, t, c, r) ==
    /\ r \in Seq(Syms) /\ Sound(r, c) /\ Clean(r)
    /\ IsFull(o) => r = o
    /\ ~IsFull(r) => ~IsFull(o) /\ r = o \o t

LEMMA AppendIs ==
  ASSUME NEW o \in Seq(Syms), NEW t \in Seq(Syms), NEW c, c # "F", Sound(o, c), Sound(t, c), Clean(o),
         ~IsFull(o) => Clean(o \o t)
  PROVE  Recorded(o, t, c, AppendBounded(o, t))
<1> DEFINE r == AppendBounded(o, t)
<1>0. Len(o) \in Nat /\ Len(t) \in Nat /\ DataLimit \in Nat
  BY Parts, Limits
<1>1. CASE IsFull(o)
  <2>1. r = o
    BY <1>1 DEF AppendBounded
  <2> HIDE DEF r
  <2>2. QED
    BY <1>1, <2>1 DEF Recorded, r
<1>2. CASE ~IsFull(o) /\ t = << >>
  <2>1. r = o /\ o \o t = o
    BY <1>2 DEF AppendBounded
  <2> HIDE DEF r
  <2>2. QED
    BY <1>2, <2>1 DEF Recorded, r
<1>3. CASE ~IsFull(o) /\ t # << >> /\ Len(o) + Len(t) <= DataLimit
  <2>1. r = o \o t
    BY <1>3 DEF AppendBounded
  <2>2. o \o t \in Seq(Syms) /\ Sound(o \o t, c)
    BY Joined, SoundJoin
  <2> HIDE DEF r
  <2>3. QED
    BY <1>3, <2>1, <2>2 DEF Recorded, r
<1>4. CASE ~IsFull(o) /\ t # << >> /\ ~(Len(o) + Len(t) <= DataLimit)
  <2> DEFINE limit == DataLimit - Len(o)
  <2>1. limit \in Nat /\ limit < Len(t)
    BY <1>0, <1>4 DEF IsFull
  <2>2. r = o \o PrefixAtMost(t, limit) \o Full
    BY <1>4 DEF AppendBounded
  <2> HIDE DEF limit, r
  <2>3. PICK k \in 0 .. Len(t) :
           /\ PrefixAtMost(t, limit) = First(t, k)
           /\ Sound(First(t, k), c) /\ k + 1 >= limit
    BY <2>1, PrefixIsSound
  <2> DEFINE x == First(t, k)
             y == From(t, k + 1)
             z == o \o x
  <2>4. x \in Seq(Syms) /\ Len(x) = k /\ x \o y = t /\ k \in Nat /\ Sound(x, c) /\ r = z \o Full
    <3>1. x \in Seq(Syms) /\ Len(x) = k /\ k \in Nat
      BY <1>0, Parts
    <3>2. x \o y = t
      BY CutInTwo
    <3>3. r = z \o Full
      BY <2>2, <2>3
    <3> HIDE DEF x, y, z
    <3>4. QED
      BY <2>3, <3>1, <3>2, <3>3 DEF x
  <2>5. y \in Seq(Syms)
    <3> DEFINE q == k + 1
    <3>1. q \in 1 .. Len(t) + 1
      BY <1>0
    <3> HIDE DEF q
    <3>2. From(t, q) \in Seq(Syms)
      BY <3>1, Parts
    <3>3. QED
      BY <3>2 DEF q
  <2> HIDE DEF x, y
  <2>6. z \in Seq(Syms) /\ Sound(z, c) /\ Len(z) = Len(o) + k
    BY <2>4, Joined, SoundJoin
  <2>7. Clean(z)
    <3>1. z \o y = o \o t
      BY <2>4, <2>5, JoinedThrice
    <3> HIDE DEF z
    <3>2. QED
      BY <1>4, <2>5, <2>6, <3>1, CleanParts
  <2> HIDE DEF z
  <2>8. Apart(z, Full)
    BY MarksAre DEF Apart, Secret
  <2>9. Clean(r)
    BY <2>4, <2>6, <2>7, <2>8, MarksAre, FullIs, CleanJoin
  <2>10. r \in Seq(Syms) /\ Sound(r, c) /\ Len(r) = Len(o) + k + 2
    <3>1. r \in Seq(Syms) /\ Len(r) = Len(z) + Len(Full)
      BY <2>4, <2>6, MarksAre, Joined
    <3>2. Sound(r, c)
      BY <2>4, <2>6, MarksAre, FullIs, SoundJoin
    <3>3. QED
      BY <1>0, <2>4, <2>6, <3>1, <3>2, MarksAre
  <2>11. IsFull(r)
    <3>1. Len(r) > DataLimit
      BY <1>0, <2>1, <2>3, <2>4, <2>10 DEF limit
    <3>2. QED
      BY <3>1 DEF IsFull
  <2>12. QED
    BY <1>4, <2>9, <2>10, <2>11 DEF Recorded, r
<1>5. QED
  BY <1>1, <1>2, <1>3, <1>4

\* A sink still at work on a record that has room.
Working(st) == ~st.sink.full /\ ~IsFull(st.out)

\* What AppendSession leaves alone, and what the record becomes.
Passed(st, t, r) ==
    /\ r \in Sts /\ Sound(r.out, "s") /\ Clean(r.out)
    /\ \A f \in {"held", "seen", "emitted", "pending", "truncated"} : r.sink[f] = st.sink[f]
    /\ Working(r) => Working(st) /\ r.out = st.out \o t
    /\ st.sink.full => r = st

LEMMA SessionIs ==
  ASSUME NEW st \in Sts, NEW t \in Seq(Syms), Sound(st.out, "s"), Sound(t, "s"), Clean(st.out),
         Working(st) => Clean(st.out \o t)
  PROVE  Passed(st, t, AppendSession(st, t))
<1> DEFINE r == AppendSession(st, t)
           o == AppendBounded(st.out, t)
           s == st.sink
<1>1. st.out \in Seq(Syms) /\ s \in Sinks
  BY DEF Sts
<1>2. CASE s.full
  <2>1. r = st
    BY <1>2 DEF AppendSession
  <2> HIDE DEF r
  <2>2. QED
    BY <1>2, <2>1 DEF Passed, Working, r
<1>3. CASE ~s.full
  <2> DEFINE b == ~IsFull(st.out) /\ IsFull(o) /\ t # << >>
  <2>1. r = [out |-> o, sink |-> [s EXCEPT !.full = b]]
    BY <1>3 DEF AppendSession
  <2>2. Recorded(st.out, t, "s", o)
    <3>1. ~IsFull(st.out) => Clean(st.out \o t)
      BY <1>3 DEF Working
    <3> DEFINE v == st.out
    <3>2. v \in Seq(Syms) /\ Sound(v, "s") /\ Clean(v) /\ (~IsFull(v) => Clean(v \o t))
      BY <1>1, <3>1
    <3> HIDE DEF v
    <3>3. Recorded(v, t, "s", AppendBounded(v, t))
      BY <3>2, AppendIs
    <3>4. QED
      BY <3>3 DEF v
  <2>3. b \in BOOLEAN
    OBVIOUS
  <2> HIDE DEF b, o, r, s
  <2>4. r.out = o /\ r.sink = [s EXCEPT !.full = b]
    BY <2>1
  <2>5. /\ r.sink \in Sinks
        /\ \A f \in {"held", "seen", "emitted", "pending", "truncated"} : r.sink[f] = s[f]
    BY <1>1, <2>3, <2>4 DEF Sinks
  <2>6. r \in Sts /\ Sound(r.out, "s") /\ Clean(r.out)
    BY <2>1, <2>2, <2>4, <2>5 DEF Sts, Recorded
  <2>7. ~IsFull(r.out) => ~IsFull(st.out) /\ r.out = st.out \o t
    BY <2>2, <2>4 DEF Recorded
  <2>8. QED
    BY <1>3, <2>5, <2>6, <2>7 DEF Passed, Working, r, s
<1>4. QED
  BY <1>2, <1>3

GoodSt(st) ==
    /\ st \in Sts
    /\ Sound(st.out, "s") /\ Sound(st.sink.held, "s") /\ Sound(st.sink.pending, "s") /\ Clean(st.out)

Live(st) == Working(st) /\ ~st.sink.truncated
All(st)  == st.out \o st.sink.pending

\* What appendBoundedLocked does with the text t of a run.
Ran(st, t, r) ==
    /\ GoodSt(r) /\ r.sink.held = st.sink.held
    /\ Live(r) => Live(st) /\ All(r) = All(st) \o t

\* What a run shows at once of the text p it has not shown.
Showing(st, p) == IF RunRoom > st.sink.emitted THEN PrefixAtMost(p, RunRoom - st.sink.emitted) ELSE << >>

\* The account after that, before a marker.
Accounted(st, t) ==
    LET p     == st.sink.pending \o t
        show  == Showing(st, p)
        exposed == AppendSession(st, show)
    IN  [out |-> exposed.out,
         sink |-> [exposed.sink EXCEPT !.seen = @ + Len(t), !.emitted = @ + Len(show), !.pending = From(p, Len(show) + 1)]]

Overrun(st, t) == AppendSession(Accounted(st, t), First(Marker, Least(Len(Marker), RunLimit)))

LEMMA AppendRunIs ==
  ASSUME NEW st, NEW t
  PROVE  /\ t = << >> \/ st.sink.truncated \/ st.sink.full => AppendRun(st, t) = st
         /\ ~(t = << >> \/ st.sink.truncated \/ st.sink.full) =>
              AppendRun(st, t) = IF st.sink.seen + Len(t) <= RunLimit THEN Accounted(st, t)
                                 ELSE [Overrun(st, t) EXCEPT !.sink.truncated = TRUE, !.sink.pending = << >>]
  BY DEF AppendRun, Accounted, Overrun, Showing

LEMMA ShowingIs ==
  ASSUME NEW st \in Sts, NEW p \in Seq(Syms), Sound(p, "s")
  PROVE  \E k \in 0 .. Len(p) :
           /\ Showing(st, p) = First(p, k)
           /\ Sound(First(p, k), "s") /\ Sound(From(p, k + 1), "s")
<1> DEFINE e == st.sink.emitted
<1>1. e \in Nat /\ RunRoom \in Nat /\ Len(p) \in Nat
  BY Limits, Parts DEF Sts, Sinks
<1> HIDE DEF e
<1>2. CASE RunRoom > e
  <2> DEFINE limit == RunRoom - e
  <2>1. limit \in Nat
    BY <1>1, <1>2
  <2>2. Showing(st, p) = PrefixAtMost(p, limit)
    BY <1>2 DEF Showing, e
  <2> HIDE DEF limit
  <2>3. QED
    BY <2>1, <2>2, PrefixIsSound
<1>3. CASE ~(RunRoom > e)
  <2>1. Showing(st, p) = << >>
    BY <1>3 DEF Showing, e
  <2>2. First(p, 0) = << >> /\ From(p, 0 + 1) = p
    <3>1. 0 \in 0 .. Len(p)
      BY <1>1
    <3>2. First(p, 0) = << >>
      BY <1>1, <3>1, Parts DEF First
    <3>3. First(p, 0) \o From(p, 0 + 1) = p
      BY <3>1, CutInTwo
    <3>4. From(p, 0 + 1) \in Seq(Syms)
      BY <1>1, Parts DEF From
    <3> DEFINE y == From(p, 0 + 1)
    <3>5. y \in Seq(Syms) /\ << >> \o y = p
      BY <3>2, <3>3, <3>4
    <3> HIDE DEF y
    <3>6. << >> \o y = y
      BY <3>5
    <3>7. QED
      BY <3>2, <3>5, <3>6 DEF y
  <2>3. Sound(<< >>, "s")
    BY ShortSound
  <2>4. 0 \in 0 .. Len(p)
    BY <1>1
  <2>5. QED
    BY <2>1, <2>2, <2>3, <2>4
<1>4. QED
  BY <1>2, <1>3

LEMMA AccountedIs ==
  ASSUME NEW st, GoodSt(st), NEW t \in Seq(Syms), Sound(t, "s"), Live(st) => Clean(All(st) \o t), ~st.sink.truncated
  PROVE  /\ Ran(st, t, Accounted(st, t))
         /\ ~Accounted(st, t).sink.truncated
<1> DEFINE s == st.sink
           o == st.out
           p == s.pending \o t
           show == Showing(st, p)
           sh == AppendSession(st, show)
           r == Accounted(st, t)
<1>1. st \in Sts /\ s \in Sinks /\ o \in Seq(Syms) /\ s.pending \in Seq(Syms) /\ s.seen \in Nat /\ s.emitted \in Nat
  BY DEF GoodSt, Sts, Sinks
<1>2. p \in Seq(Syms) /\ Sound(p, "s")
  BY <1>1, Joined, SoundJoin DEF GoodSt
<1>3. r = [out |-> sh.out,
           sink |-> [sh.sink EXCEPT !.seen = @ + Len(t), !.emitted = @ + Len(show), !.pending = From(p, Len(show) + 1)]]
  BY DEF Accounted
<1>4. All(st) \o t = o \o p
  <2> DEFINE v == s.pending
  <2>1. v \in Seq(Syms)
    BY <1>1
  <2> HIDE DEF v
  <2>2. (o \o v) \o t = o \o (v \o t)
    BY <1>1, <2>1, JoinedThrice
  <2>3. QED
    BY <2>2 DEF v, All
<1> HIDE DEF p, s, r
<1>5. PICK k \in 0 .. Len(p) :
         show = First(p, k) /\ Sound(First(p, k), "s") /\ Sound(From(p, k + 1), "s")
  BY <1>1, <1>2, ShowingIs
<1> DEFINE y == From(p, k + 1)
<1>6. show \in Seq(Syms) /\ Len(show) = k /\ k \in Nat /\ show \o y = p /\ Sound(show, "s") /\ Sound(y, "s")
  <2>1. Len(p) \in Nat /\ First(p, k) \in Seq(Syms) /\ Len(First(p, k)) = k
    BY <1>2, Parts
  <2>2. First(p, k) \o y = p
    BY <1>2, CutInTwo
  <2>3. k \in Nat
    BY <2>1
  <2> HIDE DEF y
  <2>4. Sound(y, "s")
    BY <1>5 DEF y
  <2> HIDE DEF show
  <2>5. QED
    BY <1>5, <2>1, <2>2, <2>3, <2>4
<1>7. y \in Seq(Syms) /\ y = From(p, Len(show) + 1)
  <2> DEFINE q == k + 1
  <2>1. q \in 1 .. Len(p) + 1
    BY <1>2, Parts
  <2> HIDE DEF q
  <2>2. From(p, q) \in Seq(Syms)
    BY <1>2, <2>1, Parts
  <2>3. QED
    BY <1>6, <2>2 DEF q
<1> HIDE DEF y, show
<1>8. (o \o show) \o y = o \o p
  BY <1>1, <1>6, <1>7, JoinedThrice
<1>9. Working(st) => Clean(o \o show)
  <2>1. SUFFICES ASSUME Working(st) PROVE Clean(o \o show)
    OBVIOUS
  <2>2. Clean(o \o p)
    BY <1>4, <2>1 DEF Live
  <2> DEFINE x == o \o show
  <2>3. x \in Seq(Syms) /\ Clean(x \o y)
    BY <1>1, <1>6, <1>8, <2>2, Joined
  <2> HIDE DEF x
  <2>4. Clean(x)
    BY <1>7, <2>3, CleanParts
  <2>5. QED
    BY <2>4 DEF x
<1>10. Passed(st, show, sh)
  BY <1>1, <1>6, <1>9, SessionIs DEF GoodSt
<1> HIDE DEF sh
<1>11. sh \in Sts /\ sh.sink \in Sinks /\ sh.out \in Seq(Syms)
  BY <1>10 DEF Passed, Sts
<1>12. /\ r.out = sh.out /\ r.sink.held = sh.sink.held /\ r.sink.pending = y /\ r.sink.full = sh.sink.full
       /\ r.sink.truncated = sh.sink.truncated /\ r \in Sts
  <2> DEFINE a == [sh.sink EXCEPT !.seen = @ + Len(t), !.emitted = @ + Len(show), !.pending = From(p, Len(show) + 1)]
  <2>1. Len(t) \in Nat /\ Len(show) \in Nat /\ sh.sink.seen \in Nat /\ sh.sink.emitted \in Nat
    BY <1>6, <1>11, Parts DEF Sinks
  <2>2. a = [sh.sink EXCEPT !.seen = sh.sink.seen + Len(t), !.emitted = sh.sink.emitted + Len(show), !.pending = y]
    BY <1>7
  <2>3. sh.sink.seen + Len(t) \in Nat /\ sh.sink.emitted + Len(show) \in Nat
    BY <2>1
  <2> HIDE DEF a
  <2>4. /\ a \in Sinks /\ a.held = sh.sink.held /\ a.pending = y /\ a.full = sh.sink.full
        /\ a.truncated = sh.sink.truncated
    BY <1>7, <1>11, <2>2, <2>3 DEF Sinks
  <2>5. r = [out |-> sh.out, sink |-> a]
    BY <1>3 DEF a
  <2>6. QED
    BY <1>11, <2>4, <2>5 DEF Sts
<1>13. GoodSt(r) /\ r.sink.held = st.sink.held /\ ~r.sink.truncated
  BY <1>6, <1>10, <1>12 DEF GoodSt, Passed
<1>14. ASSUME Live(r) PROVE Live(st) /\ All(r) = All(st) \o t
  <2>1. Working(sh)
    BY <1>12, <1>14 DEF Live, Working
  <2>2. Working(st) /\ sh.out = o \o show
    BY <1>10, <2>1 DEF Passed
  <2>3. All(r) = (o \o show) \o y
    BY <1>12, <2>2 DEF All
  <2>4. QED
    BY <1>4, <1>8, <2>2, <2>3 DEF Live
<1>15. QED
  BY <1>13, <1>14 DEF Ran, r

LEMMA MarkedIs ==
  ASSUME NEW v \in Sts
  PROVE  [v EXCEPT !.sink.truncated = TRUE, !.sink.pending = << >>]
           = [out |-> v.out, sink |-> [[v.sink EXCEPT !.truncated = TRUE] EXCEPT !.pending = << >>]]
<1> DEFINE vo == v.out
           vs == v.sink
           c == [vs EXCEPT !.truncated = TRUE]
           u == [out |-> vo, sink |-> c]
           r == [v EXCEPT !.sink.truncated = TRUE, !.sink.pending = << >>]
<1>1. v = [out |-> vo, sink |-> vs]
  BY DEF Sts
<1> HIDE DEF vo, vs
<1>2. r = [[v EXCEPT !.sink = [@ EXCEPT !.truncated = TRUE]] EXCEPT !.sink = [@ EXCEPT !.pending = << >>]]
  OBVIOUS
<1>3. [v EXCEPT !.sink = [@ EXCEPT !.truncated = TRUE]] = u
  <2>1. [v EXCEPT !.sink = [@ EXCEPT !.truncated = TRUE]] = [v EXCEPT !.sink = c]
    BY <1>1
  <2> HIDE DEF c
  <2>2. [v EXCEPT !.sink = c] = u
    BY <1>1
  <2>3. QED
    BY <2>1, <2>2
<1> HIDE DEF r
<1>4. r = [u EXCEPT !.sink = [@ EXCEPT !.pending = << >>]]
  BY <1>2, <1>3
<1> HIDE DEF c
<1>5. r = [out |-> vo, sink |-> [c EXCEPT !.pending = << >>]]
  BY <1>4
<1>6. QED
  BY <1>5 DEF c, vo, vs, r

LEMMA RunIs ==
  ASSUME NEW st, GoodSt(st), NEW t \in Seq(Syms), Sound(t, "s"), Live(st) => Clean(All(st) \o t)
  PROVE  Ran(st, t, AppendRun(st, t))
<1> DEFINE r == AppendRun(st, t)
<1>1. CASE t = << >> \/ st.sink.truncated \/ st.sink.full
  <2>1. r = st
    BY <1>1, AppendRunIs
  <2>2. ASSUME Live(st) PROVE All(st) = All(st) \o t
    <3>1. t = << >>
      BY <1>1, <2>2 DEF Live, Working
    <3>2. st.out \in Seq(Syms) /\ st.sink.pending \in Seq(Syms)
      BY DEF GoodSt, Sts, Sinks
    <3>3. All(st) \in Seq(Syms)
      BY <3>2, Joined DEF All
    <3>4. QED
      BY <3>1, <3>3
  <2> HIDE DEF r
  <2>3. QED
    BY <2>1, <2>2 DEF Ran, r
<1>2. CASE ~(t = << >> \/ st.sink.truncated \/ st.sink.full)
  <2> DEFINE a == Accounted(st, t)
             v == Overrun(st, t)
             m == First(Marker, Least(Len(Marker), RunLimit))
  <2>1. Ran(st, t, a) /\ ~a.sink.truncated
    BY <1>2, AccountedIs
  <2>2. CASE st.sink.seen + Len(t) <= RunLimit
    <3>1. r = a
      BY <1>2, <2>2, AppendRunIs
    <3> HIDE DEF a, r
    <3>2. QED
      BY <2>1, <3>1 DEF r
  <2>3. CASE ~(st.sink.seen + Len(t) <= RunLimit)
    <3>1. r = [v EXCEPT !.sink.truncated = TRUE, !.sink.pending = << >>]
      BY <1>2, <2>3, AppendRunIs
    <3>2. v = AppendSession(a, m)
      BY DEF Overrun
    <3> DEFINE k == Least(Len(Marker), RunLimit)
    <3>3. k \in 0 .. Len(Marker)
      BY Limits, MarksAre
    <3> HIDE DEF k
    <3>4. m \in Seq(Syms) /\ \A i \in 1 .. Len(m) : m[i] = "M"
      <4>1. First(Marker, k) \in Seq(Syms) /\ Len(First(Marker, k)) = k /\ \A i \in 1 .. k : First(Marker, k)[i] = Marker[i]
        BY <3>3, MarksAre, Parts
      <4>2. \A i \in 1 .. k : Marker[i] = "M"
        BY <3>3, MarksAre
      <4>3. QED
        BY <4>1, <4>2 DEF k
    <3> HIDE DEF m, a, v, r
    <3>5. Sound(m, "s") /\ Clean(m) /\ \A i \in 1 .. Len(m) : m[i] \notin Secret
      <4>1. \A i \in 1 .. Len(m) : m[i] \notin Secret
        BY <3>4 DEF Secret
      <4>2. QED
        BY <3>4, <4>1, CleanIfBare DEF Sound
    <3>6. GoodSt(a) /\ a \in Sts /\ a.out \in Seq(Syms) /\ Clean(a.out) /\ Sound(a.out, "s")
      BY <2>1 DEF Ran, GoodSt, Sts
    <3>7. Clean(a.out \o m)
      <4> DEFINE o == a.out
      <4>1. o \in Seq(Syms) /\ Clean(o)
        BY <3>6
      <4>2. m = << >> \/ m[1] \notin Secret
        <5>1. Len(m) \in Nat /\ (Len(m) = 0 => m = << >>)
          BY <3>4, Parts
        <5>2. Len(m) # 0 => 1 \in 1 .. Len(m)
          BY <5>1
        <5>3. QED
          BY <3>5, <5>1, <5>2
      <4> HIDE DEF o
      <4>3. Apart(o, m)
        BY <4>2 DEF Apart
      <4>4. Clean(o \o m)
        BY <3>4, <3>5, <4>1, <4>3, CleanJoin
      <4>5. QED
        BY <4>4 DEF o
    <3>8. Passed(a, m, v)
      BY <3>2, <3>4, <3>5, <3>6, <3>7, SessionIs
    <3>9. v \in Sts /\ v.sink \in Sinks /\ v.sink.held = a.sink.held /\ v = [out |-> v.out, sink |-> v.sink]
      BY <3>8 DEF Passed, Sts
    <3> DEFINE b == [[v.sink EXCEPT !.truncated = TRUE] EXCEPT !.pending = << >>]
    <3>10. r = [out |-> v.out, sink |-> b]
      BY <3>1, <3>9, MarkedIs
    <3>11. << >> \in Seq(Syms) /\ Sound(<< >>, "s")
      BY ShortSound
    <3>12. b \in Sinks /\ b.held = v.sink.held /\ b.pending = << >> /\ b.truncated
      BY <3>9, <3>11 DEF Sinks
    <3> HIDE DEF b
    <3>13. r \in Sts /\ r.out = v.out /\ r.sink = b
      BY <3>9, <3>10, <3>12 DEF Sts
    <3>14. GoodSt(r)
      BY <3>6, <3>8, <3>9, <3>11, <3>12, <3>13 DEF GoodSt, Passed
    <3>15. r.sink.held = st.sink.held /\ ~Live(r)
      BY <2>1, <3>9, <3>12, <3>13 DEF Ran, Live
    <3>16. QED
      BY <3>14, <3>15 DEF Ran, r
  <2>4. QED
    BY <2>2, <2>3
<1>3. QED
  BY <1>1, <1>2

\* What is held may go on from a text that is done with.
Ready(st) == Live(st) => Shut(All(st) \o st.sink.held, Len(All(st)))

WithHeld(st, h) == [st EXCEPT !.sink.held = h]
HeldTo(st, h, a) ==
         /\ GoodSt(a) /\ a.sink.held = h /\ Live(a) = Live(st) /\ All(a) = All(st) /\ a.out = st.out
         /\ \A f \in {"seen", "emitted", "pending", "truncated", "full"} : a.sink[f] = st.sink[f]

LEMMA HeldIs ==
  ASSUME NEW st, GoodSt(st), NEW h \in Seq(Syms), Sound(h, "s")
  PROVE  HeldTo(st, h, WithHeld(st, h))
<1> DEFINE a == WithHeld(st, h)
<1> DEFINE o == st.out
           s == st.sink
           c == [s EXCEPT !.held = h]
<1>1. o \in Seq(Syms) /\ s \in Sinks /\ st = [out |-> o, sink |-> s]
  BY DEF GoodSt, Sts
<1> HIDE DEF o, s
<1>2. a = [st EXCEPT !.sink = c]
  BY <1>1 DEF WithHeld
<1> HIDE DEF a
<1>3. /\ c \in Sinks /\ c.held = h
      /\ \A f \in {"seen", "emitted", "pending", "truncated", "full"} : c[f] = s[f]
  BY <1>1 DEF Sinks
<1> HIDE DEF c
<1>4. a = [out |-> o, sink |-> c]
  BY <1>1, <1>2
<1>5. a.out = st.out /\ a.sink = c /\ st.sink = s /\ a \in Sts
  BY <1>1, <1>3, <1>4 DEF Sts
<1>6. GoodSt(a)
  BY <1>3, <1>5 DEF GoodSt
<1>7. Live(a) = Live(st) /\ All(a) = All(st)
  BY <1>3, <1>5 DEF Live, Working, All
<1>8. QED
  BY <1>3, <1>5, <1>6, <1>7 DEF HeldTo, a

LEMMA WriteIs ==
  ASSUME NEW st, GoodSt(st), Ready(st), NEW t \in Seq(Syms), Sound(t, "none")
  PROVE  GoodSt(SinkWrite(st, t)) /\ Ready(SinkWrite(st, t))
<1> DEFINE u == withoutTurnSentinel(t)
           v == st.sink.held \o u
           d == Drain(v, FALSE)
           a == WithHeld(st, d.held)
           r == SinkWrite(st, t)
<1>1. CASE t = << >> \/ st.sink.truncated \/ st.sink.full
  <2>1. r = st
    BY <1>1 DEF SinkWrite
  <2>2. QED
    BY <2>1
<1>2. CASE ~(t = << >> \/ st.sink.truncated \/ st.sink.full)
  <2>1. r = AppendRun(a, d.out)
    BY <1>2 DEF SinkWrite, WithHeld
  <2>2. u \in Seq(Syms) /\ Sound(u, "s")
    BY WithoutSound DEF withoutTurnSentinel
  <2>3. st.sink.held \in Seq(Syms) /\ Sound(st.sink.held, "s") /\ st.out \in Seq(Syms) /\ st.sink.pending \in Seq(Syms)
    BY DEF GoodSt, Sts, Sinks
  <2> HIDE DEF u
  <2>4. v \in Seq(Syms) /\ Sound(v, "s")
    BY <2>2, <2>3, Joined, SoundJoin
  <2>5. Live(st) => Shut(All(st) \o v, Len(All(st)))
    <3>1. SUFFICES ASSUME Live(st) PROVE Shut(All(st) \o v, Len(All(st)))
      OBVIOUS
    <3> DEFINE w == All(st)
               h == st.sink.held
               x == w \o h
    <3>2. w \in Seq(Syms)
      BY <2>3, Joined DEF All
    <3>3. h \in Seq(Syms) /\ Shut(x, Len(w))
      BY <2>3, <3>1 DEF Ready
    <3> HIDE DEF w, h
    <3>4. x \in Seq(Syms) /\ Len(x) = Len(w) + Len(h) /\ Len(w) \in Nat /\ Len(h) \in Nat
      BY <3>2, <3>3, Joined, Parts
    <3>5. Len(w) <= Len(x)
      BY <3>4
    <3>6. x \o u = w \o (h \o u)
      BY <2>2, <3>2, <3>3, JoinedThrice
    <3> HIDE DEF x
    <3>7. Shut(x \o u, Len(w))
      BY <2>2, <3>3, <3>4, <3>5, ShutGrows
    <3>8. QED
      BY <3>6, <3>7 DEF w, h
  <2> HIDE DEF v
  <2>6. d \in Drained /\ Sound(d.out, "s") /\ Sound(d.held, "s")
    BY <2>4, DrainIsSound
  <2>7. d.out \in Seq(Syms) /\ d.held \in Seq(Syms)
    BY <2>6 DEF Drained
  <2>8. Live(st) => Shut((All(st) \o d.out) \o d.held, Len(All(st)) + Len(d.out))
    <3>1. SUFFICES ASSUME Live(st) PROVE Shut((All(st) \o d.out) \o d.held, Len(All(st)) + Len(d.out))
      OBVIOUS
    <3> DEFINE w == All(st)
    <3>2. w \in Seq(Syms)
      BY <2>3, Joined DEF All
    <3> HIDE DEF w
    <3>3. Shut(w \o v, Len(w))
      BY <2>5, <3>1 DEF w
    <3>4. Settled(w, d, FALSE)
      BY <2>4, <3>2, <3>3, DrainSettles
    <3>5. QED
      BY <3>4 DEF Settled, w
  <2> HIDE DEF d
  <2>9. GoodSt(a) /\ a.sink.held = d.held /\ Live(a) = Live(st) /\ All(a) = All(st)
    <3> DEFINE g == d.held
    <3>1. g \in Seq(Syms) /\ Sound(g, "s") /\ a = WithHeld(st, g)
      BY <2>6, <2>7
    <3> HIDE DEF g, a
    <3>2. GoodSt(a) /\ a.sink.held = g /\ Live(a) = Live(st) /\ All(a) = All(st)
      BY <3>1, HeldIs DEF HeldTo
    <3>3. QED
      BY <3>2 DEF g
  <2> HIDE DEF a
  <2> DEFINE e == d.out
             h == d.held
  <2>10. e \in Seq(Syms) /\ h \in Seq(Syms) /\ Sound(e, "s")
    BY <2>6, <2>7
  <2>11. Live(a) => Shut((All(a) \o e) \o h, Len(All(a)) + Len(e))
    BY <2>8, <2>9
  <2>12. All(a) \in Seq(Syms)
    BY <2>9, Joined DEF All, GoodSt, Sts, Sinks
  <2> HIDE DEF e, h
  <2>13. Live(a) => Clean(All(a) \o e) /\ Len(All(a) \o e) = Len(All(a)) + Len(e)
    <3>1. SUFFICES ASSUME Live(a) PROVE Clean(All(a) \o e) /\ Len(All(a) \o e) = Len(All(a)) + Len(e)
      OBVIOUS
    <3> DEFINE w == All(a)
               x == w \o e
    <3>2. w \in Seq(Syms)
      BY <2>12
    <3> HIDE DEF w
    <3>3. x \in Seq(Syms) /\ Len(x) = Len(w) + Len(e)
      BY <2>10, <3>2, Joined
    <3>4. Shut(x \o h, Len(x))
      BY <2>11, <3>1, <3>3 DEF w
    <3> HIDE DEF x
    <3>5. Clean(x)
      BY <2>10, <3>3, <3>4, ShutIsClean
    <3>6. QED
      BY <3>3, <3>5 DEF x, w
  <2>14. Ran(a, e, AppendRun(a, e))
    BY <2>9, <2>10, <2>13, RunIs
  <2>15. r = AppendRun(a, e)
    BY <2>1 DEF e
  <2> HIDE DEF r
  <2>16. Ran(a, e, r)
    BY <2>14, <2>15
  <2>17. Ready(r)
    <3>1. SUFFICES ASSUME Live(r) PROVE Shut(All(r) \o r.sink.held, Len(All(r)))
      BY DEF Ready
    <3>2. Live(a) /\ All(r) = All(a) \o e /\ r.sink.held = h
      BY <2>9, <2>16, <3>1 DEF Ran, h
    <3>3. QED
      BY <2>11, <2>13, <3>2
  <2>18. QED
    BY <2>16, <2>17 DEF Ran, r
<1>3. QED
  BY <1>1, <1>2

LEMMA CloseIs ==
  ASSUME NEW st, GoodSt(st), Ready(st)
  PROVE  GoodSt(SinkClose(st))
<1> DEFINE v == st.sink.held
           d == Drain(v, TRUE)
           a == WithHeld(st, << >>)
           last == IF st.sink.truncated \/ st.sink.full THEN st ELSE AppendRun(a, d.out)
<1>1. SinkClose(st) = IF last.sink.truncated THEN last ELSE AppendSession(last, last.sink.pending)
  BY DEF SinkClose, WithHeld
<1>2. GoodSt(last) /\ (Live(last) => Clean(All(last)))
  <2>1. CASE st.sink.truncated \/ st.sink.full
    <3>1. last = st /\ ~Live(st)
      BY <2>1 DEF Live, Working
    <3> HIDE DEF last
    <3>2. QED
      BY <3>1
  <2>2. CASE ~(st.sink.truncated \/ st.sink.full)
    <3>1. last = AppendRun(a, d.out)
      BY <2>2
    <3>2. v \in Seq(Syms) /\ Sound(v, "s") /\ All(st) \in Seq(Syms)
      BY Joined DEF GoodSt, Sts, Sinks, All
    <3>3. Live(st) => Shut(All(st) \o v, Len(All(st)))
      BY DEF Ready
    <3> HIDE DEF v, last
    <3>4. d \in Drained /\ Sound(d.out, "s")
      BY <3>2, DrainIsSound
    <3>5. Live(st) => Clean(All(st) \o d.out)
      <4>1. SUFFICES ASSUME Live(st) PROVE Clean(All(st) \o d.out)
        OBVIOUS
      <4> DEFINE w == All(st)
      <4>2. w \in Seq(Syms) /\ Shut(w \o v, Len(w))
        BY <3>2, <3>3, <4>1
      <4> HIDE DEF w
      <4>3. Settled(w, d, TRUE)
        BY <3>2, <4>2, DrainSettles
      <4>4. QED
        BY <4>3 DEF Settled, w
    <3> HIDE DEF d
    <3>6. << >> \in Seq(Syms) /\ Sound(<< >>, "s")
      BY ShortSound
    <3>7. GoodSt(a) /\ Live(a) = Live(st) /\ All(a) = All(st)
      BY <3>6, HeldIs DEF HeldTo
    <3> HIDE DEF a
    <3> DEFINE e == d.out
    <3>8. e \in Seq(Syms) /\ Sound(e, "s") /\ (Live(a) => Clean(All(a) \o e))
      BY <3>4, <3>5, <3>7 DEF Drained
    <3> HIDE DEF e
    <3>9. Ran(a, e, AppendRun(a, e))
      BY <3>7, <3>8, RunIs
    <3>10. Ran(a, e, last)
      BY <3>1, <3>9 DEF e
    <3>11. QED
      BY <3>8, <3>10 DEF Ran
  <2>3. QED
    BY <2>1, <2>2
<1> HIDE DEF last
<1>3. CASE last.sink.truncated
  BY <1>1, <1>2, <1>3
<1>4. CASE ~last.sink.truncated
  <2> DEFINE p == last.sink.pending
             r == AppendSession(last, p)
  <2>1. last \in Sts /\ p \in Seq(Syms) /\ Sound(p, "s") /\ Sound(last.out, "s") /\ Clean(last.out)
    BY <1>2 DEF GoodSt, Sts, Sinks
  <2>2. Working(last) => Clean(last.out \o p)
    BY <1>2, <1>4 DEF Live, All
  <2> HIDE DEF p
  <2>3. Passed(last, p, r)
    BY <2>1, <2>2, SessionIs
  <2>4. SinkClose(st) = r
    BY <1>1, <1>4 DEF p
  <2> HIDE DEF r
  <2>5. r.sink.held = last.sink.held /\ r.sink.pending = last.sink.pending /\ r \in Sts /\ Sound(r.out, "s") /\ Clean(r.out)
    BY <2>3 DEF Passed
  <2>6. GoodSt(r)
    BY <1>2, <2>5 DEF GoodSt
  <2>7. QED
    BY <2>4, <2>6
<1>5. QED
  BY <1>3, <1>4

-----------------------------------------------------------------------------
\* The projectors write text.
Shaped(w) == w.out \in Seq(Plain) /\ w = [out |-> w.out, proj |-> w.proj]

LEMMA ShapedSet ==
  ASSUME NEW w, Shaped(w), NEW x
  PROVE  Shaped([w EXCEPT !.proj = x])
<1> DEFINE o == w.out
           p == w.proj
           v == [w EXCEPT !.proj = x]
<1>1. w = [out |-> o, proj |-> p] /\ o \in Seq(Plain)
  BY DEF Shaped
<1> HIDE DEF o, p
<1>2. v = [out |-> o, proj |-> x]
  BY <1>1
<1> HIDE DEF v
<1>3. Shaped(v)
  BY <1>1, <1>2 DEF Shaped
<1>4. QED
  BY <1>3 DEF v

LEMMA WroteIs ==
  ASSUME NEW w, Shaped(w), NEW t \in Seq(Plain)
  PROVE  Shaped(Wrote(w, t))
<1> DEFINE o == w.out
           p == w.proj
           v == Wrote(w, t)
<1>1. w = [out |-> o, proj |-> p] /\ o \in Seq(Plain)
  BY DEF Shaped
<1> HIDE DEF o, p
<1> DEFINE z == o \o t
<1>4. z \in Seq(Plain) /\ v = [w EXCEPT !.out = z]
  BY <1>1, PlainIs DEF Wrote
<1> HIDE DEF z
<1>2. v = [out |-> z, proj |-> p] /\ z \in Seq(Plain)
  BY <1>1, <1>4
<1> HIDE DEF v
<1>3. Shaped(v)
  BY <1>2 DEF Shaped
<1>5. QED
  BY <1>3 DEF v

LEMMA WriteTextIs ==
  ASSUME NEW w, Shaped(w), NEW t \in Seq(Plain)
  PROVE  Shaped(WriteText(w, t))
<1> DEFINE a == Wrote(w, t)
           b == [a EXCEPT !.proj = [@ EXCEPT !.text = TRUE]]
           c == [b EXCEPT !.proj = [@ EXCEPT !.projected = TRUE]]
           d == [c EXCEPT !.proj = [@ EXCEPT !.newline = (Last(t) = "n")]]
<1>1. WriteText(w, t) = d
  BY DEF WriteText
<1>2. Shaped(a)
  BY WroteIs
<1> HIDE DEF a
<1>3. Shaped(b)
  BY <1>2, ShapedSet
<1> HIDE DEF b
<1>4. Shaped(c)
  BY <1>3, ShapedSet
<1> HIDE DEF c
<1>5. Shaped(d)
  BY <1>4, ShapedSet
<1>6. QED
  BY <1>1, <1>5

LEMMA FinishIs ==
  ASSUME NEW w, Shaped(w)
  PROVE  Shaped(FinishMessage(w))
<1> DEFINE t == IF w.proj.text /\ ~w.proj.newline THEN <<"n">> ELSE << >>
           a == Wrote(w, t)
           b == [a EXCEPT !.proj = [@ EXCEPT !.text = FALSE]]
           c == [b EXCEPT !.proj = [@ EXCEPT !.newline = FALSE]]
<1>1. FinishMessage(w) = c
  BY DEF FinishMessage
<1>2. t \in Seq(Plain)
  <2>1. t = <<"n">> \/ t = << >>
    OBVIOUS
  <2>2. <<"n">> \in Seq(Plain) /\ << >> \in Seq(Plain)
    BY DEF Plain, Syms, Bytes
  <2> HIDE DEF t
  <2>3. QED
    BY <2>1, <2>2
<1> HIDE DEF t
<1>3. Shaped(a)
  BY <1>2, WroteIs
<1> HIDE DEF a
<1>4. Shaped(b)
  BY <1>3, ShapedSet
<1> HIDE DEF b
<1>5. Shaped(c)
  BY <1>4, ShapedSet
<1>6. QED
  BY <1>1, <1>5

LEMMA OpenIs ==
  ASSUME NEW w, Shaped(w), NEW id
  PROVE  Shaped(OpenMessage(w, id))
<1> DEFINE a == FinishMessage(w)
           b == [a EXCEPT !.proj = [@ EXCEPT !.open = id]]
<1>1. Shaped(a)
  BY FinishIs
<1>2. OpenMessage(w, id) = IF w.proj.open = id THEN w ELSE b
  BY DEF OpenMessage
<1> HIDE DEF a
<1>3. Shaped(b)
  BY <1>1, ShapedSet
<1>4. QED
  BY <1>2, <1>3

LEMMA LinedIs == ASSUME NEW t \in Seq(Plain) PROVE Lined(t) \in Seq(Plain) /\ Append(t, "n") \in Seq(Plain)
<1>1. "n" \in Plain
  BY DEF Plain, Syms, Bytes
<1>2. QED
  BY <1>1 DEF Lined

LEMMA ClaudeIs ==
  ASSUME NEW w, Shaped(w), NEW r, r.text \in Seq(Plain)
  PROVE  Shaped(ProjectClaude(w, r))
<1> DEFINE a == WriteText(w, r.text)
<1>1. Shaped(a) /\ Shaped(FinishMessage(w))
  BY WriteTextIs, FinishIs
<1>2. Shaped(FinishMessage(a))
  <2> HIDE DEF a
  <2>1. QED
    BY <1>1, FinishIs
<1>3. QED
  BY <1>1, <1>2 DEF ProjectClaude

LEMMA MiniMaxIs ==
  ASSUME NEW w, Shaped(w), NEW r, r.text \in Seq(Plain)
  PROVE  Shaped(ProjectMiniMax(w, r))
<1> DEFINE a == OpenMessage(w, r.id)
           b == WriteText(a, r.text)
           once == IF r.id \in w.proj.streamed THEN w ELSE b
           ended == [once EXCEPT !.proj.streamed = @ \ {r.id}]
           shut == [ended EXCEPT !.proj.open = NoItem]
           more == [b EXCEPT !.proj.streamed = @ \cup {r.id}]
<1>1. ProjectMiniMax(w, r) =
         CASE r.kind = "delta"     -> more
           [] r.kind = "completed" -> IF ended.proj.open = r.id THEN FinishMessage(shut) ELSE ended
           [] r.kind = "stop"      -> FinishMessage(w)
           [] OTHER                -> w
  BY DEF ProjectMiniMax
<1>2. Shaped(a)
  BY OpenIs
<1> HIDE DEF a
<1>3. Shaped(b)
  BY <1>2, WriteTextIs
<1> HIDE DEF b
<1>4. Shaped(once)
  BY <1>3
<1> HIDE DEF once
<1>5. Shaped(ended)
  <2> DEFINE x == [once.proj EXCEPT !.streamed = @ \ {r.id}]
  <2>1. ended = [once EXCEPT !.proj = x]
    OBVIOUS
  <2> HIDE DEF x
  <2>2. Shaped([once EXCEPT !.proj = x])
    BY <1>4, ShapedSet
  <2>3. QED
    BY <2>1, <2>2
<1>6. Shaped(more)
  <2> DEFINE x == [b.proj EXCEPT !.streamed = @ \cup {r.id}]
  <2>1. more = [b EXCEPT !.proj = x]
    OBVIOUS
  <2> HIDE DEF x
  <2>2. Shaped([b EXCEPT !.proj = x])
    BY <1>3, ShapedSet
  <2>3. QED
    BY <2>1, <2>2
<1> HIDE DEF ended, more
<1>7. Shaped(shut)
  <2> DEFINE x == [ended.proj EXCEPT !.open = NoItem]
  <2>1. shut = [ended EXCEPT !.proj = x]
    OBVIOUS
  <2> HIDE DEF x
  <2>2. Shaped([ended EXCEPT !.proj = x])
    BY <1>5, ShapedSet
  <2>3. QED
    BY <2>1, <2>2
<1> HIDE DEF shut
<1>8. Shaped(FinishMessage(shut)) /\ Shaped(FinishMessage(w))
  BY <1>7, FinishIs
<1>9. QED
  BY <1>1, <1>5, <1>6, <1>8

LEMMA CodexIs ==
  ASSUME NEW w, Shaped(w), NEW r, r.text \in Seq(Plain)
  PROVE  Shaped(ProjectCodex(w, r))
<1>1. <<"O">> \in Seq(Plain)
  BY DEF Plain, Syms
<1> DEFINE t == Lined(r.text)
<1>2. t \in Seq(Plain)
  BY LinedIs
<1> HIDE DEF t
<1>3. Shaped(Wrote(w, t)) /\ Shaped(Wrote(w, <<"O">>))
  BY <1>1, <1>2, WroteIs
<1>4. QED
  BY <1>3 DEF ProjectCodex, t

LEMMA ProjectIs ==
  ASSUME NEW r, r.text \in Seq(Plain), NEW newline
  PROVE  Shaped(Project(r, newline))
<1> DEFINE w == [out |-> << >>, proj |-> proj]
           t == IF newline THEN Append(r.text, "n") ELSE r.text
<1>1. Shaped(w)
  <2>1. w.out = << >> /\ w.proj = proj /\ << >> \in Seq(Plain)
    OBVIOUS
  <2>2. QED
    BY <2>1 DEF Shaped
<1>2. t \in Seq(Plain)
  BY LinedIs
<1>3. Project(r, newline) =
        IF cli = "codex" THEN ProjectCodex(w, r)
        ELSE IF r.kind = "diag" THEN Wrote(w, t)
        ELSE IF cli = "claude" THEN ProjectClaude(w, r)
        ELSE ProjectMiniMax(w, r)
  BY DEF Project
<1> HIDE DEF w, t
<1>4. Shaped(ProjectCodex(w, r)) /\ Shaped(Wrote(w, t)) /\ Shaped(ProjectClaude(w, r)) /\ Shaped(ProjectMiniMax(w, r))
  BY <1>1, <1>2, CodexIs, WroteIs, ClaudeIs, MiniMaxIs
<1>5. QED
  BY <1>3, <1>4

LEMMA TextsAre ==
  /\ \A t \in Texts \cup Pieces \cup Asked : t \in Seq(Plain)
  /\ \A r \in Records : r.text \in Seq(Plain)
  /\ Cut.text \in Seq(Plain) /\ NoLine.text \in Seq(Plain) /\ Dropped.text \in Seq(Plain)
<1>1. Bytes \subseteq Plain
  BY DEF Plain, Syms, Bytes
<1>2. \A t \in Texts \cup Pieces \cup Asked : t \in Seq(Bytes)
  BY PipelineAssumption
<1>3. ASSUME NEW t \in Seq(Bytes) PROVE t \in Seq(Plain)
  BY <1>1
<1>4. \A t \in Texts \cup Pieces \cup Asked : t \in Seq(Plain)
  BY <1>2, <1>3
<1>5. ASSUME NEW k, NEW i, NEW t \in Seq(Plain) PROVE Record(k, i, t).text \in Seq(Plain)
  BY DEF Record
<1>6. << >> \in Seq(Plain)
  OBVIOUS
<1>7. ASSUME NEW r \in Records
      PROVE  \E k, i : r = Record(k, i, << >>) \/ \E t \in Texts \cup Pieces : r = Record(k, i, t)
  <2> DEFINE A == {Record("diag", NoItem, t) : t \in Pieces} \cup {Record("other", NoItem, << >>)}
             B == {Record(k, NoItem, t) : k \in {"delta", "result"}, t \in Texts} \cup {Record("stop", NoItem, << >>)}
             C == {Record(k, i, t) : k \in {"delta", "completed"}, i \in Items, t \in Texts}
                    \cup {Record("stop", NoItem, << >>)}
             D == {Record("message", NoItem, t) : t \in Texts} \cup {Record("oversized", NoItem, << >>)}
  <2>1. Records = A \cup (CASE cli = "claude" -> B [] cli = "minimax-code" -> C [] cli = "codex" -> D [] OTHER -> {})
    BY DEF Records
  <2>2. r \in A \/ r \in B \/ r \in C \/ r \in D
    <3> HIDE DEF A, B, C, D
    <3>1. QED
      BY <2>1
  <2>3. CASE r \in A
    BY <2>3, Zenon
  <2>4. CASE r \in B
    <3>1. (\E k \in {"delta", "result"}, t \in Texts : r = Record(k, NoItem, t)) \/ r = Record("stop", NoItem, << >>)
      BY <2>4
    <3> HIDE DEF A, B, C, D
    <3>2. QED
      BY <3>1
  <2>5. CASE r \in C
    <3>1. \/ \E k \in {"delta", "completed"}, i \in Items, t \in Texts : r = Record(k, i, t)
          \/ r = Record("stop", NoItem, << >>)
      BY <2>5
    <3> HIDE DEF A, B, C, D
    <3>2. QED
      BY <3>1
  <2>6. CASE r \in D
    BY <2>6, Zenon
  <2>7. QED
    BY <2>2, <2>3, <2>4, <2>5, <2>6
<1>8. \A r \in Records : r.text \in Seq(Plain)
  BY <1>4, <1>5, <1>6, <1>7
<1>9. Cut.text \in Seq(Plain) /\ NoLine.text \in Seq(Plain) /\ Dropped.text \in Seq(Plain)
  <2>1. <<"a", "b">> \in Seq(Plain)
    BY DEF Plain, Syms, Bytes
  <2>2. QED
    BY <1>6, <2>1 DEF Cut, NoLine, Dropped, Record
<1>10. QED
  BY <1>4, <1>8, <1>9

-----------------------------------------------------------------------------
\* The invariant.
PipeTypes ==
    /\ cli \in CLIs \cup {"proxy"}
    /\ line.text \in Seq(Plain)
    /\ half \in [{"stdout", "stderr"} -> Seq(Plain)]
    /\ Now \in Sts
    /\ arrived \in Seq(Plain)

\* What an agent's run has not shown yet may follow what it has shown.
AgentInv == cli # "proxy" => GoodSt(Now) /\ (phase = "run" => Ready(Now))

\* What the proxy holds may follow what it has passed on.
ProxyInv ==
    cli = "proxy" =>
        /\ phase # "idle" /\ line = NoLine /\ Len(arrived) <= ProxyLimit
        /\ phase = "run" => Shut(out \o sink.held, Len(out))

PipeInv == PipeTypes /\ Clean(out) /\ AgentInv /\ ProxyInv

LEMMA NowIs ==
  ASSUME NEW st \in Sts, Set(st)
  PROVE  Now' = st
<1>1. st = [out |-> st.out, sink |-> st.sink]
  BY DEF Sts
<1>2. QED
  BY <1>1 DEF Set, Now

LEMMA AgentStep ==
  ASSUME PipeInv, cli # "proxy", UNCHANGED cli, line'.text \in Seq(Plain), half' \in [{"stdout", "stderr"} -> Seq(Plain)],
         arrived' \in Seq(Plain), NEW st, GoodSt(st), Set(st), phase' = "run" => Ready(st)
  PROVE  PipeInv'
<1>1. Now' = st /\ st \in Sts
  BY NowIs DEF GoodSt
<1>2. GoodSt(Now') /\ (phase' = "run" => Ready(Now'))
  BY <1>1
<1>3. PipeTypes'
  BY <1>1 DEF PipeInv, PipeTypes
<1>4. Clean(out')
  BY <1>1 DEF GoodSt, Set
<1>5. AgentInv' /\ ProxyInv'
  BY <1>2 DEF AgentInv, ProxyInv
<1>6. QED
  BY <1>3, <1>4, <1>5 DEF PipeInv

\* A turn's marker or notice ends in no part of a credential.
Edged(t) == Len(t) >= 1 /\ t[1] \notin Secret /\ t[Len(t)] \notin Secret
Fine(t)  == t \in Seq(Syms) /\ Sound(t, "s") /\ Clean(t)

LEMMA FineJoin ==
  ASSUME NEW x, Fine(x), NEW y, Fine(y), Apart(x, y)
  PROVE  Fine(x \o y)
  BY Joined, SoundJoin, CleanJoin DEF Fine

LEMMA FineOne ==
  ASSUME NEW c \in Syms, c \notin Secret, c \notin {"u", "v", "s"}
  PROVE  Fine(<<c>>) /\ Len(<<c>>) = 1 /\ <<c>>[1] = c /\ Edged(<<c>>)
<1>1. <<c>> \in Seq(Syms) /\ Len(<<c>>) = 1 /\ <<c>>[1] = c
  OBVIOUS
<1>2. Sound(<<c>>, "s")
  BY ShortSound
<1>3. Clean(<<c>>)
  <2>1. \A i \in 1 .. Len(<<c>>) : <<c>>[i] \notin Secret
    BY <1>1
  <2>2. QED
    BY <1>1, <2>1, CleanIfBare
<1>4. QED
  BY <1>1, <1>2, <1>3 DEF Fine, Edged

LEMMA BlockIs ==
  ASSUME Fine(out), NEW t, Fine(t), Edged(t)
  PROVE  /\ Fine(TurnBlock(t))
         /\ ~IsFull(TurnBlock(t)) => TurnBlock(t) # << >> /\ TurnBlock(t)[Len(TurnBlock(t))] \notin Secret
<1> DEFINE newline == out = << >> \/ Last(out) \in {"n", "T", "O", "P", "M", "F"}
           x == IF newline THEN t ELSE <<"n">> \o t
           r == TurnBlock(t)
<1>1. r = AppendBounded(out, x)
  BY DEF TurnBlock
<1>2. t \in Seq(Syms) /\ Len(t) \in Nat /\ Len(t) >= 1 /\ out \in Seq(Syms) /\ Len(out) \in Nat
  BY Parts DEF Fine, Edged
<1>3. Fine(x) /\ Edged(x)
  <2>1. CASE newline
    BY <2>1
  <2>2. CASE ~newline
    <3> DEFINE n == <<"n">>
    <3>1. Fine(n) /\ Len(n) = 1 /\ n[1] = "n" /\ "n" \notin Secret
      <4>1. "n" \in Syms /\ "n" \notin Secret /\ "n" \notin {"u", "v", "s"}
        BY DEF Syms, Bytes, Secret
      <4>2. QED
        BY <4>1, FineOne
    <3>2. x = n \o t
      BY <2>2
    <3> HIDE DEF n, x
    <3>3. Apart(n, t)
      BY DEF Apart, Edged
    <3>4. Fine(x)
      BY <3>1, <3>2, <3>3, FineJoin
    <3>5. n \in Seq(Syms) /\ Len(t) \in 1 .. Len(t) /\ 1 \in 1 .. Len(n)
      BY <1>2, <3>1 DEF Fine
    <3>6. Len(x) = Len(n) + Len(t) /\ x[1] = n[1] /\ x[Len(n) + Len(t)] = t[Len(t)]
      BY <1>2, <3>2, <3>5, Joined
    <3>7. QED
      BY <1>2, <3>1, <3>4, <3>6 DEF Edged
  <2>3. QED
    BY <2>1, <2>2
<1> HIDE DEF x, r
<1>4. x \in Seq(Syms) /\ Len(x) \in Nat /\ Len(x) >= 1
  BY <1>3, Parts DEF Fine, Edged
<1>5. Clean(out \o x)
  <2>1. Apart(out, x)
    BY <1>3 DEF Apart, Edged
  <2>2. Fine(out \o x)
    BY <1>3, <2>1, FineJoin
  <2>3. QED
    BY <2>2 DEF Fine
<1>6. Recorded(out, x, "s", r)
  BY <1>1, <1>3, <1>5, AppendIs DEF Fine
<1>7. ASSUME ~IsFull(r) PROVE r # << >> /\ r[Len(r)] \notin Secret
  <2>1. r = out \o x
    BY <1>6, <1>7 DEF Recorded
  <2>2. Len(r) = Len(out) + Len(x) /\ Len(x) \in 1 .. Len(x) /\ r[Len(out) + Len(x)] = x[Len(x)]
    BY <1>2, <1>4, <2>1, Joined
  <2>3. r[Len(r)] \notin Secret /\ Len(r) >= 1
    BY <1>2, <1>3, <1>4, <2>2 DEF Edged
  <2>4. QED
    BY <2>3
<1>8. Fine(r)
  BY <1>6 DEF Recorded, Fine
<1>9. QED
  BY <1>7, <1>8 DEF r

LEMMA TIs == /\ Fine(<<"T">>) /\ Len(<<"T">>) = 1 /\ <<"T">>[1] = "T" /\ Edged(<<"T">>) /\ "T" \notin Secret
             /\ Fine(<<"P">>) /\ Len(<<"P">>) = 1 /\ <<"P">>[1] = "P" /\ "P" \notin Secret /\ "P" \in Syms
<1>1. "T" \in Syms /\ "T" \notin Secret /\ "T" \notin {"u", "v", "s"}
  BY DEF Syms, Secret
<1>2. "P" \in Syms /\ "P" \notin Secret /\ "P" \notin {"u", "v", "s"}
  BY DEF Syms, Secret
<1>3. QED
  BY <1>1, <1>2, FineOne

\* The text of a prompt between its turn markers.
LEMMA PromptIs ==
  ASSUME NEW q \in Seq(Syms)
  PROVE  LET t == <<"T">> \o Drain(withoutTurnSentinel(Append(Untailed(Runes(q)), "n")), TRUE).out \o <<"T">>
         IN  Fine(t) /\ Edged(t)
<1> DEFINE a == Runes(q)
           b == Untailed(a)
           c == Append(b, "n")
           e == withoutTurnSentinel(c)
           d == Drain(e, TRUE)
           g == d.out
           h == <<"T">> \o g
           t == h \o <<"T">>
<1>1. a \in Seq(Syms) /\ Sound(a, "none") /\ Len(a) \in Nat
  BY RunesSound, Parts
<1> HIDE DEF a
<1>2. b \in Seq(Syms) /\ Sound(b, "none")
  <2>1. CASE a # << >> /\ Last(a) = "n"
    <3> DEFINE k == Len(a) - 1
    <3>1. k \in 0 .. Len(a) /\ k + 1 = Len(a) /\ a[Len(a)] = "n"
      BY <1>1, <2>1 DEF Last
    <3>2. b = First(a, k)
      BY <2>1 DEF Untailed, Front, First
    <3> HIDE DEF k
    <3>3. Sound(First(a, k), "none") /\ First(a, k) \in Seq(Syms)
      BY <1>1, <3>1, SoundFirst, Parts
    <3>4. QED
      BY <3>2, <3>3
  <2>2. CASE ~(a # << >> /\ Last(a) = "n")
    BY <1>1, <2>2 DEF Untailed
  <2>3. QED
    BY <2>1, <2>2
<1> HIDE DEF b
<1>3. c \in Seq(Syms) /\ Sound(c, "none")
  <2>1. c = b \o <<"n">>
    BY <1>2
  <2>2. <<"n">> \in Seq(Syms) /\ Sound(<<"n">>, "none")
    <3>1. "n" \in Syms /\ "n" \notin {"u", "v", "none"}
      BY DEF Syms, Bytes
    <3>2. QED
      BY <3>1, ShortSound
  <2>3. QED
    BY <1>2, <2>1, <2>2, Joined, SoundJoin
<1> HIDE DEF c
<1>4. e \in Seq(Syms) /\ Sound(e, "s")
  BY <1>3, WithoutSound DEF withoutTurnSentinel
<1> HIDE DEF e
<1>5. d \in Drained /\ Sound(d.out, "s")
  BY <1>4, DrainIsSound
<1>6. Clean(d.out)
  <2> DEFINE w == << >>
  <2>1. w \in Seq(Syms) /\ Len(w) = 0
    OBVIOUS
  <2> HIDE DEF w
  <2>2. Shut(w \o e, Len(w))
    BY <2>1 DEF Shut
  <2>3. Settled(w, d, TRUE)
    BY <1>4, <2>1, <2>2, DrainSettles
  <2>4. d.out \in Seq(Syms) /\ Clean(w \o d.out)
    BY <1>5, <2>3 DEF Drained, Settled
  <2> DEFINE x == d.out
  <2>5. x \in Seq(Syms) /\ Clean(w \o x)
    BY <2>4
  <2> HIDE DEF x
  <2>6. w \o x = x
    BY <2>5 DEF w
  <2>7. QED
    BY <2>5, <2>6 DEF x
<1> HIDE DEF d
<1>7. Fine(g) /\ g \in Seq(Syms)
  BY <1>5, <1>6 DEF Fine, Drained
<1> HIDE DEF g
<1> DEFINE m == <<"T">>
<1>8. Fine(m) /\ m \in Seq(Syms) /\ Len(m) = 1 /\ m[1] = "T" /\ "T" \notin Secret /\ h = m \o g /\ t = h \o m
  BY TIs DEF Fine
<1> HIDE DEF m, h, t
<1>9. Fine(h) /\ h \in Seq(Syms) /\ Len(h) \in Nat
  <2>1. Apart(m, g)
    BY <1>8 DEF Apart
  <2>2. Fine(h)
    BY <1>7, <1>8, <2>1, FineJoin
  <2>3. QED
    BY <2>2, Parts DEF Fine
<1>10. Len(h) = 1 + Len(g) /\ h[1] = "T" /\ Len(g) \in Nat
  <2>1. 1 \in 1 .. Len(m)
    BY <1>8
  <2>2. Len(h) = Len(m) + Len(g) /\ h[1] = m[1] /\ Len(g) \in Nat
    <3>1. m \in Seq(Syms) /\ g \in Seq(Syms)
      BY <1>7, <1>8
    <3>2. Len(g) \in Nat
      BY <3>1, Parts
    <3>3. Len(m \o g) = Len(m) + Len(g) /\ \A j \in 1 .. Len(m) : (m \o g)[j] = m[j]
      BY <3>1, Joined, Zenon
    <3>4. h = m \o g
      BY <1>8
    <3>5. QED
      BY <2>1, <3>2, <3>3, <3>4
  <2>3. QED
    BY <1>8, <2>2
<1>11. Fine(t)
  <2>1. Apart(h, m)
    BY <1>8 DEF Apart
  <2>2. QED
    BY <1>8, <1>9, <2>1, FineJoin
<1>12. Edged(t)
  <2>1. 1 \in 1 .. Len(m) /\ 1 \in 1 .. Len(h)
    BY <1>8, <1>10
  <2>2. Len(t) = Len(h) + Len(m) /\ t[1] = h[1] /\ t[Len(h) + 1] = m[1]
    <3>0. h \in Seq(Syms) /\ m \in Seq(Syms)
      BY <1>8, <1>9
    <3>1. Len(h \o m) = Len(h) + Len(m) /\ (h \o m)[1] = h[1]
      BY <2>1, <3>0, Joined
    <3>2. (h \o m)[Len(h) + 1] = m[1]
      BY <2>1, <3>0, Joined
    <3>3. QED
      BY <1>8, <3>1, <3>2
  <2>3. QED
    BY <1>8, <1>9, <1>10, <2>2 DEF Edged
<1>13. QED
  BY <1>11, <1>12 DEF t, h, m, g, d, e, c, b, a

LEMMA NoHalfIs == NoHalf \in [{"stdout", "stderr"} -> Seq(Plain)]
<1>1. << >> \in Seq(Plain)
  OBVIOUS
<1>2. NoHalf = [f \in {"stdout", "stderr"} |-> << >>]
  BY DEF NoHalf
<1>3. QED
  BY <1>1, <1>2

LEMMA PipeStarts == PipeInit => PipeInv
<1>1. SUFFICES ASSUME PipeInit PROVE PipeInv
  OBVIOUS
<1>2. << >> \in Seq(Syms) /\ Sound(<< >>, "s") /\ Clean(<< >>) /\ Len(<< >>) = 0
  BY ShortSound DEF Clean
<1>3. NewSink \in Sinks
  BY <1>2 DEF NewSink, Sinks
<1>4. Now \in Sts
  BY <1>1, <1>2, <1>3 DEF PipeInit, Now, Sts
<1>5. PipeTypes
  BY <1>1, <1>2, <1>4, TextsAre, NoHalfIs, PlainIs DEF PipeInit, PipeTypes
<1>6. AgentInv
  <2>1. cli # "proxy" => phase # "run"
    BY <1>1 DEF PipeInit
  <2>2. GoodSt(Now)
    BY <1>1, <1>2, <1>4 DEF PipeInit, Now, GoodSt, NewSink
  <2>3. QED
    BY <2>1, <2>2 DEF AgentInv
<1>7. ProxyInv
  <2>1. out \o sink.held = << >> /\ Len(out) = 0 /\ Len(arrived) = 0
    BY <1>1, <1>2 DEF PipeInit, NewSink
  <2>2. Shut(out \o sink.held, Len(out))
    BY <2>1 DEF Shut
  <2>3. cli = "proxy" => phase = "run" /\ line = NoLine
    BY <1>1 DEF PipeInit
  <2>4. QED
    BY <2>1, <2>2, <2>3, Limits DEF ProxyInv
<1>8. QED
  BY <1>1, <1>2, <1>5, <1>6, <1>7 DEF PipeInv, PipeInit

LEMMA InvParts ==
  ASSUME PipeInv
  PROVE  /\ out \in Seq(Syms) /\ sink \in Sinks /\ arrived \in Seq(Syms) /\ Now = [out |-> out, sink |-> sink]
         /\ line.text \in Seq(Plain) /\ half.stdout \in Seq(Plain) /\ half.stderr \in Seq(Plain) /\ Clean(out)
         /\ arrived \in Seq(Plain)
         /\ cli # "proxy" => GoodSt(Now) /\ Fine(out) /\ (phase = "run" => Ready(Now))
<1>1. Now = [out |-> out, sink |-> sink] /\ Now \in Sts
  BY DEF Now, PipeInv, PipeTypes
<1>2. out \in Seq(Syms) /\ sink \in Sinks
  BY <1>1 DEF Sts
<1>3. arrived \in Seq(Plain) /\ line.text \in Seq(Plain) /\ half.stdout \in Seq(Plain) /\ half.stderr \in Seq(Plain)
  BY DEF PipeInv, PipeTypes
<1>7. arrived \in Seq(Syms)
  BY <1>3, PlainIs
<1>4. Now.out = out
  BY <1>1
<1>5. cli # "proxy" => GoodSt(Now) /\ Fine(out)
  BY <1>2, <1>4 DEF PipeInv, AgentInv, GoodSt, Fine
<1>6. QED
  BY <1>1, <1>2, <1>3, <1>5, <1>7 DEF PipeInv, AgentInv

LEMMA HalvesAre ==
  ASSUME NEW t \in Seq(Plain)
  PROVE  HalfOf(t) \in Seq(Plain) /\ Whole(t) \in Seq(Plain) /\ Sound(Whole(t), "none")
<1>1. "u" \in Plain /\ Len(t) \in Nat /\ t \in Seq(Syms)
  BY Parts, PlainIs DEF Plain, Syms, Bytes
<1>2. HalfOf(t) \in Seq(Plain)
  BY <1>1 DEF HalfOf
<1> DEFINE k == Len(t) - Len(HalfOf(t))
<1>3. k \in 0 .. Len(t)
  BY <1>1 DEF HalfOf
<1> HIDE DEF k
<1> DEFINE f == First(t, k)
<1>4. f \in Seq(Plain) /\ f \in Seq(Syms)
  BY <1>3, PlainIs
<1>5. Whole(t) = Runes(f)
  BY DEF Whole, k
<1> HIDE DEF f
<1>6. Runes(f) \in Seq(Plain) /\ Sound(Runes(f), "none")
  BY <1>4, RunesSound, RunesPlain
<1>7. QED
  BY <1>2, <1>5, <1>6

\* Text that a file descriptor passes on.
LEMMA PassIs ==
  ASSUME PipeInv, cli # "proxy", phase = "run", UNCHANGED <<cli, phase>>, line'.text \in Seq(Plain),
         NEW fd \in {"stdout", "stderr"}, NEW t \in Seq(Plain), Pass(fd, t)
  PROVE  /\ PipeInv'
         /\ \E w \in Seq(Plain) : Sound(w, "none") /\ arrived' = arrived \o w /\ Set(SinkWrite(Now, w))
<1> DEFINE all == half[fd] \o t
           w == Whole(all)
           st == SinkWrite(Now, w)
<1>1. /\ half' = [half EXCEPT ![fd] = HalfOf(all)] /\ arrived' = arrived \o w /\ Set(st)
  BY DEF Pass
<1>2. half[fd] \in Seq(Plain)
  BY DEF PipeInv, PipeTypes
<1>3. all \in Seq(Plain)
  BY <1>2, PlainIs
<1> HIDE DEF all
<1>4. HalfOf(all) \in Seq(Plain) /\ w \in Seq(Plain) /\ Sound(w, "none")
  BY <1>3, HalvesAre
<1> HIDE DEF w
<1>9. w \in Seq(Syms)
  BY <1>4, PlainIs
<1>5. GoodSt(st) /\ Ready(st)
  BY <1>4, <1>9, InvParts, WriteIs
<1>10. \E x \in Seq(Plain) : Sound(x, "none") /\ arrived' = arrived \o x /\ Set(SinkWrite(Now, x))
  BY <1>1, <1>4
<1> HIDE DEF st
<1>6. half' \in [{"stdout", "stderr"} -> Seq(Plain)]
  BY <1>1, <1>4 DEF PipeInv, PipeTypes
<1>7. arrived' \in Seq(Plain)
  BY <1>1, <1>4, InvParts, PlainIs
<1>8. PipeInv'
  BY <1>1, <1>5, <1>6, <1>7, AgentStep
<1>11. QED
  BY <1>8, <1>10

LEMMA ArrivesKeeps ==
  ASSUME PipeInv, NEW r \in Records, StdoutArrives(r)
  PROVE  PipeInv'
<1>1. cli # "proxy" /\ phase = "run" /\ UNCHANGED <<cli, phase>> /\ r.text \in Seq(Plain)
  BY TextsAre DEF StdoutArrives, Writing
<1>2. CASE r.kind = "oversized"
  <2> DEFINE t == Project(r, FALSE).out
  <2>1. line' = Dropped /\ Pass("stdout", t)
    BY <1>2 DEF StdoutArrives
  <2>2. t \in Seq(Plain) /\ line'.text \in Seq(Plain)
    BY <1>1, <2>1, ProjectIs, TextsAre DEF Shaped
  <2> HIDE DEF t
  <2>3. QED
    BY <1>1, <2>1, <2>2, PassIs
<1>3. CASE r.kind # "oversized"
  <2>1. line' = r /\ UNCHANGED <<half, arrived, out, sink>>
    BY <1>3 DEF StdoutArrives
  <2>2. Set(Now) /\ half' \in [{"stdout", "stderr"} -> Seq(Plain)] /\ arrived' \in Seq(Plain) /\ line'.text \in Seq(Plain)
    BY <1>1, <2>1 DEF Set, Now, PipeInv, PipeTypes
  <2>3. GoodSt(Now) /\ Ready(Now)
    BY <1>1, InvParts
  <2>4. QED
    BY <1>1, <2>2, <2>3, AgentStep
<1>4. QED
  BY <1>2, <1>3

LEMMA LineEndsKeeps ==
  ASSUME PipeInv, LineEnds
  PROVE  PipeInv'
<1>1. cli # "proxy" /\ phase = "run" /\ UNCHANGED <<cli, phase>> /\ line' = NoLine
  BY DEF LineEnds, PipeInv, ProxyInv
<1> DEFINE t == Project(line, TRUE).out
<1>2. Pass("stdout", t)
  BY DEF LineEnds
<1>3. t \in Seq(Plain) /\ line'.text \in Seq(Plain)
  BY <1>1, ProjectIs, TextsAre, InvParts DEF Shaped
<1> HIDE DEF t
<1>4. QED
  BY <1>1, <1>2, <1>3, PassIs

LEMMA StderrKeeps ==
  ASSUME PipeInv, NEW t \in Pieces, Stderr(t)
  PROVE  PipeInv'
<1>1. cli # "proxy" /\ phase = "run" /\ UNCHANGED <<cli, phase, line>> /\ t \in Seq(Plain) /\ Pass("stderr", t)
  BY TextsAre DEF Stderr, Writing
<1>2. line'.text \in Seq(Plain)
  BY <1>1, InvParts
<1>3. QED
  BY <1>1, <1>2, PassIs

LEMMA CloseKeeps ==
  ASSUME PipeInv, NEW r \in {line, Cut}, CloseRun(r)
  PROVE  /\ PipeInv'
         /\ \E x \in Seq(Plain) : Sound(x, "none") /\ arrived' = arrived \o x /\ Set(SinkClose(SinkWrite(Now, x)))
<1> DEFINE w == Project(r, FALSE)
           exposed == IF cli = "codex" THEN w ELSE FinishMessage(w)
           x == half.stdout \o exposed.out
           y == half.stderr
           rest == Runes(x) \o Runes(y)
           a == SinkWrite(Now, rest)
           st == SinkClose(a)
<1>1. /\ phase = "run" /\ cli # "proxy" /\ phase' = "closed" /\ arrived' = arrived \o rest /\ Set(st)
      /\ line' = NoLine /\ half' = NoHalf /\ UNCHANGED cli
  BY DEF CloseRun
<1>2. r.text \in Seq(Plain)
  BY TextsAre, InvParts
<1>3. Shaped(w)
  BY <1>2, ProjectIs
<1> HIDE DEF w
<1>4. Shaped(exposed)
  BY <1>3, FinishIs
<1> HIDE DEF exposed
<1>5. x \in Seq(Plain) /\ y \in Seq(Plain)
  BY <1>4, InvParts, PlainIs DEF Shaped
<1> HIDE DEF x, y
<1>6. rest \in Seq(Plain) /\ rest \in Seq(Syms) /\ Sound(rest, "none")
  <2> DEFINE p == Runes(x)
             q == Runes(y)
  <2>1. p \in Seq(Plain) /\ q \in Seq(Plain) /\ Sound(p, "none") /\ Sound(q, "none")
    BY <1>5, RunesSound, RunesPlain, PlainIs
  <2> HIDE DEF p, q
  <2>2. p \o q \in Seq(Plain) /\ p \o q \in Seq(Syms) /\ Sound(p \o q, "none")
    <3>1. p \in Seq(Syms) /\ q \in Seq(Syms)
      BY <2>1, PlainIs
    <3>2. p \o q \in Seq(Plain)
      BY <2>1, PlainIs
    <3>3. p \o q \in Seq(Syms) /\ Sound(p \o q, "none")
      BY <2>1, <3>1, Joined, SoundJoin
    <3>4. QED
      BY <3>2, <3>3
  <2>3. QED
    BY <2>2 DEF p, q
<1> HIDE DEF rest
<1>12. \E z \in Seq(Plain) : Sound(z, "none") /\ arrived' = arrived \o z /\ Set(SinkClose(SinkWrite(Now, z)))
  BY <1>1, <1>6
<1>7. GoodSt(a) /\ Ready(a)
  BY <1>1, <1>6, InvParts, WriteIs
<1> HIDE DEF a
<1>8. GoodSt(st)
  BY <1>7, CloseIs
<1> HIDE DEF st
<1>9. half' \in [{"stdout", "stderr"} -> Seq(Plain)]
  BY <1>1, NoHalfIs
<1>10. arrived' \in Seq(Plain) /\ line'.text \in Seq(Plain) /\ phase' # "run"
  BY <1>1, <1>6, InvParts, PlainIs, TextsAre
<1>11. PipeInv'
  BY <1>1, <1>8, <1>9, <1>10, AgentStep
<1>13. QED
  BY <1>11, <1>12

LEMMA EndTurnKeeps ==
  ASSUME PipeInv, EndTurn
  PROVE  PipeInv'
<1> DEFINE o == TurnBlock(<<"T">>)
           st == [out |-> o, sink |-> sink]
<1>1. /\ cli # "proxy" /\ phase' = "idle" /\ out' = o /\ UNCHANGED <<cli, line, half, sink, arrived>>
  BY DEF EndTurn
<1>2. Fine(o)
  BY <1>1, InvParts, TIs, BlockIs
<1> HIDE DEF o
<1>3. GoodSt(st) /\ Set(st)
  BY <1>1, <1>2, InvParts DEF GoodSt, Sts, Set, Fine, Now
<1> HIDE DEF st
<1>4. /\ line'.text \in Seq(Plain) /\ half' \in [{"stdout", "stderr"} -> Seq(Plain)] /\ arrived' \in Seq(Plain)
      /\ phase' # "run"
  BY <1>1 DEF PipeInv, PipeTypes
<1>5. QED
  BY <1>1, <1>3, <1>4, AgentStep

LEMMA BeginKeeps ==
  ASSUME PipeInv, NEW q \in Asked, BeginTurn(q)
  PROVE  PipeInv'
<1> DEFINE t == <<"T">> \o Drain(withoutTurnSentinel(Append(Untailed(Runes(q)), "n")), TRUE).out \o <<"T">>
           o == TurnBlock(t)
           st == [out |-> o, sink |-> NewSink]
<1>1. /\ phase = "idle" /\ out' = o /\ sink' = NewSink /\ arrived' = << >> /\ line' = NoLine /\ half' = NoHalf
      /\ UNCHANGED cli
  BY DEF BeginTurn
<1>2. cli # "proxy"
  BY <1>1 DEF PipeInv, ProxyInv
<1>11. q \in Seq(Syms)
  BY TextsAre, PlainIs
<1>3. Fine(t) /\ Edged(t)
  BY <1>11, PromptIs
<1> HIDE DEF t
<1>4. Fine(o) /\ (~IsFull(o) => o # << >> /\ o[Len(o)] \notin Secret)
  BY <1>2, <1>3, InvParts, BlockIs
<1> HIDE DEF o
<1>5. << >> \in Seq(Syms) /\ Sound(<< >>, "s")
  BY ShortSound
<1>6. NewSink \in Sinks /\ NewSink.held = << >> /\ NewSink.pending = << >>
  BY <1>5 DEF NewSink, Sinks
<1>7. GoodSt(st) /\ Set(st) /\ st.out = o /\ st.sink = NewSink
  BY <1>1, <1>4, <1>5, <1>6 DEF GoodSt, Sts, Set, Fine
<1>8. Ready(st)
  <2>1. SUFFICES ASSUME Live(st) PROVE Shut(All(st) \o st.sink.held, Len(All(st)))
    BY DEF Ready
  <2>2. o \in Seq(Syms) /\ Clean(o) /\ o[Len(o)] \notin Secret
    BY <1>4, <1>7, <2>1 DEF Live, Working, Fine
  <2>3. All(st) = o
    BY <1>6, <1>7, <2>2 DEF All
  <2>4. All(st) \o st.sink.held = o
    BY <1>6, <1>7, <2>2, <2>3
  <2>5. Shut(o, Len(o))
    BY <2>2, ShutAtEnd
  <2>6. QED
    BY <2>3, <2>4, <2>5
<1> HIDE DEF st
<1>9. line'.text \in Seq(Plain) /\ half' \in [{"stdout", "stderr"} -> Seq(Plain)] /\ arrived' \in Seq(Plain)
  BY <1>1, TextsAre, NoHalfIs, PlainIs
<1>10. QED
  BY <1>1, <1>2, <1>7, <1>8, <1>9, AgentStep

LEMMA NoticeKeeps ==
  ASSUME PipeInv, Notice
  PROVE  PipeInv'
<1> DEFINE c == <<"P">>
           o == AppendBounded(out, c)
           st == [out |-> o, sink |-> sink]
<1>1. cli # "proxy" /\ out' = o /\ UNCHANGED <<cli, phase, line, half, sink, arrived>>
  BY DEF Notice
<1>2. Fine(c) /\ c[1] = "P" /\ "P" \notin Secret /\ "P" \in Syms /\ Fine(out) /\ Len(c) = 1
  BY <1>1, TIs, InvParts
<1>3. Clean(out \o c)
  <2>1. Apart(out, c)
    BY <1>2 DEF Apart
  <2>2. Fine(out \o c)
    BY <1>2, <2>1, FineJoin
  <2>3. QED
    BY <2>2 DEF Fine
<1>4. Recorded(out, c, "s", o)
  BY <1>2, <1>3, AppendIs DEF Fine
<1> HIDE DEF o, c
<1>5. GoodSt(st) /\ Set(st) /\ st.out = o /\ st.sink = sink
  BY <1>1, <1>4, InvParts DEF GoodSt, Sts, Set, Recorded, Now
<1>6. ASSUME phase' = "run" PROVE Ready(st)
  <2>1. SUFFICES ASSUME Live(st) PROVE Shut(All(st) \o st.sink.held, Len(All(st)))
    BY DEF Ready
  <2>2. ~IsFull(out) /\ o = out \o c
    BY <1>4, <1>5, <2>1 DEF Recorded, Live, Working
  <2>3. Live(Now) /\ Ready(Now) /\ All(Now) = out \o sink.pending /\ Now.sink = sink
    <3>1. Now = [out |-> out, sink |-> sink]
      BY InvParts
    <3>2. Now.out = out /\ Now.sink = sink
      BY <3>1
    <3>3. QED
      BY <1>1, <1>5, <1>6, <2>1, <2>2, <3>2, InvParts DEF Live, Working, All
  <2> DEFINE p == sink.pending
             h == sink.held
             z == p \o h
             k == Len(p)
  <2>4. p \in Seq(Syms) /\ h \in Seq(Syms) /\ out \in Seq(Syms) /\ Len(p) \in Nat /\ Len(h) \in Nat /\ Len(out) \in Nat
    BY InvParts, Parts DEF Sinks
  <2>5. Shut((out \o p) \o h, Len(out \o p))
    BY <2>3 DEF Ready
  <2>6. All(st) = o \o p /\ st.sink.held = h
    BY <1>5 DEF All
  <2> HIDE DEF p, h
  <2>7. z \in Seq(Syms) /\ Len(z) = Len(p) + Len(h) /\ (out \o p) \o h = out \o z /\ Len(out \o p) = Len(out) + k
    BY <2>4, Joined, JoinedThrice
  <2>8. k \in 0 .. Len(z) /\ Shut(out \o z, Len(out) + k)
    BY <2>4, <2>5, <2>7
  <2> HIDE DEF z
  <2>9. Shut((out \o c) \o z, Len(out) + 1 + k)
    BY <1>2, <2>4, <2>7, <2>8, ShutInsert DEF c
  <2>10. o \in Seq(Syms) /\ Len(o) = Len(out) + 1
    <3>1. c \in Seq(Syms)
      BY <1>2 DEF Fine
    <3>2. out \o c \in Seq(Syms) /\ Len(out \o c) = Len(out) + Len(c)
      BY <2>4, <3>1, Joined
    <3>3. QED
      BY <1>2, <2>2, <3>2
  <2>11. (o \o p) \o h = o \o z /\ Len(o \o p) = Len(o) + k
    BY <2>4, <2>10, Joined, JoinedThrice DEF z
  <2>12. QED
    BY <2>2, <2>6, <2>9, <2>10, <2>11
<1> HIDE DEF st
<1>7. line'.text \in Seq(Plain) /\ half' \in [{"stdout", "stderr"} -> Seq(Plain)] /\ arrived' \in Seq(Plain)
  BY <1>1 DEF PipeInv, PipeTypes
<1>8. QED
  BY <1>1, <1>5, <1>6, <1>7, AgentStep

\* What the proxy is given of an answer, and what it does with it.
LEMMA AllowedIs ==
  ASSUME PipeInv, cli = "proxy", NEW t \in Seq(Syms)
  PROVE  LET k == Least(Len(t), ProxyLimit - Len(arrived))
         IN  k \in 0 .. Len(t) /\ Len(arrived) + k <= ProxyLimit /\ First(t, k) \in Seq(Syms) /\ Len(First(t, k)) = k
<1> DEFINE k == Least(Len(t), ProxyLimit - Len(arrived))
<1>1. Len(t) \in Nat /\ Len(arrived) \in Nat /\ ProxyLimit \in Nat /\ Len(arrived) <= ProxyLimit
  BY InvParts, Parts, Limits DEF PipeInv, ProxyInv
<1>2. k \in 0 .. Len(t) /\ Len(arrived) + k <= ProxyLimit
  BY <1>1 DEF Least
<1> HIDE DEF k
<1>3. First(t, k) \in Seq(Syms) /\ Len(First(t, k)) = k
  BY <1>2, Parts
<1>4. QED
  BY <1>2, <1>3 DEF k

LEMMA ProxyStep ==
  ASSUME PipeInv, cli = "proxy", UNCHANGED <<cli, line, half>>, phase' # "idle",
         arrived' \in Seq(Plain), Len(arrived') <= ProxyLimit, out' \in Seq(Syms), sink' \in Sinks, Clean(out'),
         phase' = "run" => Shut(out' \o sink'.held, Len(out'))
  PROVE  PipeInv'
<1>1. Now' \in Sts
  BY DEF Now, Sts
<1>2. PipeTypes'
  BY <1>1 DEF PipeInv, PipeTypes
<1>3. AgentInv' /\ ProxyInv'
  BY DEF PipeInv, AgentInv, ProxyInv
<1>4. QED
  BY <1>2, <1>3 DEF PipeInv

LEMMA HeldSink ==
  ASSUME NEW s \in Sinks, NEW h \in Seq(Syms)
  PROVE  [s EXCEPT !.held = h] \in Sinks /\ [s EXCEPT !.held = h].held = h
  BY DEF Sinks

LEMMA ReadKeeps ==
  ASSUME PipeInv, NEW t \in Pieces, ProxyRead(t)
  PROVE  PipeInv'
<1> DEFINE k == Least(Len(t), ProxyLimit - Len(arrived))
           f == First(t, k)
           h == sink.held
           v == h \o f
           d == Drain(v, FALSE)
           e == d.out
           g == d.held
<1>1. /\ cli = "proxy" /\ phase = "run" /\ arrived' = arrived \o f /\ out' = out \o e
      /\ sink' = [sink EXCEPT !.held = g]
      /\ phase' \in {"run", "broken"} /\ UNCHANGED <<cli, line, half>>
  BY DEF ProxyRead
<1>2. t \in Seq(Plain) /\ t \in Seq(Syms)
  BY TextsAre, PlainIs
<1>3. f \in Seq(Plain) /\ f \in Seq(Syms) /\ Len(arrived) + Len(f) <= ProxyLimit
  <2>1. k \in 0 .. Len(t) /\ f \in Seq(Syms) /\ Len(arrived) + Len(f) <= ProxyLimit
    BY <1>1, <1>2, AllowedIs
  <2> HIDE DEF k
  <2>2. f \in Seq(Plain)
    BY <1>2, <2>1, PlainIs
  <2>3. QED
    BY <2>1, <2>2
<1> HIDE DEF f
<1>4. h \in Seq(Syms) /\ out \in Seq(Syms) /\ arrived \in Seq(Plain) /\ sink \in Sinks /\ Shut(out \o h, Len(out))
  BY <1>1, InvParts DEF Sinks, PipeInv, ProxyInv
<1> HIDE DEF h
<1>5. v \in Seq(Syms) /\ Shut(out \o v, Len(out))
  <2>1. Shut((out \o h) \o f, Len(out)) /\ v \in Seq(Syms)
    <3> DEFINE x == out \o h
    <3>1. x \in Seq(Syms) /\ Len(x) = Len(out) + Len(h) /\ Len(out) \in Nat /\ Len(h) \in Nat /\ Shut(x, Len(out))
      BY <1>4, Joined, Parts
    <3>2. Len(out) <= Len(x)
      BY <3>1
    <3> HIDE DEF x
    <3>3. Shut(x \o f, Len(out))
      BY <1>3, <3>1, <3>2, ShutGrows
    <3>4. QED
      BY <1>3, <1>4, <3>3, Joined DEF x
  <2>2. (out \o h) \o f = out \o v
    BY <1>3, <1>4, JoinedThrice
  <2>3. QED
    BY <2>1, <2>2
<1> HIDE DEF v
<1>6. \E u : IsDrained(v, FALSE, u) /\ Drain(v, FALSE) = u[1]
  BY <1>5, DrainUnfolds
<1>7. e \in Seq(Syms) /\ g \in Seq(Syms)
  <2>1. 1 \in 1 .. Len(v) + 1
    BY <1>5, Parts
  <2>2. d \in Drained
    BY <1>6, <2>1 DEF IsDrained, DrainsTo
  <2>3. QED
    BY <2>2 DEF Drained
<1>8. Settled(out, d, FALSE)
  BY <1>4, <1>5, DrainSettles
<1>9. Shut((out \o e) \o g, Len(out) + Len(e))
  BY <1>8 DEF Settled
<1> HIDE DEF e, g
<1>10. out' \in Seq(Syms) /\ Len(out') = Len(out) + Len(e)
  BY <1>1, <1>4, <1>7, Joined
<1>11. sink' \in Sinks /\ sink'.held = g
  BY <1>1, <1>4, <1>7, HeldSink
<1>12. Shut(out' \o sink'.held, Len(out'))
  BY <1>1, <1>9, <1>10, <1>11
<1>13. Clean(out')
  <2>1. Shut(out' \o g, Len(out'))
    BY <1>11, <1>12
  <2>2. QED
    BY <1>7, <1>10, <2>1, ShutIsClean
<1>14. arrived' \in Seq(Plain) /\ Len(arrived') <= ProxyLimit
  <2>1. arrived' \in Seq(Plain)
    BY <1>1, <1>3, <1>4, PlainIs
  <2>2. Len(arrived \o f) = Len(arrived) + Len(f)
    BY <1>3, <1>4, InvParts, Joined
  <2>3. QED
    BY <1>1, <1>3, <2>1, <2>2
<1>15. QED
  BY <1>1, <1>10, <1>11, <1>12, <1>13, <1>14, ProxyStep

LEMMA FailsKeeps ==
  ASSUME PipeInv, ProxyFails
  PROVE  PipeInv'
<1>1. cli = "proxy" /\ phase' = "broken" /\ UNCHANGED <<cli, line, half, sink, out, arrived>>
  BY DEF ProxyFails
<1>2. /\ arrived' \in Seq(Plain) /\ out' \in Seq(Syms) /\ sink' \in Sinks /\ Clean(out')
      /\ Len(arrived') <= ProxyLimit /\ phase' # "idle" /\ phase' # "run"
  BY <1>1, InvParts DEF PipeInv, ProxyInv
<1>3. QED
  BY <1>1, <1>2, ProxyStep

LEMMA EOFKeeps ==
  ASSUME PipeInv, ProxyEOF
  PROVE  PipeInv'
<1> DEFINE h == sink.held
           d == Drain(h, TRUE)
           e == d.out
<1>1. /\ cli = "proxy" /\ phase = "run" /\ phase' = "closed" /\ out' = out \o e /\ sink' = [sink EXCEPT !.held = << >>]
      /\ UNCHANGED <<cli, line, half, arrived>>
  BY DEF ProxyEOF
<1>2. /\ h \in Seq(Syms) /\ out \in Seq(Syms) /\ arrived \in Seq(Plain) /\ sink \in Sinks /\ Shut(out \o h, Len(out))
      /\ Len(arrived) <= ProxyLimit /\ Len(h) \in Nat
  BY <1>1, InvParts, Parts DEF Sinks, PipeInv, ProxyInv
<1> HIDE DEF h
<1>3. e \in Seq(Syms)
  <2>1. \E u : IsDrained(h, TRUE, u) /\ d = u[1]
    BY <1>2, DrainUnfolds
  <2>2. 1 \in 1 .. Len(h) + 1
    BY <1>2
  <2>3. d \in Drained
    BY <2>1, <2>2 DEF IsDrained, DrainsTo
  <2>4. QED
    BY <2>3 DEF Drained
<1>4. Settled(out, d, TRUE)
  BY <1>2, DrainSettles
<1>5. Clean(out \o e)
  BY <1>4 DEF Settled
<1> HIDE DEF e
<1>6. out' \in Seq(Syms) /\ Clean(out')
  BY <1>1, <1>2, <1>3, <1>5, Joined
<1>7. sink' \in Sinks
  <2>1. << >> \in Seq(Syms)
    OBVIOUS
  <2>2. QED
    BY <1>1, <1>2, <2>1, HeldSink
<1>8. arrived' \in Seq(Plain) /\ Len(arrived') <= ProxyLimit /\ phase' # "idle" /\ phase' # "run"
  BY <1>1, <1>2
<1>9. QED
  BY <1>1, <1>6, <1>7, <1>8, ProxyStep

LEMMA PipeSame ==
  ASSUME PipeInv, UNCHANGED pipeVars
  PROVE  PipeInv'
  BY DEF PipeInv, PipeTypes, AgentInv, ProxyInv, Now, pipeVars

LEMMA PipeKeeps == PipeInv /\ [PipeNext]_pipeVars => PipeInv'
<1>1. SUFFICES ASSUME PipeInv, PipeNext PROVE PipeInv'
  BY PipeSame
<1>2. ASSUME NEW q \in Asked, BeginTurn(q) PROVE PipeInv'
  BY <1>1, <1>2, BeginKeeps
<1>3. ASSUME NEW r \in Records, StdoutArrives(r) PROVE PipeInv'
  BY <1>1, <1>3, ArrivesKeeps
<1>4. ASSUME LineEnds PROVE PipeInv'
  BY <1>1, <1>4, LineEndsKeeps
<1>5. ASSUME NEW t \in Pieces, Stderr(t) PROVE PipeInv'
  BY <1>1, <1>5, StderrKeeps
<1>6. ASSUME NEW r \in {line, Cut}, CloseRun(r) PROVE PipeInv'
  BY <1>1, <1>6, CloseKeeps
<1>7. ASSUME EndTurn PROVE PipeInv'
  BY <1>1, <1>7, EndTurnKeeps
<1>8. ASSUME Notice PROVE PipeInv'
  BY <1>1, <1>8, NoticeKeeps
<1>9. ASSUME NEW t \in Pieces, ProxyRead(t) PROVE PipeInv'
  BY <1>1, <1>9, ReadKeeps
<1>10. ASSUME ProxyFails PROVE PipeInv'
  BY <1>1, <1>10, FailsKeeps
<1>11. ASSUME ProxyEOF PROVE PipeInv'
  BY <1>1, <1>11, EOFKeeps
<1>12. QED
  BY <1>1, <1>2, <1>3, <1>4, <1>5, <1>6, <1>7, <1>8, <1>9, <1>10, <1>11 DEF PipeNext

THEOREM PipeInvHolds == PipeSpec => []PipeInv
  BY PipeStarts, PipeKeeps, PTL DEF PipeSpec

\* Clients never read a credential, a forged turn marker or a broken rune.
THEOREM ShownHolds == PipeSpec => []ShownIsClean
<1>1. PipeInv => ShownIsClean
  <2>1. SUFFICES ASSUME PipeInv PROVE ShownIsClean
    OBVIOUS
  <2>2. Found(out) = {}
    BY <2>1, InvParts, FoundIs
  <2>3. cli # "proxy" => Sound(out, "s")
    BY <2>1, InvParts DEF Fine
  <2>4. QED
    BY <2>2, <2>3 DEF ShownIsClean, Sound
<1>2. QED
  BY <1>1, PipeInvHolds, PTL

-----------------------------------------------------------------------------
\* The redaction of a whole text.
Longest(t, i) ==
    LET here == {l \in Literals : Starts(t, i, l)} IN CHOOSE x \in here : \A y \in here : Len(y) <= Len(x)

Bare(t, i) == \A l \in Literals : ~At(t, i, l)

LEMMA LongestIs ==
  ASSUME NEW t \in Seq(Syms), NEW i \in 1 .. Len(t), ~Bare(t, i)
  PROVE  /\ Longest(t, i) \in Literals /\ At(t, i, Longest(t, i)) /\ Len(Longest(t, i)) \in Nat /\ Len(Longest(t, i)) >= 1
         /\ i + Len(Longest(t, i)) \in i + 1 .. Len(t) + 1
<1> DEFINE here == {l \in Literals : Starts(t, i, l)}
           T == {Len(t) - Len(l) : l \in here}
<1>0. Len(t) \in Nat /\ i \in Nat /\ i >= 1
  BY Parts
<1>1. \A l \in Literals : l \in here <=> At(t, i, l)
  BY StartsIs
<1>2. here # {}
  BY <1>1 DEF Bare
<1>3. T \subseteq Nat /\ T # {}
  <2>1. ASSUME NEW l \in here PROVE Len(t) - Len(l) \in Nat
    <3>1. l \in Literals /\ At(t, i, l) /\ Len(l) \in Nat
      BY <1>1, LiteralIs
    <3>2. i + Len(l) - 1 <= Len(t)
      BY <3>1 DEF At
    <3>3. QED
      BY <1>0, <3>1, <3>2
  <2>2. QED
    BY <1>2, <2>1
<1>4. PICK b \in T : \A d \in T : b <= d
  <2> HIDE DEF T
  <2>1. QED
    BY <1>3, LeastNatural
<1>5. PICK x \in here : b = Len(t) - Len(x)
  BY <1>4
<1>6. ASSUME NEW y \in here PROVE Len(y) <= Len(x)
  <2>1. Len(x) \in Nat /\ Len(y) \in Nat
    BY LiteralIs
  <2>2. Len(t) - Len(x) <= Len(t) - Len(y)
    BY <1>4, <1>5
  <2>3. QED
    BY <1>0, <2>1, <2>2
<1>7. Longest(t, i) = CHOOSE z \in here : \A y \in here : Len(y) <= Len(z)
  BY DEF Longest
<1>8. Longest(t, i) \in here
  <2> HIDE DEF here
  <2>1. QED
    BY <1>6, <1>7
<1> DEFINE m == Longest(t, i)
<1> HIDE DEF m
<1>9. m \in Literals /\ At(t, i, m) /\ Len(m) \in Nat /\ Len(m) >= 1
  BY <1>1, <1>8, LiteralIs DEF m
<1>10. i + Len(m) \in i + 1 .. Len(t) + 1
  BY <1>0, <1>9 DEF At
<1>11. QED
  BY <1>9, <1>10 DEF m

RedStep(t, f) ==
    [i \in 1 .. Len(t) + 1 |->
        IF i > Len(t) THEN << >>
        ELSE LET here == {l \in Literals : Starts(t, i, l)}
                 l    == CHOOSE x \in here : \A y \in here : Len(y) <= Len(x)
             IN  IF here = {} THEN <<t[i]>> \o f[i + 1] ELSE <<"R">> \o f[i + Len(l)]]

\* d is the redaction from i on, given the redactions f behind it.
RedTo(t, f, i, d) ==
    /\ d \in Seq(Syms)
    /\ i > Len(t) => d = << >>
    /\ i <= Len(t) /\ Bare(t, i) => d = <<t[i]>> \o f[i + 1]
    /\ i <= Len(t) /\ ~Bare(t, i) => d = <<"R">> \o f[i + Len(Longest(t, i))]

IsRed(t, f) == \A i \in 1 .. Len(t) + 1 : RedTo(t, f, i, f[i])

LEMMA RedStepIs ==
  ASSUME NEW t \in Seq(Syms), NEW f, NEW i \in 1 .. Len(t) + 1, \A j \in i + 1 .. Len(t) + 1 : f[j] \in Seq(Syms)
  PROVE  RedTo(t, f, i, RedStep(t, f)[i])
<1> DEFINE d == RedStep(t, f)[i]
<1>0. Len(t) \in Nat /\ i \in Nat /\ i >= 1 /\ (i > Len(t) <=> ~(i <= Len(t)))
  BY Parts
<1>1. CASE i > Len(t)
  <2>1. d = << >> /\ << >> \in Seq(Syms)
    BY <1>1 DEF RedStep
  <2> HIDE DEF d
  <2>2. QED
    BY <1>0, <1>1, <2>1 DEF RedTo, d
<1>2. CASE i <= Len(t)
  <2> DEFINE here == {l \in Literals : Starts(t, i, l)}
  <2>1. i \in 1 .. Len(t) /\ i + 1 \in i + 1 .. Len(t) + 1
    BY <1>0, <1>2
  <2>2. here = {} <=> Bare(t, i)
    BY <2>1, StartsIs DEF Bare
  <2>3. d = IF here = {} THEN <<t[i]>> \o f[i + 1] ELSE <<"R">> \o f[i + Len(Longest(t, i))]
    BY <1>0, <1>2 DEF RedStep, Longest
  <2> HIDE DEF here, d
  <2>4. CASE Bare(t, i)
    <3> DEFINE y == f[i + 1]
               x == <<t[i]>>
    <3>1. x \in Seq(Syms) /\ y \in Seq(Syms)
      BY <2>1, Parts
    <3>2. d = x \o y
      BY <2>2, <2>3, <2>4
    <3> HIDE DEF x, y
    <3>3. d \in Seq(Syms)
      BY <3>1, <3>2, Joined
    <3>4. QED
      BY <1>0, <1>2, <2>4, <3>2, <3>3 DEF RedTo, d, x, y
  <2>5. CASE ~Bare(t, i)
    <3> DEFINE y == f[i + Len(Longest(t, i))]
               x == <<"R">>
    <3>1. i + Len(Longest(t, i)) \in i + 1 .. Len(t) + 1
      BY <2>1, <2>5, LongestIs
    <3>2. x \in Seq(Syms) /\ y \in Seq(Syms)
      BY <3>1 DEF Syms
    <3>3. d = x \o y
      BY <2>2, <2>3, <2>5
    <3> HIDE DEF x, y
    <3>4. d \in Seq(Syms)
      BY <3>2, <3>3, Joined
    <3>5. QED
      BY <1>0, <1>2, <2>5, <3>3, <3>4 DEF RedTo, d, x, y
  <2>6. QED
    BY <2>4, <2>5
<1>3. QED
  BY <1>0, <1>1, <1>2

LEMMA RedactUnfolds ==
  ASSUME NEW t \in Seq(Syms)
  PROVE  \E f : IsRed(t, f) /\ Redact(t) = f[1]
<1> DEFINE n == Len(t) + 1
           V == Seq(Syms)
           H == [p \in [1 .. n -> V] \X (1 .. n) |-> RedStep(t, p[1])[p[2]]]
<1>1. n \in Nat /\ V # {} /\ Len(t) \in Nat
  BY Parts
<1>2. ASSUME NEW f \in [1 .. n -> V], NEW i \in 1 .. n PROVE RedStep(t, f)[i] \in V
  <2>1. \A j \in i + 1 .. Len(t) + 1 : f[j] \in Seq(Syms)
    BY <1>1
  <2>2. QED
    BY <2>1, RedStepIs DEF RedTo
<1>3. H \in [[1 .. n -> V] \X (1 .. n) -> V]
  BY <1>2
<1>4. ASSUME NEW f \in [1 .. n -> V], NEW g \in [1 .. n -> V], NEW i \in 1 .. n,
             \A j \in i + 1 .. n : f[j] = g[j]
      PROVE  H[<<f, i>>] = H[<<g, i>>]
  <2>1. H[<<f, i>>] = RedStep(t, f)[i] /\ H[<<g, i>>] = RedStep(t, g)[i]
    OBVIOUS
  <2>2. \A j \in i + 1 .. Len(t) + 1 : j \in 1 .. n
    BY <1>1
  <2>9. \A j \in i + 1 .. Len(t) + 1 : f[j] \in Seq(Syms)
    BY <2>2
  <2>10. \A j \in i + 1 .. Len(t) + 1 : g[j] \in Seq(Syms)
    BY <2>2
  <2>3. RedTo(t, f, i, RedStep(t, f)[i]) /\ RedTo(t, g, i, RedStep(t, g)[i])
    BY <2>9, <2>10, RedStepIs
  <2>4. i > Len(t) \/ i \in 1 .. Len(t)
    BY <1>1
  <2>5. i \in 1 .. Len(t) => i <= Len(t) /\ f[i + 1] = g[i + 1]
    BY <1>1, <1>4
  <2>6. i \in 1 .. Len(t) /\ ~Bare(t, i) => f[i + Len(Longest(t, i))] = g[i + Len(Longest(t, i))]
    BY <1>4, LongestIs
  <2>7. RedStep(t, f)[i] = RedStep(t, g)[i]
    BY <2>3, <2>4, <2>5, <2>6 DEF RedTo
  <2>8. QED
    BY <2>1, <2>7
<1>5. \A f \in [1 .. n -> V], i \in 1 .. n : H[<<f, i>>] = RedStep(t, f)[i]
  OBVIOUS
<1>6. \E f \in [1 .. n -> V] : \A i \in 1 .. n : f[i] = H[<<f, i>>]
  <2> HIDE DEF n, V, H
  <2>1. Recursion(n, V, H)
    BY <1>3, <1>4 DEF Recursion
  <2>2. HasResult(n, V, H)
    BY <1>1, <2>1, RecursionFromTheEnd
  <2>3. QED
    BY <2>2 DEF HasResult
<1> HIDE DEF H
<1>7. PICK f \in [1 .. n -> V] : \A i \in 1 .. n : f[i] = RedStep(t, f)[i]
  BY <1>5, <1>6
<1>8. f = RedStep(t, f)
  BY <1>7 DEF RedStep
<1> DEFINE it == CHOOSE g : g = RedStep(t, g)
<1>9. it = RedStep(t, it)
  <2>1. \E g : g = RedStep(t, g)
    BY <1>8
  <2>2. QED
    BY <2>1
<1>10. Redact(t) = it[1]
  BY DEF Redact, RedStep
<1> HIDE DEF it
<1>11. \A i \in 1 .. n : it[i] = RedStep(t, it)[i]
  BY <1>9
<1> DEFINE S == {i \in 1 .. n : it[i] \in Seq(Syms)}
<1>12. ASSUME NEW i \in 1 .. n PROVE i \in S
  <2>1. ASSUME NEW k \in 1 .. n, \A j \in k + 1 .. n : j \in S PROVE k \in S
    <3>1. \A j \in k + 1 .. Len(t) + 1 : it[j] \in Seq(Syms)
      BY <2>1
    <3>2. RedStep(t, it)[k] \in Seq(Syms)
      BY <3>1, RedStepIs DEF RedTo
    <3>3. QED
      BY <1>11, <3>2
  <2> HIDE DEF S, n
  <2>2. QED
    BY <1>1, <2>1, FromTheEnd
<1>13. IsRed(t, it)
  <2>1. SUFFICES ASSUME NEW i \in 1 .. Len(t) + 1 PROVE RedTo(t, it, i, it[i])
    BY DEF IsRed
  <2>2. \A j \in i + 1 .. Len(t) + 1 : it[j] \in Seq(Syms)
    BY <1>1, <1>12
  <2>3. it[i] = RedStep(t, it)[i]
    BY <1>11
  <2>4. RedTo(t, it, i, RedStep(t, it)[i])
    BY <2>2, RedStepIs
  <2>5. QED
    BY <2>3, <2>4
<1>14. QED
  BY <1>10, <1>13

LEMMA AtShift ==
  ASSUME NEW t \in Seq(Syms), NEW i \in 1 .. Len(t) + 1, NEW k \in Nat, k >= 1, NEW l \in Literals
  PROVE  At(From(t, i), k, l) <=> At(t, i + k - 1, l)
<1> DEFINE r == From(t, i)
           p == i + k - 1
<1>1. /\ Len(t) \in Nat /\ i \in Nat /\ i >= 1 /\ Len(l) \in Nat /\ Len(l) >= 1 /\ Len(r) = Len(t) + 1 - i
      /\ \A q \in 1 .. Len(t) + 1 - i : r[q] = t[i + q - 1]
  BY Parts, LiteralIs
<1> HIDE DEF r
<1>2. k + Len(l) - 1 <= Len(r) <=> p + Len(l) - 1 <= Len(t)
  BY <1>1
<1>3. ASSUME k + Len(l) - 1 <= Len(r), NEW j \in 1 .. Len(l) PROVE r[k + j - 1] = t[p + j - 1]
  <2> DEFINE q == k + j - 1
  <2>1. q \in 1 .. Len(t) + 1 - i /\ i + q - 1 = p + j - 1
    BY <1>1, <1>3
  <2> HIDE DEF q, p
  <2>2. r[q] = t[i + q - 1]
    BY <1>1, <2>1
  <2>3. QED
    BY <2>1, <2>2 DEF q
<1> HIDE DEF p
<1>4. At(r, k, l) <=> At(t, p, l)
  BY <1>2, <1>3 DEF At
<1>5. QED
  BY <1>4 DEF r, p

LEMMA BareShift ==
  ASSUME NEW t \in Seq(Syms), NEW i \in 1 .. Len(t) + 1, NEW k \in 1 .. Len(From(t, i))
  PROVE  /\ i + k - 1 \in 1 .. Len(t) /\ From(t, i)[k] = t[i + k - 1]
         /\ Bare(From(t, i), k) <=> Bare(t, i + k - 1)
         /\ Longest(From(t, i), k) = Longest(t, i + k - 1)
<1> DEFINE r == From(t, i)
           p == i + k - 1
<1>1. /\ Len(t) \in Nat /\ i \in Nat /\ i >= 1 /\ Len(r) = Len(t) + 1 - i /\ r \in Seq(Syms)
      /\ \A q \in 1 .. Len(t) + 1 - i : r[q] = t[i + q - 1]
  <2>1. /\ Len(t) \in Nat /\ Len(r) = Len(t) + 1 - i /\ r \in Seq(Syms)
        /\ \A q \in 1 .. Len(t) + 1 - i : r[q] = t[i + q - 1]
    BY Parts
  <2>2. i \in Nat /\ i >= 1
    BY <2>1
  <2>3. QED
    BY <2>1, <2>2
<1>2. k \in Nat /\ k >= 1 /\ p \in 1 .. Len(t) /\ k \in 1 .. Len(t) + 1 - i
  BY <1>1
<1>3. \A l \in Literals : At(r, k, l) <=> At(t, p, l)
  BY <1>2, AtShift
<1>4. r[k] = t[p]
  BY <1>1, <1>2
<1> HIDE DEF p
<1>5. \A l \in Literals : Starts(r, k, l) <=> Starts(t, p, l)
  <2> HIDE DEF r
  <2>1. (\A l \in Literals : Starts(r, k, l) <=> At(r, k, l)) /\ (\A l \in Literals : Starts(t, p, l) <=> At(t, p, l))
    BY <1>1, <1>2, StartsIs
  <2>2. QED
    BY <1>3, <2>1
<1>6. {l \in Literals : Starts(r, k, l)} = {l \in Literals : Starts(t, p, l)}
  BY <1>5
<1>7. Longest(r, k) = Longest(t, p)
  BY <1>6 DEF Longest
<1>8. Bare(r, k) <=> Bare(t, p)
  BY <1>3 DEF Bare
<1>9. QED
  BY <1>2, <1>4, <1>7, <1>8 DEF p, r

\* The redaction behind a place is the redaction of what is there.
LEMMA RedShift ==
  ASSUME NEW t \in Seq(Syms), NEW f, IsRed(t, f), NEW i \in 1 .. Len(t) + 1
  PROVE  f[i] = Redact(From(t, i))
<1> DEFINE r == From(t, i)
           n == Len(r) + 1
<1>1. Len(t) \in Nat /\ i \in Nat /\ i >= 1 /\ r \in Seq(Syms) /\ Len(r) = Len(t) + 1 - i /\ Len(r) \in Nat /\ n \in Nat
  BY Parts
<1>2. PICK g : IsRed(r, g) /\ Redact(r) = g[1]
  BY <1>1, RedactUnfolds
<1> DEFINE S == {k \in 1 .. n : g[k] = f[i + k - 1]}
<1>3. ASSUME NEW k \in 1 .. n, \A j \in k + 1 .. n : j \in S PROVE k \in S
  <2> DEFINE p == i + k - 1
  <2>1. k \in Nat /\ k >= 1 /\ p \in 1 .. Len(t) + 1 /\ (k > Len(r) <=> p > Len(t)) /\ (k <= Len(r) <=> p <= Len(t))
    BY <1>1
  <2>2. RedTo(r, g, k, g[k])
    BY <1>2 DEF IsRed
  <2>3. RedTo(t, f, p, f[p])
    BY <2>1 DEF IsRed
  <2> HIDE DEF p
  <2>4. CASE k > Len(r)
    <3>1. g[k] = << >> /\ f[p] = << >>
      BY <2>1, <2>2, <2>3, <2>4 DEF RedTo
    <3>2. QED
      BY <3>1 DEF p
  <2>5. CASE k <= Len(r)
    <3>1. k \in 1 .. Len(r)
      BY <1>1, <2>1, <2>5
    <3>2. /\ p \in 1 .. Len(t) /\ r[k] = t[p] /\ (Bare(r, k) <=> Bare(t, p)) /\ Longest(r, k) = Longest(t, p)
      BY <3>1, BareShift DEF p
    <3>3. CASE Bare(r, k)
      <4>1. k + 1 \in k + 1 .. n /\ i + (k + 1) - 1 = p + 1
        BY <1>1, <3>1 DEF p
      <4>2. g[k + 1] = f[p + 1]
        BY <1>3, <4>1
      <4>3. g[k] = <<r[k]>> \o g[k + 1] /\ f[p] = <<t[p]>> \o f[p + 1]
        BY <2>1, <2>2, <2>3, <2>5, <3>2, <3>3 DEF RedTo
      <4>4. g[k] = f[p]
        BY <3>2, <4>2, <4>3
      <4>5. QED
        BY <4>4 DEF p
    <3>4. CASE ~Bare(r, k)
      <4> DEFINE m == Len(Longest(r, k))
      <4>1. m \in Nat /\ k + m \in k + 1 .. Len(r) + 1
        <5> HIDE DEF r
        <5>1. QED
          BY <1>1, <3>1, <3>4, LongestIs
      <4>2. g[k] = <<"R">> \o g[k + m] /\ f[p] = <<"R">> \o f[p + m]
        BY <2>1, <2>2, <2>3, <2>5, <3>2, <3>4 DEF RedTo
      <4> HIDE DEF m
      <4>3. k + m \in k + 1 .. n /\ i + (k + m) - 1 = p + m
        BY <1>1, <2>1, <4>1 DEF p
      <4>4. g[k + m] = f[p + m]
        BY <1>3, <4>3
      <4>5. g[k] = f[p]
        BY <4>2, <4>4
      <4>6. QED
        BY <4>5 DEF p
    <3>5. QED
      BY <3>3, <3>4
  <2>6. QED
    BY <1>1, <2>1, <2>4, <2>5
<1>4. 1 \in S
  <2>1. 1 \in 1 .. n
    BY <1>1
  <2> HIDE DEF S, n
  <2>2. QED
    BY <1>1, <1>3, <2>1, FromTheEnd
<1>5. g[1] = f[i + 1 - 1] /\ i + 1 - 1 = i
  BY <1>1, <1>4
<1>6. QED
  BY <1>2, <1>5

LEMMA FromStart == ASSUME NEW t \in Seq(Syms) PROVE From(t, 1) = t /\ From(t, Len(t) + 1) = << >>
<1>1. Len(t) \in Nat
  BY Parts
<1>2. From(t, 1) \in Seq(Syms) /\ Len(From(t, 1)) = Len(t) /\ \A k \in 1 .. Len(t) : From(t, 1)[k] = t[k]
  BY <1>1 DEF From
<1>3. From(t, 1) = t
  BY <1>2, SameText
<1>4. From(t, Len(t) + 1) = << >>
  BY <1>1 DEF From
<1>5. QED
  BY <1>3, <1>4

LEMMA RedactType == ASSUME NEW t \in Seq(Syms) PROVE Redact(t) \in Seq(Syms) /\ Redact(<< >>) = << >>
<1>1. PICK f : IsRed(t, f) /\ Redact(t) = f[1]
  BY RedactUnfolds
<1>2. 1 \in 1 .. Len(t) + 1
  BY Parts
<1>3. << >> \in Seq(Syms) /\ Len(<< >>) = 0
  OBVIOUS
<1>4. PICK g : IsRed(<< >>, g) /\ Redact(<< >>) = g[1]
  BY <1>3, RedactUnfolds
<1>5. 1 \in 1 .. Len(<< >>) + 1 /\ 1 > Len(<< >>)
  BY <1>3
<1>6. Redact(<< >>) = << >>
  BY <1>4, <1>5 DEF IsRed, RedTo
<1>7. Redact(t) \in Seq(Syms)
  BY <1>1, <1>2 DEF IsRed, RedTo
<1>8. QED
  BY <1>6, <1>7

LEMMA FromJoin ==
  ASSUME NEW x \in Seq(Syms), NEW y \in Seq(Syms), NEW i \in 1 .. Len(x) + 1
  PROVE  From(x \o y, i) = From(x, i) \o y
<1> DEFINE z == x \o y
           a == From(z, i)
           w == From(x, i)
           b == w \o y
<1>1. /\ Len(x) \in Nat /\ Len(y) \in Nat /\ i \in Nat /\ i >= 1 /\ i <= Len(x) + 1
      /\ z \in Seq(Syms) /\ Len(z) = Len(x) + Len(y)
      /\ (\A k \in 1 .. Len(x) : z[k] = x[k]) /\ (\A k \in 1 .. Len(y) : z[Len(x) + k] = y[k])
  BY Joined, Parts
<1>2. /\ w \in Seq(Syms) /\ Len(w) = Len(x) + 1 - i /\ \A k \in 1 .. Len(x) + 1 - i : w[k] = x[i + k - 1]
  BY Parts
<1> HIDE DEF z
<1>3. i \in 1 .. Len(z) + 1
  BY <1>1
<1>4. /\ a \in Seq(Syms) /\ Len(a) = Len(z) + 1 - i /\ \A k \in 1 .. Len(z) + 1 - i : a[k] = z[i + k - 1]
  BY <1>1, <1>3, Parts
<1> HIDE DEF w, a
<1>5. /\ b \in Seq(Syms) /\ Len(b) = Len(w) + Len(y)
      /\ (\A k \in 1 .. Len(w) : b[k] = w[k]) /\ (\A k \in 1 .. Len(y) : b[Len(w) + k] = y[k])
  BY <1>2, Joined
<1> HIDE DEF b
<1>6. Len(a) = Len(b)
  BY <1>1, <1>2, <1>4, <1>5
<1>7. ASSUME NEW k \in 1 .. Len(a) PROVE a[k] = b[k]
  <2>1. k \in Nat /\ k >= 1 /\ a[k] = z[i + k - 1] /\ k <= Len(z) + 1 - i
    <3>1. k \in 1 .. Len(z) + 1 - i
      BY <1>4
    <3>2. a[k] = z[i + k - 1]
      BY <1>4, <3>1
    <3>3. i \in Nat /\ Len(z) \in Nat
      BY <1>1
    <3>4. k \in Nat /\ k >= 1 /\ k <= Len(z) + 1 - i
      BY <3>1, <3>3
    <3>5. QED
      BY <3>2, <3>4
  <2>2. CASE k <= Len(w)
    <3>1. k \in 1 .. Len(w) /\ i + k - 1 \in 1 .. Len(x) /\ k \in 1 .. Len(x) + 1 - i
      BY <1>1, <1>2, <2>1, <2>2
    <3>2. b[k] = x[i + k - 1] /\ z[i + k - 1] = x[i + k - 1]
      BY <1>1, <1>2, <1>5, <3>1
    <3>3. QED
      BY <2>1, <3>2
  <2>3. CASE k > Len(w)
    <3> DEFINE q == k - Len(w)
    <3>1. q \in 1 .. Len(y) /\ Len(w) + q = k /\ Len(x) + q = i + k - 1
      <4>1. /\ Len(w) = Len(x) + 1 - i /\ Len(z) = Len(x) + Len(y) /\ Len(x) \in Nat /\ Len(y) \in Nat
            /\ i \in Nat /\ i <= Len(x) + 1 /\ k \in Nat /\ k <= Len(z) + 1 - i /\ k > Len(w)
        BY <1>1, <1>2, <2>1, <2>3
      <4>2. QED
        BY <4>1
    <3> HIDE DEF q
    <3>2. b[k] = y[q] /\ z[i + k - 1] = y[q]
      BY <1>1, <1>5, <3>1
    <3>3. QED
      BY <2>1, <3>2
  <2>4. k <= Len(w) \/ k > Len(w)
    BY <1>1, <1>2, <2>1
  <2>5. QED
    BY <2>2, <2>3, <2>4
<1>8. a = b
  BY <1>4, <1>5, <1>6, <1>7, SameText
<1>9. QED
  BY <1>8 DEF a, b, w, z

\* Text where no credential begins stays as it is.
LEMMA RedactSkips ==
  ASSUME NEW x \in Seq(Syms), NEW y \in Seq(Syms), \A i \in 1 .. Len(x) : Bare(x \o y, i)
  PROVE  Redact(x \o y) = x \o Redact(y)
<1> DEFINE t == x \o y
           n == Len(x) + 1
<1>1. /\ Len(x) \in Nat /\ Len(y) \in Nat /\ n \in Nat /\ t \in Seq(Syms) /\ Len(t) = Len(x) + Len(y)
      /\ \A i \in 1 .. Len(x) : t[i] = x[i] /\ Bare(t, i)
  BY Parts, Joined
<1>2. From(t, n) = y
  <2>1. n \in 1 .. Len(x) + 1
    BY <1>1
  <2>2. From(t, n) = From(x, n) \o y
    BY <2>1, FromJoin
  <2>3. From(x, n) = << >>
    BY FromStart
  <2>4. << >> \o y = y
    OBVIOUS
  <2>5. QED
    BY <2>2, <2>3, <2>4
<1> HIDE DEF t
<1>3. PICK f : IsRed(t, f) /\ Redact(t) = f[1]
  BY <1>1, RedactUnfolds
<1>4. n \in 1 .. Len(t) + 1 /\ f[n] = Redact(y)
  <2>1. n \in 1 .. Len(t) + 1
    BY <1>1
  <2>2. QED
    BY <1>1, <1>2, <1>3, <2>1, RedShift
<1>5. Redact(y) \in Seq(Syms)
  BY RedactType
<1> DEFINE e == Redact(y)
           S == {i \in 1 .. n : f[i] = From(x, i) \o e}
<1> HIDE DEF e
<1>6. ASSUME NEW i \in 1 .. n, \A j \in i + 1 .. n : j \in S PROVE i \in S
  <2>1. CASE i = n
    <3>1. From(x, n) = << >> /\ << >> \o e = e
      BY <1>5, FromStart DEF e
    <3>2. QED
      BY <1>4, <2>1, <3>1 DEF e
  <2>2. CASE i # n
    <3>1. i \in 1 .. Len(x) /\ i <= Len(t) /\ i \in 1 .. Len(t) + 1 /\ i + 1 \in i + 1 .. n /\ i + 1 \in 1 .. Len(x) + 1 /\ i \in Nat
      BY <1>1, <2>2
    <3>2. f[i] = <<t[i]>> \o f[i + 1]
      BY <1>1, <1>3, <3>1 DEF IsRed, RedTo
    <3>3. f[i + 1] = From(x, i + 1) \o e
      BY <1>6, <3>1
    <3> DEFINE a == <<x[i]>>
               b == From(x, i + 1)
    <3>4. a \in Seq(Syms) /\ b \in Seq(Syms)
      <4> DEFINE k == i + 1
      <4>1. k \in 1 .. Len(x) + 1
        BY <3>1
      <4> HIDE DEF k
      <4>2. From(x, k) \in Seq(Syms)
        BY <4>1, Parts
      <4>3. x[i] \in Syms
        BY <3>1, Parts
      <4>4. QED
        BY <4>2, <4>3 DEF k
    <3>5. a \o b = From(x, i)
      <4> DEFINE z == From(x, i)
                 k == i + 1
      <4>1. /\ z \in Seq(Syms) /\ Len(z) = Len(x) + 1 - i /\ \A q \in 1 .. Len(x) + 1 - i : z[q] = x[i + q - 1]
        BY <3>1, Parts
      <4>2. k \in 1 .. Len(x) + 1 /\ k \in Nat
        BY <3>1
      <4>3. b = From(x, k)
        OBVIOUS
      <4> HIDE DEF k
      <4>4. /\ Len(From(x, k)) = Len(x) + 1 - k /\ \A q \in 1 .. Len(x) + 1 - k : From(x, k)[q] = x[k + q - 1]
        BY <4>2, Parts
      <4> HIDE DEF z, b
      <4>5. Len(b) = Len(x) - i /\ \A q \in 1 .. Len(x) - i : b[q] = x[i + q]
        <5>1. Len(x) + 1 - k = Len(x) - i /\ \A q \in 1 .. Len(x) - i : k + q - 1 = i + q
          BY <1>1, <3>1 DEF k
        <5>2. QED
          BY <4>3, <4>4, <5>1
      <4>6. Len(a) = 1 /\ a[1] = x[i]
        OBVIOUS
      <4> HIDE DEF a
      <4>7. /\ a \o b \in Seq(Syms) /\ Len(a \o b) = 1 + (Len(x) - i) /\ (a \o b)[1] = x[i]
            /\ \A q \in 1 .. Len(x) - i : (a \o b)[1 + q] = x[i + q]
        <5>1. 1 \in 1 .. Len(a)
          BY <4>6
        <5>2. /\ a \o b \in Seq(Syms) /\ Len(a \o b) = Len(a) + Len(b) /\ (a \o b)[1] = a[1]
              /\ \A q \in 1 .. Len(b) : (a \o b)[Len(a) + q] = b[q]
          BY <3>4, <5>1, Joined
        <5>3. QED
          BY <4>5, <4>6, <5>2
      <4> DEFINE c == a \o b
      <4> HIDE DEF c
      <4>8. c \in Seq(Syms) /\ Len(c) = Len(z)
        BY <1>1, <3>1, <4>1, <4>7 DEF c
      <4>9. ASSUME NEW q \in 1 .. Len(c) PROVE c[q] = z[q]
        <5>1. q \in 1 .. Len(x) + 1 - i /\ q \in Nat /\ z[q] = x[i + q - 1]
          BY <1>1, <3>1, <4>1, <4>8
        <5>2. CASE q = 1
          <6>1. i + q - 1 = i
            BY <3>1, <5>2
          <6>2. c[1] = x[i]
            BY <4>7 DEF c
          <6>3. QED
            BY <5>1, <5>2, <6>1, <6>2
        <5>3. CASE q # 1
          <6> DEFINE u == q - 1
          <6>1. u \in 1 .. Len(x) - i /\ 1 + u = q /\ i + u = i + q - 1
            BY <1>1, <3>1, <5>1, <5>3
          <6> HIDE DEF u
          <6>2. c[1 + u] = x[i + u]
            BY <4>7, <6>1 DEF c
          <6>3. QED
            BY <5>1, <6>1, <6>2
        <5>4. QED
          BY <5>2, <5>3
      <4>10. c = z
        BY <4>1, <4>8, <4>9, SameText
      <4>11. QED
        BY <4>10 DEF c, z
    <3>6. f[i] = a \o (b \o e)
      BY <1>1, <3>1, <3>2, <3>3
    <3> HIDE DEF a, b
    <3>7. a \o (b \o e) = (a \o b) \o e
      <4>1. e \in Seq(Syms)
        BY <1>5 DEF e
      <4>2. Regrouped(a, b, e)
        BY <3>4, <4>1, Regroup
      <4>3. QED
        BY <4>2, Zenon DEF Regrouped
    <3>8. QED
      BY <3>5, <3>6, <3>7
  <2>3. QED
    BY <2>1, <2>2
<1>7. 1 \in S
  <2>1. 1 \in 1 .. n
    BY <1>1
  <2> HIDE DEF S, n
  <2>2. QED
    BY <1>1, <1>6, <2>1, FromTheEnd
<1>8. f[1] = x \o e
  BY <1>7, FromStart
<1>9. QED
  BY <1>3, <1>8 DEF e, t

LEMMA Alone ==
  ASSUME Independent, NEW l \in Literals, NEW m \in Literals, NEW i \in 1 .. Len(l), At(l, i, m)
  PROVE  m = l /\ i = 1
<1>1. l \in Seq(Syms) /\ Len(l) \in Nat
  BY LiteralIs
<1>2. Starts(l, i, m)
  BY <1>1, StartsIs
<1>3. m = l
  BY <1>2 DEF Independent
<1>4. i + Len(l) - 1 <= Len(l) /\ i \in Nat
  BY <1>1, <1>3 DEF At
<1>5. QED
  BY <1>1, <1>3, <1>4

LEMMA OneHere ==
  ASSUME Independent, NEW t \in Seq(Syms), NEW i \in Nat, i >= 1, NEW l \in Literals, NEW m \in Literals,
         At(t, i, l), At(t, i, m), Len(l) <= Len(m)
  PROVE  l = m
<1>1. Len(l) \in Nat /\ Len(m) \in Nat /\ Len(l) >= 1 /\ Len(m) >= 1
  BY LiteralIs
<1>2. ASSUME NEW j \in 1 .. Len(l) PROVE m[1 + j - 1] = l[j]
  <2>1. j \in 1 .. Len(m) /\ 1 + j - 1 = j
    BY <1>1
  <2>2. t[i + j - 1] = l[j] /\ t[i + j - 1] = m[j]
    BY <2>1 DEF At
  <2>3. QED
    BY <2>1, <2>2
<1>3. 1 + Len(l) - 1 <= Len(m) /\ 1 \in 1 .. Len(m)
  BY <1>1
<1>4. At(m, 1, l)
  BY <1>2, <1>3 DEF At
<1>5. QED
  BY <1>3, <1>4, Alone

\* A credential at the beginning is replaced.
LEMMA RedactMatches ==
  ASSUME Independent, NEW t \in Seq(Syms), NEW l \in Literals, At(t, 1, l)
  PROVE  Redact(t) = <<"R">> \o Redact(From(t, Len(l) + 1))
<1>1. Len(t) \in Nat /\ Len(l) \in Nat /\ Len(l) >= 1
  BY Parts, LiteralIs
<1>2. Len(l) <= Len(t)
  BY <1>1 DEF At
<1>3. 1 \in 1 .. Len(t) /\ 1 \in 1 .. Len(t) + 1 /\ 1 <= Len(t) /\ Len(l) + 1 \in 1 .. Len(t) + 1 /\ 1 + Len(l) = Len(l) + 1
  BY <1>1, <1>2
<1>4. ~Bare(t, 1)
  BY DEF Bare
<1> DEFINE m == Longest(t, 1)
<1>5. m \in Literals /\ At(t, 1, m) /\ Len(m) \in Nat
  BY <1>3, <1>4, LongestIs
<1> HIDE DEF m
<1>6. m = l
  <2>1. Len(l) <= Len(m) \/ Len(m) <= Len(l)
    BY <1>1, <1>5
  <2>2. QED
    BY <1>5, <2>1, OneHere
<1>7. PICK f : IsRed(t, f) /\ Redact(t) = f[1]
  BY RedactUnfolds
<1>8. f[1] = <<"R">> \o f[1 + Len(m)]
  BY <1>3, <1>4, <1>7 DEF IsRed, RedTo, m
<1> DEFINE k == Len(l) + 1
<1>9. f[1] = <<"R">> \o f[k]
  BY <1>3, <1>6, <1>8
<1>10. k \in 1 .. Len(t) + 1
  BY <1>3
<1> HIDE DEF k
<1>11. f[k] = Redact(From(t, k))
  BY <1>7, <1>10, RedShift
<1>12. QED
  BY <1>7, <1>9, <1>11 DEF k

\* However a text goes on, its redaction begins with what the redactor lets go of.
LEMMA DrainRedacts ==
  ASSUME Independent, NEW t \in Seq(Syms), NEW final \in BOOLEAN, NEW y \in Seq(Syms), final => y = << >>
  PROVE  Redact(t \o y) = Drain(t, final).out \o Redact(Drain(t, final).held \o y)
<1>1. PICK f : IsDrained(t, final, f) /\ Drain(t, final) = f[1]
  BY DrainUnfolds
<1> DEFINE n == Len(t) + 1
           S == {i \in 1 .. n : Redact(From(t, i) \o y) = f[i].out \o Redact(f[i].held \o y)}
<1>2. n \in Nat /\ Len(t) \in Nat /\ Len(y) \in Nat
  BY Parts
<1>3. ASSUME NEW i \in 1 .. n, \A j \in i + 1 .. n : j \in S PROVE i \in S
  <2> DEFINE rest == From(t, i)
             all == rest \o y
  <2>1. DrainsTo(t, final, f, i, f[i])
    BY <1>1 DEF IsDrained
  <2>2. rest \in Seq(Syms) /\ Len(rest) \in Nat /\ i \in Nat /\ i >= 1 /\ Len(rest) = Len(t) + 1 - i
    BY RestIs
  <2>3. CASE Found(rest) = {}
    <3> DEFINE k == Let(rest, final)
               x == First(rest, k)
               h == From(rest, k + 1)
    <3>1. f[i].out = x /\ f[i].held = h
      BY <2>1, <2>3 DEF DrainsTo
    <3> HIDE DEF rest
    <3>2. Clean(rest)
      BY <2>2, <2>3, FoundIs
    <3>3. k \in 0 .. Len(rest) /\ (final => k = Len(rest)) /\ (~final => Shut(rest, k))
      BY <2>2, <3>2, LetIs
    <3> HIDE DEF k
    <3>4. k + 1 \in 1 .. Len(rest) + 1 /\ k \in Nat
      BY <2>2, <3>3
    <3>5. x \in Seq(Syms) /\ h \in Seq(Syms) /\ x \o h = rest /\ Len(x) = k
      BY <2>2, <3>3, <3>4, CutInTwo, Parts
    <3> HIDE DEF x, h
    <3> DEFINE z == h \o y
    <3>6. z \in Seq(Syms) /\ all = x \o z
      <4>1. z \in Seq(Syms)
        BY <3>5, Joined
      <4>2. (x \o h) \o y = x \o (h \o y)
        <5>1. x \in Seq(Syms) /\ h \in Seq(Syms)
          BY <3>5
        <5>2. QED
          BY <5>1, JoinedThrice
      <4>3. QED
        BY <3>5, <4>1, <4>2
    <3>7. \A q \in 1 .. k : Bare(all, q)
      <4>1. CASE final
        <5>1. y = << >>
          BY <4>1
        <5>2. all = rest
          BY <2>2, <5>1
        <5>4. \A q \in 1 .. k : Bare(rest, q)
          <6>1. \A q \in 1 .. k : q \in 1 .. Len(rest)
            BY <2>2, <3>3
          <6>2. QED
            BY <3>2, <6>1 DEF Clean, Bare
        <5>3. QED
          BY <5>2, <5>4
      <4>2. CASE ~final
        <5>1. Shut(all, k)
          <6>1. k <= Len(rest) /\ Shut(rest, k)
            BY <2>2, <3>3, <4>2
          <6>2. QED
            BY <2>2, <3>4, <6>1, ShutGrows
        <5> HIDE DEF all
        <5>2. \A q \in 1 .. k, l \in Literals : ~At(all, q, l)
          BY <5>1 DEF Shut, Fits, At
        <5>3. QED
          BY <5>2 DEF Bare
      <4>3. QED
        BY <4>1, <4>2
    <3> HIDE DEF z, all
    <3>8. Redact(x \o z) = x \o Redact(z)
      BY <3>5, <3>6, <3>7, RedactSkips
    <3>9. Redact(all) = f[i].out \o Redact(f[i].held \o y)
      BY <3>1, <3>6, <3>8 DEF z
    <3>10. QED
      BY <3>9 DEF all, rest
  <2>4. CASE Found(rest) # {}
    <3> DEFINE m == BestMatch(rest)
               l == m[2]
               a == m[1]
               p == a - 1
               b == Behind(rest)
               j == i + (b - 1)
               x == First(rest, p)
               h == From(rest, a)
               d == f[j]
    <3>1. f[i].out = (x \o <<"R">>) \o d.out /\ f[i].held = d.held
      BY <2>1, <2>4 DEF DrainsTo
    <3>2. p \in 0 .. Len(rest) /\ b \in 2 .. Len(rest) + 1 /\ j \in i + 1 .. n /\ a \in Nat
      BY <2>4, RestIs
    <3>3. d \in Drained /\ j \in 1 .. Len(t) + 1
      <4>1. j \in 1 .. Len(t) + 1
        BY <1>2, <2>2, <3>2
      <4>2. QED
        BY <1>1, <4>1 DEF IsDrained, DrainsTo
    <3>4. /\ a \in 1 .. Len(rest) /\ l \in Literals /\ At(rest, a, l) /\ b = a + Len(l)
          /\ \A q \in 1 .. p, k \in Literals : ~At(rest, q, k)
      <4> HIDE DEF rest
      <4>1. QED
        BY <2>2, <2>4, BestIs DEF Behind
    <3> HIDE DEF d
    <3>5. From(t, j) = From(rest, b) /\ From(rest, b) \in Seq(Syms)
      <4> HIDE DEF j, b
      <4> DEFINE u == From(t, j)
                 v == From(rest, b)
      <4>1. b \in Nat /\ j = i + (b - 1) /\ b \in 1 .. Len(rest) + 1
        BY <2>2, <3>2 DEF j
      <4>2. /\ u \in Seq(Syms) /\ Len(u) = Len(t) + 1 - j
            /\ \A q \in 1 .. Len(t) + 1 - j : u[q] = t[j + q - 1]
        BY <3>3, Parts
      <4>3. \A q \in 1 .. Len(t) + 1 - i : rest[q] = t[i + q - 1]
        BY Parts
      <4> HIDE DEF rest
      <4>4. /\ v \in Seq(Syms) /\ Len(v) = Len(rest) + 1 - b
            /\ \A q \in 1 .. Len(rest) + 1 - b : v[q] = rest[b + q - 1]
        BY <2>2, <4>1, Parts
      <4> HIDE DEF u, v
      <4>5. Len(u) = Len(v)
        <5>1. /\ Len(u) = Len(t) + 1 - j /\ Len(v) = Len(rest) + 1 - b /\ j = i + (b - 1) /\ Len(rest) = Len(t) + 1 - i
              /\ b \in Nat /\ i \in Nat /\ Len(t) \in Nat
          BY <1>2, <2>2, <4>1, <4>2, <4>4
        <5>2. QED
          BY <5>1
      <4>6. ASSUME NEW q \in 1 .. Len(u) PROVE u[q] = v[q]
        <5>1. /\ q \in Nat /\ q \in 1 .. Len(t) + 1 - j /\ q \in 1 .. Len(rest) + 1 - b
              /\ b + q - 1 \in 1 .. Len(t) + 1 - i /\ i + (b + q - 1) - 1 = j + q - 1
          BY <1>2, <2>2, <4>1, <4>2, <4>4, <4>5
        <5> DEFINE c == b + q - 1
        <5>2. v[q] = rest[c] /\ c \in 1 .. Len(t) + 1 - i /\ i + c - 1 = j + q - 1
          BY <4>4, <5>1
        <5> HIDE DEF c
        <5>3. rest[c] = t[i + c - 1] /\ u[q] = t[j + q - 1]
          BY <4>2, <4>3, <5>1, <5>2
        <5>4. QED
          BY <5>2, <5>3
      <4>7. u = v
        BY <4>2, <4>4, <4>5, <4>6, SameText
      <4>8. QED
        BY <4>4, <4>7 DEF u, v
    <3> HIDE DEF rest, m, l, a, b, j
    <3>6. Len(l) \in Nat /\ Len(l) >= 1 /\ p + 1 = a
      BY <3>2, <3>4, LiteralIs
    <3>7. x \in Seq(Syms) /\ Len(x) = p /\ h \in Seq(Syms) /\ x \o h = rest /\ Len(h) = Len(rest) + 1 - a
      <4>1. a \in 1 .. Len(rest) + 1
        BY <2>2, <3>2, <3>4
      <4>2. First(rest, p) \o From(rest, p + 1) = rest
        BY <2>2, <3>2, CutInTwo
      <4> HIDE DEF p
      <4>3. QED
        BY <2>2, <3>2, <3>6, <4>1, <4>2, Parts
    <3> HIDE DEF x, p
    <3> DEFINE z == h \o y
    <3>8. z \in Seq(Syms) /\ all = x \o z
      <4> HIDE DEF h
      <4>1. z \in Seq(Syms)
        BY <3>7, Joined
      <4>2. (x \o h) \o y = x \o (h \o y)
        <5>1. x \in Seq(Syms) /\ h \in Seq(Syms)
          BY <3>7
        <5>2. QED
          BY <5>1, JoinedThrice
      <4>3. QED
        BY <3>7, <4>1, <4>2
    <3>9. ASSUME NEW q \in 1 .. p PROVE Bare(all, q)
      <4>1. SUFFICES ASSUME NEW k \in Literals, At(all, q, k) PROVE FALSE
        BY DEF Bare
      <4>2. /\ Len(k) \in Nat /\ Len(k) >= 1 /\ q \in Nat /\ q >= 1 /\ q < a /\ Len(all) = Len(rest) + Len(y)
            /\ \A u \in 1 .. Len(rest) : all[u] = rest[u]
        <5>1. Len(k) \in Nat /\ Len(k) >= 1
          BY LiteralIs
        <5>2. q \in Nat /\ q >= 1 /\ q < a
          BY <2>2, <3>2, <3>6
        <5>3. Len(all) = Len(rest) + Len(y) /\ \A u \in 1 .. Len(rest) : all[u] = rest[u]
          BY <2>2, Joined
        <5> HIDE DEF all
        <5>4. QED
          BY <5>1, <5>2, <5>3
      <4> HIDE DEF all
      <4>3. CASE q + Len(k) - 1 <= Len(rest)
        <5>1. ASSUME NEW u \in 1 .. Len(k) PROVE rest[q + u - 1] = k[u]
          <6>1. q + u - 1 \in 1 .. Len(rest) /\ all[q + u - 1] = k[u]
            BY <2>2, <4>1, <4>2, <4>3 DEF At
          <6>2. QED
            BY <4>2, <6>1
        <5>2. At(rest, q, k)
          BY <4>3, <5>1 DEF At
        <5>3. QED
          BY <3>4, <5>2
      <4>4. CASE ~(q + Len(k) - 1 <= Len(rest))
        <5> DEFINE c == a - q + 1
        <5>1. a + Len(l) - 1 <= Len(rest) /\ a \in Nat
          BY <3>2, <3>4 DEF At
        <5>2. c \in 1 .. Len(k) /\ c > 1 /\ c + Len(l) - 1 <= Len(k)
          BY <2>2, <3>6, <4>2, <4>4, <5>1
        <5>3. ASSUME NEW u \in 1 .. Len(l) PROVE k[c + u - 1] = l[u]
          <6>1. /\ c + u - 1 \in 1 .. Len(k) /\ q + (c + u - 1) - 1 = a + u - 1 /\ a + u - 1 \in 1 .. Len(rest)
            <7>1. /\ Len(rest) \in Nat /\ Len(l) \in Nat /\ Len(k) \in Nat /\ q \in Nat /\ a \in Nat /\ q < a
                  /\ a + Len(l) - 1 <= Len(rest) /\ c = a - q + 1 /\ c + Len(l) - 1 <= Len(k) /\ q >= 1
              BY <2>2, <3>6, <4>2, <5>1, <5>2
            <7>2. u \in Nat /\ u >= 1 /\ u <= Len(l)
              BY <7>1
            <7> HIDE DEF c
            <7>3. QED
              BY <7>1, <7>2
          <6>2. all[a + u - 1] = l[u]
            BY <3>4, <4>2, <6>1 DEF At
          <6>3. all[q + (c + u - 1) - 1] = k[c + u - 1]
            BY <4>1, <6>1 DEF At
          <6>4. QED
            BY <6>1, <6>2, <6>3
        <5> HIDE DEF c
        <5>4. At(k, c, l)
          BY <5>2, <5>3 DEF At
        <5>5. c = 1
          BY <3>4, <5>2, <5>4, Alone
        <5>6. QED
          BY <5>2, <5>5
      <4>5. QED
        BY <4>3, <4>4
    <3>10. Redact(x \o z) = x \o Redact(z)
      BY <3>7, <3>8, <3>9, RedactSkips
    <3>11. At(h, 1, l)
      <4>1. a \in 1 .. Len(rest) + 1 /\ a + 1 - 1 = a
        BY <2>2, <3>2, <3>4
      <4>2. 1 \in Nat /\ 1 >= 1
        OBVIOUS
      <4>3. At(From(rest, a), 1, l) <=> At(rest, a + 1 - 1, l)
        BY <2>2, <3>4, <4>1, <4>2, AtShift
      <4>4. QED
        BY <3>4, <4>1, <4>3
    <3>12. At(z, 1, l)
      <4> HIDE DEF h
      <4>1. /\ Len(z) = Len(h) + Len(y) /\ Len(h) \in Nat /\ \A u \in 1 .. Len(h) : z[u] = h[u]
        BY <3>7, Joined, Parts
      <4> HIDE DEF z
      <4>2. 1 + Len(l) - 1 <= Len(z)
        BY <1>2, <3>6, <3>11, <4>1 DEF At
      <4>3. ASSUME NEW u \in 1 .. Len(l) PROVE z[1 + u - 1] = l[u]
        <5>1. 1 + u - 1 \in 1 .. Len(h)
          BY <3>6, <3>11, <4>1 DEF At
        <5>2. QED
          BY <3>11, <4>1, <5>1 DEF At
      <4>4. QED
        BY <4>2, <4>3 DEF At
    <3> DEFINE e == Len(l) + 1
               g == From(z, e)
    <3>13. Redact(z) = <<"R">> \o Redact(g)
      <4> HIDE DEF z
      <4>1. QED
        BY <3>4, <3>8, <3>12, RedactMatches
    <3>14. g = From(rest, b) \o y
      <4>1. e \in 1 .. Len(h) + 1
        <5>1. /\ Len(rest) \in Nat /\ Len(l) \in Nat /\ a \in Nat /\ Len(h) = Len(rest) + 1 - a
              /\ b <= Len(rest) + 1 /\ b = a + Len(l) /\ e = Len(l) + 1
          <6>1. b <= Len(rest) + 1
            BY <2>2, <3>2
          <6>2. QED
            BY <2>2, <3>2, <3>4, <3>6, <3>7, <6>1
        <5> HIDE DEF h, e
        <5>2. QED
          BY <5>1
      <4>2. g = From(h, e) \o y
        <5> HIDE DEF e, h
        <5>1. QED
          BY <3>7, <4>1, FromJoin
      <4>3. From(h, e) = From(rest, b)
        <5> DEFINE u == From(h, e)
                   v == From(rest, b)
        <5>1. b \in 1 .. Len(rest) + 1 /\ b \in Nat /\ e \in Nat /\ a \in 1 .. Len(rest) + 1
          BY <2>2, <3>2, <3>4, <3>6
        <5>2. /\ v \in Seq(Syms) /\ Len(v) = Len(rest) + 1 - b
              /\ \A q \in 1 .. Len(rest) + 1 - b : v[q] = rest[b + q - 1]
          BY <2>2, <5>1, Parts
        <5>3. \A q \in 1 .. Len(rest) + 1 - a : h[q] = rest[a + q - 1]
          BY <2>2, <5>1, Parts
        <5> HIDE DEF h, e, v
        <5>4. /\ u \in Seq(Syms) /\ Len(u) = Len(h) + 1 - e
              /\ \A q \in 1 .. Len(h) + 1 - e : u[q] = h[e + q - 1]
          BY <3>7, <4>1, Parts
        <5> HIDE DEF u
        <5>9. /\ e = Len(l) + 1 /\ b = a + Len(l) /\ Len(h) = Len(rest) + 1 - a /\ Len(u) = Len(h) + 1 - e
              /\ Len(v) = Len(rest) + 1 - b /\ a \in Nat /\ Len(l) \in Nat /\ Len(rest) \in Nat /\ a >= 1 /\ b <= Len(rest) + 1
          <6>1. a \in Nat /\ a >= 1
            BY <3>2, <3>4
          <6>2. b <= Len(rest) + 1
            BY <2>2, <5>1
          <6>3. QED
            BY <2>2, <3>4, <3>6, <3>7, <5>2, <5>4, <6>1, <6>2 DEF e
        <5>5. Len(u) = Len(v)
          BY <5>9
        <5>6. ASSUME NEW q \in 1 .. Len(u) PROVE u[q] = v[q]
          <6> DEFINE c == e + q - 1
          <6>1. /\ q \in 1 .. Len(h) + 1 - e /\ q \in 1 .. Len(rest) + 1 - b
                /\ c \in 1 .. Len(rest) + 1 - a /\ a + c - 1 = b + q - 1
            <7>1. q \in Nat /\ q >= 1 /\ q <= Len(u) /\ c = e + q - 1
              BY <5>9
            <7>2. QED
              BY <5>9, <7>1
          <6>2. u[q] = h[c] /\ v[q] = rest[b + q - 1]
            BY <5>2, <5>4, <6>1
          <6> HIDE DEF c
          <6>3. h[c] = rest[a + c - 1]
            BY <5>3, <6>1
          <6>4. QED
            BY <6>1, <6>2, <6>3
        <5>7. u = v
          BY <5>2, <5>4, <5>5, <5>6, SameText
        <5>8. QED
          BY <5>7 DEF u, v
      <4>4. QED
        BY <4>2, <4>3
    <3> DEFINE w == Redact(d.held \o y)
               o == d.out
    <3>15. Redact(g) = o \o w
      BY <1>3, <3>2, <3>5, <3>14 DEF d
    <3>16. o \in Seq(Syms) /\ w \in Seq(Syms)
      <4>1. d.held \in Seq(Syms) /\ d.out \in Seq(Syms)
        BY <3>3 DEF Drained
      <4> DEFINE s == d.held \o y
      <4>2. s \in Seq(Syms)
        BY <4>1, Joined
      <4> HIDE DEF s
      <4>3. Redact(s) \in Seq(Syms)
        BY <4>2, RedactType
      <4>4. QED
        BY <4>1, <4>3 DEF s
    <3>17. Redact(all) = f[i].out \o Redact(f[i].held \o y)
      <4> DEFINE r == <<"R">>
      <4>1. r \in Seq(Syms)
        BY DEF Syms
      <4>2. f[i].out = (x \o r) \o o /\ Redact(f[i].held \o y) = w
        BY <3>1
      <4>3. Redact(all) = x \o (r \o (o \o w))
        BY <3>8, <3>10, <3>13, <3>15
      <4> HIDE DEF r, o, w, all
      <4>4. /\ x \o (r \o (o \o w)) = (x \o r) \o (o \o w)
            /\ (x \o r) \o (o \o w) = ((x \o r) \o o) \o w
        <5>1. o \o w \in Seq(Syms) /\ x \o r \in Seq(Syms)
          BY <3>7, <3>16, <4>1, Joined
        <5>2. x \o (r \o (o \o w)) = (x \o r) \o (o \o w)
          <6>1. x \in Seq(Syms)
            BY <3>7
          <6>2. QED
            BY <4>1, <5>1, <6>1, JoinedThrice, Zenon
        <5>3. (x \o r) \o (o \o w) = ((x \o r) \o o) \o w
          <6> DEFINE xr == x \o r
          <6>1. xr \in Seq(Syms)
            BY <5>1
          <6> HIDE DEF xr
          <6>2. Regrouped(xr, o, w)
            BY <3>16, <6>1, Regroup
          <6>3. QED
            BY <6>2, Zenon DEF Regrouped, xr
        <5>4. QED
          BY <5>2, <5>3
      <4>5. QED
        BY <4>2, <4>3, <4>4
    <3>18. QED
      BY <3>17 DEF all, rest
  <2>5. QED
    BY <2>3, <2>4
<1>4. 1 \in S
  <2>1. 1 \in 1 .. n
    BY <1>2
  <2> HIDE DEF S, n
  <2>2. QED
    BY <1>2, <1>3, <2>1, FromTheEnd
<1>5. QED
  BY <1>1, <1>4, FromStart

-----------------------------------------------------------------------------
\* What the proxy passes on.

\* However the answer goes on, its redaction is what has been passed on and the
\* redaction of what is held and the rest.
FinalInv ==
    cli = "proxy" =>
        /\ phase # "closed" => \A y \in Seq(Syms) : Redact(arrived \o y) = out \o Redact(sink.held \o y)
        /\ phase = "closed" => out = Redact(arrived)

LEMMA FinalStarts == PipeInit => FinalInv
<1>1. SUFFICES ASSUME PipeInit, cli = "proxy" PROVE FinalInv
  BY DEF FinalInv
<1>2. phase = "run" /\ arrived = << >> /\ out = << >> /\ sink.held = << >>
  BY <1>1 DEF PipeInit, NewSink
<1>3. ASSUME NEW y \in Seq(Syms) PROVE Redact(arrived \o y) = out \o Redact(sink.held \o y)
  <2> DEFINE r == Redact(y)
  <2>1. r \in Seq(Syms) /\ << >> \o y = y
    BY RedactType
  <2> HIDE DEF r
  <2>2. << >> \o r = r
    BY <2>1
  <2>3. QED
    BY <1>2, <2>1, <2>2 DEF r
<1>4. QED
  BY <1>2, <1>3 DEF FinalInv

LEMMA ReadIsFinal ==
  ASSUME Independent, PipeInv, FinalInv, NEW t \in Pieces, ProxyRead(t)
  PROVE  FinalInv'
<1> DEFINE k == Least(Len(t), ProxyLimit - Len(arrived))
           f == First(t, k)
           h == sink.held
           v == h \o f
           d == Drain(v, FALSE)
           e == d.out
           g == d.held
<1>1. /\ cli = "proxy" /\ phase = "run" /\ arrived' = arrived \o f /\ out' = out \o e
      /\ sink' = [sink EXCEPT !.held = g]
      /\ phase' \in {"run", "broken"} /\ UNCHANGED cli
  BY DEF ProxyRead
<1>2. t \in Seq(Syms)
  BY TextsAre, PlainIs
<1>3. f \in Seq(Syms)
  BY <1>1, <1>2, AllowedIs
<1> HIDE DEF f
<1>4. h \in Seq(Syms) /\ out \in Seq(Syms) /\ arrived \in Seq(Syms) /\ sink \in Sinks
  BY <1>1, InvParts DEF Sinks
<1>5. \A y \in Seq(Syms) : Redact(arrived \o y) = out \o Redact(h \o y)
  BY <1>1 DEF FinalInv
<1> HIDE DEF h
<1>6. v \in Seq(Syms)
  BY <1>3, <1>4, Joined
<1> HIDE DEF v
<1>7. e \in Seq(Syms) /\ g \in Seq(Syms)
  <2>1. 1 \in 1 .. Len(v) + 1
    BY <1>6, Parts
  <2>2. \E u : IsDrained(v, FALSE, u) /\ Drain(v, FALSE) = u[1]
    BY <1>6, DrainUnfolds
  <2>3. d \in Drained
    BY <2>1, <2>2 DEF IsDrained, DrainsTo
  <2>4. QED
    BY <2>3 DEF Drained
<1>8. \A y \in Seq(Syms) : Redact(v \o y) = e \o Redact(g \o y)
  BY <1>6, DrainRedacts
<1> HIDE DEF e, g
<1>9. sink'.held = g
  BY <1>1, <1>4, <1>7, HeldSink
<1>10. ASSUME NEW y \in Seq(Syms) PROVE Redact(arrived' \o y) = out' \o Redact(sink'.held \o y)
  <2> DEFINE z == f \o y
             r == Redact(g \o y)
  <2>1. z \in Seq(Syms) /\ (arrived \o f) \o y = arrived \o z /\ (h \o f) \o y = h \o z
    <3>1. z \in Seq(Syms)
      BY <1>3, Joined
    <3>5. arrived \in Seq(Syms) /\ h \in Seq(Syms)
      BY <1>4
    <3>2. (arrived \o f) \o y = arrived \o (f \o y)
      BY <1>3, <3>5, JoinedThrice, Zenon
    <3>3. (h \o f) \o y = h \o (f \o y)
      BY <1>3, <3>5, JoinedThrice, Zenon
    <3>4. QED
      BY <3>1, <3>2, <3>3
  <2>2. r \in Seq(Syms)
    <3> DEFINE s == g \o y
    <3>1. s \in Seq(Syms)
      BY <1>7, Joined
    <3> HIDE DEF s
    <3>2. Redact(s) \in Seq(Syms)
      BY <3>1, RedactType
    <3>3. QED
      BY <3>2 DEF s
  <2> HIDE DEF z
  <2>3. Redact(arrived \o z) = out \o Redact(h \o z)
    BY <1>5, <2>1
  <2>4. Redact(h \o z) = e \o r
    BY <1>8, <2>1 DEF v
  <2> HIDE DEF r
  <2>5. out \o (e \o r) = (out \o e) \o r
    <3>1. out \in Seq(Syms) /\ e \in Seq(Syms)
      BY <1>4, <1>7
    <3>2. QED
      BY <2>2, <3>1, JoinedThrice, Zenon
  <2>6. Redact(arrived' \o y) = out' \o r
    BY <1>1, <2>1, <2>3, <2>4, <2>5
  <2>7. QED
    BY <1>9, <2>6 DEF r
<1>11. phase' # "closed"
  BY <1>1
<1>12. QED
  BY <1>10, <1>11 DEF FinalInv

LEMMA EOFIsFinal ==
  ASSUME Independent, PipeInv, FinalInv, ProxyEOF
  PROVE  FinalInv'
<1> DEFINE h == sink.held
           d == Drain(h, TRUE)
           e == d.out
           g == d.held
           z == << >>
<1>1. /\ cli = "proxy" /\ phase = "run" /\ phase' = "closed" /\ out' = out \o e /\ arrived' = arrived
  BY DEF ProxyEOF
<1>2. /\ h \in Seq(Syms) /\ out \in Seq(Syms) /\ arrived \in Seq(Syms) /\ Shut(out \o h, Len(out))
  BY <1>1, InvParts DEF Sinks, PipeInv, ProxyInv
<1>3. \A y \in Seq(Syms) : Redact(arrived \o y) = out \o Redact(h \o y)
  BY <1>1 DEF FinalInv
<1> HIDE DEF h
<1>4. e \in Seq(Syms)
  <2>1. \E u : IsDrained(h, TRUE, u) /\ d = u[1]
    BY <1>2, DrainUnfolds
  <2>2. 1 \in 1 .. Len(h) + 1
    BY <1>2, Parts
  <2>3. d \in Drained
    BY <2>1, <2>2 DEF IsDrained, DrainsTo
  <2>4. QED
    BY <2>3 DEF Drained
<1>5. Settled(out, d, TRUE)
  BY <1>2, DrainSettles
<1>6. g = << >>
  BY <1>5 DEF Settled
<1>7. z \in Seq(Syms) /\ arrived \o z = arrived /\ h \o z = h
  BY <1>2
<1>8. Redact(h \o z) = e \o Redact(g \o z)
  BY <1>2, <1>7, DrainRedacts
<1> HIDE DEF e, g
<1>9. Redact(g \o z) = << >> /\ e \o << >> = e
  <2>1. g \o z = << >>
    BY <1>6
  <2>2. Redact(<< >>) = << >>
    BY <1>2, RedactType
  <2>3. e \o << >> = e
    BY <1>4
  <2>4. QED
    BY <2>1, <2>2, <2>3
<1>10. Redact(arrived \o z) = out \o Redact(h \o z)
  BY <1>3, <1>7
<1>11. Redact(arrived) = out \o e
  BY <1>7, <1>8, <1>9, <1>10
<1>12. QED
  BY <1>1, <1>11 DEF FinalInv

LEMMA FinalKeeps == ASSUME Independent PROVE PipeInv /\ FinalInv /\ [PipeNext]_pipeVars => FinalInv'
<1>1. SUFFICES ASSUME PipeInv, FinalInv, PipeNext PROVE FinalInv'
  BY DEF FinalInv, pipeVars
<1>2. CASE cli # "proxy"
  <2>1. cli' = cli
    BY <1>1 DEF PipeNext, BeginTurn, StdoutArrives, LineEnds, Stderr, CloseRun, EndTurn, Notice, ProxyRead, ProxyFails, ProxyEOF
  <2>2. QED
    BY <1>2, <2>1 DEF FinalInv
<1>3. CASE cli = "proxy"
  <2>1. line = NoLine /\ phase # "idle"
    BY <1>1, <1>3 DEF PipeInv, ProxyInv
  <2>2. (\E t \in Pieces : ProxyRead(t)) \/ ProxyFails \/ ProxyEOF
    BY <1>1, <1>3, <2>1 DEF PipeNext, BeginTurn, StdoutArrives, Writing, LineEnds, Stderr, CloseRun, EndTurn, Notice
  <2>3. ASSUME ProxyFails PROVE FinalInv'
    BY <1>1, <2>3 DEF FinalInv, ProxyFails
  <2>4. QED
    BY <1>1, <2>2, <2>3, ReadIsFinal, EOFIsFinal
<1>4. QED
  BY <1>2, <1>3

LEMMA JoinBegins ==
  ASSUME NEW x \in Seq(Syms), NEW y \in Seq(Syms)
  PROVE  IsPrefix(x, x \o y)
<1> DEFINE z == x \o y
<1>1. /\ z \in Seq(Syms) /\ Len(z) = Len(x) + Len(y) /\ Len(x) \in Nat /\ Len(y) \in Nat
      /\ \A i \in 1 .. Len(x) : z[i] = x[i]
  BY Joined, Parts
<1> HIDE DEF z
<1>2. Len(x) <= Len(z) /\ Len(x) \in 0 .. Len(z) /\ Len(x) \in 0 .. Len(x)
  BY <1>1
<1>3. First(z, Len(x)) = First(x, Len(x))
  <2> DEFINE a == First(z, Len(x))
             b == First(x, Len(x))
  <2>1. a \in Seq(Syms) /\ Len(a) = Len(x) /\ \A i \in 1 .. Len(x) : a[i] = z[i]
    BY <1>1, <1>2, Parts
  <2>2. b \in Seq(Syms) /\ Len(b) = Len(x) /\ \A i \in 1 .. Len(x) : b[i] = x[i]
    BY <1>2, Parts
  <2> HIDE DEF a, b
  <2>3. a = b
    BY <1>1, <2>1, <2>2, SameText
  <2>4. QED
    BY <2>3 DEF a, b
<1>4. IsPrefix(x, z)
  BY <1>2, <1>3 DEF IsPrefix, First
<1>5. QED
  BY <1>4 DEF z

\* What the proxy has passed on is right however the answer goes on, and at the end
\* it is the redaction of the whole answer.
THEOREM PassedHolds == ASSUME Independent PROVE PipeSpec => []PassedOnIsFinal
<1>1. PipeInv /\ FinalInv => PassedOnIsFinal
  <2>1. SUFFICES ASSUME PipeInv, FinalInv, cli = "proxy", phase # "closed", NEW l \in Literals, NEW k \in 1 .. Len(l)
                 PROVE  IsPrefix(out, Redact(arrived \o From(l, k)))
    BY DEF PassedOnIsFinal, FinalInv
  <2> DEFINE y == From(l, k)
             s == sink.held \o y
  <2>2. out \in Seq(Syms) /\ sink.held \in Seq(Syms)
    BY <2>1, InvParts DEF Sinks
  <2>3. y \in Seq(Syms)
    <3>1. l \in Seq(Syms) /\ k \in 1 .. Len(l) + 1
      BY LiteralIs
    <3>2. QED
      BY <3>1, Parts
  <2> HIDE DEF y
  <2>4. Redact(arrived \o y) = out \o Redact(s)
    BY <2>1, <2>3 DEF FinalInv
  <2>5. s \in Seq(Syms)
    BY <2>2, <2>3, Joined
  <2> HIDE DEF s
  <2>6. IsPrefix(out, out \o Redact(s))
    BY <2>2, <2>5, RedactType, JoinBegins
  <2>7. QED
    BY <2>4, <2>6 DEF y
<1>2. QED
  BY <1>1, FinalStarts, FinalKeeps, PipeInvHolds, PTL DEF PipeSpec

-----------------------------------------------------------------------------
\* What a run has recorded.

LEMMA KeptIn ==
  ASSUME NEW t \in Seq(Syms), NEW c, NEW f, IsKept(t, c, f), NEW i \in 1 .. Len(t) + 1
  PROVE  f[i] \in Seq(Syms)
<1> DEFINE n == Len(t) + 1
           S == {j \in 1 .. n : f[j] \in Seq(Syms)}
<1>2. n \in Nat /\ Len(t) \in Nat
  BY Parts
<1>3. ASSUME NEW k \in 1 .. n, \A j \in k + 1 .. n : j \in S PROVE k \in S
  <2>1. CASE k > Len(t)
    <3>1. f[k] = << >>
      BY <2>1 DEF IsKept
    <3>2. << >> \in Seq(Syms)
      OBVIOUS
    <3>3. QED
      BY <3>1, <3>2
  <2>2. CASE k <= Len(t)
    <3>1. k + 1 \in k + 1 .. n /\ k \in 1 .. Len(t)
      BY <1>2, <2>2
    <3>2. f[k + 1] \in Seq(Syms) /\ t[k] \in Syms
      BY <1>3, <3>1
    <3>3. << >> \in Seq(Syms) /\ <<t[k]>> \in Seq(Syms)
      BY <3>2
    <3>4. f[k] = << >> \o f[k + 1] \/ f[k] = <<t[k]>> \o f[k + 1]
      BY <2>2 DEF IsKept
    <3>5. (<< >> \o f[k + 1]) \in Seq(Syms) /\ (<<t[k]>> \o f[k + 1]) \in Seq(Syms)
      BY <3>2, <3>3, Joined
    <3>6. f[k] \in Seq(Syms)
      BY <3>4, <3>5
    <3>7. QED
      BY <3>6
  <2>3. k > Len(t) \/ k <= Len(t)
    BY <1>2
  <2>4. QED
    BY <2>1, <2>2, <2>3
<1>4. i \in S
  <2>1. i \in 1 .. n
    OBVIOUS
  <2> HIDE DEF S, n
  <2>2. QED
    BY <1>2, <1>3, <2>1, FromTheEnd
<1>5. QED
  BY <1>4

\* The text from i on is its first symbol and the rest.
LEMMA HeadFrom ==
  ASSUME NEW x \in Seq(Syms), NEW i \in 1 .. Len(x)
  PROVE  <<x[i]>> \in Seq(Syms) /\ <<x[i]>> \o From(x, i + 1) = From(x, i)
<1> DEFINE z == From(x, i)
           k == i + 1
           a == <<x[i]>>
           b == From(x, k)
<1>1. Len(x) \in Nat /\ i \in Nat /\ i >= 1 /\ i <= Len(x) /\ i \in 1 .. Len(x) + 1 /\ k \in 1 .. Len(x) + 1 /\ x[i] \in Syms
  <2>1. Len(x) \in Nat /\ x[i] \in Syms
    BY Parts
  <2>2. QED
    BY <2>1
<1>2. /\ z \in Seq(Syms) /\ Len(z) = Len(x) + 1 - i /\ \A q \in 1 .. Len(x) + 1 - i : z[q] = x[i + q - 1]
  BY <1>1, Parts
<1>3. a \in Seq(Syms) /\ Len(a) = 1 /\ a[1] = x[i]
  BY <1>1
<1> HIDE DEF k
<1>4. /\ b \in Seq(Syms) /\ Len(b) = Len(x) + 1 - k /\ \A q \in 1 .. Len(x) + 1 - k : b[q] = x[k + q - 1]
  BY <1>1, Parts
<1> HIDE DEF z, a, b
<1>5. Len(b) = Len(x) - i /\ \A q \in 1 .. Len(x) - i : b[q] = x[i + q]
  <2>1. Len(x) + 1 - k = Len(x) - i /\ \A q \in 1 .. Len(x) - i : k + q - 1 = i + q
    BY <1>1 DEF k
  <2>2. QED
    BY <1>4, <2>1
<1> DEFINE c == a \o b
<1>6. /\ c \in Seq(Syms) /\ Len(c) = Len(a) + Len(b) /\ (\A q \in 1 .. Len(a) : c[q] = a[q])
      /\ \A q \in 1 .. Len(b) : c[Len(a) + q] = b[q]
  BY <1>3, <1>4, Joined
<1> HIDE DEF c
<1>7. Len(c) = Len(z) /\ Len(c) = Len(x) + 1 - i
  BY <1>1, <1>2, <1>3, <1>5, <1>6
<1>8. ASSUME NEW q \in 1 .. Len(c) PROVE c[q] = z[q]
  <2>1. q \in Nat /\ q >= 1 /\ q <= Len(x) + 1 - i
    BY <1>1, <1>7
  <2>2. z[q] = x[i + q - 1]
    BY <1>1, <1>2, <2>1
  <2>3. CASE q = 1
    <3>1. i + q - 1 = i /\ 1 \in 1 .. Len(a)
      BY <1>1, <1>3, <2>3
    <3>2. c[1] = x[i]
      BY <1>3, <1>6, <3>1
    <3>3. QED
      BY <2>2, <2>3, <3>1, <3>2
  <2>4. CASE q # 1
    <3> DEFINE u == q - 1
    <3>1. u \in 1 .. Len(x) - i /\ 1 + u = q /\ i + u = i + q - 1
      BY <1>1, <2>1, <2>4
    <3> HIDE DEF u
    <3>2. u \in 1 .. Len(b) /\ Len(a) + u = q
      BY <1>3, <1>5, <3>1
    <3>3. c[Len(a) + u] = b[u] /\ b[u] = x[i + u]
      BY <1>5, <1>6, <3>1, <3>2
    <3>4. QED
      BY <2>2, <3>1, <3>2, <3>3
  <2>5. QED
    BY <2>3, <2>4
<1>9. c = z
  BY <1>2, <1>6, <1>7, <1>8, SameText
<1>10. QED
  BY <1>3, <1>9 DEF a, b, c, k, z

\* To take a symbol out of a text is to take it out of its parts.
LEMMA WithoutJoin ==
  ASSUME NEW x \in Seq(Syms), NEW y \in Seq(Syms), NEW c
  PROVE  /\ Without(x \o y, c) = Without(x, c) \o Without(y, c)
         /\ Without(x, c) \in Seq(Syms)
<1> DEFINE t == x \o y
           m == Len(x)
           n == Len(x) + 1
           e == Len(y) + 1
<1>1. /\ m \in Nat /\ Len(y) \in Nat /\ n \in Nat /\ e \in Nat /\ t \in Seq(Syms) /\ Len(t) = m + Len(y)
      /\ (\A i \in 1 .. m : t[i] = x[i]) /\ \A i \in 1 .. Len(y) : t[m + i] = y[i]
  BY Parts, Joined
<1> HIDE DEF t
<1>2. PICK f : IsKept(t, c, f) /\ Without(t, c) = f[1]
  BY <1>1, KeptUnfolds
<1>3. PICK g : IsKept(x, c, g) /\ Without(x, c) = g[1]
  BY KeptUnfolds
<1>4. PICK h : IsKept(y, c, h) /\ Without(y, c) = h[1]
  BY KeptUnfolds
<1> DEFINE V == {k \in 1 .. e : f[m + k] = h[k]}
<1>5. ASSUME NEW k \in 1 .. e, \A j \in k + 1 .. e : j \in V PROVE k \in V
  <2> DEFINE p == m + k
  <2>1. k \in Nat /\ p \in 1 .. Len(t) + 1 /\ (k > Len(y) <=> p > Len(t)) /\ (k <= Len(y) <=> p <= Len(t)) /\ p + 1 = m + (k + 1)
    BY <1>1
  <2>2. CASE k > Len(y)
    <3>1. f[p] = << >> /\ h[k] = << >>
      BY <1>2, <1>4, <2>1, <2>2 DEF IsKept
    <3>2. QED
      BY <3>1
  <2>3. CASE k <= Len(y)
    <3>1. k + 1 \in k + 1 .. e /\ k \in 1 .. Len(y)
      BY <1>1, <2>1, <2>3
    <3>2. f[p + 1] = h[k + 1] /\ t[p] = y[k]
      BY <1>1, <1>5, <2>1, <3>1
    <3>3. /\ y[k] = c => f[p] = << >> \o f[p + 1] /\ h[k] = << >> \o h[k + 1]
          /\ y[k] # c => f[p] = <<y[k]>> \o f[p + 1] /\ h[k] = <<y[k]>> \o h[k + 1]
      <4> HIDE DEF p
      <4>1. QED
        BY <1>2, <1>4, <2>1, <2>3, <3>2 DEF IsKept
    <3>4. f[p] = h[k]
      BY <3>2, <3>3
    <3>5. QED
      BY <3>4
  <2>4. k > Len(y) \/ k <= Len(y)
    BY <1>1, <2>1
  <2>5. QED
    BY <2>2, <2>3, <2>4
<1>6. f[n] = h[1]
  <2>1. 1 \in 1 .. e
    BY <1>1
  <2> HIDE DEF V, e
  <2>2. 1 \in V
    BY <1>1, <1>5, <2>1, FromTheEnd
  <2>3. QED
    BY <2>2 DEF V
<1> DEFINE r == h[1]
           S == {i \in 1 .. n : f[i] = g[i] \o r}
<1>7. r \in Seq(Syms) /\ \A i \in 1 .. n : g[i] \in Seq(Syms)
  <2>1. 1 \in 1 .. Len(y) + 1
    BY <1>1
  <2>2. QED
    BY <1>3, <1>4, <2>1, KeptIn
<1> HIDE DEF r
<1>8. ASSUME NEW i \in 1 .. n, \A j \in i + 1 .. n : j \in S PROVE i \in S
  <2>1. CASE i = n
    <3>1. g[n] = << >>
      <4>1. n > Len(x) /\ n \in 1 .. Len(x) + 1
        BY <1>1
      <4>2. QED
        BY <1>3, <4>1 DEF IsKept
    <3>2. << >> \o r = r
      BY <1>7
    <3>3. QED
      BY <1>6, <2>1, <3>1, <3>2 DEF r
  <2>2. CASE i # n
    <3>1. i \in 1 .. m /\ i <= m /\ i <= Len(t) /\ i \in 1 .. Len(t) + 1 /\ i + 1 \in i + 1 .. n /\ i + 1 \in 1 .. n
      BY <1>1, <2>2
    <3>2. f[i + 1] = g[i + 1] \o r /\ t[i] = x[i]
      BY <1>1, <1>8, <3>1
    <3> DEFINE a == IF x[i] = c THEN << >> ELSE <<x[i]>>
               b == g[i + 1]
    <3>3. f[i] = a \o f[i + 1] /\ g[i] = a \o b
      BY <1>2, <1>3, <3>1, <3>2 DEF IsKept
    <3>4. a \in Seq(Syms) /\ b \in Seq(Syms)
      <4>1. x[i] \in Syms
        BY <3>1, Parts
      <4>2. << >> \in Seq(Syms) /\ <<x[i]>> \in Seq(Syms)
        BY <4>1
      <4>3. a = << >> \/ a = <<x[i]>>
        OBVIOUS
      <4> HIDE DEF a
      <4>4. QED
        BY <1>7, <3>1, <4>2, <4>3
    <3> HIDE DEF a, b
    <3>5. Regrouped(a, b, r)
      BY <1>7, <3>4, Regroup
    <3>6. f[i] = a \o (b \o r)
      BY <3>2, <3>3 DEF b
    <3>7. f[i] = g[i] \o r
      BY <3>3, <3>5, <3>6, Zenon DEF Regrouped
    <3>8. QED
      BY <3>7
  <2>3. QED
    BY <2>1, <2>2
<1>9. 1 \in S
  <2>1. 1 \in 1 .. n
    BY <1>1
  <2> HIDE DEF S, n
  <2>2. QED
    BY <1>1, <1>8, <2>1, FromTheEnd
<1>10. f[1] = g[1] \o r /\ g[1] \in Seq(Syms)
  BY <1>1, <1>7, <1>9
<1>11. QED
  BY <1>2, <1>3, <1>4, <1>10 DEF r, t

\* A text without it stays as it is.
LEMMA WithoutSame ==
  ASSUME NEW t \in Seq(Plain)
  PROVE  Without(t, "P") = t
<1>0. t \in Seq(Syms)
  BY PlainIs
<1>1. PICK f : IsKept(t, "P", f) /\ Without(t, "P") = f[1]
  BY <1>0, KeptUnfolds
<1> DEFINE n == Len(t) + 1
           S == {i \in 1 .. n : f[i] = From(t, i)}
<1>2. n \in Nat /\ Len(t) \in Nat
  BY <1>0, Parts
<1>3. ASSUME NEW i \in 1 .. n, \A j \in i + 1 .. n : j \in S PROVE i \in S
  <2>1. CASE i = n
    <3>1. n > Len(t) /\ n \in 1 .. Len(t) + 1
      BY <1>2
    <3>2. f[n] = << >> /\ From(t, n) = << >>
      BY <1>0, <1>1, <3>1, FromStart DEF IsKept
    <3>3. QED
      BY <2>1, <3>2
  <2>2. CASE i # n
    <3>1. i \in 1 .. Len(t) /\ i <= Len(t) /\ i + 1 \in i + 1 .. n
      BY <1>2, <2>2
    <3>2. t[i] # "P"
      BY <3>1 DEF Plain
    <3>3. f[i] = <<t[i]>> \o f[i + 1]
      BY <1>1, <3>1, <3>2 DEF IsKept
    <3>4. f[i + 1] = From(t, i + 1)
      BY <1>3, <3>1
    <3>5. <<t[i]>> \o From(t, i + 1) = From(t, i)
      BY <1>0, <3>1, HeadFrom
    <3>6. QED
      BY <3>3, <3>4, <3>5
  <2>3. QED
    BY <2>1, <2>2
<1>4. 1 \in S
  <2>1. 1 \in 1 .. n
    BY <1>2
  <2> HIDE DEF S, n
  <2>2. QED
    BY <1>2, <1>3, <2>1, FromTheEnd
<1>5. QED
  BY <1>0, <1>1, <1>4, FromStart

LEMMA WithoutSmall == Without(<<"P">>, "P") = << >> /\ \A c : Without(<< >>, c) = << >>
<1>1. ASSUME NEW c PROVE Without(<< >>, c) = << >>
  <2>1. << >> \in Seq(Syms) /\ Len(<< >>) = 0
    OBVIOUS
  <2>2. PICK f : IsKept(<< >>, c, f) /\ Without(<< >>, c) = f[1]
    BY <2>1, KeptUnfolds
  <2>3. 1 \in 1 .. Len(<< >>) + 1 /\ 1 > Len(<< >>)
    BY <2>1
  <2>4. QED
    BY <2>2, <2>3 DEF IsKept
<1>2. Without(<<"P">>, "P") = << >>
  <2> DEFINE t == <<"P">>
  <2>1. t \in Seq(Syms) /\ Len(t) = 1 /\ t[1] = "P"
    BY DEF Syms
  <2> HIDE DEF t
  <2>2. PICK f : IsKept(t, "P", f) /\ Without(t, "P") = f[1]
    BY <2>1, KeptUnfolds
  <2>3. 1 \in 1 .. Len(t) + 1 /\ 1 <= Len(t) /\ 2 \in 1 .. Len(t) + 1 /\ 2 > Len(t) /\ 1 + 1 = 2
    BY <2>1
  <2>4. f[2] = << >> /\ f[1] = << >> \o f[2]
    BY <2>1, <2>2, <2>3 DEF IsKept
  <2>5. << >> \o << >> = << >>
    OBVIOUS
  <2>6. f[1] = << >>
    BY <2>4, <2>5
  <2>7. QED
    BY <2>2, <2>6 DEF t
<1>3. QED
  BY <1>1, <1>2

\* The limits leave room for their markers.
LEMMA RoomIs ==
  ASSUME Roomy
  PROVE  /\ RunRoom \in Nat /\ RunLimit \in Nat /\ RunRoom = RunLimit - Len(Marker) /\ RunRoom + 2 = RunLimit
         /\ DataLimit \in Nat /\ RecordLimit \in Nat /\ DataLimit + 2 = RecordLimit
         /\ First(Marker, Least(Len(Marker), RunLimit)) = Marker
<1>1. Len(Marker) = 2 /\ Len(Full) = 2 /\ RunLimit \in Nat /\ RecordLimit \in Nat /\ RunLimit >= 2 /\ RecordLimit >= 2
  BY Limits, MarksAre DEF Roomy
<1>2. Least(Len(Marker), RunLimit) = 2
  BY <1>1 DEF Least
<1>3. RunRoom = RunLimit - 2 /\ DataLimit = RecordLimit - 2
  BY <1>1, <1>2 DEF RunRoom, DataLimit
<1>4. First(Marker, 2) = Marker
  <2>1. 2 \in 0 .. Len(Marker)
    BY <1>1
  <2>2. /\ First(Marker, 2) \in Seq(Syms) /\ Len(First(Marker, 2)) = 2
        /\ \A i \in 1 .. 2 : First(Marker, 2)[i] = Marker[i]
    BY <2>1, MarksAre, Parts
  <2>3. QED
    BY <1>1, <2>2, MarksAre, SameText
<1>5. QED
  BY <1>1, <1>2, <1>3, <1>4

\* Where a text is cut that is longer than the limit.
CutAt(t, n) == IF n > 0 /\ t[n + 1] = "v" THEN n - 1 ELSE n

LEMMA CutIs ==
  ASSUME NEW t \in Seq(Syms), NEW n \in Nat
  PROVE  /\ n < Len(t) => /\ PrefixAtMost(t, n) = First(t, CutAt(t, n)) /\ CutAt(t, n) \in 0 .. Len(t)
                          /\ CutAt(t, n) <= n /\ CutAt(t, n) + 1 >= n
         /\ n >= Len(t) => PrefixAtMost(t, n) = t
<1>1. Len(t) \in Nat
  BY Parts
<1>2. ASSUME n < Len(t)
      PROVE  /\ PrefixAtMost(t, n) = First(t, CutAt(t, n)) /\ CutAt(t, n) \in 0 .. Len(t)
             /\ CutAt(t, n) <= n /\ CutAt(t, n) + 1 >= n
  <2>1. Least(n, Len(t)) = n
    BY <1>1, <1>2 DEF Least
  <2>2. PrefixAtMost(t, n) = First(t, CutAt(t, n))
    BY <1>2, <2>1 DEF PrefixAtMost, CutAt
  <2>3. CutAt(t, n) = n \/ (n > 0 /\ CutAt(t, n) = n - 1)
    BY DEF CutAt
  <2>4. QED
    BY <1>1, <1>2, <2>2, <2>3
<1>3. ASSUME n >= Len(t) PROVE PrefixAtMost(t, n) = t
  <2>1. Least(n, Len(t)) = Len(t) /\ ~(Len(t) < Len(t))
    BY <1>1, <1>3 DEF Least
  <2>2. PrefixAtMost(t, n) = First(t, Len(t))
    BY <2>1 DEF PrefixAtMost
  <2>3. Len(t) \in 0 .. Len(t)
    BY <1>1
  <2>4. /\ First(t, Len(t)) \in Seq(Syms) /\ Len(First(t, Len(t))) = Len(t)
        /\ \A i \in 1 .. Len(t) : First(t, Len(t))[i] = t[i]
    BY <2>3, Parts
  <2>5. QED
    BY <2>2, <2>4, SameText
<1>4. QED
  BY <1>2, <1>3

LEMMA FirstJoin ==
  ASSUME NEW x \in Seq(Syms), NEW y \in Seq(Syms)
  PROVE  /\ \A k \in 0 .. Len(x) : First(x \o y, k) = First(x, k)
         /\ \A k \in 0 .. Len(y) : First(x \o y, Len(x) + k) = x \o First(y, k)
         /\ First(x \o y, Len(x)) = x
<1> DEFINE t == x \o y
<1>1. /\ Len(x) \in Nat /\ Len(y) \in Nat /\ t \in Seq(Syms) /\ Len(t) = Len(x) + Len(y)
      /\ (\A i \in 1 .. Len(x) : t[i] = x[i]) /\ \A i \in 1 .. Len(y) : t[Len(x) + i] = y[i]
  BY Parts, Joined
<1> HIDE DEF t
<1>2. ASSUME NEW k \in 0 .. Len(x) PROVE First(t, k) = First(x, k)
  <2>1. k \in 0 .. Len(t) /\ \A i \in 1 .. k : i \in 1 .. Len(x)
    BY <1>1
  <2>2. /\ First(t, k) \in Seq(Syms) /\ Len(First(t, k)) = k /\ \A i \in 1 .. k : First(t, k)[i] = t[i]
    BY <1>1, <2>1, Parts
  <2>3. /\ First(x, k) \in Seq(Syms) /\ Len(First(x, k)) = k /\ \A i \in 1 .. k : First(x, k)[i] = x[i]
    BY Parts
  <2>4. \A i \in 1 .. k : First(t, k)[i] = First(x, k)[i]
    BY <1>1, <2>1, <2>2, <2>3
  <2>5. QED
    BY <2>2, <2>3, <2>4, SameText
<1>3. ASSUME NEW k \in 0 .. Len(y) PROVE First(t, Len(x) + k) = x \o First(y, k)
  <2> DEFINE n == Len(x) + k
             a == First(t, n)
             b == First(y, k)
             c == x \o b
  <2>1. n \in 0 .. Len(t) /\ n \in Nat /\ k \in Nat
    BY <1>1
  <2> HIDE DEF n
  <2>2. a \in Seq(Syms) /\ Len(a) = n /\ \A i \in 1 .. n : a[i] = t[i]
    BY <1>1, <2>1, Parts
  <2>3. b \in Seq(Syms) /\ Len(b) = k /\ \A i \in 1 .. k : b[i] = y[i]
    BY Parts
  <2> HIDE DEF a, b
  <2>4. /\ c \in Seq(Syms) /\ Len(c) = Len(x) + Len(b) /\ (\A i \in 1 .. Len(x) : c[i] = x[i])
        /\ \A i \in 1 .. Len(b) : c[Len(x) + i] = b[i]
    BY <2>3, Joined
  <2> HIDE DEF c
  <2>5. Len(c) = n
    BY <2>3, <2>4 DEF n
  <2>6. ASSUME NEW i \in 1 .. n PROVE a[i] = c[i]
    <3>1. CASE i <= Len(x)
      <4>1. i \in 1 .. Len(x)
        BY <1>1, <2>1, <3>1
      <4>2. QED
        BY <1>1, <2>2, <2>4, <4>1
    <3>2. CASE i > Len(x)
      <4> DEFINE j == i - Len(x)
      <4>1. j \in 1 .. k /\ j \in 1 .. Len(y) /\ Len(x) + j = i
        BY <1>1, <2>1, <3>2 DEF n
      <4> HIDE DEF j
      <4>2. t[Len(x) + j] = y[j] /\ c[Len(x) + j] = y[j]
        BY <1>1, <2>3, <2>4, <4>1
      <4>3. QED
        BY <2>2, <4>1, <4>2
    <3>3. i <= Len(x) \/ i > Len(x)
      BY <1>1, <2>1
    <3>4. QED
      BY <3>1, <3>2, <3>3
  <2>7. a = c
    BY <2>2, <2>4, <2>5, <2>6, SameText
  <2>8. QED
    BY <2>7 DEF a, b, c, n
<1>4. First(t, Len(x)) = x
  <2>1. Len(x) \in 0 .. Len(x)
    BY <1>1
  <2>2. /\ First(x, Len(x)) \in Seq(Syms) /\ Len(First(x, Len(x))) = Len(x)
        /\ \A i \in 1 .. Len(x) : First(x, Len(x))[i] = x[i]
    BY <2>1, Parts
  <2>3. First(x, Len(x)) = x
    BY <2>2, SameText
  <2>4. QED
    BY <1>2, <2>1, <2>3
<1>5. QED
  BY <1>2, <1>3, <1>4 DEF t

\* A cut behind x is a cut of what follows, unless it would part a rune there.
LEMMA CutBehind ==
  ASSUME NEW x \in Seq(Syms), NEW y \in Seq(Syms), Len(y) > 0 => y[1] # "v", NEW n \in Nat, n >= Len(x)
  PROVE  PrefixAtMost(x \o y, n) = x \o PrefixAtMost(y, n - Len(x))
<1> DEFINE t == x \o y
           k == n - Len(x)
<1>1. /\ Len(x) \in Nat /\ Len(y) \in Nat /\ t \in Seq(Syms) /\ Len(t) = Len(x) + Len(y)
      /\ \A i \in 1 .. Len(y) : t[Len(x) + i] = y[i]
  BY Parts, Joined
<1>2. k \in Nat /\ Len(x) + k = n
  BY <1>1
<1> HIDE DEF t, k
<1>3. CASE n >= Len(t)
  <2>1. k >= Len(y)
    BY <1>1, <1>2, <1>3
  <2>2. PrefixAtMost(t, n) = t /\ PrefixAtMost(y, k) = y
    BY <1>1, <1>2, <1>3, <2>1, CutIs
  <2>3. QED
    BY <2>2 DEF t, k
<1>4. CASE n < Len(t)
  <2>1. k < Len(y) /\ k + 1 \in 1 .. Len(y) /\ Len(x) + (k + 1) = n + 1
    BY <1>1, <1>2, <1>4
  <2>2. t[n + 1] = y[k + 1]
    BY <1>1, <2>1
  <2>3. CutAt(t, n) = Len(x) + CutAt(y, k)
    <3>1. CASE k > 0
      <4>1. n > 0
        BY <1>1, <1>2, <3>1
      <4>2. CutAt(t, n) = (IF y[k + 1] = "v" THEN n - 1 ELSE n) /\ CutAt(y, k) = (IF y[k + 1] = "v" THEN k - 1 ELSE k)
        BY <2>2, <3>1, <4>1 DEF CutAt
      <4>3. (CutAt(t, n) = n - 1 /\ CutAt(y, k) = k - 1) \/ (CutAt(t, n) = n /\ CutAt(y, k) = k)
        BY <4>2
      <4>4. Len(x) + (k - 1) = n - 1
        BY <1>1, <1>2
      <4>5. QED
        BY <1>2, <4>3, <4>4
    <3>2. CASE ~(k > 0)
      <4>1. k = 0 /\ Len(y) > 0 /\ k + 1 = 1
        BY <1>1, <1>2, <2>1, <3>2
      <4>2. t[n + 1] # "v" /\ y[k + 1] # "v"
        BY <2>2, <4>1
      <4>3. CutAt(t, n) = n /\ CutAt(y, k) = k
        BY <4>2 DEF CutAt
      <4>4. QED
        BY <1>2, <4>3
    <3>3. QED
      BY <3>1, <3>2
  <2>4. PrefixAtMost(t, n) = First(t, CutAt(t, n)) /\ PrefixAtMost(y, k) = First(y, CutAt(y, k)) /\ CutAt(y, k) \in 0 .. Len(y)
    BY <1>1, <1>2, <1>4, <2>1, CutIs
  <2>5. First(t, Len(x) + CutAt(y, k)) = x \o First(y, CutAt(y, k))
    BY <2>4, FirstJoin DEF t
  <2>6. PrefixAtMost(t, n) = x \o PrefixAtMost(y, k)
    BY <2>3, <2>4, <2>5
  <2>7. QED
    BY <2>6 DEF t, k
<1>5. n >= Len(t) \/ n < Len(t)
  BY <1>1
<1>6. QED
  BY <1>3, <1>4, <1>5

\* A cut within x is not moved by what follows.
LEMMA CutInside ==
  ASSUME NEW x \in Seq(Syms), NEW y \in Seq(Syms), NEW n \in Nat, n < Len(x)
  PROVE  PrefixAtMost(x \o y, n) = PrefixAtMost(x, n)
<1> DEFINE t == x \o y
<1>1. /\ Len(x) \in Nat /\ Len(y) \in Nat /\ t \in Seq(Syms) /\ Len(t) = Len(x) + Len(y)
      /\ \A i \in 1 .. Len(x) : t[i] = x[i]
  BY Parts, Joined
<1> HIDE DEF t
<1>2. n + 1 \in 1 .. Len(x) /\ n < Len(t)
  BY <1>1
<1>3. t[n + 1] = x[n + 1]
  BY <1>1, <1>2
<1>4. CutAt(t, n) = CutAt(x, n)
  BY <1>3 DEF CutAt
<1>5. /\ PrefixAtMost(t, n) = First(t, CutAt(t, n)) /\ PrefixAtMost(x, n) = First(x, CutAt(x, n))
      /\ CutAt(x, n) \in 0 .. Len(x)
  BY <1>1, <1>2, CutIs
<1>6. First(t, CutAt(x, n)) = First(x, CutAt(x, n))
  BY <1>5, FirstJoin DEF t
<1>7. PrefixAtMost(t, n) = PrefixAtMost(x, n)
  BY <1>4, <1>5, <1>6
<1>8. QED
  BY <1>7 DEF t

\* A text of a run: no turn marker, no notice and no part of a rune.
Tidy(x) == x \in Seq(Plain) /\ Sound(x, "s")

LEMMA TidyIs ==
  ASSUME NEW x \in Seq(Syms)
  PROVE  Tidy(x) <=> Sound(x, "s") /\ Sound(x, "P")
<1>1. ASSUME Tidy(x) PROVE Sound(x, "s") /\ Sound(x, "P")
  <2>1. \A i \in 1 .. Len(x) : x[i] # "P"
    BY <1>1 DEF Tidy, Plain
  <2>2. QED
    BY <1>1, <2>1 DEF Tidy, Sound
<1>2. ASSUME Sound(x, "s"), Sound(x, "P") PROVE Tidy(x)
  <2>1. \A i \in 1 .. Len(x) : x[i] \in Plain
    BY <1>2, Parts DEF Sound, Plain
  <2>2. x \in Seq(Plain)
    BY <2>1
  <2>3. QED
    BY <1>2, <2>2 DEF Tidy
<1>3. QED
  BY <1>1, <1>2

LEMMA TidyParts ==
  /\ \A x : Tidy(x) => x \in Seq(Syms) /\ x \in Seq(Plain) /\ Sound(x, "s") /\ Len(x) \in Nat
  /\ \A x, y : Tidy(x) /\ Tidy(y) => Tidy(x \o y)
  /\ Tidy(<< >>)
  /\ \A x : Tidy(x) => (Len(x) > 0 => x[1] # "v")
<1>1. ASSUME NEW x, Tidy(x) PROVE x \in Seq(Syms) /\ x \in Seq(Plain) /\ Sound(x, "s") /\ Len(x) \in Nat
  BY <1>1, PlainIs DEF Tidy
<1>2. ASSUME NEW x, NEW y, Tidy(x), Tidy(y) PROVE Tidy(x \o y)
  <2>1. x \in Seq(Syms) /\ y \in Seq(Syms) /\ Sound(x, "s") /\ Sound(y, "s")
    BY <1>1, <1>2
  <2>2. Sound(x \o y, "s")
    BY <2>1, SoundJoin
  <2>3. x \o y \in Seq(Plain)
    BY <1>2, PlainIs DEF Tidy
  <2>4. QED
    BY <2>2, <2>3 DEF Tidy
<1>3. Tidy(<< >>)
  BY PlainIs, ShortSound DEF Tidy
<1>4. ASSUME NEW x, Tidy(x), Len(x) > 0 PROVE x[1] # "v"
  <2>1. 1 \in 1 .. Len(x) /\ ~(1 > 1)
    BY <1>1, <1>4
  <2>2. QED
    BY <1>4, <2>1 DEF Tidy, Sound
<1>5. QED
  BY <1>1, <1>2, <1>3, <1>4

\* What a cut leaves and what it takes.
LEMMA TidyCut ==
  ASSUME NEW x, Tidy(x), NEW n \in Nat
  PROVE  \E k \in 0 .. Len(x) :
           /\ PrefixAtMost(x, n) = First(x, k) /\ k <= n
           /\ Tidy(First(x, k)) /\ Tidy(From(x, k + 1)) /\ Len(First(x, k)) = k
           /\ First(x, k) \o From(x, k + 1) = x
<1>1. x \in Seq(Syms) /\ x \in Seq(Plain) /\ Sound(x, "s") /\ Len(x) \in Nat
  BY TidyParts
<1>2. PICK k \in 0 .. Len(x) : /\ k <= n /\ PrefixAtMost(x, n) = First(x, k)
                               /\ Sound(First(x, k), "s") /\ Sound(From(x, k + 1), "s")
  BY <1>1, PrefixIsSound
<1>3. First(x, k) \in Seq(Plain) /\ From(x, k + 1) \in Seq(Plain)
  <2>1. First(x, k) \in Seq(Plain)
    BY <1>1, PlainIs
  <2>2. k + 1 \in 1 .. Len(x) + 1 /\ \A i \in 1 .. Len(x) + 1 - (k + 1) : (k + 1) + i - 1 \in 1 .. Len(x)
    BY <1>1
  <2> DEFINE u == From(x, k + 1)
  <2>3. /\ u \in Seq(Syms) /\ Len(u) = Len(x) + 1 - (k + 1)
        /\ \A i \in 1 .. Len(x) + 1 - (k + 1) : u[i] = x[(k + 1) + i - 1]
    BY <1>1, <2>2, Parts
  <2> HIDE DEF u
  <2>4. ASSUME NEW i \in 1 .. Len(u) PROVE u[i] \in Plain
    <3> DEFINE j == (k + 1) + i - 1
    <3>1. i \in 1 .. Len(x) + 1 - (k + 1)
      BY <2>3
    <3>2. j \in 1 .. Len(x) /\ u[i] = x[j]
      BY <2>2, <2>3, <3>1
    <3> HIDE DEF j
    <3>3. QED
      BY <1>1, <3>2
  <2>5. u \in Seq(Plain)
    BY <2>3, <2>4
  <2>6. QED
    BY <2>1, <2>5 DEF u
<1>4. Len(First(x, k)) = k /\ First(x, k) \o From(x, k + 1) = x
  BY <1>1, Parts, CutInTwo
<1>5. QED
  BY <1>2, <1>3, <1>4 DEF Tidy

LEMMA TidyDrain ==
  ASSUME NEW x, Tidy(x), NEW final \in BOOLEAN
  PROVE  Tidy(Drain(x, final).out) /\ Tidy(Drain(x, final).held)
<1> DEFINE d == Drain(x, final)
<1>1. x \in Seq(Syms) /\ Sound(x, "s") /\ Sound(x, "P")
  BY TidyIs, TidyParts
<1>2. d \in Drained /\ Sound(d.out, "s") /\ Sound(d.held, "s")
  BY <1>1, DrainIsSound
<1>3. Sound(d.out, "P") /\ Sound(d.held, "P")
  BY <1>1, DrainIsSound
<1> HIDE DEF d
<1>4. d.out \in Seq(Syms) /\ d.held \in Seq(Syms)
  BY <1>2 DEF Drained
<1>5. Tidy(d.out) /\ Tidy(d.held)
  BY <1>2, <1>3, <1>4, TidyIs
<1>6. QED
  BY <1>5 DEF d

\* At the end the redactor lets go of the redaction of what it held.
LEMMA DrainAll ==
  ASSUME Independent, NEW x, Tidy(x)
  PROVE  Redact(x) = Drain(x, TRUE).out
<1> DEFINE d == Drain(x, TRUE)
           e == d.out
           g == d.held
           z == << >>
<1>1. x \in Seq(Syms) /\ z \in Seq(Syms) /\ x \o z = x /\ z \o x = x /\ Len(z) = 0 /\ Tidy(d.out)
  <2>1. x \in Seq(Syms)
    BY TidyParts
  <2>2. z \in Seq(Syms) /\ x \o z = x /\ z \o x = x /\ Len(z) = 0
    BY <2>1
  <2>3. Tidy(d.out)
    BY TidyDrain
  <2>4. QED
    BY <2>1, <2>2, <2>3
<1>2. Shut(z \o x, Len(z))
  <2>1. \A i \in 1 .. Len(z) : FALSE
    BY <1>1
  <2>2. QED
    BY <2>1 DEF Shut
<1>3. Settled(z, d, TRUE)
  BY <1>1, <1>2, DrainSettles
<1>4. g = << >>
  BY <1>3 DEF Settled
<1>5. Redact(x \o z) = e \o Redact(g \o z)
  BY <1>1, DrainRedacts
<1>6. e \in Seq(Syms)
  BY <1>1, TidyParts
<1> HIDE DEF e, g
<1>7. g \o z = << >> /\ Redact(<< >>) = << >> /\ e \o << >> = e
  BY <1>1, <1>4, <1>6, RedactType
<1>8. Redact(x) = e
  BY <1>1, <1>5, <1>7
<1>9. QED
  BY <1>8 DEF e

LEMMA TidyRedact ==
  ASSUME Independent, NEW x, Tidy(x)
  PROVE  Tidy(Redact(x))
BY DrainAll, TidyDrain

\* The record shows what it should of E behind b: all of it until it is full, then
\* a beginning of it and the marker, notices aside.
PartOf(o, b) == Without(From(o, b + 1), "P")
EndsFull(o, b, E) == \E k \in 0 .. Len(E) : PartOf(o, b) = First(E, k) \o Full
Shows(o, b, E) ==
    /\ b \in Nat /\ b <= Len(o) /\ Len(o) <= RecordLimit
    /\ ~IsFull(o) => PartOf(o, b) = E
    /\ IsFull(o) /\ b > DataLimit => PartOf(o, b) = << >>
    /\ IsFull(o) /\ b <= DataLimit => EndsFull(o, b, E)

LEMMA ShowsNew ==
  ASSUME NEW o \in Seq(Syms), Len(o) <= RecordLimit
  PROVE  Shows(o, Len(o), << >>)
<1>1. Len(o) \in Nat
  BY Parts
<1>2. PartOf(o, Len(o)) = << >>
  BY FromStart, WithoutSmall DEF PartOf
<1>3. IsFull(o) <=> Len(o) > DataLimit
  BY DEF IsFull
<1>4. Len(o) > DataLimit => ~(Len(o) <= DataLimit)
  BY <1>1, Limits
<1>5. QED
  BY <1>1, <1>2, <1>3, <1>4 DEF Shows

\* What AppendBounded makes of the record.
Bounded(o, x, r) ==
    \/ (IsFull(o) \/ x = << >>) /\ r = o
    \/ ~IsFull(o) /\ Len(o) + Len(x) <= DataLimit /\ r = o \o x
    \/ /\ ~IsFull(o)
       /\ \E j \in 0 .. Len(x) : /\ r = (o \o First(x, j)) \o Full
                                 /\ Len(o) + j <= DataLimit /\ Len(o) + j + 1 >= DataLimit

LEMMA BoundedIs ==
  ASSUME NEW o \in Seq(Syms), NEW x \in Seq(Syms)
  PROVE  Bounded(o, x, AppendBounded(o, x))
<1>1. Len(o) \in Nat /\ Len(x) \in Nat /\ DataLimit \in Nat
  BY Parts, Limits
<1>2. CASE IsFull(o) \/ x = << >>
  BY <1>2 DEF AppendBounded, Bounded
<1>3. CASE ~(IsFull(o) \/ x = << >>) /\ Len(o) + Len(x) <= DataLimit
  BY <1>3 DEF AppendBounded, Bounded
<1>4. CASE ~(IsFull(o) \/ x = << >>) /\ ~(Len(o) + Len(x) <= DataLimit)
  <2> DEFINE n == DataLimit - Len(o)
             j == CutAt(x, n)
  <2>1. AppendBounded(o, x) = (o \o PrefixAtMost(x, n)) \o Full
    BY <1>4 DEF AppendBounded
  <2>2. n \in Nat /\ n < Len(x) /\ Len(o) + n = DataLimit
    BY <1>1, <1>4 DEF IsFull
  <2> HIDE DEF n
  <2>3. PrefixAtMost(x, n) = First(x, j) /\ j \in 0 .. Len(x) /\ j <= n /\ j + 1 >= n
    BY <2>2, CutIs
  <2> HIDE DEF j
  <2>4. Len(o) + j <= DataLimit /\ Len(o) + j + 1 >= DataLimit
    BY <1>1, <2>2, <2>3
  <2>5. AppendBounded(o, x) = (o \o First(x, j)) \o Full
    BY <2>1, <2>3
  <2>6. QED
    BY <1>4, <2>3, <2>4, <2>5 DEF Bounded
<1>5. QED
  BY <1>2, <1>3, <1>4

\* Without notices, a beginning of a text is a beginning of it.
LEMMA WithoutFirst ==
  ASSUME NEW x \in Seq(Syms), NEW c, NEW j \in 0 .. Len(x)
  PROVE  /\ Without(First(x, j), c) \in Seq(Syms) /\ Len(Without(First(x, j), c)) \in 0 .. Len(Without(x, c))
         /\ First(Without(x, c), Len(Without(First(x, j), c))) = Without(First(x, j), c)
<1> DEFINE a == First(x, j)
           b == From(x, j + 1)
           u == Without(a, c)
           v == Without(b, c)
<1>1. a \in Seq(Syms) /\ b \in Seq(Syms) /\ a \o b = x
  <2>1. j + 1 \in 1 .. Len(x) + 1
    BY Parts
  <2>2. QED
    BY <2>1, Parts, CutInTwo
<1> HIDE DEF a, b
<1>2. Without(a \o b, c) = u \o v /\ u \in Seq(Syms) /\ v \in Seq(Syms)
  <2>1. Without(a \o b, c) = u \o v /\ u \in Seq(Syms)
    BY <1>1, WithoutJoin
  <2>2. v \in Seq(Syms)
    BY <1>1, WithoutJoin
  <2>3. QED
    BY <2>1, <2>2
<1> HIDE DEF u, v
<1>3. First(u \o v, Len(u)) = u /\ Len(u \o v) = Len(u) + Len(v) /\ Len(u) \in Nat /\ Len(v) \in Nat
  BY <1>2, FirstJoin, Joined, Parts
<1>4. Without(x, c) = u \o v
  BY <1>1, <1>2
<1>5. Len(Without(x, c)) = Len(u) + Len(v) /\ First(Without(x, c), Len(u)) = u
  BY <1>3, <1>4
<1>6. Len(u) \in 0 .. Len(Without(x, c))
  BY <1>3, <1>5
<1>7. QED
  BY <1>2, <1>5, <1>6 DEF a, u

\* The part of the record behind b grows with the record.
LEMMA PartGrows ==
  ASSUME NEW o \in Seq(Syms), NEW x \in Seq(Syms), NEW b \in 0 .. Len(o)
  PROVE  /\ PartOf(o \o x, b) = PartOf(o, b) \o Without(x, "P")
         /\ PartOf(o, b) \in Seq(Syms) /\ Without(x, "P") \in Seq(Syms)
<1> DEFINE i == b + 1
<1>1. i \in 1 .. Len(o) + 1
  BY Parts
<1> HIDE DEF i
<1>2. From(o \o x, i) = From(o, i) \o x /\ From(o, i) \in Seq(Syms)
  BY <1>1, FromJoin, Parts
<1>3. Without(From(o, i) \o x, "P") = Without(From(o, i), "P") \o Without(x, "P") /\ Without(From(o, i), "P") \in Seq(Syms)
  BY <1>2, WithoutJoin
<1>4. Without(x, "P") \in Seq(Syms)
  BY WithoutJoin
<1>5. QED
  BY <1>2, <1>3, <1>4 DEF PartOf, i

LEMMA MarksPlain == /\ Full \in Seq(Plain) /\ Marker \in Seq(Plain) /\ Tidy(Marker)
                    /\ Without(Full, "P") = Full /\ Without(Marker, "P") = Marker
<1>1. Full \in Seq(Plain) /\ Marker \in Seq(Plain)
  <2>1. "F" \in Plain /\ "M" \in Plain
    BY DEF Plain, Syms
  <2>2. QED
    BY <2>1 DEF Full, Marker
<1>2. Sound(Marker, "s")
  <2>1. \A i \in 1 .. Len(Marker) : Marker[i] = "M"
    BY MarksAre
  <2>2. QED
    BY <2>1 DEF Sound
<1>3. QED
  BY <1>1, <1>2, WithoutSame DEF Tidy

\* What is appended to the record is added to what it shows.
LEMMA ShowsMore ==
  ASSUME Roomy, NEW o \in Seq(Syms), NEW x \in Seq(Syms), NEW E \in Seq(Syms), NEW b, Shows(o, b, E)
  PROVE  /\ Shows(AppendBounded(o, x), b, E \o Without(x, "P"))
         /\ AppendBounded(o, x) \in Seq(Syms)
         /\ IsFull(o) => IsFull(AppendBounded(o, x))
<1> DEFINE r == AppendBounded(o, x)
           y == Without(x, "P")
           G == E \o y
<1>1. b \in Nat /\ b <= Len(o) /\ Len(o) <= RecordLimit /\ Len(o) \in Nat /\ Len(x) \in Nat /\ b \in 0 .. Len(o)
  <2>1. b \in Nat /\ b <= Len(o) /\ Len(o) <= RecordLimit /\ Len(o) \in Nat /\ Len(x) \in Nat
    BY Parts DEF Shows
  <2>2. QED
    BY <2>1
<1>2. DataLimit \in Nat /\ RecordLimit \in Nat /\ DataLimit + 2 = RecordLimit
  BY RoomIs
<1>3. y \in Seq(Syms) /\ PartOf(o, b) \in Seq(Syms) /\ PartOf(o \o x, b) = PartOf(o, b) \o y
  BY <1>1, PartGrows
<1>4. G \in Seq(Syms) /\ Len(G) = Len(E) + Len(y) /\ Len(E) \in Nat /\ Len(y) \in Nat
      /\ \A k \in 0 .. Len(E) : First(G, k) = First(E, k)
  BY <1>3, Joined, FirstJoin, Parts
<1>5. x = << >> => G = E
  <2>1. ASSUME x = << >> PROVE G = E
    <3>1. y = << >>
      BY <2>1, WithoutSmall
    <3>2. QED
      BY <3>1
  <2>2. QED
    BY <2>1
<1>6. Bounded(o, x, r)
  BY BoundedIs
<1> HIDE DEF r, G, y
<1>7. CASE (IsFull(o) \/ x = << >>) /\ r = o
  <2>1. ~IsFull(o) => x = << >> /\ G = E /\ PartOf(o, b) = E
    BY <1>5, <1>7 DEF Shows
  <2>2. ASSUME IsFull(o), b <= DataLimit PROVE EndsFull(o, b, G)
    <3>1. PICK k \in 0 .. Len(E) : PartOf(o, b) = First(E, k) \o Full
      BY <2>2 DEF Shows, EndsFull
    <3>2. k \in 0 .. Len(G) /\ First(G, k) = First(E, k)
      BY <1>4
    <3>3. QED
      BY <3>1, <3>2 DEF EndsFull
  <2>3. IsFull(o) /\ b > DataLimit => PartOf(o, b) = << >>
    BY DEF Shows
  <2>4. Shows(o, b, G)
    BY <1>1, <2>1, <2>2, <2>3 DEF Shows
  <2>5. QED
    BY <1>7, <2>4 DEF r, G, y
<1>8. CASE ~IsFull(o) /\ Len(o) + Len(x) <= DataLimit /\ r = o \o x
  <2>1. r \in Seq(Syms) /\ Len(r) = Len(o) + Len(x)
    BY <1>8, Joined
  <2>2. ~IsFull(r) /\ Len(r) <= RecordLimit /\ b <= Len(r)
    <3>1. Len(r) <= DataLimit
      BY <1>8, <2>1
    <3>2. ~(Len(r) > DataLimit)
      BY <1>1, <1>2, <2>1, <3>1
    <3>3. Len(r) <= RecordLimit /\ b <= Len(r)
      BY <1>1, <1>2, <2>1, <3>1
    <3>4. QED
      BY <3>2, <3>3 DEF IsFull
  <2>3. PartOf(o, b) = E
    BY <1>8 DEF Shows
  <2>4. PartOf(r, b) = G
    BY <1>3, <1>8, <2>3 DEF G
  <2>5. Shows(r, b, G)
    BY <1>1, <2>2, <2>4 DEF Shows
  <2>6. QED
    BY <1>8, <2>1, <2>5 DEF r, G, y
<1>9. CASE /\ ~IsFull(o)
           /\ \E j \in 0 .. Len(x) : /\ r = (o \o First(x, j)) \o Full
                                     /\ Len(o) + j <= DataLimit /\ Len(o) + j + 1 >= DataLimit
  <2>1. PICK j \in 0 .. Len(x) : /\ r = (o \o First(x, j)) \o Full
                                 /\ Len(o) + j <= DataLimit /\ Len(o) + j + 1 >= DataLimit
    BY <1>9
  <2> DEFINE a == First(x, j)
             u == Without(a, "P")
             p == o \o a
             k == Len(E) + Len(u)
  <2>2. a \in Seq(Syms) /\ Len(a) = j
    BY Parts
  <2>3. u \in Seq(Syms) /\ Len(u) \in 0 .. Len(y) /\ First(y, Len(u)) = u
    BY WithoutFirst DEF y
  <2> HIDE DEF a
  <2>4. p \in Seq(Syms) /\ Len(p) = Len(o) + j
    BY <2>2, Joined
  <2>5. PartOf(p, b) = PartOf(o, b) \o u
    BY <1>1, <2>2, PartGrows
  <2> HIDE DEF p
  <2>6. r = p \o Full
    BY <2>1 DEF p, a
  <2>7. r \in Seq(Syms) /\ Len(r) = Len(o) + j + 2
    <3>1. Full \in Seq(Syms) /\ Len(Full) = 2
      BY MarksAre
    <3>2. p \o Full \in Seq(Syms) /\ Len(p \o Full) = Len(p) + Len(Full)
      BY <2>4, <3>1, Joined
    <3>3. QED
      BY <2>4, <2>6, <3>1, <3>2
  <2>8. IsFull(r) /\ Len(r) <= RecordLimit /\ b <= Len(r) /\ ~(b > DataLimit)
    <3>1. j \in Nat /\ Len(o) + j <= DataLimit /\ Len(o) + j + 1 >= DataLimit /\ Len(r) = Len(o) + j + 2
      BY <1>1, <2>1, <2>7
    <3>2. Len(r) > DataLimit /\ Len(r) <= RecordLimit /\ b <= Len(r) /\ ~(b > DataLimit)
      BY <1>1, <1>2, <3>1
    <3>3. QED
      BY <3>2 DEF IsFull
  <2>9. PartOf(r, b) = PartOf(p, b) \o Full
    <3>1. b \in 0 .. Len(p) /\ Full \in Seq(Syms)
      BY <1>1, <2>4, MarksAre
    <3>2. PartOf(p \o Full, b) = PartOf(p, b) \o Without(Full, "P")
      BY <2>4, <3>1, PartGrows
    <3>3. QED
      BY <2>6, <3>2, MarksPlain
  <2>10. PartOf(o, b) = E
    BY <1>9 DEF Shows
  <2> HIDE DEF u
  <2>11. First(G, k) = E \o u /\ k \in 0 .. Len(G)
    <3>1. First(E \o y, Len(E) + Len(u)) = E \o First(y, Len(u))
      <4> DEFINE m == Len(u)
      <4>1. y \in Seq(Syms) /\ m \in 0 .. Len(y)
        BY <1>3, <2>3
      <4> HIDE DEF m
      <4>2. First(E \o y, Len(E) + m) = E \o First(y, m)
        BY <4>1, FirstJoin
      <4>3. QED
        BY <4>2 DEF m
    <3>2. Len(E) + Len(u) \in 0 .. Len(G)
      BY <1>4, <2>3
    <3>3. QED
      BY <2>3, <3>1, <3>2 DEF G
  <2> HIDE DEF k
  <2>12. PartOf(r, b) = First(G, k) \o Full
    BY <2>5, <2>9, <2>10, <2>11
  <2>13. EndsFull(r, b, G)
    BY <2>11, <2>12 DEF EndsFull
  <2>14. Shows(r, b, G)
    BY <1>1, <2>8, <2>13 DEF Shows
  <2>15. QED
    BY <1>9, <2>7, <2>14 DEF r, G, y
<1>10. QED
  BY <1>6, <1>7, <1>8, <1>9 DEF Bounded

\* What the record should have of a run whose redacted text is c.
Wanted(c) == IF Len(c) <= RunLimit THEN c ELSE PrefixAtMost(c, RunLimit - Len(Marker)) \o Marker

\* How a run's text may go on; at the end of the run in no way at all.
Goings == {y \in Seq(Plain) : Tidy(y)}
\* However in Y the text A goes on, its redaction is E and p and that of what is held.
Owes(E, p, h, A, Y) == \A y \in Y : Redact(A \o y) = (E \o p) \o Redact(h \o y)
\* However A goes on, the record should begin with E; it should be E.
Ahead(E, A, Y) == \A y \in Y : \E z \in Seq(Syms) : Wanted(Redact(A \o y)) = E \o z
Fixed(E, A, Y) == \A y \in Y : Wanted(Redact(A \o y)) = E

LEMMA GoingIs == \A y : y \in Goings <=> Tidy(y)
BY DEF Goings, Tidy

\* What is owed, of a text that goes on.
Owed(c, E, p) == \E r : Tidy(r) /\ Tidy(p \o r) /\ c = E \o (p \o r)

LEMMA OwesText ==
  ASSUME Independent, NEW E, Tidy(E), NEW p, Tidy(p), NEW h, Tidy(h), NEW A,
         NEW Y \in SUBSET Goings, Owes(E, p, h, A, Y), NEW y \in Y
  PROVE  Owed(Redact(A \o y), E, p)
<1> DEFINE r == Redact(h \o y)
<1>1. Tidy(y) /\ Tidy(h \o y)
  BY GoingIs, TidyParts
<1>2. Tidy(r)
  BY <1>1, TidyRedact
<1>3. Redact(A \o y) = (E \o p) \o r
  BY DEF Owes
<1> HIDE DEF r
<1>4. E \in Seq(Syms) /\ p \in Seq(Syms) /\ r \in Seq(Syms) /\ Tidy(p \o r)
  BY <1>2, TidyParts
<1>5. Regrouped(E, p, r)
  BY <1>4, Regroup
<1>6. Redact(A \o y) = E \o (p \o r)
  BY <1>3, <1>5, Zenon DEF Regrouped
<1>7. QED
  BY <1>2, <1>4, <1>6 DEF Owed

LEMMA OwesAhead ==
  ASSUME Independent, Roomy, NEW E, Tidy(E), NEW p, Tidy(p), NEW h, Tidy(h), NEW A,
         NEW Y \in SUBSET Goings, Owes(E, p, h, A, Y), Len(E) <= RunRoom
  PROVE  Ahead(E, A, Y)
<1> SUFFICES ASSUME NEW y \in Y
             PROVE  \E z \in Seq(Syms) : Wanted(Redact(A \o y)) = E \o z
  BY DEF Ahead
<1> DEFINE c == Redact(A \o y)
<1>0. Owed(c, E, p)
  BY OwesText
<1> HIDE DEF c
<1>1. PICK r : Tidy(p \o r) /\ c = E \o (p \o r)
  BY <1>0 DEF Owed
<1> DEFINE q == p \o r
<1>2. Tidy(q) /\ c = E \o q
  BY <1>1
<1> HIDE DEF q, c
<1>3. E \in Seq(Syms) /\ q \in Seq(Syms) /\ (Len(q) > 0 => q[1] # "v") /\ Len(E) \in Nat
  BY <1>2, TidyParts
<1>4. CASE Len(c) <= RunLimit
  <2>1. Wanted(c) = E \o q
    BY <1>2, <1>4 DEF Wanted
  <2>2. QED
    BY <1>3, <2>1 DEF c
<1>5. CASE ~(Len(c) <= RunLimit)
  <2> DEFINE n == RunRoom - Len(E)
             u == PrefixAtMost(q, n)
  <2>1. RunRoom \in Nat /\ RunRoom >= Len(E) /\ RunRoom = RunLimit - Len(Marker)
    BY <1>3, RoomIs
  <2>2. PrefixAtMost(E \o q, RunRoom) = E \o u
    BY <1>3, <2>1, CutBehind
  <2>3. n \in Nat
    BY <1>3, <2>1
  <2> HIDE DEF n
  <2>4. u \in Seq(Syms)
    <3>1. PICK k \in 0 .. Len(q) : u = First(q, k) /\ Tidy(First(q, k))
      BY <1>2, <2>3, TidyCut
    <3>2. QED
      BY <3>1, TidyParts
  <2> HIDE DEF u
  <2>5. Wanted(c) = PrefixAtMost(c, RunRoom) \o Marker
    BY <1>5, <2>1 DEF Wanted
  <2>6. Wanted(c) = (E \o u) \o Marker
    BY <1>2, <2>2, <2>5
  <2>7. Marker \in Seq(Syms)
    BY MarksAre
  <2>8. Regrouped(E, u, Marker)
    BY <1>3, <2>4, <2>7, Regroup
  <2>9. Wanted(c) = E \o (u \o Marker)
    BY <2>6, <2>8, Zenon DEF Regrouped
  <2>10. u \o Marker \in Seq(Syms)
    BY <2>4, <2>7, Joined
  <2>11. QED
    BY <2>9, <2>10 DEF c
<1>6. QED
  BY <1>4, <1>5

LEMMA OwesFixed ==
  ASSUME Independent, Roomy, NEW E, Tidy(E), NEW p, Tidy(p), NEW h, Tidy(h), NEW A,
         NEW Y \in SUBSET Goings, Owes(E, p, h, A, Y), Len(E) <= RunRoom,
         Len(E) + Len(p) > RunLimit
  PROVE  Fixed((E \o PrefixAtMost(p, RunRoom - Len(E))) \o Marker, A, Y)
<1> SUFFICES ASSUME NEW y \in Y
             PROVE  Wanted(Redact(A \o y)) = (E \o PrefixAtMost(p, RunRoom - Len(E))) \o Marker
  BY DEF Fixed
<1> DEFINE c == Redact(A \o y)
           n == RunRoom - Len(E)
<1>0. Owed(c, E, p)
  BY OwesText
<1> HIDE DEF c
<1>1. PICK r : Tidy(r) /\ Tidy(p \o r) /\ c = E \o (p \o r)
  BY <1>0 DEF Owed
<1> DEFINE q == p \o r
<1>2. Tidy(q) /\ c = E \o q
  BY <1>1
<1>3. /\ E \in Seq(Syms) /\ p \in Seq(Syms) /\ r \in Seq(Syms) /\ q \in Seq(Syms) /\ (Len(q) > 0 => q[1] # "v")
      /\ Len(E) \in Nat /\ Len(p) \in Nat /\ Len(r) \in Nat
  BY <1>1, <1>2, TidyParts
<1>4. Len(q) = Len(p) + Len(r)
  BY <1>3, Joined
<1> HIDE DEF q, c
<1>5. RunRoom \in Nat /\ RunRoom >= Len(E) /\ RunRoom = RunLimit - Len(Marker) /\ RunRoom + 2 = RunLimit /\ RunLimit \in Nat
  BY <1>3, RoomIs
<1>6. Len(c) = Len(E) + Len(q)
  BY <1>2, <1>3, Joined
<1>7. ~(Len(c) <= RunLimit)
  BY <1>3, <1>4, <1>5, <1>6
<1>8. n \in Nat /\ n < Len(p)
  BY <1>3, <1>5
<1>9. PrefixAtMost(E \o q, RunRoom) = E \o PrefixAtMost(q, n)
  BY <1>3, <1>5, CutBehind
<1> HIDE DEF n
<1>10. PrefixAtMost(q, n) = PrefixAtMost(p, n)
  BY <1>3, <1>8, CutInside DEF q
<1>11. Wanted(c) = PrefixAtMost(c, RunRoom) \o Marker
  BY <1>5, <1>7 DEF Wanted
<1>12. Wanted(c) = (E \o PrefixAtMost(p, n)) \o Marker
  BY <1>2, <1>9, <1>10, <1>11
<1>13. QED
  BY <1>12 DEF c, n

\* What is shown is no longer owed.
LEMMA OwesLess ==
  ASSUME NEW E, Tidy(E), NEW p, Tidy(p), NEW h, NEW A,
         NEW Y \in SUBSET Goings, Owes(E, p, h, A, Y), NEW a, Tidy(a), NEW b, Tidy(b), p = a \o b
  PROVE  Owes(E \o a, b, h, A, Y)
<1>1. E \in Seq(Syms) /\ a \in Seq(Syms) /\ b \in Seq(Syms)
  BY TidyParts
<1>2. Regrouped(E, a, b)
  BY <1>1, Regroup
<1>3. (E \o a) \o b = E \o p
  BY <1>2, Zenon DEF Regrouped
<1>4. QED
  BY <1>3, Zenon DEF Owes

\* What the redactor lets go of is owed.
LEMMA OwesMore ==
  ASSUME Independent, NEW E, Tidy(E), NEW p, Tidy(p), NEW h, Tidy(h), NEW A, Tidy(A), Owes(E, p, h, A, Goings), NEW x, Tidy(x)
  PROVE  Owes(E, p \o Drain(h \o x, FALSE).out, Drain(h \o x, FALSE).held, A \o x, Goings)
<1> DEFINE d == Drain(h \o x, FALSE)
           e == d.out
           g == d.held
<1>1. Tidy(h \o x)
  BY TidyParts
<1>2. Tidy(e) /\ Tidy(g)
  BY <1>1, TidyDrain
<1>3. ASSUME NEW y, Tidy(y) PROVE Redact(h \o (x \o y)) = e \o Redact(g \o y)
  <2>1. h \in Seq(Syms) /\ x \in Seq(Syms) /\ y \in Seq(Syms) /\ h \o x \in Seq(Syms)
    BY <1>1, <1>3, TidyParts
  <2>2. Redact((h \o x) \o y) = e \o Redact(g \o y)
    BY <2>1, DrainRedacts
  <2>3. Regrouped(h, x, y)
    BY <2>1, Regroup
  <2> HIDE DEF e, g
  <2>4. QED
    BY <2>2, <2>3, Zenon DEF Regrouped
<1> HIDE DEF e, g
<1>4. ASSUME NEW y, Tidy(y) PROVE Redact((A \o x) \o y) = (E \o (p \o e)) \o Redact(g \o y)
  <2> DEFINE r == Redact(g \o y)
             t == x \o y
  <2>1. Tidy(t) /\ Tidy(g \o y)
    BY <1>2, <1>4, TidyParts
  <2>2. Tidy(r)
    BY <2>1, TidyRedact
  <2>3. Redact(A \o t) = (E \o p) \o Redact(h \o t)
    BY <2>1, GoingIs DEF Owes
  <2>4. Redact(h \o t) = e \o r
    BY <1>3, <1>4
  <2>5. /\ A \in Seq(Syms) /\ x \in Seq(Syms) /\ y \in Seq(Syms) /\ E \in Seq(Syms) /\ p \in Seq(Syms)
        /\ e \in Seq(Syms) /\ r \in Seq(Syms) /\ E \o p \in Seq(Syms)
    BY <1>2, <1>4, <2>2, TidyParts
  <2>6. Regrouped(A, x, y) /\ Regrouped(E \o p, e, r) /\ Regrouped(E, p, e)
    BY <2>5, Regroup
  <2> HIDE DEF r
  <2>7. (A \o x) \o y = A \o t
    BY <2>6, Zenon DEF Regrouped
  <2>8. (E \o p) \o (e \o r) = (E \o (p \o e)) \o r
    BY <2>6, Zenon DEF Regrouped
  <2> HIDE DEF t
  <2>9. Redact((A \o x) \o y) = (E \o (p \o e)) \o r
    BY <2>3, <2>4, <2>7, <2>8, Zenon
  <2>10. QED
    BY <2>9 DEF r
<1>5. Owes(E, p \o e, g, A \o x, Goings)
  BY <1>4, GoingIs, Zenon DEF Owes
<1>6. QED
  BY <1>5 DEF e, g

\* What holds however A goes on holds of a longer A.
LEMMA StaysSo ==
  ASSUME NEW A, Tidy(A), NEW x, Tidy(x), NEW E
  PROVE  /\ Ahead(E, A, Goings) => Ahead(E, A \o x, Goings)
         /\ Fixed(E, A, Goings) => Fixed(E, A \o x, Goings)
<1>1. ASSUME NEW y, Tidy(y) PROVE (A \o x) \o y = A \o (x \o y) /\ Tidy(x \o y)
  <2>1. A \in Seq(Syms) /\ x \in Seq(Syms) /\ y \in Seq(Syms) /\ Tidy(x \o y)
    BY <1>1, TidyParts
  <2>2. Regrouped(A, x, y)
    BY <2>1, Regroup
  <2>3. QED
    BY <2>1, <2>2, Zenon DEF Regrouped
<1>2. ASSUME Ahead(E, A, Goings) PROVE Ahead(E, A \o x, Goings)
  <2>1. ASSUME NEW y, Tidy(y) PROVE \E z \in Seq(Syms) : Wanted(Redact((A \o x) \o y)) = E \o z
    <3> DEFINE t == x \o y
    <3>1. Tidy(t) /\ (A \o x) \o y = A \o t
      BY <1>1, <2>1
    <3> HIDE DEF t
    <3>2. \E z \in Seq(Syms) : Wanted(Redact(A \o t)) = E \o z
      BY <1>2, <3>1, GoingIs, Zenon DEF Ahead
    <3>3. QED
      BY <3>1, <3>2
  <2>2. QED
    BY <2>1, GoingIs, Zenon DEF Ahead
<1>3. ASSUME Fixed(E, A, Goings) PROVE Fixed(E, A \o x, Goings)
  BY <1>1, <1>3, GoingIs, Zenon DEF Fixed
<1>4. QED
  BY <1>2, <1>3

\* What a run has shown, of the text A that has come in so far: the beginning E of
\* what is wanted, and as long as it may still grow the rest is at hand.
Underway(s, E, A, Y) ==
    /\ Tidy(E) /\ Tidy(s.pending) /\ Tidy(s.held)
    /\ s.emitted = Len(E) /\ Len(E) <= RunRoom
    /\ s.seen = Len(E) + Len(s.pending) /\ s.seen <= RunLimit
    /\ Owes(E, s.pending, s.held, A, Y)
ToldBy(st, b, A, Y, E) ==
    /\ E \in Seq(Syms) /\ Shows(st.out, b, E)
    /\ st.sink.full => IsFull(st.out)
    /\ st.sink.truncated => Fixed(E, A, Y)
    /\ ~st.sink.truncated /\ st.sink.full => Ahead(E, A, Y)
    /\ ~st.sink.truncated /\ ~st.sink.full => Underway(st.sink, E, A, Y)
Told(st, b, A, Y) == \E E : ToldBy(st, b, A, Y, E)

\* AppendSession.
Exposed(st, t, r) ==
    /\ r \in Sts /\ r.out = AppendBounded(st.out, t) /\ (r.sink.full => IsFull(r.out))
    /\ \A f \in {"held", "seen", "emitted", "pending", "truncated"} : r.sink[f] = st.sink[f]

LEMMA SessionExposes ==
  ASSUME NEW st \in Sts, NEW t \in Seq(Syms), st.sink.full => IsFull(st.out), AppendBounded(st.out, t) \in Seq(Syms)
  PROVE  Exposed(st, t, AppendSession(st, t))
<1> DEFINE o == AppendBounded(st.out, t)
           x == ~IsFull(st.out) /\ IsFull(o) /\ t # << >>
           r == AppendSession(st, t)
<1>1. st.sink \in Sinks /\ x \in BOOLEAN
  BY DEF Sts
<1>2. CASE st.sink.full
  <2>1. r = st
    BY <1>2 DEF AppendSession
  <2>2. o = st.out
    BY <1>2 DEF AppendBounded
  <2>3. QED
    BY <1>2, <2>1, <2>2 DEF Exposed
<1>3. CASE ~st.sink.full
  <2>1. r = [out |-> o, sink |-> [st.sink EXCEPT !.full = x]]
    BY <1>3 DEF AppendSession
  <2>2. x => IsFull(o)
    OBVIOUS
  <2> HIDE DEF o, x
  <2>3. [st.sink EXCEPT !.full = x] \in Sinks
    BY <1>1 DEF Sinks
  <2>4. r.out = o /\ r.sink = [st.sink EXCEPT !.full = x] /\ r \in Sts
    <3>1. o \in Seq(Syms)
      BY DEF o
    <3>2. QED
      BY <2>1, <2>3, <3>1 DEF Sts
  <2>5. /\ r.sink.full = x
        /\ \A f \in {"held", "seen", "emitted", "pending", "truncated"} : r.sink[f] = st.sink[f]
    <3>1. [st.sink EXCEPT !.full = x].full = x
      BY <1>1 DEF Sinks
    <3>2. \A f \in {"held", "seen", "emitted", "pending", "truncated"} : [st.sink EXCEPT !.full = x][f] = st.sink[f]
      BY <1>1 DEF Sinks
    <3> HIDE DEF r
    <3>3. QED
      BY <2>4, <3>1, <3>2
  <2> HIDE DEF r
  <2>6. r.sink.full => IsFull(r.out)
    BY <2>2, <2>4, <2>5
  <2>7. QED
    BY <2>4, <2>5, <2>6 DEF Exposed, o, r
<1>4. QED
  BY <1>2, <1>3

\* What a run shows at once.
LEMMA ShowingCuts ==
  ASSUME NEW st \in Sts, NEW E, Tidy(E), st.sink.emitted = Len(E), Len(E) <= RunRoom, NEW p \in Seq(Syms)
  PROVE  Showing(st, p) = PrefixAtMost(p, RunRoom - Len(E)) /\ RunRoom - Len(E) \in Nat
<1> DEFINE n == RunRoom - Len(E)
<1>1. Len(E) \in Nat /\ RunRoom \in Nat /\ n \in Nat /\ (RunRoom > Len(E) <=> n # 0) /\ Len(p) \in Nat
  <2>1. Len(E) \in Nat /\ RunRoom \in Nat /\ Len(p) \in Nat
    BY TidyParts, Limits, Parts
  <2>2. QED
    BY <2>1
<1>2. CASE n # 0
  BY <1>1, <1>2 DEF Showing
<1>3. CASE n = 0
  <2>1. Showing(st, p) = << >>
    BY <1>1, <1>3 DEF Showing
  <2>2. Least(0, Len(p)) = 0
    BY <1>1 DEF Least
  <2>3. PrefixAtMost(p, 0) = First(p, 0)
    BY <2>2 DEF PrefixAtMost
  <2>4. 0 \in 0 .. Len(p)
    BY <1>1
  <2>5. First(p, 0) \in Seq(Syms) /\ Len(First(p, 0)) = 0
    BY <2>4, Parts
  <2>6. First(p, 0) = << >>
    BY <2>5
  <2>7. QED
    BY <1>1, <1>3, <2>1, <2>3, <2>6
<1>4. QED
  BY <1>2, <1>3

\* The account of a run before a marker, with what it has been given.
AccountOf(st, t, E, k, a) ==
    LET p == st.sink.pending \o t
        G == E \o First(p, k) IN
    /\ k \in 0 .. Len(p) /\ First(p, k) = PrefixAtMost(p, RunRoom - Len(E))
    /\ a \in Sts /\ (a.sink.full => IsFull(a.out)) /\ a.sink.truncated = st.sink.truncated
    /\ a.sink.held = st.sink.held /\ a.sink.pending = From(p, k + 1)
    /\ a.sink.emitted = Len(G) /\ a.sink.seen = st.sink.seen + Len(t)
    /\ Tidy(G) /\ Tidy(From(p, k + 1)) /\ Len(G) <= RunRoom /\ Len(G) + Len(From(p, k + 1)) = Len(E) + Len(p)
    /\ AppendBounded(st.out, First(p, k)) = a.out
    /\ First(p, k) \in Seq(Plain) /\ First(p, k) \o From(p, k + 1) = p /\ Tidy(First(p, k))

LEMMA AccountedOf ==
  ASSUME Roomy, NEW st \in Sts, NEW t, Tidy(t), NEW b, NEW E, Shows(st.out, b, E), Tidy(E), Tidy(st.sink.pending),
         st.sink.emitted = Len(E), Len(E) <= RunRoom, st.sink.full => IsFull(st.out)
  PROVE  \E k : AccountOf(st, t, E, k, Accounted(st, t))
<1> DEFINE p == st.sink.pending \o t
           n == RunRoom - Len(E)
           show == Showing(st, p)
           v == AppendSession(st, show)
           a == Accounted(st, t)
<1>1. Tidy(p) /\ p \in Seq(Syms) /\ E \in Seq(Syms) /\ Len(E) \in Nat /\ Len(p) \in Nat /\ Len(t) \in Nat
  BY TidyParts
<1>2. st.out \in Seq(Syms) /\ st.sink \in Sinks /\ st.sink.seen \in Nat /\ st.sink.emitted \in Nat /\ RunRoom \in Nat
  BY Limits DEF Sts, Sinks
<1>3. a = [out |-> v.out,
           sink |-> [v.sink EXCEPT !.seen = @ + Len(t), !.emitted = @ + Len(show), !.pending = From(p, Len(show) + 1)]]
  BY DEF Accounted
<1> HIDE DEF p
<1>4. show = PrefixAtMost(p, n) /\ n \in Nat
  BY <1>1, ShowingCuts
<1> HIDE DEF n
<1>5. PICK k \in 0 .. Len(p) :
           /\ PrefixAtMost(p, n) = First(p, k) /\ k <= n
           /\ Tidy(First(p, k)) /\ Tidy(From(p, k + 1)) /\ Len(First(p, k)) = k
           /\ First(p, k) \o From(p, k + 1) = p
  BY <1>1, <1>4, TidyCut
<1> DEFINE s == First(p, k)
           u == From(p, k + 1)
           G == E \o s
<1>6. show = s /\ Len(s) = k /\ Tidy(s) /\ Tidy(u) /\ s \o u = p /\ s = PrefixAtMost(p, n)
  BY <1>4, <1>5
<1> HIDE DEF show
<1>7. s \in Seq(Syms) /\ s \in Seq(Plain) /\ Len(u) \in Nat /\ k \in Nat /\ u \in Seq(Syms)
  BY <1>1, <1>6, TidyParts
<1>8. Len(u) = Len(p) - k
  <2>1. k + 1 \in 1 .. Len(p) + 1
    BY <1>1, <1>7
  <2>2. Len(u) = Len(p) + 1 - (k + 1)
    BY <1>1, <2>1, Parts
  <2>3. QED
    BY <1>1, <1>7, <2>2
<1> HIDE DEF s, u
<1>9. Tidy(G) /\ Len(G) = Len(E) + k
  BY <1>1, <1>6, <1>7, TidyParts, Joined
<1> HIDE DEF G
<1>10. Len(G) <= RunRoom /\ Len(G) + Len(u) = Len(E) + Len(p)
  <2>1. k <= n /\ n = RunRoom - Len(E)
    BY <1>5 DEF n
  <2>2. QED
    BY <1>1, <1>2, <1>7, <1>8, <1>9, <2>1
<1>11. AppendBounded(st.out, s) \in Seq(Syms)
  BY <1>1, <1>2, <1>7, ShowsMore
<1>12. Exposed(st, s, v)
  BY <1>2, <1>6, <1>7, <1>11, SessionExposes
<1> HIDE DEF v
<1>13. /\ v \in Sts /\ v.out = AppendBounded(st.out, s) /\ (v.sink.full => IsFull(v.out)) /\ v.sink \in Sinks
       /\ v.sink.held = st.sink.held /\ v.sink.seen = st.sink.seen /\ v.sink.emitted = st.sink.emitted
       /\ v.sink.truncated = st.sink.truncated
  BY <1>12 DEF Exposed, Sts
<1>14. a = [out |-> v.out,
            sink |-> [v.sink EXCEPT !.seen = @ + Len(t), !.emitted = @ + k, !.pending = u]]
  BY <1>3, <1>6 DEF u
<1> HIDE DEF a
<1>15. /\ a.out = v.out /\ a.sink.full = v.sink.full /\ a.sink.truncated = v.sink.truncated /\ a.sink.held = v.sink.held
       /\ a.sink.pending = u /\ a.sink.seen = v.sink.seen + Len(t) /\ a.sink.emitted = v.sink.emitted + k
  BY <1>13, <1>14 DEF Sinks
<1>16. a \in Sts
  <2>1. v.sink.seen + Len(t) \in Nat /\ v.sink.emitted + k \in Nat
    BY <1>1, <1>2, <1>7, <1>13
  <2>2. [v.sink EXCEPT !.seen = @ + Len(t), !.emitted = @ + k, !.pending = u] \in Sinks
    BY <1>7, <1>13, <2>1 DEF Sinks
  <2>3. QED
    BY <1>13, <1>14, <2>2 DEF Sts
<1>17. a.sink.emitted = Len(G) /\ a.sink.seen = st.sink.seen + Len(t)
  BY <1>9, <1>13, <1>15
<1>18. AccountOf(st, t, E, k, a)
  <2>1. /\ k \in 0 .. Len(p) /\ s = PrefixAtMost(p, RunRoom - Len(E))
    BY <1>6 DEF n
  <2>2. (a.sink.full => IsFull(a.out)) /\ a.sink.truncated = st.sink.truncated /\ a.sink.held = st.sink.held
        /\ a.sink.pending = u /\ AppendBounded(st.out, s) = a.out
    BY <1>13, <1>15
  <2>3. QED
    BY <1>6, <1>7, <1>9, <1>10, <1>16, <1>17, <2>1, <2>2 DEF AccountOf, s, u, G, p
<1>19. QED
  BY <1>18 DEF a

\* A run that has not been cut off is given the text t.
Given(st, b, E, t, A, Y) ==
    /\ st \in Sts /\ ~st.sink.truncated /\ ~st.sink.full
    /\ Tidy(t) /\ Shows(st.out, b, E)
    /\ Tidy(E) /\ Tidy(st.sink.pending) /\ Tidy(st.sink.held)
    /\ st.sink.emitted = Len(E) /\ Len(E) <= RunRoom
    /\ st.sink.seen = Len(E) + Len(st.sink.pending) /\ st.sink.seen <= RunLimit
    /\ Owes(E, st.sink.pending \o t, st.sink.held, A, Y)

LEMMA RunTells ==
  ASSUME Independent, Roomy, NEW st, NEW b, NEW E, NEW t, NEW A, NEW Y \in SUBSET Goings, Given(st, b, E, t, A, Y)
  PROVE  Told(AppendRun(st, t), b, A, Y) /\ AppendRun(st, t) \in Sts /\ AppendRun(st, t).sink.held = st.sink.held
<1> DEFINE p == st.sink.pending \o t
           h == st.sink.held
           a == Accounted(st, t)
<1>1. /\ st \in Sts /\ ~st.sink.truncated /\ ~st.sink.full /\ Tidy(t) /\ Shows(st.out, b, E)
      /\ Tidy(E) /\ Tidy(st.sink.pending) /\ Tidy(h) /\ st.sink.emitted = Len(E) /\ Len(E) <= RunRoom
      /\ st.sink.seen = Len(E) + Len(st.sink.pending) /\ st.sink.seen <= RunLimit /\ Owes(E, p, h, A, Y)
  BY DEF Given
<1>2. /\ Tidy(p) /\ E \in Seq(Syms) /\ Len(E) \in Nat /\ t \in Seq(Syms) /\ Len(t) \in Nat
      /\ st.sink.pending \in Seq(Syms) /\ Len(st.sink.pending) \in Nat /\ st.out \in Seq(Syms)
  BY <1>1, TidyParts DEF Sts
<1>3. CASE t = << >>
  <2>1. AppendRun(st, t) = st
    BY <1>3, AppendRunIs
  <2>2. p = st.sink.pending
    BY <1>2, <1>3
  <2>3. Owes(E, st.sink.pending, st.sink.held, A, Y)
    BY <1>1, <2>2
  <2>4. Underway(st.sink, E, A, Y)
    BY <1>1, <2>3 DEF Underway
  <2>5. ToldBy(st, b, A, Y, E)
    BY <1>1, <1>2, <2>4 DEF ToldBy
  <2>6. QED
    BY <1>1, <2>1, <2>5 DEF Told
<1>4. CASE t # << >>
  <2>1. AppendRun(st, t) = IF st.sink.seen + Len(t) <= RunLimit THEN a
                           ELSE [Overrun(st, t) EXCEPT !.sink.truncated = TRUE, !.sink.pending = << >>]
    BY <1>1, <1>4, AppendRunIs
  <2>2. \E k : AccountOf(st, t, E, k, a)
    BY <1>1, AccountedOf
  <2>3. Overrun(st, t) = AppendSession(a, Marker)
    BY RoomIs DEF Overrun
  <2> HIDE DEF a
  <2>4. PICK k : AccountOf(st, t, E, k, a)
    BY <2>2
  <2> DEFINE s == First(p, k)
             u == From(p, k + 1)
             G == E \o s
  <2>5. /\ k \in 0 .. Len(p) /\ s = PrefixAtMost(p, RunRoom - Len(E))
        /\ a \in Sts /\ (a.sink.full => IsFull(a.out)) /\ ~a.sink.truncated
        /\ a.sink.held = h /\ a.sink.pending = u
        /\ a.sink.emitted = Len(G) /\ a.sink.seen = st.sink.seen + Len(t)
        /\ Tidy(G) /\ Tidy(u) /\ Len(G) <= RunRoom /\ Len(G) + Len(u) = Len(E) + Len(p)
        /\ AppendBounded(st.out, s) = a.out
        /\ s \in Seq(Plain) /\ s \o u = p /\ Tidy(s)
    BY <1>1, <2>4 DEF AccountOf
  <2>6. Len(p) = Len(st.sink.pending) + Len(t)
    BY <1>2, Joined
  <2> HIDE DEF s, u, p, h
  <2>7. Owes(G, u, h, A, Y)
    BY <1>1, <1>2, <2>5, OwesLess
  <2>8. G \in Seq(Syms) /\ Len(G) \in Nat /\ Len(u) \in Nat /\ s \in Seq(Syms) /\ Without(s, "P") = s
    BY <2>5, TidyParts, WithoutSame
  <2>9. Shows(a.out, b, G)
    <3>1. Shows(AppendBounded(st.out, s), b, E \o Without(s, "P"))
      BY <1>1, <1>2, <2>8, ShowsMore
    <3>2. QED
      BY <2>5, <2>8, <3>1
  <2> HIDE DEF G
  <2>10. CASE st.sink.seen + Len(t) <= RunLimit
    <3>1. a.sink.seen = Len(G) + Len(u) /\ a.sink.seen <= RunLimit
      <4>1. a.sink.seen = (Len(E) + Len(st.sink.pending)) + Len(t)
        BY <1>1, <2>5
      <4>2. (Len(E) + Len(st.sink.pending)) + Len(t) = Len(G) + Len(u)
        BY <1>2, <2>5, <2>6
      <4>3. QED
        BY <2>5, <2>10, <4>1, <4>2
    <3>2. Underway(a.sink, G, A, Y)
      BY <1>1, <2>5, <2>7, <3>1 DEF Underway
    <3>3. Ahead(G, A, Y)
      BY <1>1, <2>5, <2>7, OwesAhead
    <3>4. ToldBy(a, b, A, Y, G)
      BY <2>5, <2>8, <2>9, <3>2, <3>3 DEF ToldBy
    <3>5. AppendRun(st, t) = a
      BY <2>1, <2>10
    <3>6. QED
      BY <2>5, <3>4, <3>5 DEF Told, h
  <2>11. CASE ~(st.sink.seen + Len(t) <= RunLimit)
    <3> DEFINE v == AppendSession(a, Marker)
               r == [v EXCEPT !.sink.truncated = TRUE, !.sink.pending = << >>]
               W == G \o Marker
    <3>1. AppendRun(st, t) = r
      BY <2>1, <2>3, <2>11
    <3>2. a.out \in Seq(Syms) /\ Marker \in Seq(Syms) /\ Without(Marker, "P") = Marker
      BY <2>5, MarksAre, MarksPlain DEF Sts
    <3>3. Shows(AppendBounded(a.out, Marker), b, W) /\ AppendBounded(a.out, Marker) \in Seq(Syms)
      <4>1. Shows(AppendBounded(a.out, Marker), b, G \o Without(Marker, "P")) /\ AppendBounded(a.out, Marker) \in Seq(Syms)
        BY <2>8, <2>9, <3>2, ShowsMore
      <4>2. QED
        BY <3>2, <4>1
    <3>4. Exposed(a, Marker, v)
      BY <2>5, <3>2, <3>3, SessionExposes
    <3> HIDE DEF v
    <3>5. v \in Sts /\ v.out = AppendBounded(a.out, Marker) /\ (v.sink.full => IsFull(v.out)) /\ v.sink.held = a.sink.held
      BY <3>4 DEF Exposed
    <3>6. r.out = v.out /\ r.sink.full = v.sink.full /\ r.sink.truncated /\ r.sink.held = v.sink.held /\ r \in Sts
      <4> DEFINE m == [[v.sink EXCEPT !.truncated = TRUE] EXCEPT !.pending = << >>]
      <4>1. v.sink \in Sinks /\ v.out \in Seq(Syms) /\ << >> \in Seq(Syms)
        BY <3>5 DEF Sts
      <4>2. m \in Sinks /\ m.truncated /\ m.full = v.sink.full /\ m.held = v.sink.held
        BY <4>1 DEF Sinks
      <4>3. r = [out |-> v.out, sink |-> m]
        BY <3>5, MarkedIs
      <4> HIDE DEF m, r
      <4>4. QED
        BY <4>1, <4>2, <4>3 DEF Sts
    <3> HIDE DEF r
    <3>7. Len(E) + Len(p) > RunLimit
      <4>1. st.sink.seen + Len(t) = Len(E) + Len(p) /\ Len(E) + Len(p) \in Nat /\ RunLimit \in Nat
        BY <1>1, <1>2, <2>6, RoomIs
      <4>2. QED
        BY <2>11, <4>1
    <3>8. Fixed((E \o PrefixAtMost(p, RunRoom - Len(E))) \o Marker, A, Y)
      BY <1>1, <1>2, <3>7, OwesFixed
    <3>9. Fixed(W, A, Y)
      BY <2>5, <3>8 DEF G
    <3>10. W \in Seq(Syms)
      BY <2>8, <3>2, Joined
    <3> HIDE DEF W
    <3>11. ToldBy(r, b, A, Y, W)
      BY <3>3, <3>5, <3>6, <3>9, <3>10 DEF ToldBy
    <3>12. QED
      BY <2>5, <3>1, <3>5, <3>6, <3>11 DEF Told, h
  <2>12. QED
    BY <2>10, <2>11
<1>5. QED
  BY <1>3, <1>4

LEMMA WriteTells ==
  ASSUME Independent, Roomy, NEW st, GoodSt(st), NEW b, NEW A, Tidy(A), Told(st, b, A, Goings),
         NEW w \in Seq(Plain), Sound(w, "none")
  PROVE  Told(SinkWrite(st, w), b, A \o Without(w, "s"), Goings)
<1> DEFINE x == Without(w, "s")
           B == A \o x
<1>1. PICK E : ToldBy(st, b, A, Goings, E)
  BY DEF Told
<1>2. Tidy(x)
  <2>1. w \in Seq(Syms)
    BY PlainIs
  <2>2. Sound(x, "s")
    BY <2>1, WithoutSound
  <2>3. x \in Seq(Plain)
    BY WithoutPlain
  <2>4. QED
    BY <2>2, <2>3 DEF Tidy
<1>3. CASE w = << >>
  <2>1. x = << >> /\ A \in Seq(Syms)
    BY <1>3, WithoutSmall, TidyParts
  <2>2. B = A
    BY <2>1
  <2>3. SinkWrite(st, w) = st
    BY <1>3 DEF SinkWrite
  <2>4. QED
    BY <2>2, <2>3
<1> HIDE DEF x
<1>4. CASE w # << >> /\ (st.sink.truncated \/ st.sink.full)
  <2>1. SinkWrite(st, w) = st
    BY <1>4 DEF SinkWrite
  <2>2. (Ahead(E, A, Goings) => Ahead(E, B, Goings)) /\ (Fixed(E, A, Goings) => Fixed(E, B, Goings))
    BY <1>2, StaysSo
  <2> HIDE DEF B
  <2>3. ToldBy(st, b, B, Goings, E)
    BY <1>1, <1>4, <2>2 DEF ToldBy
  <2>4. QED
    BY <2>1, <2>3 DEF Told, B, x
<1>5. CASE w # << >> /\ ~st.sink.truncated /\ ~st.sink.full
  <2> DEFINE h == st.sink.held
             d == Drain(h \o x, FALSE)
             e == d.out
             g == d.held
             c == WithHeld(st, g)
  <2>1. SinkWrite(st, w) = AppendRun(c, e)
    BY <1>5 DEF SinkWrite, WithHeld, withoutTurnSentinel, x
  <2>2. Underway(st.sink, E, A, Goings) /\ Shows(st.out, b, E)
    BY <1>1, <1>5 DEF ToldBy
  <2>3. /\ Tidy(E) /\ Tidy(st.sink.pending) /\ Tidy(h)
        /\ st.sink.emitted = Len(E) /\ Len(E) <= RunRoom
        /\ st.sink.seen = Len(E) + Len(st.sink.pending) /\ st.sink.seen <= RunLimit
        /\ Owes(E, st.sink.pending, h, A, Goings)
    BY <2>2 DEF Underway
  <2>4. Tidy(e) /\ Tidy(g)
    <3>1. Tidy(h \o x)
      BY <1>2, <2>3, TidyParts
    <3>2. QED
      BY <3>1, TidyDrain
  <2>5. Owes(E, st.sink.pending \o e, g, B, Goings)
    BY <1>2, <2>3, OwesMore
  <2> HIDE DEF e, g
  <2>6. HeldTo(st, g, c)
    <3>1. g \in Seq(Syms) /\ Sound(g, "s")
      BY <2>4, TidyParts
    <3>2. QED
      BY <3>1, HeldIs
  <2> HIDE DEF c
  <2>7. /\ c \in Sts /\ c.out = st.out /\ c.sink.held = g /\ c.sink.seen = st.sink.seen /\ c.sink.emitted = st.sink.emitted
        /\ c.sink.pending = st.sink.pending /\ c.sink.truncated = st.sink.truncated /\ c.sink.full = st.sink.full
    BY <2>6 DEF HeldTo, GoodSt
  <2> HIDE DEF B
  <2>8. Given(c, b, E, e, B, Goings)
    BY <1>5, <2>2, <2>3, <2>4, <2>5, <2>7 DEF Given
  <2>9. Told(AppendRun(c, e), b, B, Goings)
    BY <2>8, RunTells
  <2>10. QED
    BY <2>1, <2>9 DEF B, x
<1>6. QED
  BY <1>3, <1>4, <1>5

\* A record that is full shows whatever begins with what it shows.
LEMMA ShowsLonger ==
  ASSUME NEW o, NEW b, NEW E \in Seq(Syms), NEW z \in Seq(Syms), Shows(o, b, E), IsFull(o)
  PROVE  Shows(o, b, E \o z)
<1> DEFINE G == E \o z
<1>1. Len(G) = Len(E) + Len(z) /\ Len(E) \in Nat /\ Len(z) \in Nat /\ \A k \in 0 .. Len(E) : First(G, k) = First(E, k)
  BY Joined, FirstJoin, Parts
<1> HIDE DEF G
<1>2. ASSUME b <= DataLimit PROVE EndsFull(o, b, G)
  <2>1. PICK k \in 0 .. Len(E) : PartOf(o, b) = First(E, k) \o Full
    BY <1>2 DEF Shows, EndsFull
  <2>2. k \in 0 .. Len(G) /\ First(G, k) = First(E, k)
    BY <1>1
  <2>3. QED
    BY <2>1, <2>2 DEF EndsFull
<1>3. Shows(o, b, G)
  BY <1>2 DEF Shows
<1>4. QED
  BY <1>3 DEF G

\* A run that is told with nothing to come, and its account is closed.
LEMMA ToldAll ==
  ASSUME Independent, Roomy, NEW st \in Sts, NEW b, NEW A, Tidy(A), NEW Y \in SUBSET Goings, << >> \in Y, Told(st, b, A, Y),
         ~st.sink.truncated /\ ~st.sink.full => st.sink.held = << >>
  PROVE  LET r == IF st.sink.truncated THEN st ELSE AppendSession(st, st.sink.pending)
         IN  Shows(r.out, b, Wanted(Redact(A)))
<1> DEFINE r == IF st.sink.truncated THEN st ELSE AppendSession(st, st.sink.pending)
           p == st.sink.pending
           z == << >>
           W == Wanted(Redact(A))
<1>1. PICK E : ToldBy(st, b, A, Y, E)
  BY DEF Told
<1>2. A \in Seq(Syms) /\ z \in Y /\ z \in Seq(Syms)
  BY TidyParts
<1>3. A \o z = A
  BY <1>2
<1> HIDE DEF z
<1>4. E \in Seq(Syms) /\ Shows(st.out, b, E) /\ (st.sink.full => IsFull(st.out))
  BY <1>1 DEF ToldBy
<1>5. CASE st.sink.truncated
  <2>1. Fixed(E, A, Y)
    BY <1>1, <1>5 DEF ToldBy
  <2>2. W = E
    BY <1>2, <1>3, <2>1 DEF Fixed
  <2>3. QED
    BY <1>4, <1>5, <2>2
<1>6. CASE ~st.sink.truncated /\ st.sink.full
  <2>1. Ahead(E, A, Y)
    BY <1>1, <1>6 DEF ToldBy
  <2>2. PICK u \in Seq(Syms) : Wanted(Redact(A \o z)) = E \o u
    BY <1>2, <2>1 DEF Ahead
  <2>3. W = E \o u
    BY <1>3, <2>2
  <2>4. Shows(st.out, b, E \o u)
    BY <1>4, <1>6, ShowsLonger
  <2>5. r = st
    BY <1>6 DEF AppendSession
  <2>6. QED
    BY <2>3, <2>4, <2>5
<1>7. CASE ~st.sink.truncated /\ ~st.sink.full
  <2>1. Underway(st.sink, E, A, Y)
    BY <1>1, <1>7 DEF ToldBy
  <2>2. /\ Tidy(E) /\ Tidy(p) /\ st.sink.seen = Len(E) + Len(p) /\ st.sink.seen <= RunLimit
        /\ Owes(E, p, st.sink.held, A, Y)
    BY <2>1 DEF Underway
  <2>3. Redact(A) = E \o p
    <3>1. Redact(A \o z) = (E \o p) \o Redact(st.sink.held \o z)
      BY <1>2, <2>2 DEF Owes
    <3>2. st.sink.held \o z = << >> /\ Redact(<< >>) = << >>
      BY <1>2, <1>7, RedactType DEF z
    <3>3. E \o p \in Seq(Syms)
      BY <2>2, TidyParts
    <3>4. (E \o p) \o << >> = E \o p
      BY <3>3
    <3>5. QED
      BY <1>3, <3>1, <3>2, <3>4
  <2>4. p \in Seq(Syms) /\ p \in Seq(Plain) /\ Len(E \o p) = Len(E) + Len(p) /\ Without(p, "P") = p
    <3>1. p \in Seq(Syms) /\ p \in Seq(Plain)
      BY <2>2, TidyParts
    <3>2. QED
      BY <1>4, <3>1, Joined, WithoutSame
  <2>5. W = E \o p
    BY <2>2, <2>3, <2>4 DEF Wanted
  <2>6. st.out \in Seq(Syms)
    BY DEF Sts
  <2>7. Shows(AppendBounded(st.out, p), b, E \o Without(p, "P")) /\ AppendBounded(st.out, p) \in Seq(Syms)
    BY <1>4, <2>4, <2>6, ShowsMore
  <2>8. Exposed(st, p, AppendSession(st, p))
    BY <1>4, <2>4, <2>7, SessionExposes
  <2>9. r.out = AppendBounded(st.out, p)
    BY <1>7, <2>8 DEF Exposed
  <2> HIDE DEF p, r, W
  <2>10. Shows(r.out, b, W)
    BY <2>4, <2>5, <2>7, <2>9
  <2>11. QED
    BY <2>10 DEF r, W, p
<1>8. QED
  BY <1>5, <1>6, <1>7

LEMMA CloseTells ==
  ASSUME Independent, Roomy, NEW st, GoodSt(st), NEW b, NEW A, Tidy(A), Told(st, b, A, Goings)
  PROVE  Shows(SinkClose(st).out, b, Wanted(Redact(A)))
<1> DEFINE Ended(c) == IF c.sink.truncated THEN c ELSE AppendSession(c, c.sink.pending)
<1>1. st \in Sts
  BY DEF GoodSt
<1>2. << >> \in Goings /\ Goings \in SUBSET Goings /\ {<< >>} \in SUBSET Goings
  BY GoingIs, TidyParts
<1>3. CASE st.sink.truncated \/ st.sink.full
  <2>1. SinkClose(st) = Ended(st)
    BY <1>3 DEF SinkClose
  <2>2. ~st.sink.truncated /\ ~st.sink.full => st.sink.held = << >>
    BY <1>3
  <2>3. Shows(Ended(st).out, b, Wanted(Redact(A)))
    BY <1>1, <1>2, <2>2, ToldAll
  <2>4. QED
    BY <2>1, <2>3
<1>4. CASE ~st.sink.truncated /\ ~st.sink.full
  <2> DEFINE h == st.sink.held
             p == st.sink.pending
             z == << >>
             e == Drain(h, TRUE).out
             c == WithHeld(st, z)
             v == AppendRun(c, e)
             Y == {<< >>}
  <2>1. SinkClose(st) = Ended(v)
    BY <1>4 DEF SinkClose, WithHeld
  <2>2. PICK E : ToldBy(st, b, A, Goings, E)
    BY DEF Told
  <2>3. Underway(st.sink, E, A, Goings) /\ Shows(st.out, b, E)
    BY <1>4, <2>2 DEF ToldBy
  <2>4. /\ Tidy(E) /\ Tidy(p) /\ Tidy(h)
        /\ st.sink.emitted = Len(E) /\ Len(E) <= RunRoom
        /\ st.sink.seen = Len(E) + Len(p) /\ st.sink.seen <= RunLimit
        /\ Owes(E, p, h, A, Goings)
    BY <2>3 DEF Underway
  <2>5. Tidy(e) /\ Redact(h) = e
    BY <2>4, TidyDrain, DrainAll
  <2>6. HeldTo(st, z, c)
    <3>1. z \in Seq(Syms) /\ Sound(z, "s")
      BY ShortSound
    <3>2. QED
      BY <3>1, HeldIs
  <2> HIDE DEF c, e
  <2>7. /\ c \in Sts /\ c.out = st.out /\ c.sink.held = z /\ c.sink.seen = st.sink.seen /\ c.sink.emitted = st.sink.emitted
        /\ c.sink.pending = p /\ c.sink.truncated = st.sink.truncated /\ c.sink.full = st.sink.full
    BY <2>6 DEF HeldTo, GoodSt
  <2>8. Redact(A \o z) = (E \o (p \o e)) \o Redact(z \o z)
    <3>1. Redact(A \o z) = (E \o p) \o Redact(h \o z)
      BY <1>2, <2>4 DEF Owes
    <3>2. h \in Seq(Syms) /\ E \in Seq(Syms) /\ p \in Seq(Syms) /\ e \in Seq(Syms)
      BY <2>4, <2>5, TidyParts
    <3>3. h \o z = h /\ z \o z = z /\ Redact(z) = z
      BY <3>2, RedactType
    <3>4. Regrouped(E, p, e)
      BY <3>2, Regroup
    <3>5. (E \o p) \o e = E \o (p \o e)
      BY <3>4 DEF Regrouped
    <3>6. E \o (p \o e) \in Seq(Syms)
      BY <3>2, Joined
    <3>7. (E \o (p \o e)) \o z = E \o (p \o e)
      BY <3>6
    <3> HIDE DEF z, p, h
    <3>8. QED
      BY <2>5, <3>1, <3>3, <3>5, <3>7, Zenon
  <2>9. Owes(E, p \o e, z, A, Y)
    BY <2>8 DEF Owes
  <2> HIDE DEF Y
  <2>10. Given(c, b, E, e, A, Y)
    <3>1. Owes(E, c.sink.pending \o e, c.sink.held, A, Y) /\ Tidy(c.sink.held)
      BY <2>7, <2>9, TidyParts
    <3>2. /\ c.sink.emitted = Len(E) /\ Len(E) <= RunRoom /\ Tidy(c.sink.pending)
          /\ c.sink.seen = Len(E) + Len(c.sink.pending) /\ c.sink.seen <= RunLimit /\ Shows(c.out, b, E)
      BY <2>3, <2>4, <2>7
    <3>3. QED
      BY <1>4, <2>4, <2>5, <2>7, <3>1, <3>2 DEF Given
  <2>11. Y \in SUBSET Goings /\ << >> \in Y
    BY <1>2 DEF Y
  <2>12. Told(v, b, A, Y) /\ v \in Sts /\ v.sink.held = << >>
    BY <2>7, <2>10, <2>11, RunTells
  <2> HIDE DEF v
  <2>13. Shows(Ended(v).out, b, Wanted(Redact(A)))
    BY <2>11, <2>12, ToldAll
  <2>14. QED
    BY <2>1, <2>13
<1>5. QED
  BY <1>3, <1>4

\* What an agent's run has recorded: while it goes on, what its account says; when it
\* has been flushed, what is wanted of everything that came in.
Taken == Without(arrived, "s")
RecordInv ==
    cli # "proxy" =>
        /\ Len(out) <= RecordLimit
        /\ phase = "run" => Tidy(Taken) /\ Told(Now, start, Taken, Goings)
        /\ phase = "closed" => Shows(out, start, Wanted(Redact(Taken)))

LEMMA RecordStarts == PipeInit => RecordInv
<1> SUFFICES ASSUME PipeInit, cli # "proxy" PROVE RecordInv
  BY DEF RecordInv
<1>1. out = << >> /\ phase = "idle"
  BY DEF PipeInit
<1>2. Len(out) = 0 /\ RecordLimit \in Nat
  BY <1>1, Limits
<1>3. Len(out) <= RecordLimit
  BY <1>2
<1>4. QED
  BY <1>1, <1>3 DEF RecordInv

LEMMA BoundedStays ==
  ASSUME Roomy, NEW o \in Seq(Syms), Len(o) <= RecordLimit, NEW x \in Seq(Syms)
  PROVE  Len(AppendBounded(o, x)) <= RecordLimit /\ AppendBounded(o, x) \in Seq(Syms)
<1>1. << >> \in Seq(Syms)
  OBVIOUS
<1>2. Shows(o, Len(o), << >>)
  BY ShowsNew
<1> DEFINE b == Len(o)
           E == << >>
<1> HIDE DEF b, E
<1>3. E \in Seq(Syms) /\ Shows(o, b, E)
  BY <1>1, <1>2 DEF b, E
<1>4. Shows(AppendBounded(o, x), b, E \o Without(x, "P")) /\ AppendBounded(o, x) \in Seq(Syms)
  BY <1>3, ShowsMore
<1>5. QED
  BY <1>4 DEF Shows

LEMMA BlockStays ==
  ASSUME Roomy, out \in Seq(Syms), Len(out) <= RecordLimit, NEW t \in Seq(Syms)
  PROVE  Len(TurnBlock(t)) <= RecordLimit /\ TurnBlock(t) \in Seq(Syms)
<1> DEFINE x == IF out = << >> \/ Last(out) \in {"n", "T", "O", "P", "M", "F"} THEN t ELSE <<"n">> \o t
<1>1. x \in Seq(Syms)
  <2>1. <<"n">> \in Seq(Syms)
    BY DEF Syms, Bytes
  <2>2. <<"n">> \o t \in Seq(Syms)
    BY <2>1, Joined
  <2>3. QED
    BY <2>2
<1>2. TurnBlock(t) = AppendBounded(out, x)
  BY DEF TurnBlock
<1> HIDE DEF x
<1>3. QED
  BY <1>1, <1>2, BoundedStays

\* What a step takes in, and what the sink makes of it.
TakesIn(w) == w \in Seq(Plain) /\ Sound(w, "none") /\ arrived' = arrived \o w
Taking     == \E w : TakesIn(w) /\ Set(SinkWrite(Now, w))
TakingLast == \E w : TakesIn(w) /\ Set(SinkClose(SinkWrite(Now, w)))

LEMMA TakenGrows ==
  ASSUME PipeInv, Tidy(Taken), NEW w, TakesIn(w)
  PROVE  Taken' = Taken \o Without(w, "s") /\ Tidy(Taken')
<1> DEFINE x == Without(w, "s")
<1>1. w \in Seq(Plain) /\ w \in Seq(Syms) /\ Sound(w, "none") /\ arrived' = arrived \o w /\ arrived \in Seq(Syms)
  BY InvParts, PlainIs DEF TakesIn
<1>2. Without(arrived \o w, "s") = Without(arrived, "s") \o x
  BY <1>1, WithoutJoin
<1>3. Taken' = Taken \o x
  BY <1>1, <1>2 DEF Taken
<1>4. Tidy(x)
  BY <1>1, WithoutSound, WithoutPlain DEF Tidy
<1> HIDE DEF x
<1>5. Tidy(Taken \o x)
  BY <1>4, TidyParts
<1>6. QED
  BY <1>3, <1>5 DEF x

LEMMA TakingKeeps ==
  ASSUME Independent, Roomy, PipeInv, RecordInv, cli # "proxy", phase = "run", UNCHANGED <<cli, phase, start>>, Taking
  PROVE  RecordInv'
<1>1. PICK w : TakesIn(w) /\ Set(SinkWrite(Now, w))
  BY DEF Taking
<1> DEFINE st == SinkWrite(Now, w)
           b == start
           A == Taken
           B == A \o Without(w, "s")
<1>2. w \in Seq(Plain) /\ w \in Seq(Syms) /\ Sound(w, "none") /\ GoodSt(Now) /\ Ready(Now)
  BY <1>1, InvParts, PlainIs DEF TakesIn
<1>3. GoodSt(st)
  BY <1>2, WriteIs
<1>4. Tidy(A) /\ Told(Now, b, A, Goings)
  BY DEF RecordInv
<1>5. Told(st, b, B, Goings)
  BY <1>2, <1>4, WriteTells
<1>6. Taken' = B /\ Tidy(Taken')
  BY <1>1, <1>4, TakenGrows
<1> HIDE DEF st, b, B, A
<1>7. Now' = st /\ out' = st.out /\ start' = b
  <2>1. st \in Sts
    BY <1>3 DEF GoodSt
  <2>2. QED
    BY <1>1, <2>1, NowIs DEF Set, st, b
<1>8. Told(Now', start', Taken', Goings)
  BY <1>5, <1>6, <1>7
<1>9. Len(out') <= RecordLimit
  BY <1>5, <1>7 DEF Told, ToldBy, Shows
<1>10. phase' = "run"
  OBVIOUS
<1>11. QED
  BY <1>6, <1>8, <1>9, <1>10 DEF RecordInv

LEMMA BeginRecords ==
  ASSUME Independent, Roomy, PipeInv, RecordInv, NEW q \in Asked, BeginTurn(q)
  PROVE  RecordInv'
<1> DEFINE t == <<"T">> \o Drain(withoutTurnSentinel(Append(Untailed(Runes(q)), "n")), TRUE).out \o <<"T">>
           o == TurnBlock(t)
           st == [out |-> o, sink |-> NewSink]
           z == << >>
<1>1. /\ phase = "idle" /\ out' = o /\ sink' = NewSink /\ arrived' = z /\ start' = Len(o) /\ phase' = "run"
      /\ UNCHANGED cli
  BY DEF BeginTurn
<1>2. cli # "proxy"
  BY <1>1 DEF PipeInv, ProxyInv
<1>3. t \in Seq(Syms)
  <2>1. q \in Seq(Syms)
    BY TextsAre, PlainIs
  <2>2. Fine(t)
    BY <2>1, PromptIs
  <2>3. QED
    BY <2>2 DEF Fine
<1> HIDE DEF t
<1>4. Len(o) <= RecordLimit /\ o \in Seq(Syms)
  BY <1>2, <1>3, InvParts, BlockStays DEF RecordInv
<1> HIDE DEF o
<1>5. z \in Seq(Syms) /\ Tidy(z) /\ Len(z) = 0 /\ Without(z, "s") = z
  BY TidyParts, WithoutSmall
<1>6. Taken' = z /\ Now' = st
  BY <1>1, <1>5 DEF Taken, Now
<1>7. Shows(st.out, Len(o), z)
  BY <1>4, ShowsNew
<1>8. Underway(NewSink, z, z, Goings)
  <2>1. NewSink.held = z /\ NewSink.pending = z /\ NewSink.emitted = 0 /\ NewSink.seen = 0
    BY DEF NewSink
  <2>2. 0 <= RunRoom /\ 0 <= RunLimit /\ 0 = 0 + 0
    BY Limits
  <2>3. ASSUME NEW y \in Goings PROVE Redact(z \o y) = (z \o z) \o Redact(z \o y)
    <3>1. y \in Seq(Syms)
      BY GoingIs, TidyParts
    <3>2. z \o y = y /\ z \o z = z
      BY <3>1
    <3>3. Redact(y) \in Seq(Syms)
      BY <3>1, RedactType
    <3>4. z \o Redact(y) = Redact(y)
      BY <3>3
    <3> HIDE DEF z
    <3>5. QED
      BY <3>2, <3>4
  <2> HIDE DEF z
  <2>4. Owes(z, z, z, z, Goings)
    BY <2>3 DEF Owes
  <2>5. QED
    BY <1>5, <2>1, <2>2, <2>4 DEF Underway
<1>9. ToldBy(st, Len(o), z, Goings, z)
  <2>1. st.sink = NewSink /\ ~NewSink.truncated /\ ~NewSink.full
    BY DEF NewSink
  <2> HIDE DEF st, z
  <2>2. QED
    BY <1>5, <1>7, <1>8, <2>1 DEF ToldBy
<1> HIDE DEF st, z
<1>10. Told(Now', start', Taken', Goings)
  BY <1>1, <1>6, <1>9 DEF Told
<1>11. Tidy(Taken') /\ Len(out') <= RecordLimit
  BY <1>1, <1>4, <1>5, <1>6
<1>12. QED
  BY <1>1, <1>10, <1>11 DEF RecordInv

LEMMA ArrivesRecords ==
  ASSUME Independent, Roomy, PipeInv, RecordInv, NEW r \in Records, StdoutArrives(r)
  PROVE  RecordInv'
<1>1. cli # "proxy" /\ phase = "run" /\ UNCHANGED <<cli, phase, start>> /\ r.text \in Seq(Plain)
  BY TextsAre DEF StdoutArrives, Writing
<1>2. CASE r.kind = "oversized"
  <2> DEFINE t == Project(r, FALSE).out
  <2>1. line' = Dropped /\ Pass("stdout", t)
    BY <1>2 DEF StdoutArrives
  <2>2. t \in Seq(Plain) /\ line'.text \in Seq(Plain)
    BY <1>1, <2>1, ProjectIs, TextsAre DEF Shaped
  <2> HIDE DEF t
  <2>3. Taking
    BY <1>1, <2>1, <2>2, PassIs DEF Taking, TakesIn
  <2>4. QED
    BY <1>1, <2>3, TakingKeeps
<1>3. CASE r.kind # "oversized"
  <2>1. UNCHANGED <<arrived, out, sink>>
    BY <1>3 DEF StdoutArrives
  <2>2. Now' = Now /\ Taken' = Taken
    BY <2>1 DEF Now, Taken
  <2>3. QED
    BY <1>1, <2>1, <2>2 DEF RecordInv
<1>4. QED
  BY <1>2, <1>3

LEMMA LineEndsRecords ==
  ASSUME Independent, Roomy, PipeInv, RecordInv, LineEnds
  PROVE  RecordInv'
<1>1. cli # "proxy" /\ phase = "run" /\ UNCHANGED <<cli, phase, start>> /\ line' = NoLine
  BY DEF LineEnds, PipeInv, ProxyInv
<1> DEFINE t == Project(line, TRUE).out
<1>2. Pass("stdout", t)
  BY DEF LineEnds
<1>3. t \in Seq(Plain) /\ line'.text \in Seq(Plain)
  BY <1>1, ProjectIs, TextsAre, InvParts DEF Shaped
<1> HIDE DEF t
<1>4. Taking
  BY <1>1, <1>2, <1>3, PassIs DEF Taking, TakesIn
<1>5. QED
  BY <1>1, <1>4, TakingKeeps

LEMMA StderrRecords ==
  ASSUME Independent, Roomy, PipeInv, RecordInv, NEW t \in Pieces, Stderr(t)
  PROVE  RecordInv'
<1>1. cli # "proxy" /\ phase = "run" /\ UNCHANGED <<cli, phase, line, start>> /\ t \in Seq(Plain) /\ Pass("stderr", t)
  BY TextsAre DEF Stderr, Writing
<1>2. line'.text \in Seq(Plain)
  BY <1>1, InvParts
<1>3. Taking
  BY <1>1, <1>2, PassIs DEF Taking, TakesIn
<1>4. QED
  BY <1>1, <1>3, TakingKeeps

LEMMA CloseRecords ==
  ASSUME Independent, Roomy, PipeInv, RecordInv, NEW r \in {line, Cut}, CloseRun(r)
  PROVE  RecordInv'
<1>1. cli # "proxy" /\ phase = "run" /\ phase' = "closed" /\ UNCHANGED <<cli, start>>
  BY DEF CloseRun
<1>2. TakingLast
  BY CloseKeeps DEF TakingLast, TakesIn
<1>3. PICK w : TakesIn(w) /\ Set(SinkClose(SinkWrite(Now, w)))
  BY <1>2 DEF TakingLast
<1> DEFINE a == SinkWrite(Now, w)
           b == start
           A == Taken
           B == A \o Without(w, "s")
<1>4. w \in Seq(Plain) /\ w \in Seq(Syms) /\ Sound(w, "none") /\ GoodSt(Now) /\ Ready(Now)
  BY <1>1, <1>3, InvParts, PlainIs DEF TakesIn
<1>5. GoodSt(a)
  BY <1>4, WriteIs
<1>6. Tidy(A) /\ Told(Now, b, A, Goings)
  BY <1>1 DEF RecordInv
<1>7. Told(a, b, B, Goings)
  BY <1>4, <1>6, WriteTells
<1>8. Taken' = B /\ Tidy(Taken')
  BY <1>3, <1>6, TakenGrows
<1>9. out' = SinkClose(a).out /\ start' = b
  BY <1>1, <1>3 DEF Set
<1> HIDE DEF a, b, B, A
<1>10. Shows(SinkClose(a).out, b, Wanted(Redact(B)))
  BY <1>5, <1>7, <1>8, CloseTells
<1>11. Shows(out', start', Wanted(Redact(Taken')))
  BY <1>8, <1>9, <1>10
<1>12. Len(out') <= RecordLimit
  BY <1>11 DEF Shows
<1>13. QED
  BY <1>1, <1>11, <1>12 DEF RecordInv

LEMMA EndTurnRecords ==
  ASSUME Independent, Roomy, PipeInv, RecordInv, EndTurn
  PROVE  RecordInv'
<1>1. cli # "proxy" /\ phase' = "idle" /\ out' = TurnBlock(<<"T">>) /\ UNCHANGED cli
  BY DEF EndTurn
<1>2. <<"T">> \in Seq(Syms)
  BY TIs DEF Fine
<1>3. Len(out') <= RecordLimit
  BY <1>1, <1>2, InvParts, BlockStays DEF RecordInv
<1>4. QED
  BY <1>1, <1>3 DEF RecordInv

LEMMA WantedType ==
  ASSUME Roomy, NEW c \in Seq(Syms)
  PROVE  Wanted(c) \in Seq(Syms)
<1> DEFINE n == RunLimit - Len(Marker)
<1>1. n \in Nat /\ Marker \in Seq(Syms)
  BY RoomIs, MarksAre
<1> HIDE DEF n
<1>2. PrefixAtMost(c, n) \in Seq(Syms)
  <2>1. Len(c) \in Nat /\ (n < Len(c) \/ n >= Len(c))
    BY <1>1, Parts
  <2>2. QED
    BY <1>1, <2>1, CutIs, Parts
<1>3. PrefixAtMost(c, n) \o Marker \in Seq(Syms)
  BY <1>1, <1>2, Joined
<1>4. QED
  BY <1>3 DEF Wanted, n

LEMMA NoticeRecords ==
  ASSUME Independent, Roomy, PipeInv, RecordInv, Notice
  PROVE  RecordInv'
<1> DEFINE c == <<"P">>
           o == AppendBounded(out, c)
           W == Wanted(Redact(Taken))
<1>1. cli # "proxy" /\ out' = o /\ UNCHANGED <<cli, phase, sink, arrived, start>>
  BY DEF Notice
<1>2. c \in Seq(Syms) /\ Without(c, "P") = << >> /\ out \in Seq(Syms)
  BY TIs, WithoutSmall, InvParts DEF Fine
<1> HIDE DEF c
<1>3. Len(o) <= RecordLimit /\ o \in Seq(Syms)
  BY <1>1, <1>2, BoundedStays DEF RecordInv
<1>4. ASSUME NEW E \in Seq(Syms), Shows(out, start, E) PROVE Shows(o, start, E) /\ (IsFull(out) => IsFull(o))
  <2>1. Shows(o, start, E \o Without(c, "P")) /\ (IsFull(out) => IsFull(o))
    BY <1>2, <1>4, ShowsMore
  <2>2. E \o Without(c, "P") = E
    BY <1>2
  <2>3. QED
    BY <2>1, <2>2
<1> HIDE DEF o
<1>5. Taken' = Taken /\ Now'.out = o /\ Now'.sink = Now.sink /\ Now.out = out /\ Now' = [out |-> o, sink |-> sink]
  BY <1>1 DEF Taken, Now
<1>6. CASE phase = "run"
  <2>1. Tidy(Taken) /\ Told(Now, start, Taken, Goings)
    BY <1>1, <1>6 DEF RecordInv
  <2>2. PICK E : ToldBy(Now, start, Taken, Goings, E)
    BY <2>1 DEF Told
  <2>3. E \in Seq(Syms) /\ Shows(out, start, E)
    BY <1>5, <2>2 DEF ToldBy
  <2>4. Shows(o, start, E) /\ (IsFull(out) => IsFull(o))
    BY <1>4, <2>3
  <2> DEFINE n == Now'
  <2>5. n.out = o /\ n.sink = Now.sink
    BY <1>5
  <2> HIDE DEF n
  <2>6. ToldBy(n, start, Taken, Goings, E)
    BY <1>5, <2>2, <2>4, <2>5 DEF ToldBy
  <2>7. Told(Now', start', Taken', Goings) /\ Tidy(Taken')
    BY <1>1, <1>5, <2>1, <2>6 DEF Told, n
  <2>8. QED
    BY <1>1, <1>3, <1>6, <2>7 DEF RecordInv
<1>7. CASE phase = "closed"
  <2>1. Shows(out, start, W)
    BY <1>1, <1>7 DEF RecordInv
  <2>2. W \in Seq(Syms)
    <3>1. Taken \in Seq(Syms)
      BY InvParts, PlainIs, WithoutPlain DEF Taken
    <3>2. QED
      BY <3>1, RedactType, WantedType
  <2>3. Shows(o, start, W)
    BY <1>4, <2>1, <2>2
  <2>4. Shows(out', start', Wanted(Redact(Taken'))) /\ phase' = "closed"
    BY <1>1, <1>5, <1>7, <2>3
  <2>5. QED
    BY <1>1, <1>3, <2>4 DEF RecordInv
<1>8. CASE phase \notin {"run", "closed"}
  BY <1>1, <1>3, <1>8 DEF RecordInv
<1>9. QED
  BY <1>6, <1>7, <1>8

LEMMA RecordKeeps == ASSUME Independent, Roomy PROVE PipeInv /\ RecordInv /\ [PipeNext]_pipeVars => RecordInv'
<1>1. ASSUME RecordInv, UNCHANGED pipeVars PROVE RecordInv'
  <2>1. UNCHANGED <<cli, phase, out, start>> /\ Now' = Now /\ Taken' = Taken
    BY <1>1 DEF pipeVars, Now, Taken
  <2>2. QED
    BY <1>1, <2>1 DEF RecordInv
<1>2. ASSUME PipeInv, RecordInv, PipeNext PROVE RecordInv'
  <2>1. ASSUME NEW q \in Asked, BeginTurn(q) PROVE RecordInv'
    BY <1>2, <2>1, BeginRecords
  <2>2. ASSUME NEW r \in Records, StdoutArrives(r) PROVE RecordInv'
    BY <1>2, <2>2, ArrivesRecords
  <2>3. ASSUME LineEnds PROVE RecordInv'
    BY <1>2, <2>3, LineEndsRecords
  <2>4. ASSUME NEW t \in Pieces, Stderr(t) PROVE RecordInv'
    BY <1>2, <2>4, StderrRecords
  <2>5. ASSUME NEW r \in {line, Cut}, CloseRun(r) PROVE RecordInv'
    BY <1>2, <2>5, CloseRecords
  <2>6. ASSUME EndTurn PROVE RecordInv'
    BY <1>2, <2>6, EndTurnRecords
  <2>7. ASSUME Notice PROVE RecordInv'
    BY <1>2, <2>7, NoticeRecords
  <2>8. ASSUME NEW t \in Pieces, ProxyRead(t) \/ ProxyFails \/ ProxyEOF PROVE RecordInv'
    BY <2>8 DEF ProxyRead, ProxyFails, ProxyEOF, RecordInv
  <2>9. ASSUME ProxyFails \/ ProxyEOF PROVE RecordInv'
    BY <2>9 DEF ProxyFails, ProxyEOF, RecordInv
  <2>10. QED
    BY <1>2, <2>1, <2>2, <2>3, <2>4, <2>5, <2>6, <2>7, <2>8, <2>9 DEF PipeNext
<1>3. QED
  BY <1>1, <1>2

\* A flushed run is recorded as the redaction of everything that came in, within the
\* limits, and the proxy passes on what is right, if no credential is part of another
\* one and the limits leave room for their markers.
THEOREM RecordHolds == ASSUME Independent, Roomy PROVE PipeSpec => []RunIsRecorded
<1>1. RecordInv /\ PassedOnIsFinal => RunIsRecorded
  <2> SUFFICES ASSUME RecordInv, PassedOnIsFinal PROVE RunIsRecorded
    OBVIOUS
  <2> DEFINE want == Wanted(Redact(Taken))
             part == PartOf(out, start)
  <2>1. ASSUME cli # "proxy", phase = "closed"
        PROVE  \/ ~IsFull(out) /\ part = want
               \/ IsFull(out) /\ start > DataLimit /\ part = << >>
               \/ IsFull(out) /\ start <= DataLimit /\ \E k \in 0 .. Len(want) : part = First(want, k) \o Full
    <3>1. Shows(out, start, want)
      BY <2>1 DEF RecordInv
    <3>2. start > DataLimit \/ start <= DataLimit
      BY <3>1, Limits DEF Shows
    <3> HIDE DEF want
    <3>3. QED
      BY <3>1, <3>2 DEF Shows, EndsFull
  <2>2. cli # "proxy" => Len(out) <= RecordLimit
    BY DEF RecordInv
  <2>3. QED
    BY <2>1, <2>2 DEF RunIsRecorded, Wanted, Taken, PartOf
<1>2. QED
  BY <1>1, RecordStarts, RecordKeeps, PipeInvHolds, PassedHolds, PTL DEF PipeSpec

=============================================================================
