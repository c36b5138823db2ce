--------------------------- MODULE MC_ShellAgent ---------------------------
(***************************************************************************)
(* The shell agent, and the stream of its output with the page at the      *)
(* other end.  They meet in the output buffer only, which the stream reads *)
(* and never writes, so a behaviour is about one of them, chosen at its    *)
(* start.                                                                  *)
(***************************************************************************)
EXTENDS ShellAgent

CONSTANTS Chunk, MaxBytes, MaxProcesses

VARIABLES subject, phase, buffer, made, loop, offset, woken, wire, link, cursor, page, read, lineage,
          since, processes, losses

Page == INSTANCE OutputStream WITH out <- buffer, faults <- losses

following == <<phase, buffer, made, loop, offset, woken, wire, link, cursor, page, read, lineage, since,
               processes, losses>>

MCInit == subject \in {"shell", "stream"} /\ Init /\ Page!Init

MCNext ==
    \/ subject = "shell" /\ Next /\ UNCHANGED <<subject, following>>
    \/ subject = "stream" /\ Page!Next /\ UNCHANGED <<subject, vars>>

Streams(A) == subject = "stream" /\ A /\ UNCHANGED <<subject, vars>>

\* The fairness of OutputStream, where the stream is the subject.
MCSpec ==
    /\ MCInit /\ [][MCNext]_<<subject, vars, following>>
    /\ WF_following(Streams(Page!StreamChunk)) /\ WF_following(Streams(Page!Changed))
    /\ WF_following(Streams(Page!Connect)) /\ WF_following(Streams(Page!DropDead))
    /\ WF_following(Streams(Page!Receive))
    /\ WF_following(Streams(Page!ReadAll)) /\ WF_following(Streams(Page!ServeRead))
    /\ WF_following(Streams(Page!ReadRefused)) /\ WF_following(Streams(Page!FinishRead))

\* As in OutputStream: the page catches up with the output once that is quiet, woken by
\* the appends alone, and then shows the buffer (streamChunk, notifyLocked, Workspace).
StreamCatchesUp == Page!StreamCatchesUp
=============================================================================
