---------------------------- MODULE OutputStream ----------------------------
(***************************************************************************)
(* The output of a session on its way to the page that shows it: the       *)
(* append-only buffer of the agent and the channel that wakes its streams  *)
(* (scrollback in data-plane/cmd/agent/main.go), the stream that serves it *)
(* in chunks (output_stream.go), and the workspace page, which follows the *)
(* stream, reconnects from its cursor, starts over when it is told to and  *)
(* may read the same bytes in a second way meanwhile                       *)
(* (web/src/screens/Workspace.tsx).                                        *)
(*                                                                         *)
(* Every byte is a number of its own, so that a gap, a repetition or a     *)
(* mixture of two buffers shows in what the page has.  A buffer whose      *)
(* bytes the page cannot have seen the end of continues its predecessor;   *)
(* any other begins a new lineage.                                         *)
(***************************************************************************)
EXTENDS Naturals, Sequences, FiniteSetsExt

CONSTANTS None,
          Chunk,                            \* outputStreamChunkBytes
          MaxBytes, MaxProcesses, MaxFaults \* bounds of the model

VARIABLES
    phase,     \* the pod: "fresh", "reclaimed", "restored", or "dead" when it awaits a second restore
    out,       \* scrollback.buf; of a reclaimed pod, what its archive holds
    made,      \* how many bytes were ever put out
    loop,      \* serveOutputStream of the page's connection: "none", "look" or "wait"
    offset,    \* its cursor
    woken,     \* the channel it holds has been closed
    wire,      \* the events on their way to the page
    link,      \* the page's transport: "down", "open", "reset" or "left"
    cursor,    \* offsetRef
    page,      \* the text it shows
    read,      \* the POST /read under way
    lineage,   \* of the buffer
    since,     \* the lineage the page last started over in, None once it took the late
               \* answer of a read from before the buffer it follows
    processes, faults

agent  == <<phase, out, made, lineage, processes>>
stream == <<loop, offset, woken>>
screen == <<link, cursor, page, since>>
vars   == <<phase, out, made, loop, offset, woken, wire, link, cursor, page, read, lineage, since,
            processes, faults>>

Bytes    == 1 .. MaxBytes
Lengths  == 0 .. MaxBytes
Lineages == 0 .. MaxProcesses
Events   == [kind: {"output", "reset"}, from: Lengths, bytes: Seq(Bytes)]
NoRead   == [full |-> FALSE, from |-> None, got |-> None, of |-> 0]
Reads    == [full: BOOLEAN, from: Lengths \cup {None}, got: Seq(Bytes) \cup {None}, of: Lineages]

TypeOK ==
    /\ phase \in {"fresh", "reclaimed", "restored", "dead"}
    /\ out \in Seq(Bytes) /\ made \in Lengths
    /\ loop \in {"none", "look", "wait"} /\ offset \in Lengths /\ woken \in BOOLEAN
    /\ wire \in Seq(Events)
    /\ link \in {"down", "open", "reset", "left"} /\ cursor \in Lengths /\ page \in Seq(Bytes)
    /\ read \in Reads /\ lineage \in Lineages /\ since \in Lineages \cup {None}
    /\ processes \in 0 .. MaxProcesses /\ faults \in 0 .. MaxFaults

Serving == phase \in {"fresh", "restored"}
Fault   == faults < MaxFaults /\ faults' = faults + 1

Init ==
    /\ phase = "fresh" /\ out = <<>> /\ made = 0
    /\ loop = "none" /\ offset = 0 /\ woken = FALSE /\ wire = <<>>
    /\ link = "down" /\ cursor = 0 /\ page = <<>> /\ read = NoRead
    /\ lineage = 0 /\ since = 0 /\ processes = 0 /\ faults = 0

-----------------------------------------------------------------------------
\* The buffer.

\* Append, appendClaudeBoundedAt: some bytes, then notifyLocked.
AppendOutput ==
    /\ Serving
    /\ \E n \in 1 .. MaxBytes - made :
         /\ out' = out \o [i \in 1 .. n |-> made + i]
         /\ made' = made + n
    /\ woken' = TRUE
    /\ UNCHANGED <<phase, loop, offset, wire, screen, read, lineage, processes, faults>>

\* How much of the buffer the page has, or has on its way.
Furthest ==
    Max({cursor} \cup {wire[i].from + Len(wire[i].bytes) : i \in DOMAIN wire}
                 \cup (IF read.got = None THEN {} ELSE {read.from + Len(read.got)}))

\* The process ends and its streams with it; the first n bytes outlive it.
Ends(n) ==
    /\ processes < MaxProcesses /\ processes' = processes + 1
    /\ out' = SubSeq(out, 1, n)
    /\ lineage' = (IF Furthest > n THEN lineage + 1 ELSE lineage)
    /\ loop' = "none" /\ offset' = 0 /\ woken' = FALSE
    /\ UNCHANGED <<made, wire, screen, read, faults>>

\* A fresh pod's agent starts again with nothing; a restored one awaits an archive.
Restart ==
    /\ Serving
    /\ Ends(0)
    /\ phase' = (IF phase = "fresh" THEN "fresh" ELSE "dead")

\* The session is archived; the buffer may have grown after its copy was taken.
Reclaim ==
    /\ Serving
    /\ \E n \in 0 .. Len(out) : Ends(n)
    /\ phase' = "reclaimed"

Restore ==
    /\ phase = "reclaimed"
    /\ phase' = "restored"
    /\ UNCHANGED <<out, made, lineage, processes, stream, wire, screen, read, faults>>

-----------------------------------------------------------------------------
\* The stream.

Output(from, to) == [kind |-> "output", from |-> from, bytes |-> SubSeq(out, from + 1, to)]
Reset == [kind |-> "reset", from |-> Len(out), bytes |-> <<>>]

\* Where a chunk may end: with the buffer, or when that is too far at the limit or
\* before a rune that crosses it.
ChunkEnds(from) ==
    IF Len(out) - from <= Chunk THEN {Len(out)} ELSE from + 1 .. from + Chunk

\* Mutation: the channel is taken after the lock was given back.
StreamChunkLateWatch ==
    \/ /\ loop = "look"
       /\ \/ /\ offset > Len(out)
             /\ wire' = Append(wire, Reset) /\ offset' = Len(out) /\ UNCHANGED loop
          \/ /\ offset = Len(out)
             /\ loop' = "late" /\ UNCHANGED <<wire, offset>>
          \/ /\ offset < Len(out)
             /\ \E to \in ChunkEnds(offset) :
                  wire' = Append(wire, Output(offset, to)) /\ offset' = to /\ UNCHANGED loop
       /\ UNCHANGED <<agent, woken, screen, read, faults>>
    \/ /\ loop = "late"
       /\ loop' = "wait" /\ woken' = FALSE
       /\ UNCHANGED <<agent, offset, wire, screen, read, faults>>

\* streamChunk and the event it becomes: a reset, nothing, or a chunk.  The channel
\* is taken with it.
StreamChunk ==
    /\ loop = "look"
    /\ woken' = FALSE
    /\ \/ /\ offset > Len(out)
          /\ wire' = Append(wire, Reset) /\ offset' = Len(out) /\ UNCHANGED loop
       \/ /\ offset = Len(out)
          /\ loop' = "wait" /\ UNCHANGED <<wire, offset>>
       \/ /\ offset < Len(out)
          /\ \E to \in ChunkEnds(offset) :
               wire' = Append(wire, Output(offset, to)) /\ offset' = to /\ UNCHANGED loop
    /\ UNCHANGED <<agent, screen, read, faults>>

\* The channel was closed.
Changed ==
    /\ loop = "wait" /\ woken
    /\ loop' = "look"
    /\ UNCHANGED <<agent, offset, woken, wire, screen, read, faults>>

\* The keepalive makes the loop look again too, which nothing may rely on.
Heartbeat ==
    /\ loop = "wait"
    /\ loop' = "look"
    /\ UNCHANGED <<agent, offset, woken, wire, screen, read, faults>>

-----------------------------------------------------------------------------
\* The page.

Connect ==
    /\ link = "down" /\ Serving
    /\ link' = "open" /\ wire' = <<>>
    /\ loop' = "look" /\ offset' = cursor /\ woken' = FALSE
    /\ UNCHANGED <<agent, cursor, page, since, read, faults>>

\* closeTransport: what is on its way is not looked at any more.
CloseTransport == wire' = <<>> /\ loop' = "none" /\ offset' = 0 /\ woken' = FALSE

\* The connection breaks: with its process, or on its own.
Drop ==
    /\ link = "open"
    /\ IF loop = "none" THEN UNCHANGED faults ELSE Fault
    /\ link' = "down" /\ CloseTransport
    /\ UNCHANGED <<agent, cursor, page, since, read>>

\* A connection without its process is noticed once its last events have been seen.
DropDead == loop = "none" /\ wire = <<>> /\ Drop

\* An output event: what the page has already is cut off, a gap is a reconnect.
ShowOutput(e) ==
    LET next == e.from + Len(e.bytes)
    IN  IF e.from > cursor
          THEN link' = "down" /\ CloseTransport /\ UNCHANGED <<cursor, page, since>>
          ELSE /\ IF next <= cursor
                    THEN UNCHANGED <<cursor, page>>
                    ELSE /\ cursor' = next
                         /\ page' = page \o SubSeq(e.bytes, cursor - e.from + 1, Len(e.bytes))
               /\ wire' = Tail(wire)
               /\ UNCHANGED <<link, since, stream>>

Receive ==
    /\ link = "open" /\ wire # <<>>
    /\ IF Head(wire).kind = "output"
         THEN ShowOutput(Head(wire))
         ELSE link' = "reset" /\ CloseTransport /\ UNCHANGED <<cursor, page, since>>
    /\ UNCHANGED <<agent, read, faults>>

\* recoverAfterError finds that the session is a snapshot: another page restores it.
RouteToRestore ==
    /\ link = "down" /\ phase = "reclaimed"
    /\ link' = "left" /\ read' = NoRead
    /\ UNCHANGED <<agent, stream, wire, cursor, page, since, faults>>

\* The restored session's page is a new one.
Mount ==
    /\ link = "left" /\ phase # "reclaimed"
    /\ link' = "down" /\ cursor' = 0 /\ page' = <<>> /\ since' = lineage
    /\ UNCHANGED <<agent, stream, wire, read, faults>>

\* readDelta, and the read of everything after a reset; readQueueRef lets one
\* of them run at a time.
Ask(full, from) ==
    /\ read = NoRead
    /\ read' = [NoRead EXCEPT !.full = full, !.from = from]
    /\ UNCHANGED <<agent, stream, wire, screen, faults>>

ReadDelta == link \notin {"reset", "left"} /\ Ask(FALSE, cursor)
ReadAll   == link = "reset" /\ Ask(TRUE, 0)

\* A read that fails changes nothing; a page that was to start over reconnects.
ReadEnds ==
    /\ read' = NoRead
    /\ link' = (IF read.full THEN "down" ELSE link)
    /\ UNCHANGED <<agent, stream, wire, cursor, page, since>>

ReadFails == read # NoRead /\ Fault /\ ReadEnds

\* The agent does not serve, or answers with a cursor before the page's own.
ReadRefused ==
    /\ read # NoRead /\ read.got = None /\ ~(Serving /\ read.from <= Len(out))
    /\ ReadEnds
    /\ UNCHANGED faults

\* Since, at the agent.
ServeRead ==
    /\ read # NoRead /\ read.got = None /\ Serving /\ read.from <= Len(out)
    /\ read' = [read EXCEPT !.got = SubSeq(out, read.from + 1, Len(out)), !.of = lineage]
    /\ UNCHANGED <<agent, stream, wire, screen, faults>>

\* The answer of a delta counts only if the stream has not moved meanwhile.
FinishRead ==
    /\ read # NoRead /\ read.got # None
    /\ read' = NoRead
    /\ IF read.full
         THEN page' = read.got /\ cursor' = Len(read.got) /\ since' = read.of /\ link' = "down"
         ELSE /\ IF read.from = cursor
                   THEN /\ page' = page \o read.got /\ cursor' = cursor + Len(read.got)
                        /\ since' = (IF read.of = lineage THEN since ELSE None)
                   ELSE UNCHANGED <<page, cursor, since>>
              /\ UNCHANGED link
    /\ UNCHANGED <<agent, stream, wire, faults>>

Next ==
    \/ AppendOutput \/ Restart \/ Reclaim \/ Restore
    \/ StreamChunk \/ Changed \/ Heartbeat
    \/ Connect \/ Drop \/ Receive \/ RouteToRestore \/ Mount
    \/ ReadDelta \/ ReadAll \/ ReadFails \/ ReadRefused \/ ServeRead \/ FinishRead

\* The goroutine of the stream, the timers of the page and requests that are not
\* lost go on; output, keepalives and reads the user asks for need not come.
Spec ==
    /\ Init /\ [][Next]_vars
    /\ WF_vars(StreamChunk) /\ WF_vars(Changed)
    /\ WF_vars(Connect) /\ WF_vars(DropDead) /\ WF_vars(Receive)
    /\ WF_vars(ReadAll) /\ WF_vars(ServeRead) /\ WF_vars(ReadRefused) /\ WF_vars(FinishRead)

-----------------------------------------------------------------------------
\* A page that stays catches up with the output once it is quiet, woken by the
\* appends alone; and it then shows the buffer, byte by byte, whatever was cut
\* into chunks, sent twice, read beside the stream or lost with a connection.
\* What it began before the buffer was lost is told by a reset unless the new
\* output had already grown past its cursor.
StreamCatchesUp ==
    <>[](\/ ~Serving \/ link = "left" \/ since = None
         \/ cursor = Len(out) /\ (since = lineage => page = out))

\* Workspace.tsx:104-106, of the reads beside the stream: "the byte cursor gate
\* de-duplicates an SSE race".  The answer of a read that was served before the
\* buffer was replaced passes the gate and leaves the page's cursor ahead of an
\* open stream, which does not see it.
StreamAlwaysCatchesUp == <>[](~Serving \/ link = "left" \/ cursor = Len(out))
=============================================================================
