---------------------------- MODULE VolumeTools -----------------------------
(***************************************************************************)
(* The tools of the helper pod that move files between the session's       *)
(* shared volume and the outside (session_mcp_drop.go, session_mcp_files.go*)
(* and runClone of session_mcp_git.go in data-plane/cmd/agent), while the  *)
(* agent of the workload pod writes the same volume.                       *)
(*                                                                         *)
(* A download writes each file beside its place and renames it there; a    *)
(* fetched body does the same under a name of its own; a clone is made in  *)
(* its place, also of its own.  An upload sends a file in chunks to a      *)
(* store that may have lost, or already have, some of them.                *)
(***************************************************************************)
EXTENDS Naturals, Sequences, FiniteSets

CONSTANTS
    Drops,      \* the drops a download may be of: the names of their files, in order
    MaxCalls,   \* bound on the tool calls
    MaxWrites,  \* bound on the files the agent writes
    MaxFaults,  \* bound on failed transfers and killed processes
    MaxResumes, \* how often an upload may disagree with the store: dropMaxResumes
    Chunks      \* the length of the file that is uploaded

\* A name is a text with the numbers before and after it: "1-x" is "x" with a 1 before.
\* The text ".." stands for all that may not be names in a directory, and ".part" for all
\* that begin with a dot, as the names the tools keep for themselves do.
Name(pre, text, post) == [pre |-> pre, text |-> text, post |-> post]
DropNames ==
    [pre: Seq(Nat), text: {"x", "file", "_.part"}, post: Seq(Nat)]
        \cup [pre: {<< >>}, text: {".part", ".."}, post: Seq(Nat)]

ASSUME VolumeToolsAssumption ==
    /\ \A drop \in Drops : drop \in Seq(DropNames) /\ drop # << >>
    /\ {MaxCalls, Chunks} \subseteq Nat \ {0}
    /\ {MaxWrites, MaxFaults, MaxResumes} \subseteq Nat

VARIABLES
    listing,  \* the names of the files in the drop
    open,     \* whether the agent is at work: it writes files and calls tools
    vol,      \* the volume: its files by name
    calls,    \* the tool calls
    store,    \* how much of each upload the store has received
    reported, \* what the agent was told is where
    writes, faults

toolVars == <<listing, open, vol, calls, store, reported, writes, faults>>

Calls == 1 .. MaxCalls

AgentFile == Name(<< >>, "x", << >>)
Put(name, file) == [m \in DOMAIN vol \cup {name} |-> IF m = name THEN file ELSE vol[m]]
Without(names)  == [m \in DOMAIN vol \ names |-> vol[m]]

\* A drop's name as one that may stand in a directory and is not the tools' own.
dropSafeName(raw, n) ==
    CASE raw.text = ".."    -> Name(<< >>, "file", <<n - 1>>)
      [] raw.text = ".part" -> Name(<< >>, "_.part", raw.post)
      [] OTHER              -> raw

\* The name with the file's number before it, k times over.
Numbered(name, n, k) == Name([i \in 1 .. k |-> n - 1] \o name.pre, name.text, name.post)

\* Mutation: two files of one name share a place.
PlacesSharing == [n \in 1 .. Len(listing) |-> dropSafeName(listing[n], n)]

\* The places of the files of a drop: a taken name is numbered until it is free.
Places ==
    LET place[n \in 1 .. Len(listing)] ==
            LET safe  == dropSafeName(listing[n], n)
                Taken(k) == \E m \in 1 .. n - 1 : place[m] = Numbered(safe, n, k)
            IN  Numbered(safe, n, CHOOSE k \in 0 .. n : ~Taken(k) /\ \A j \in 0 .. k - 1 : Taken(j))
    IN  place

Kinds == {"drop_download", "spill", "clone", "drop_upload"}
NewCall == [kind |-> "none", pc |-> "idle", overwrite |-> FALSE, n |-> 1, gap |-> FALSE, offset |-> 0, resumes |-> 0]

VolInit ==
    /\ listing \in Drops /\ open = TRUE
    /\ vol = << >> /\ calls = [c \in Calls |-> NewCall]
    /\ store = [c \in Calls |-> 0]
    /\ reported = {} /\ writes = 0 /\ faults = 0

Fault  == faults < MaxFaults /\ faults' = faults + 1
In(c, kind, pc) == calls[c].kind = kind /\ calls[c].pc = pc
Temp(c)  == Name(<< >>, ".part", <<c>>)
Own(c)   == Name(<< >>, "req", <<c>>)
Place(c) == IF calls[c].kind = "drop_download" THEN Places[calls[c].n] ELSE Own(c)
Files(c) == IF calls[c].kind = "drop_download" THEN Len(listing) ELSE 1
File(c)  == [by |-> c, n |-> calls[c].n, whole |-> TRUE]

\* What was said of a name need not hold once somebody else has written it.
Forget(name, writer) == {r \in reported : r.name # name \/ r.file.by = writer}

\* Another's file at the place a call has just found free.
Notice(name, c) == IF calls[c].pc = "rename" /\ Place(c) = name THEN [calls[c] EXCEPT !.gap = TRUE] ELSE calls[c]

-----------------------------------------------------------------------------
\* The agent.

AgentWrites ==
    /\ open /\ writes < MaxWrites /\ writes' = writes + 1
    /\ vol' = Put(AgentFile, [by |-> 0, n |-> writes, whole |-> TRUE])
    /\ reported' = Forget(AgentFile, 0)
    /\ calls' = [c \in Calls |-> Notice(AgentFile, c)]
    /\ UNCHANGED <<listing, open, store, faults>>

Call(c) ==
    \E kind \in Kinds, overwrite \in BOOLEAN :
        /\ open /\ calls[c].pc = "idle" /\ (c > 1 => calls[c - 1].pc # "idle")
        /\ overwrite => kind = "drop_download"
        /\ calls' = [calls EXCEPT ![c].kind = kind, ![c].overwrite = overwrite,
                                  ![c].pc = IF kind = "drop_upload" THEN "send" ELSE "look"]
        /\ UNCHANGED <<listing, open, vol, store, reported, writes, faults>>

-----------------------------------------------------------------------------
\* Into the volume.

\* One file that is there already ends the call before anything is fetched.
Prepare(c) ==
    LET taken == \E n \in 1 .. Len(listing) : Places[n] \in DOMAIN vol
    IN  /\ In(c, "drop_download", "look")
        /\ \/ /\ calls' = [calls EXCEPT ![c].pc = IF taken /\ ~calls[c].overwrite THEN "failed" ELSE "fetch"]
              /\ UNCHANGED faults
           \/ Fault /\ calls' = [calls EXCEPT ![c].pc = "failed"]
        /\ UNCHANGED <<listing, open, vol, store, reported, writes>>

\* The name of a body or a clone is this call's alone.
PrepareOwn(c) ==
    /\ calls[c].kind \in {"spill", "clone"} /\ calls[c].pc = "look"
    /\ calls' = [calls EXCEPT ![c].pc = "fetch"]
    /\ UNCHANGED <<listing, open, vol, store, reported, writes, faults>>

\* Where a transfer puts its bytes until they are all there.
Staging(c) == IF calls[c].kind = "clone" THEN Own(c) ELSE Temp(c)

OpenTemp(c) ==
    /\ calls[c].pc = "fetch"
    /\ vol' = Put(Staging(c), [File(c) EXCEPT !.whole = FALSE])
    /\ calls' = [calls EXCEPT ![c].pc = "receive"]
    /\ UNCHANGED <<listing, open, store, reported, writes, faults>>

\* A transfer that stalls, breaks off, is cancelled or has the wrong length leaves nothing.
Receive(c) ==
    /\ calls[c].pc = "receive"
    /\ \/ /\ vol' = Put(Staging(c), File(c))
          /\ calls' = [calls EXCEPT ![c].pc = IF calls[c].kind = "drop_download" THEN "check" ELSE "rename"]
          /\ UNCHANGED faults
       \/ /\ Fault
          /\ vol' = Without({Staging(c)})
          /\ calls' = [calls EXCEPT ![c].pc = "failed"]
    /\ UNCHANGED <<listing, open, store, reported, writes>>

\* Mutation: only the look before the fetch counts.
NoSecondLook(c) ==
    /\ calls[c].pc = "check"
    /\ calls' = [calls EXCEPT ![c].pc = "rename", ![c].gap = FALSE]
    /\ UNCHANGED <<listing, open, vol, store, reported, writes, faults>>

\* The second look: a file that appeared meanwhile is not replaced.
SecondLook(c) ==
    /\ calls[c].pc = "check"
    /\ IF Place(c) \in DOMAIN vol /\ ~calls[c].overwrite
       THEN vol' = Without({Temp(c)}) /\ calls' = [calls EXCEPT ![c].pc = "failed"]
       ELSE UNCHANGED vol /\ calls' = [calls EXCEPT ![c].pc = "rename", ![c].gap = FALSE]
    /\ UNCHANGED <<listing, open, store, reported, writes, faults>>

\* The file is put in its place.  The call tells the agent of the files it has placed,
\* of all of them at its end and of the first ones when a later one fails.
Rename(c) ==
    LET last == calls[c].n = Files(c)
    IN  /\ calls[c].pc = "rename"
        /\ vol' = [m \in (DOMAIN vol \ {Temp(c)}) \cup {Place(c)} |-> IF m = Place(c) THEN File(c) ELSE vol[m]]
        /\ calls' = [d \in Calls |->
                        IF d # c THEN Notice(Place(c), d)
                        ELSE [calls[c] EXCEPT !.pc = IF last THEN "done" ELSE "fetch", !.n = IF last THEN @ ELSE @ + 1]]
        /\ reported' = Forget(Place(c), c) \cup {[name |-> Place(c), file |-> File(c)]}
        /\ UNCHANGED <<listing, open, store, writes, faults>>

-----------------------------------------------------------------------------
\* Out of the volume.

\* putChunk.  The store takes a chunk only where its own bytes end, and answers with
\* where they end now; at any other place it answers 409 and is asked where.  A request
\* the transport sent twice is such a case, and so is a store that has lost bytes.
Conflict(c) == store[c] # calls[c].offset

\* The upload goes on wherever the answer says, which only a store at fault has not
\* further on than the chunk began.
SendChunk(c) ==
    /\ In(c, "drop_upload", "send") /\ calls[c].offset < Chunks /\ ~Conflict(c)
    /\ \/ \E received \in 0 .. Chunks :
              /\ IF received > calls[c].offset THEN UNCHANGED faults ELSE Fault
              /\ store' = [store EXCEPT ![c] = received]
              /\ calls' = [calls EXCEPT ![c].offset = received]
       \/ \E kept \in {store[c], store[c] + 1} :
              Fault /\ store' = [store EXCEPT ![c] = kept] /\ calls' = [calls EXCEPT ![c].pc = "failed"]
    /\ UNCHANGED <<listing, open, vol, reported, writes>>

\* The chunk arrives and its answer does not; the transport sends it again.
SendTwice(c) ==
    /\ In(c, "drop_upload", "send") /\ calls[c].offset < Chunks /\ ~Conflict(c) /\ Fault
    /\ store' = [store EXCEPT ![c] = @ + 1]
    /\ UNCHANGED <<listing, open, vol, calls, reported, writes>>

\* Mutation: agreeing once forgets the disagreements before.
ResumeForgets(c) ==
    /\ In(c, "drop_upload", "send") /\ calls[c].offset < Chunks /\ Conflict(c)
    /\ calls' = [calls EXCEPT ![c].offset = store[c]]
    /\ UNCHANGED <<listing, open, vol, store, reported, writes, faults>>

\* It goes on from where the store says, a bounded number of times.
Resume(c) ==
    /\ In(c, "drop_upload", "send") /\ calls[c].offset < Chunks /\ Conflict(c)
    /\ calls' = IF calls[c].resumes + 1 > MaxResumes
                THEN [calls EXCEPT ![c].pc = "failed"]
                ELSE [calls EXCEPT ![c].offset = store[c], ![c].resumes = @ + 1]
    /\ UNCHANGED <<listing, open, vol, store, reported, writes, faults>>

\* The store closes what it has all of.
Complete(c) ==
    /\ In(c, "drop_upload", "send") /\ calls[c].offset = Chunks
    /\ calls' = [calls EXCEPT ![c].pc = IF store[c] = Chunks THEN "done" ELSE "failed"]
    /\ UNCHANGED <<listing, open, vol, store, reported, writes, faults>>

StoreForgets(c) ==
    /\ In(c, "drop_upload", "send") /\ store[c] > 0
    /\ store' = [store EXCEPT ![c] = 0]
    /\ UNCHANGED <<listing, open, vol, calls, reported, writes, faults>>

-----------------------------------------------------------------------------
\* The helper's process is killed: its calls end where they are, their files stay.
KillHelper ==
    /\ Fault
    /\ calls' = [c \in Calls |-> [calls[c] EXCEPT !.pc = IF @ \in {"idle", "done"} THEN @ ELSE "failed"]]
    /\ UNCHANGED <<listing, open, vol, store, reported, writes>>

Transfer(c) ==
    \/ Prepare(c) \/ PrepareOwn(c) \/ OpenTemp(c) \/ Receive(c) \/ SecondLook(c) \/ Rename(c)
Upload(c) == SendChunk(c) \/ Resume(c) \/ Complete(c)

ToolNext ==
    \/ AgentWrites \/ KillHelper
    \/ \E c \in Calls : Call(c) \/ Transfer(c) \/ Upload(c) \/ SendTwice(c) \/ StoreForgets(c)

-----------------------------------------------------------------------------
Renames(c) == calls[c].pc = "rename" /\ calls'[c].pc \in {"fetch", "done"}

\* A download that was not told to overwrite replaces a file only when the file came
\* to be in the one gap the code leaves, between its second look and its rename
\* (fetchInto).
GapIsOneStep ==
    [][\A c \in Calls : (Renames(c) /\ calls[c].kind = "drop_download" /\ ~calls[c].overwrite /\ Place(c) \in DOMAIN vol)
                            => calls[c].gap]_toolVars
=============================================================================
