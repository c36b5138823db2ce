---------------------------- MODULE StateArchive ----------------------------
(***************************************************************************)
(* What a checkpoint of a Claude session carries and how a restore puts it *)
(* back (state_archive.go in data-plane/cmd/agent, with restore of         *)
(* claude.go): the agent's state tree, and the volume it shares with the   *)
(* helper pod, whose tools may still be at work when the agent is drained. *)
(*                                                                         *)
(* The restore runs on a new pod, with a state tree of its own and an      *)
(* empty volume.  The archive it is given may be damaged; its process may  *)
(* be killed between any two steps and be asked again.                     *)
(***************************************************************************)
EXTENDS VolumeTools

VARIABLES
    phase,   \* "run", "frozen", "kept" (an archive exists), then the restore's own steps
    source,  \* the state tree of the pod that was checkpointed
    archive, \* the archive: its state tree, its shared files, its damage
    live, backup, \* the state trees in place and moved aside on the new pod
    copied,  \* the shared files this attempt has copied
    before   \* the new pod's trees when the present attempt began

vars == <<toolVars, phase, source, archive, live, backup, copied, before>>

\* A tree is the set of its entries.  The login file belongs to the auth slot; "outside"
\* stands for a link out of the tree, a socket, anything that cannot be archived.
Needed   == {"home", "workspace", "runtime"}
Refused  == {"outside"}
Excluded == {"login"}
NoTree   == {}
Boot     == Needed \cup {"boot"}     \* the tree a fresh pod starts with

\* An archive: its two trees, whether it has the scrollback, whether an entry comes
\* twice, whether it breaks off.
NoArchive == [state |-> NoTree, shared |-> << >>, scrollback |-> FALSE, twice |-> FALSE, cut |-> FALSE]

Steps == {"run", "frozen", "kept", "waiting", "copy", "copying", "aside", "install", "clean", "restored", "refused", "failed"}

TypeOK ==
    /\ phase \in Steps
    /\ {source, live, backup} \subseteq SUBSET (Needed \cup Refused \cup Excluded \cup {"boot"})
    /\ \A c \in Calls : calls[c].kind \in Kinds \cup {"none"} /\ store[c] \in 0 .. Chunks
    /\ faults \in 0 .. MaxFaults /\ writes \in 0 .. MaxWrites

Init ==
    /\ VolInit
    /\ phase = "run"
    /\ source \in {Needed \cup Excluded \cup extra : extra \in SUBSET Refused}
    /\ archive = NoArchive /\ copied = {}
    /\ live = NoTree /\ backup = NoTree /\ before = [live |-> NoTree, vol |-> << >>]

Go(step) == phase' = step
toolRest == <<listing, calls, store, reported, writes>>
trees    == <<source, live, backup, before>>

-----------------------------------------------------------------------------
\* The checkpoint.

\* The agent is drained; calls whose client is gone run out by themselves.
Freeze ==
    /\ phase = "run" /\ Go("frozen") /\ open' = FALSE
    /\ UNCHANGED <<toolRest, vol, faults, archive, copied, trees>>

Underway == {c \in Calls : calls[c].pc \notin {"idle", "done", "failed"}}

\* Both trees are walked.  An entry that could not be restored fails the whole
\* checkpoint, as may one that a call makes or removes during the walk; the agent then
\* serves again.
WriteArchive ==
    /\ phase = "frozen"
    /\ \/ /\ source \cap Refused = {}
          /\ archive' = [NoArchive EXCEPT !.state = source \ Excluded, !.shared = vol, !.scrollback = TRUE]
          /\ Go("kept") /\ UNCHANGED open
       \/ /\ source \cap Refused # {} \/ Underway # {}
          /\ Go("run") /\ open' = TRUE /\ UNCHANGED archive
    /\ UNCHANGED <<toolRest, vol, faults, copied, trees>>

\* Whatever can happen to an archive on its way.
Damaged(a) ==
    {[a EXCEPT !.cut = TRUE], [a EXCEPT !.twice = TRUE], [a EXCEPT !.scrollback = FALSE],
     [a EXCEPT !.state = NoTree], [a EXCEPT !.state = @ \ {"home"}], [a EXCEPT !.state = @ \cup {"outside"}]}

\* What restoreStateArchive asks of an archive before it touches anything.
Accepts(a) == ~a.cut /\ ~a.twice /\ a.scrollback /\ Needed \subseteq a.state /\ a.state \cap Refused = {}

-----------------------------------------------------------------------------
\* The restore.

\* A new pod with a tree and a volume of its own; the old pods are gone.
NewPod ==
    /\ phase = "kept" /\ Go("waiting")
    /\ vol' = << >> /\ live' = Boot
    /\ calls' = [c \in Calls |-> NewCall] /\ store' = [c \in Calls |-> 0]
    /\ \/ archive' = archive /\ UNCHANGED faults
       \/ Fault /\ archive' \in Damaged(archive)
    /\ UNCHANGED <<listing, open, reported, writes, copied, source, backup, before>>

\* The whole archive is read into a fresh directory and judged there.
Extract ==
    /\ phase = "waiting"
    /\ before' = [live |-> live, vol |-> vol] /\ copied' = {}
    /\ Go(IF Accepts(archive) THEN "copy" ELSE "refused")
    /\ UNCHANGED <<toolRest, open, vol, faults, source, archive, live, backup>>

\* The files are copied one by one in the order of the walk.
NextToCopy == CHOOSE name \in DOMAIN archive.shared \ copied : TRUE

\* Mutation: a file that is there already is left alone.
CopyMissing(name) ==
    /\ phase = "copy" /\ copied # DOMAIN archive.shared /\ name = NextToCopy
    /\ IF name \in DOMAIN vol THEN copied' = copied \cup {name} /\ UNCHANGED <<vol, phase>>
       ELSE vol' = Put(name, [archive.shared[name] EXCEPT !.whole = FALSE]) /\ Go("copying") /\ UNCHANGED copied
    /\ UNCHANGED <<toolRest, open, faults, archive, trees>>

\* A file in the way is removed, and the copy begun in its place.
CopyBegin(name) ==
    /\ phase = "copy" /\ copied # DOMAIN archive.shared /\ name = NextToCopy
    /\ vol' = Put(name, [archive.shared[name] EXCEPT !.whole = FALSE]) /\ Go("copying")
    /\ UNCHANGED <<toolRest, open, faults, archive, copied, trees>>

CopyEnd(name) ==
    /\ phase = "copying" /\ name = NextToCopy /\ Go("copy")
    /\ vol' = Put(name, archive.shared[name]) /\ copied' = copied \cup {name}
    /\ UNCHANGED <<toolRest, open, faults, archive, trees>>

Copied ==
    /\ phase = "copy" /\ copied = DOMAIN archive.shared /\ Go("aside")
    /\ UNCHANGED <<toolRest, open, vol, faults, archive, copied, trees>>

\* Mutation: the old tree is removed to make room.
RemoveOld ==
    /\ phase = "aside" /\ Go("install")
    /\ live' = NoTree
    /\ UNCHANGED <<toolRest, open, vol, faults, source, archive, copied, backup, before>>

\* installClaudeState: the old tree aside, the new one in its place, the old one away.
MoveAside ==
    /\ phase = "aside" /\ Go("install")
    /\ live' = NoTree /\ backup' = IF live = NoTree THEN backup ELSE live
    /\ UNCHANGED <<toolRest, open, vol, faults, source, archive, copied, before>>

Install ==
    /\ phase = "install" /\ Go("clean")
    /\ live' = archive.state
    /\ UNCHANGED <<toolRest, open, vol, faults, source, archive, copied, backup, before>>

\* The new tree cannot be moved in; the old one goes back.
InstallFails ==
    /\ phase = "install" /\ Fault /\ Go("failed")
    /\ live' = backup /\ backup' = NoTree
    /\ UNCHANGED <<toolRest, open, vol, source, archive, copied, before>>

Clean ==
    /\ phase = "clean" /\ Go("restored")
    /\ backup' = NoTree
    /\ UNCHANGED <<toolRest, open, vol, faults, source, archive, copied, live, before>>

\* Any other step fails, and leaves what was done; the session is not served.
RestoreFails ==
    /\ phase \in {"waiting", "copy", "copying", "aside", "clean"} /\ Fault /\ Go("failed")
    /\ UNCHANGED <<toolRest, open, vol, archive, copied, trees>>

\* The process is killed; the next one makes the directories it misses.
KillAgent ==
    /\ phase \in {"copy", "copying", "aside", "install", "clean"} /\ Fault /\ Go("waiting")
    /\ live' = IF live = NoTree THEN Boot ELSE live
    /\ UNCHANGED <<toolRest, open, vol, source, archive, copied, backup, before>>

\* A restore that did not succeed may be asked for again.
AskAgain ==
    /\ phase \in {"refused", "failed"} /\ Go("waiting")
    /\ UNCHANGED <<toolRest, open, vol, faults, archive, copied, trees>>

\* The tools run only beside a pod that serves or is being frozen.
Beside == phase \in {"run", "frozen"} /\ UNCHANGED <<phase, archive, copied, trees>>
Tools  == Beside /\ ToolNext

Next ==
    \/ Tools \/ Freeze \/ WriteArchive \/ NewPod \/ Extract
    \/ \E name \in DOMAIN archive.shared : CopyBegin(name) \/ CopyEnd(name)
    \/ Copied \/ MoveAside \/ Install \/ InstallFails \/ Clean
    \/ RestoreFails \/ KillAgent \/ AskAgain

\* An upload goes on for as long as its helper lives.
Spec == Init /\ [][Next]_vars /\ \A c \in Calls : WF_vars(Beside /\ Upload(c))

-----------------------------------------------------------------------------
\* What the agent was told of a file stays true: the whole file is where the tool said,
\* on the volume it was put on, and on the new pod's volume after a restore, unless
\* somebody wrote there since (callDropDownload's names, spillBody, runClone,
\* writeStateArchive, copyRestoredTree).
ReportedIsThere ==
    phase \in {"run", "frozen", "kept", "restored"} =>
        \A r \in reported : r.name \in DOMAIN vol /\ vol[r.name] = r.file

\* A restore is all or nothing: one that succeeds leaves the checkpointed tree without
\* the login, whole and as it was, however often it was begun before; one that refuses
\* its archive leaves the tree and the volume as it found them (restoreStateArchive).
RestoreIsAllOrNothing ==
    /\ phase = "restored" => live = source \ Excluded /\ vol = archive.shared
    /\ phase = "refused"  => live = before.live /\ vol = before.vol

\* An upload ends, whatever the store loses and however often (sendFile's
\* dropMaxResumes), unless its pod goes first.
UploadEnds ==
    \A c \in Calls : In(c, "drop_upload", "send") ~> (calls[c].pc \in {"done", "failed"} \/ phase = "kept")

\* At every moment of a restore the pod has a whole state tree, in place or moved
\* aside: no failure between the renames loses both (installClaudeState).
OldUntilNew ==
    phase \notin {"run", "frozen", "kept"} => Needed \subseteq live \/ Needed \subseteq backup
=============================================================================
