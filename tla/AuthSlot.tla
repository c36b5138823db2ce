------------------------------ MODULE AuthSlot ------------------------------
(***************************************************************************)
(* The login file of a session's auth slot                                 *)
(* (data-plane/cmd/agent/auth_slot.go).  The slot is a volume that         *)
(* outlives the pod, HOME is where the CLI reads and rewrites the same     *)
(* file; the agent copies between them before, during and after a turn.    *)
(*                                                                         *)
(* A login is a number: the provider rotates it, so of the logins it gave  *)
(* out only the newest can be used.  Absent is no file.  A file caught in  *)
(* the middle of a rewrite is Partial, or Gone until its successor is in   *)
(* place; the agent cannot tell a file that is Gone from one that is       *)
(* Absent.                                                                 *)
(***************************************************************************)
EXTENDS Naturals

CONSTANTS MaxLogin,   \* bound on the logins the provider gives out
          MaxFaults   \* bound on failed copies, failed calls and dead processes

ASSUME AuthSlotAssumption == MaxLogin \in Nat \ {0} /\ MaxFaults \in Nat

VARIABLES
    slot,      \* the file on the slot's volume
    home,      \* the file in HOME
    placed,    \* this turn's pull left the slot's file in HOME
    unpushed,  \* the last copy at a turn's end failed
    newest,    \* the login the provider accepts, Absent after a logout
    issued,    \* how many logins it gave out
    lost,      \* the newest login died with a process before any copy of it
    loggedOut, \* the CLI logged out in this turn
    faults

files   == <<slot, home>>
slotMem == <<placed, unpushed>>
login   == <<newest, issued, lost, loggedOut>>

Absent  == 0
Partial == MaxLogin + 1
Gone    == MaxLogin + 2
Logins  == 1 .. MaxLogin

\* What readLoginFile reports as no file, and what a rewrite leaves meanwhile.
NoFile     == {Absent, Gone}
MidRewrite == {Partial, Gone}

SlotTypeOK ==
    /\ slot \in {Absent} \cup Logins /\ home \in {Absent, Partial, Gone} \cup Logins
    /\ placed \in BOOLEAN /\ unpushed \in BOOLEAN
    /\ newest \in {Absent} \cup Logins /\ issued \in 0 .. MaxLogin /\ lost \in BOOLEAN /\ loggedOut \in BOOLEAN
    /\ faults \in 0 .. MaxFaults

\* The slot may hold the login of a session that used it before.
SlotInit ==
    /\ slot \in {Absent, 1} /\ newest = slot /\ issued = slot
    /\ home = Absent
    /\ placed = FALSE /\ unpushed = FALSE /\ lost = FALSE /\ loggedOut = FALSE
    /\ faults = 0

Fault == faults < MaxFaults /\ faults' = faults + 1

-----------------------------------------------------------------------------
\* Copies.  A copy is a temporary file and a rename: it happens or it does not.

\* copyBackLocked as it would leave the slot.
CopiedBack(removeWhenAbsent) ==
    CASE home \in NoFile -> IF removeWhenAbsent THEN Absent ELSE slot
      [] home = Partial  -> slot
      [] OTHER           -> home

\* The slot is the authority: HOME takes from's file, or its absence.
Take(from) == home' = from /\ placed' = (from # Absent) /\ unpushed' = FALSE

\* A pull fails while it saves the unsaved login, or later; a file that was
\* renamed but not synced is there although the copy reports an error.
PullFails ==
    \/ /\ unpushed
       /\ IF home = Partial THEN UNCHANGED <<slot, faults>>
                            ELSE Fault /\ slot' \in {slot, CopiedBack(FALSE)}
       /\ placed' = (home \notin NoFile)
       /\ UNCHANGED <<home, unpushed>>
    \/ /\ unpushed => home # Partial
       /\ Fault
       /\ slot' = IF unpushed THEN CopiedBack(FALSE) ELSE slot
       /\ home' \in {home, slot'}
       /\ placed' = FALSE /\ unpushed' = FALSE

Pull ==
    /\ \/ /\ unpushed => home # Partial
          /\ slot' = IF unpushed THEN CopiedBack(FALSE) ELSE slot
          /\ Take(slot')
          /\ UNCHANGED faults
       \/ PullFails
    /\ loggedOut' = FALSE
    /\ UNCHANGED <<newest, issued, lost>>

\* Mutation: a file that is not there is always a logout.
PushAbsence ==
    /\ slot' = CopiedBack(TRUE)
    /\ UNCHANGED <<home, slotMem, login, faults>>

\* Mutation: a copy that failed is not remembered.
PushForgets ==
    /\ \/ slot' = CopiedBack(placed) /\ UNCHANGED faults
       \/ Fault /\ slot' \in {slot, CopiedBack(placed)}
    /\ UNCHANGED <<home, slotMem, login>>

\* A truncated file is an error that is not remembered.
Push ==
    /\ \/ slot' = CopiedBack(placed) /\ UNCHANGED <<unpushed, faults>>
       \/ Fault /\ unpushed' = TRUE /\ slot' \in {slot, CopiedBack(placed)}
    /\ UNCHANGED <<home, placed, login>>

\* The poll while a turn runs; its failures change nothing.
PushIfPresent ==
    /\ slot' = CopiedBack(FALSE)
    /\ UNCHANGED <<home, slotMem, login, faults>>

-----------------------------------------------------------------------------
\* The CLI, which only runs inside a turn.

Issue == issued < MaxLogin /\ issued' = issued + 1 /\ newest' = issued'

\* The provider rotates the login; the CLI begins to rewrite its file.
Rotate ==
    /\ home \in Logins /\ home = newest
    /\ Issue /\ home' \in MidRewrite
    /\ UNCHANGED <<slot, slotMem, lost, loggedOut, faults>>

Rewritten ==
    /\ home \in MidRewrite
    /\ home' = newest
    /\ UNCHANGED <<slot, slotMem, login, faults>>

Logout ==
    /\ home \in Logins
    /\ home' = Absent /\ newest' = (IF home = newest THEN Absent ELSE newest)
    /\ loggedOut' = TRUE
    /\ UNCHANGED <<slot, slotMem, issued, lost, faults>>

\* A CLI that is killed in the middle of a rewrite leaves nothing to copy.
CLIExits ==
    /\ lost' = (lost \/ home \in MidRewrite)
    /\ UNCHANGED <<files, slotMem, newest, issued, loggedOut, faults>>

\* `claude auth login` was given its code: a login nobody had before.
SignedIn ==
    /\ Issue /\ home' = newest' /\ lost' = FALSE
    /\ UNCHANGED <<slot, slotMem, loggedOut, faults>>

\* The process ends.  The container's HOME survives a restart of it, and never
\* a new pod: archives leave the login out.
ProcessEnds(keepHome) ==
    /\ home' = (IF keepHome THEN home ELSE Absent)
    /\ placed' = FALSE /\ unpushed' = FALSE /\ loggedOut' = FALSE
    /\ lost' = (lost \/ (newest # Absent /\ slot # newest))
    /\ UNCHANGED <<slot, newest, issued>>

-----------------------------------------------------------------------------
\* The login the provider accepts is in the slot or still in HOME, whichever
\* copies failed: only a process that dies first can lose it.
NewestLoginKept ==
    newest # Absent /\ ~lost => slot = newest \/ home = newest \/ home \in MidRewrite
=============================================================================
