----------------------------- MODULE SkillSync ------------------------------
(***************************************************************************)
(* The plugin skills of a codex session (codex_skills.go,                  *)
(* codex_plugin_refresh.go and ensureHome of codex.go in                   *)
(* data-plane/cmd/agent) and the sidecar that reads them from the          *)
(* marketplace (minimax_marketplace.go).  The agent brings the skill       *)
(* directories of HOME in line with the sidecar's bundle at every boot,    *)
(* every restore and every refresh a user asks for, and keeps a note of    *)
(* what changed, which opens the next turn of the conversation.            *)
(*                                                                         *)
(* A skill directory is "absent", a version that carries the platform's    *)
(* marker, "half" of one with the marker, "user" for one made by hand, or  *)
(* "left": what an interrupted replacement or removal leaves without the   *)
(* marker.                                                                 *)
(* HOME goes through the archive; how is StateArchive's subject.           *)
(***************************************************************************)
EXTENDS Naturals, FiniteSets

CONSTANTS
    Skills,
    Versions,    \* what a skill of the marketplace may hold
    Attempts,    \* miniMaxBootstrapAttempts
    MaxMoves,    \* bound on the changes of the marketplace, and on what a CLI does to the directories
    MaxFreezes,  \* bound on the archives
    MaxSkillFaults, \* bound on failures and deaths
    Unmarked     \* TRUE: a replacement may end before it has written its marker, or a
                 \* removal after it has taken the marker away

ASSUME SkillSyncAssumption ==
    /\ Attempts \in Nat \ {0} /\ {MaxMoves, MaxFreezes, MaxSkillFaults} \subseteq Nat
    /\ Versions \cap {"absent", "half", "user", "left"} = {} /\ Unmarked \in BOOLEAN

VARIABLES
    configured, \* the sidecar has a token and a marketplace
    market,     \* the marketplace: each skill's version
    seeder,     \* the sidecar: its bundle, the clones that failed, whether a refresh runs
    served,     \* history: the marketplaces read since the last refresh was asked for
    dir,        \* the skill directories of HOME
    note,       \* the pending note: each skill's change
    hasRun,     \* the conversation has had a turn
    pc, why,    \* the agent: where it is; whether it syncs for a boot or a refresh
    target, todo, changes, \* the sync: what it wants, what is left to do, what it has done
    noticed,    \* the turn has a note to settle
    restored,   \* this pod was restored from the archive
    homeArchive, \* HOME in the archive, with its history
    seen,       \* history: the directories when the last successful turn ended
    missed,     \* history: skills whose change, or whose settled note, a failure has lost
    moves, freezes, skillFaults

sidecar == <<configured, market, seeder, served>>
home    == <<dir, note, hasRun>>
syncing == <<why, target, todo, changes>>
past    == <<seen, missed>>
bounds  == <<moves, freezes, skillFaults>>
skillVars == <<configured, market, seeder, served, dir, note, hasRun, pc, why, target, todo, changes, noticed,
               restored, homeArchive, seen, missed, moves, freezes, skillFaults>>

None    == [s \in Skills |-> "absent"]
Quiet   == [s \in Skills |-> "none"]
Seeds   == [Skills -> Versions \cup {"absent"}]
ChangeKinds == {"none", "added", "updated", "removed"}
Managed(s) == dir[s] \in Versions \cup {"half"}
Changed == {s \in Skills : changes[s] # "none"}
NewSeeder == [state |-> IF configured THEN "bootstrapping" ELSE "unconfigured",
              plugins |-> None, failed |-> 0, busy |-> FALSE]

SkillTypeOK ==
    /\ configured \in BOOLEAN /\ market \in Seeds /\ served \subseteq Seeds
    /\ seeder \in [state: {"bootstrapping", "unconfigured", "ready", "failed"}, plugins: Seeds,
                   failed: 0 .. Attempts, busy: BOOLEAN]
    /\ dir \in [Skills -> Versions \cup {"absent", "half", "user", "left"}]
    /\ note \in [Skills -> ChangeKinds] /\ hasRun \in BOOLEAN
    /\ pc \in {"probe", "sync", "record", "idle", "asked", "turn", "frozen"} /\ why \in {"boot", "refresh"}
    /\ target \in Seeds /\ todo \subseteq Skills /\ changes \in [Skills -> ChangeKinds] /\ noticed \in BOOLEAN
    /\ missed \subseteq Skills

\* A new session: HOME is empty and the agent boots.
SkillInit ==
    /\ configured \in BOOLEAN /\ market \in Seeds
    /\ seeder = NewSeeder /\ served = {}
    /\ dir = None /\ note = Quiet /\ hasRun = FALSE
    /\ pc = "probe" /\ why = "boot" /\ target = None /\ todo = {} /\ changes = Quiet /\ noticed = FALSE
    /\ restored = FALSE
    /\ homeArchive = [dir |-> None, note |-> Quiet, hasRun |-> FALSE, seen |-> None, missed |-> {}]
    /\ seen = None /\ missed = {}
    /\ moves = 0 /\ freezes = 0 /\ skillFaults = 0

SkillFault == skillFaults < MaxSkillFaults /\ skillFaults' = skillFaults + 1
Free       == skillFaults' = skillFaults

-----------------------------------------------------------------------------
\* The sidecar.

Read == /\ seeder' = [seeder EXCEPT !.state = "ready", !.plugins = market, !.busy = FALSE]
        /\ served' = IF why = "refresh" THEN served \cup {market} ELSE served

\* run: a few attempts at the first clone; the last failure is what the route reports.
Bootstrap ==
    /\ seeder.state = "bootstrapping"
    /\ \/ Read /\ Free
       \/ /\ SkillFault /\ UNCHANGED served
          /\ seeder' = [seeder EXCEPT !.failed = @ + 1,
                                      !.state = IF seeder.failed + 1 = Attempts THEN "failed" ELSE @]
    /\ UNCHANGED <<configured, market, home, pc, syncing, noticed, restored, homeArchive, past, moves, freezes>>

MarketMoves ==
    /\ configured /\ moves < MaxMoves /\ moves' = moves + 1
    /\ \E s \in Skills, v \in Versions \cup {"absent"} : v # market[s] /\ market' = [market EXCEPT ![s] = v]
    /\ UNCHANGED <<configured, seeder, served, home, pc, syncing, noticed, restored, homeArchive,
                   past, freezes, skillFaults>>

\* The clone of a refresh ends.  One that fails leaves the bundle as it was; the agent
\* that asked may be gone, or the answer may not reach it.
Refreshed ==
    /\ seeder.busy
    /\ \/ Read /\ Free /\ pc' = IF pc = "asked" THEN "probe" ELSE pc
       \/ Read /\ SkillFault /\ pc = "asked" /\ pc' = "idle"
       \/ /\ SkillFault /\ seeder' = [seeder EXCEPT !.busy = FALSE] /\ UNCHANGED served
          /\ pc' = IF pc = "asked" THEN "idle" ELSE pc
    /\ UNCHANGED <<configured, market, home, syncing, noticed, restored, homeArchive, past, moves, freezes>>

RestartSidecar ==
    /\ SkillFault /\ configured /\ pc # "frozen"
    /\ seeder' = NewSeeder
    /\ pc' = IF pc = "asked" THEN "idle" ELSE pc
    /\ UNCHANGED <<configured, market, served, home, syncing, noticed, restored, homeArchive, past, moves, freezes>>

-----------------------------------------------------------------------------
\* The sync.

\* refreshPlugins, between turns: the sidecar refuses while its first clone or another
\* refresh runs, and answers at once if it has no marketplace.
Refresh ==
    /\ pc = "idle"
    /\ IF seeder.state \in {"bootstrapping", "unconfigured"} \/ seeder.busy
         THEN UNCHANGED <<seeder, served, pc, why>>
         ELSE /\ seeder' = [seeder EXCEPT !.busy = TRUE] /\ served' = {}
              /\ pc' = "asked" /\ why' = "refresh"
    /\ UNCHANGED <<configured, market, home, target, todo, changes, noticed, restored, homeArchive, past, bounds>>

Sync(seed) ==
    /\ target' = seed /\ todo' = Skills /\ changes' = Quiet /\ pc' = "sync"

\* Mutation: a refresh that cannot read the seed goes on without it, as a boot does.
ProbeAsBoot ==
    /\ pc = "probe"
    /\ \/ seeder.state = "ready" /\ Sync(seeder.plugins) /\ Free
       \/ seeder.state \in {"failed", "unconfigured"} /\ Sync(None) /\ Free
       \/ SkillFault /\ Sync(None)
    /\ UNCHANGED <<sidecar, home, why, noticed, restored, homeArchive, past, moves, freezes>>

\* The seed is waited for until a deadline.  A boot goes on without what it did not
\* get; a refresh keeps the skills the session has.
Probe ==
    /\ pc = "probe"
    /\ \/ seeder.state = "ready" /\ Sync(seeder.plugins) /\ Free
       \/ seeder.state = "unconfigured" /\ Sync(None) /\ Free
       \/ /\ seeder.state = "failed" \/ skillFaults < MaxSkillFaults
          /\ IF seeder.state = "failed" THEN Free ELSE SkillFault
          /\ IF why = "boot" THEN Sync(None)
                             ELSE pc' = "idle" /\ UNCHANGED <<target, todo, changes>>
    /\ UNCHANGED <<sidecar, home, why, noticed, restored, homeArchive, past, moves, freezes>>

Stale(s) == Managed(s) /\ target[s] = "absent"
codexSkillMatches(s) == dir[s] = target[s]
\* What a sync writes: not over what was made by hand, and not what is there already.
ToInstall(s) == target[s] # "absent" /\ dir[s] \notin {"user", "left"} /\ ~codexSkillMatches(s)

\* One directory: removals first; one made by hand is left alone.
SyncSkill(s) ==
    /\ pc = "sync" /\ s \in todo
    /\ Stale(s) \/ \A r \in todo : ~Stale(r)
    /\ todo' = todo \ {s}
    /\ dir' = IF Stale(s) \/ ToInstall(s) THEN [dir EXCEPT ![s] = target[s]] ELSE dir
    /\ changes' = [changes EXCEPT ![s] = CASE Stale(s)     -> "removed"
                                           [] ToInstall(s) -> IF Managed(s) THEN "updated" ELSE "added"
                                           [] OTHER        -> "none"]
    /\ UNCHANGED <<sidecar, note, hasRun, pc, why, target, noticed, restored, homeArchive, past, bounds>>

Synced ==
    /\ pc = "sync" /\ todo = {} /\ pc' = "record"
    /\ UNCHANGED <<sidecar, home, syncing, noticed, restored, homeArchive, past, bounds>>

\* Mutation: the later change is all that counts.
FoldLast(earlier, later) == IF later = "none" THEN earlier ELSE later

\* Two changes of a skill as one, for who has seen neither.
foldCodexSkillChange(earlier, later) ==
    CASE later = "none"                               -> earlier
      [] earlier = "added" /\ later = "removed"       -> "none"
      [] earlier = "added" /\ later # "removed"       -> "added"
      [] earlier = "removed" /\ later = "added"       -> "updated"
      [] OTHER                                        -> later

Record ==
    /\ pc = "record" /\ pc' = "idle"
    /\ note' = [s \in Skills |-> foldCodexSkillChange(note[s], changes[s])]
    /\ target' = None /\ changes' = Quiet
    /\ UNCHANGED <<sidecar, dir, hasRun, why, todo, noticed, restored, homeArchive, past, bounds>>

\* What becomes of the agent when a sync does not end.  A refresh reports an error and
\* the session goes on.  A boot ends the process, which boots again; a restore fails and
\* its pod is given up.  What was changed so far is in no note.
Broken(died) ==
    /\ target' = None /\ changes' = Quiet /\ todo' = {}
    /\ IF restored /\ (why = "boot" \/ died)
         THEN pc' = "frozen" /\ UNCHANGED why
         ELSE IF why = "boot" \/ died THEN pc' = "probe" /\ why' = "boot"
                                      ELSE pc' = "idle" /\ UNCHANGED why

SyncFails ==
    /\ pc \in {"sync", "record"} /\ SkillFault
    /\ Broken(FALSE)
    /\ missed' = missed \cup Changed
    /\ UNCHANGED <<sidecar, home, noticed, restored, homeArchive, seen, moves, freezes>>

\* The removal or the replacement of a directory stops half-way, with the process or
\* without it.
InstallStops(s) ==
    /\ pc = "sync" /\ s \in todo
    /\ Stale(s) \/ (ToInstall(s) /\ \A r \in todo : ~Stale(r))
    /\ SkillFault
    /\ \E rest \in IF Unmarked THEN {"absent", "half", "left"} ELSE {"absent", "half"} :
           dir' = [dir EXCEPT ![s] = rest]
    /\ \E died \in BOOLEAN : Broken(died)
    /\ missed' = missed \cup Changed \cup {s}
    /\ UNCHANGED <<sidecar, note, hasRun, noticed, restored, homeArchive, seen, moves, freezes>>

-----------------------------------------------------------------------------
\* Turns.

\* There is a note to open a turn with.
turnNotice == note # Quiet

\* withTurnNotice; a note that cannot be read is left for the next turn.
BeginTurn ==
    /\ pc = "idle" /\ pc' = "turn"
    /\ \/ Free /\ noticed' = turnNotice
       \/ SkillFault /\ turnNotice /\ noticed' = FALSE
    /\ UNCHANGED <<sidecar, home, syncing, restored, homeArchive, past, moves, freezes>>

\* The CLI installs a skill of its own, or deletes one.  Until a turn succeeds the note
\* does not count this.
ByHand ==
    /\ pc = "turn" /\ moves < MaxMoves /\ moves' = moves + 1
    /\ \E s \in Skills : /\ dir' = [dir EXCEPT ![s] = IF @ = "absent" THEN "user" ELSE "absent"]
                         /\ missed' = missed \cup {s}
    /\ UNCHANGED <<sidecar, note, hasRun, pc, syncing, noticed, restored, homeArchive, seen, freezes, skillFaults>>

\* Mutation: a turn settles the note, however it ended.
EndTurnSettles ==
    /\ pc = "turn" /\ pc' = "idle" /\ noticed' = FALSE /\ SkillFault
    /\ note' = Quiet
    /\ UNCHANGED <<sidecar, dir, hasRun, syncing, restored, homeArchive, past, moves, freezes>>

\* A turn that fails settles nothing.
FailTurn ==
    /\ pc = "turn" /\ pc' = "idle" /\ noticed' = FALSE /\ SkillFault
    /\ UNCHANGED <<sidecar, home, syncing, restored, homeArchive, past, moves, freezes>>

\* A turn that succeeds settles the note, unless the note cannot be removed.
EndTurn ==
    /\ pc = "turn" /\ pc' = "idle" /\ noticed' = FALSE
    /\ hasRun' = TRUE /\ seen' = dir
    /\ \/ Free /\ note' = (IF noticed THEN Quiet ELSE note)
       \/ SkillFault /\ noticed /\ UNCHANGED note
    /\ missed' = {s \in Skills : note'[s] # "none"}
    /\ UNCHANGED <<sidecar, dir, syncing, restored, homeArchive, moves, freezes>>

-----------------------------------------------------------------------------
\* Processes and pods.

\* The agent's process dies; a container of a fresh pod comes back.
Kill ==
    /\ SkillFault /\ ~restored /\ pc # "frozen"
    /\ pc' = "probe" /\ why' = "boot" /\ target' = None /\ todo' = {} /\ changes' = Quiet
    /\ noticed' = FALSE /\ missed' = missed \cup Changed
    /\ UNCHANGED <<sidecar, home, restored, homeArchive, seen, moves, freezes>>

SkillFreeze ==
    /\ pc = "idle" /\ freezes < MaxFreezes /\ freezes' = freezes + 1
    /\ pc' = "frozen"
    /\ homeArchive' = [dir |-> dir, note |-> note, hasRun |-> hasRun, seen |-> seen, missed |-> missed]
    /\ UNCHANGED <<sidecar, home, syncing, noticed, restored, past, moves, skillFaults>>

\* A new pod with a new sidecar; the skills are synced again before it serves.
Restore ==
    /\ pc = "frozen" /\ pc' = "probe" /\ why' = "boot"
    /\ dir' = homeArchive.dir /\ note' = homeArchive.note /\ hasRun' = homeArchive.hasRun
    /\ seen' = homeArchive.seen /\ missed' = homeArchive.missed
    /\ seeder' = NewSeeder /\ restored' = TRUE
    /\ UNCHANGED <<configured, market, served, target, todo, changes, noticed, homeArchive, bounds>>

SkillNext ==
    \/ Bootstrap \/ MarketMoves \/ Refreshed \/ RestartSidecar
    \/ Refresh \/ Probe \/ Synced \/ Record \/ SyncFails
    \/ \E s \in Skills : SyncSkill(s) \/ InstallStops(s)
    \/ BeginTurn \/ ByHand \/ FailTurn \/ EndTurn
    \/ Kill \/ SkillFreeze \/ Restore

SkillSpec == SkillInit /\ [][SkillNext]_skillVars

-----------------------------------------------------------------------------
Exists(content) == content # "absent"

\* Between turns the note says of every skill how it changed since the conversation's last
\* successful turn, over any number of refreshes, restores and moves of the marketplace in
\* between: nothing that changed is missing, and what is said to be new or gone is.  It is
\* off only for a skill whose sync, or whose settled note, a failure interrupted, and for
\* one the CLI itself changed in a turn that failed
\* (recordCodexSkillChanges, foldCodexSkillChange, clearTurnNotice).
NoteNamesChanges ==
    pc = "idle" /\ hasRun =>
        \A s \in Skills \ missed :
            /\ dir[s] # seen[s] => note[s] # "none"
            /\ note[s] = "added"   => ~Exists(seen[s]) /\ Exists(dir[s])
            /\ note[s] = "removed" => Exists(seen[s]) /\ ~Exists(dir[s])
            /\ note[s] = "updated" => Exists(seen[s]) /\ Exists(dir[s])

\* A refresh takes a skill away only when the sidecar has read a marketplace without it
\* since the refresh was asked for: a marketplace that cannot be reached, a sidecar that
\* restarts meanwhile or a seed that never comes costs the session nothing it had
\* (refresh, refreshPlugins).
RefreshKeepsSkills ==
    [][why = "refresh" =>
         \A s \in Skills : changes[s] # "removed" /\ changes'[s] = "removed"
                              => \E m \in served : m[s] = "absent"]_skillVars

\* After a sync the platform's skills are the seed's, also after an earlier one was
\* interrupted: it leaves a directory that "the next sync still owns" (installCodexSkill).
SyncIsExact ==
    pc = "record" => \A s \in Skills : dir[s] # "user" => dir[s] = target[s]
=============================================================================
