# Verification of session-platform

This directory holds TLA+ models of session-platform, the TLC configurations
that check them on small instances, and TLAPS proofs of most of their safety
properties for every instance. `PROJECT.json` maps each definition to the
lines of code it stands for and lists the runs, findings, hazards and theorems.

## The system

session-platform gives every user session a dedicated Kubernetes pod that runs
a shell or a coding agent, freezes idle sessions into an archive and restores
them on demand.

| Part | Code | State it keeps | Operations |
|---|---|---|---|
| Session service | `control-plane/internal/service/manager.go` | none of its own: every replica works on the stored record under a lock | Create, Write/Read (activate), Snapshot, SnapshotIfIdle, recovery, Restore, Terminate |
| Idle reaper | `service/reaper.go` | none | scans sessions, calls SnapshotIfIdle with a cutoff |
| State store | `adapter/configmap/store.go` (port: `store/store.go`) | one ConfigMap per session (record, owner annotation), one Lease per session (lock) | Lock, Renew, Unlock, Get, CompareAndSwapSession, CompareAndSwapState, Touch, Delete, Put, List |
| Pod orchestrator | `adapter/k8s/client_orchestrator.go` and neighbours | the pods of a session: helper pod and workload pod | Start, RestoreInto, Stop, Reach |
| Auth slot pool | `adapter/k8s/auth_pool.go` | one Lease per login slot | Acquire, renew, claim, Release |
| Archive checkpointer | `adapter/archive`, `adapter/checkpointstore` | archives by generation in S3 | CheckpointWithGeneration, AbortCheckpoint, Restore |
| Data-plane agent | `data-plane/cmd/agent` | admission gate, prompt queue, process tree, output buffer, login file | write, read, stream, checkpoint, abort, restore |
| State archive | `agent/state_archive.go` | staging and backup directories | write, check, copy, install |
| Output pipeline, proxies | `agent/claude_stream.go`, `codex_stream.go`, `minimax_code.go`, `credential_proxy_stream.go` | held bytes of a rune, a line, a literal; the account of a run | project, redact, bound, append |
| Plugin skills, marketplace | `agent/codex_skills.go`, `codex_plugin_refresh.go`, `minimax_marketplace.go` | skill directories and note in HOME; the sidecar's bundle | bootstrap, refresh, sync, record, settle |
| Session MCP / approvals | `data-plane/cmd/agent/session_mcp*.go`, `approval_*.go` | notice feed, pending approvals | tool calls, approval waits, downloads, uploads, clones, pushes |
| Repository access | `repoaccess/store.go`, `api/repo_access.go` | allow list and requests (SQLite) | request, approve, reject, check |
| REST API, tenancy, SPA | `api`, `tenancy`, `web` | none | translation of requests |

Replicas of the control plane share nothing but the Kubernetes API and S3. What
makes this hard to test is that every operation is a sequence of remote calls:
another replica may overtake it between any two of them (a Lease expires under
a stalled holder), the replica may die, a request may succeed and report an
error, and the agent keeps its own state which the record only describes.


How the parts interact:

- A request to the API becomes a call of the session service. A call that
  changes the life of a session takes the session's lock in the state store,
  works on the record, the pods, the agent and the auth slot, and commits by a
  compare-and-swap that only the lock's latest holder can make.
- A write or read first makes sure that the session is live (recovers an
  interrupted snapshot, restores a frozen session), then goes to the agent in
  the pod named by the record, then records the access, without any lock.
- The agent never calls the control plane about its life: the service asks it
  for an archive (`/checkpoint`), tells it to go on (`/checkpoint/abort`) or
  feeds it one (`/restore`).
- Inside the agent, HTTP handlers, one worker, a plugin refresh and a sign-in
  share one mutex and one condition variable.

What makes each part correct:

| Part | Properties | Where |
|---|---|---|
| State store | a lock holder that was overtaken writes nothing; nobody overwrites what it has not seen; accesses only move forward; Unlock spares the successor | `LeaseStore`, `FencedStore`, proofs |
| Session service | an acknowledged write survives; a live session keeps its pods; a committed snapshot is final; a frozen session has no pods; interrupted snapshots resolve; a recorded access is never taken back | `SnapshotLifecycle` |
| Auth slot pool | no two pods mount one slot unless one was told to stop; a running holder keeps its lease; one slot per session | `AuthPool` |
| Agent workload | the state under an archive stands still and is complete; every accepted prompt runs; no lost wakeup; aborts hit their own generation | `PromptQueue` |
| Sign-in and login files | a code is never run as a prompt; a login or logout reaches the slot; nothing else empties it | `SignIn`, `AuthSlot` |
| Shell workload | the process tree stands still under an archive; input comes before the scrollback; the gate is the one the service relies on | `ShellAgent`, `CheckpointGate` |
| Output stream | a page catches up with the output, woken by every append, and then shows the buffer | `OutputStream` |
| Pod orchestrator | a workload in service stands behind its boundary; every promised connection is served; a failed round leaves nothing | `Provision`, `PodSpecs` |
| Approvals and notices | the set of waits is exact, and the idle hold ends when the wait does | `SessionMCP` |
| Repository access | nothing is reached that was not granted; a request is answered by the decision on its repository | `RepoAccess`, `SessionMCP` |
| Volume tools, state archive | a reported file is there, also after a restore; a restore is all or nothing; uploads end | `VolumeTools`, `StateArchive` |
| Plugin skills | the conversation is told of every change and of nothing else; a refresh costs it nothing it had | `SkillSync` |
| Output pipeline | no credential literal is shown, however it is split; a run that does not fit says so | `OutputPipeline` |

The hazards behind these properties, each at its line, are the `hazards` of
`PROJECT.json`; those without a property say why.

## Plan

The order follows the importance of what can be lost: the store that everything
else trusts, then the life of a session, then what is leased to it, then the
inside of the agent.

1. `FencedStore` (abstract), `LeaseStore` (detailed), refinement and proofs: done.
2. `SnapshotLifecycle` over the atomic store of `FencedStore`: done.
3. `AuthPool`, then `AuthSlot` and `SignIn` (the agent's copy of the login): done.
4. `PromptQueue`; `CheckpointGate`, the abstract gate, and `ShellAgent`, which
   implements it; `OutputStream`, from the agent's buffer to the page: done. That
   `PromptQueue` implements the gate too is still to be stated.
5. `Provision` over `PodSpecs`; `SessionMCP` over `RepoAccess`; `StateArchive` over
   `VolumeTools`; `OutputPipeline`; `SkillSync`: done.
6. Theorems: the store, the life of a session, the slot pool, the prompt queue, the
   shell and its gate, the sign-in and its login file, provisioning, the tools and the
   notices of the helper, the shared volume, the state archive and the plugin skills: done.

## The modules

`FencedStore` is the promise of the `StateStore` port for one record: operations
take the lock in an order (`rank`), the fence moves only to later ranks, only the
fence's owner commits or removes, and a commit replaces lifecycle fields its
caller has seen.

`LeaseStore` is `configmap/store.go` with one action per request to the
Kubernetes API. A resourceVersion is modelled by what it is for: `cmFresh` and
`leaseFresh` hold the callers whose last Get is current; every write empties the
set and succeeds only for a member. Expiry is not a clock: `LeaseGet` may find
any Lease expired, so every holder may be overtaken at any time. `clock` and
`rank` are history variables. The request of an operation may be cut off at any
point by `Leave` (error or cancellation; the deferred Unlock still runs) or
`Crash` (nothing runs). Clients that take no lock (`Touch`, `CompareAndSwapState`)
run beside them.

`SnapshotLifecycle` is `service/manager.go` for one session: each call is a
program counter over the steps between which another replica can act, with the
session copy `sess[p]` it read. The store is the atomic one, which the refinement
below justifies: `Lock` moves the fence, `Swap` succeeds only for the fence's
owner with an unchanged state and transaction. `pods` are the workload and helper
pods of each provisioning; the agent is its gate, the generation that closed it
and how many acknowledged writes it holds. A checkpoint is a request (`Send`), the
agent's own steps and an answer (`Await`), so it can arrive late. `Cancel`,
`Crash`, `AgentFail` and the spurious conflict of a Touch are the faults.
The reaper's three steps between its reload and its swap are actions of their own
(`Cutoff`, `Holding`, `Hold`), because the question about approvals goes to the agent.
`Overtaking` lets a Lease expire under a live call, `LostReply` lets a restore's
commit succeed and report an error, `MaxRestarts` lets a container restart.

`AuthPool` is `k8s/auth_pool.go` with the calls of the service that use it. A call
lists the pool, judges slot after slot (reading the holder's record each time),
and claims, renews or releases with the resourceVersion of its list (`seen`). The
grace period is `Age`: a lease becomes old unless a create or restore that holds
it is still between claim and record, which is what the constant is chosen for.
Freezes start at their commit; the archive before it does not touch slots.
`Leaks` lets a call fail between the creation of its pods and the record,
`LostReply` lets a claim take effect and report an error. A deletion is a request: the
pods it names (`Told`) move to `dying`, mount their slot on and are gone when the kubelet
has ended them (`PodGone`), which nobody waits for. Labels of Leases are left out.

`PromptQueue` is `claudeWorkload` in `agent/claude.go` (also the skeleton of the
Codex and MiniMax workloads): one action per critical section of its mutex, and
one for each stretch between two. The condition variable is explicit: `waiting`
holds the sleeping goroutines, `Signal` wakes any one of them. An archive is taken
in the code's two steps, the output first (`CkptPersist`) and the files later
(`CkptArchive`). The sign-in inside a turn, bytes and redaction are left out: a
turn is one entry of output and a choice of how it ended.

`AuthSlot` and `SignIn` are `agent/auth_slot.go` and `claude_subscription.go` with
the turn of `claude.go` they live in. A login is a number, of which the provider
accepts only the newest; a copy between HOME and the slot is one step (it is a
rename) and may fail; a CLI may be killed in the middle of rewriting the file, which
is then cut (`Partial`) or not there (`Gone`); to the agent the latter looks like the
file of a CLI that logged out. `pending` and `dropped` are `pendingLogin` and `droppedLogin`; the
window of a dropped sign-in is "ahead" or "past" in place of a clock. Admission is
`PromptQueue`'s subject: here a drained archive is one step.

`CheckpointGate` is what the control plane relies on of any agent: closed by a
generation, opened by the abort of that generation or by its process ending.
`ShellAgent` is `main.go` and `checkpoint.go`: the processes
below the shell fork, exit, write and print; `pauseTree` is a scan and a round of
signals per round, and a SIGSTOP lands later; the archive is taken scrollback first,
then HOME in two reads.

`OutputStream` is what a user sees of the output: the append-only buffer of `main.go` with
the channel that an append closes (`woken` is the channel a stream holds), the loop of
`output_stream.go` that sends chunks, resets and keepalives, and the page of
`Workspace.tsx`, which drops what it has, reconnects at a gap or an error, reads everything
after a reset, and may read a delta beside the stream. Every byte has its own number.
`lineage` is a history variable: a buffer that a restart or restore cut shorter than what
the page has, or has on its way, begins a new one, and the page is in it (`since`) once it
has started over.

`PodSpecs` is what ties a session's pods together: which ports a container serves
and dials, which claims a pod needs, which credentials it holds, and what the two
network policies admit, for the six workload types and eight shapes of deployment.
`Provision` is `startSet`, `Stop` and their cleanup with one action per request,
beside a kubelet and a garbage collector that act in their own time; with `Lossy` a
create takes effect and reports an error.

`RepoAccess` is `repoaccess/store.go` with its handlers, one step per transaction.
`SessionMCP` is one tools/call at a time per call number: the approval gate
(announce, create, poll, decide or give up), clone and push with the allow list and
token, the request for access; the notice ring with its sequence numbers; and the
tailer that folds notices into the set of waits. People, other sessions, the agent's
rewriting of its clone and restarts of both containers act in between.

`VolumeTools` is the helper's side of the shared volume: `drop_download` (names,
staging, second look, rename), spilled bodies, clones, and `drop_upload` with its
chunks and resumes against a drop that forgets or counts twice. `StateArchive` adds
the checkpoint of the agent's state tree and the volume, and the restore on a new
pod with its staged copy, its two renames and its repetition after a kill.

A file's name is a text with the numbers before and after it, so that the names the
loop of `callDropDownload` tries ("1-x", "2-1-x") are told apart as the code's strings are.

`OutputPipeline` is the path of a coding agent's output: the projector of each of
the three CLIs, the validation of runes, the redactor, the cap of a run and of the
record, and the proxy's stream, which redacts the same way. Text is a sequence of
symbols, of which a pair "uv" is a rune; the credentials (`Literals`), what the CLIs
print and what prompts say are constants.

`SkillSync` is the plugin skills of a codex session: the sidecar that reads them from
the marketplace, the boot, restore or refresh that brings the directories of HOME in
line with the sidecar's bundle one by one, and the pending note folded from what each
sync changed, which opens the next turn and is settled by one that succeeds. What a
skill holds is a version; an interrupted installation leaves "half" of one.

`MC_*` modules add symmetry sets, values of constants, two constraints, a view and two
specifications: `FrozenTwiceSpec`, which is `PolledSpec` with the kinds of its four calls
fixed, and `MCSpec` of `MC_ShellAgent`. That one holds the shell agent and `OutputStream`,
which meet in the output buffer only; a behaviour is about one of the two, so that the run
has the sum of their states and not the product. Where nothing is to be added the
component's module is checked itself. Operators marked "Mutation"
are plausible bugs; each is named in `PROJECT.json` with the property that catches
it, and none is part of a specification. Each module states its type invariant
(`TypeOK`); the runs are spent on the other properties.

## What is checked

| Run | Shows |
|---|---|
| `lease_store` | two operations and a client, every interleaving of requests, any holder overtaken: the refinement of `FencedStore`, no lost update, no stale commit or delete, accesses never go back |
| `snapshot_faults` | three overlapping calls that overtake each other, one crash, cancellation or failed request at any step: no acknowledged write is lost, live sessions keep their pods, frozen means reclaimed, nothing is orphaned, a recorded access stays recorded |
| `snapshot_recovery` | a snapshot, a restore, another snapshot and a recovery in any order, two faults, an agent that restarts, Leases that outlive their holders: a closed gate is recorded, and a polled session leaves every interrupted snapshot behind unless its restored agent restarted |
| `auth_pool` | five calls, two sessions, two slots, one fault, pods that outlive their deletion: slots exclusive among pods nobody told to stop, one slot per session, leases of running holders stay |
| `prompt_queue` | prompts, two checkpoints, a refresh, a shutdown, one failed step: the archive's state is still, complete and current, and no wakeup is lost |
| `sign_in` | four writes, two sign-ins, four logins, two failed copies or dead processes: codes do not run as prompts, the newest login is kept, only a logout or a file gone in mid-rewrite clears the slot |
| `shell` | three processes, two writers, two generations, a restart and a restore: the archive stands still, no input is lost behind the scrollback, the gate is `CheckpointGate`; three bytes of output in chunks of up to two, two ends of the agent's process, one broken connection or failed read: the page catches up and shows the buffer |
| `provision` | all types and deployments, two rounds, two failed or lost requests: boundary in service, dials served, failed rounds reclaimed |
| `session_mcp` | two calls, a ring of two notices, a failure and a restart: effects are granted, waits exact and let go, asks answered |
| `state_archive` | two tool calls, a file of the agent's, a damaged archive, a kill and a repetition: what was reported is there, restores are all or nothing, the old tree stays until the new one is in place, uploads end |
| `output_pipeline` | three writes cut anywhere, two turns, full runs and records: nothing shown that must not be, every run recorded or marked; an answer in three reads, cut off anywhere: what the proxy passed on is right however the answer goes on |
| `skill_sync` | two skills of two versions, two moves of the marketplace or the CLI, a freeze, two failures or deaths: the note names the changes since the last successful turn, a refresh takes away only what a fresh reading lacks |

### Counterexamples kept as configurations

Thirteen more configurations are kept with the modules. They do not belong to the runs;
TLC finds each named property violated by what the code does:

| Configuration, module | Property | What happens |
|---|---|---|
| `GateWedged.cfg`, `MC_SnapshotLifecycle` | `ClosedGateIsRecorded` | A snapshot whose context ends after the agent answered does not abort (`manager.go:542`, which counts on "the next Lease holder"); if recovery had already been there, before `/checkpoint` arrived, the gate stays closed and nothing names its generation. |
| `RestoreLostReply.cfg`, `MC_SnapshotLifecycle` | `LiveKeepsPods` | A restore that committed but heard an error re-reads the record, finds the next holder's preparing transaction, takes it for proof that it "was not committed" (`manager.go:895`, `908`) and deletes live pods. |
| `GateForgotten.cfg`, `MC_SnapshotLifecycle` | `AcceptedWritesSurvive` | A container restart between archive and commit reopens writes, because the gate is process memory (`checkpoint.go:38`), although its header says writes stay closed until the pod is reclaimed or the checkpoint aborted (`checkpoint.go:12`). |
| `RestoredRestart.cfg`, `MC_SnapshotLifecycle` | `RestartServesAgain` | A restored pod whose container restarts waits for an archive nobody sends again: restore mode is in the pod's environment (`main.go:85`), while `main.go:282` counts on the kubelet to bring back a fresh shell. |
| `AuthLateRelease.cfg`, `MC_AuthPool` | `SessionsKeepApart` | The release of an overtaken freeze (`manager.go:584`) finds its lease by session only and frees the slot a newer restore has renewed; another session leases it. `docs/prd/agent-auth-pool.md:9` says that no two pods use one slot at a time. |
| `ReadCursor.cfg`, `PromptQueue` | `ReadCursorSurvives` | The notice of a plugin refresh is appended after the checkpoint that waited for it may have copied the output (`claude.go:700`); it may be read and be missing from the archive, although `manager.go:814` says a read cursor remains valid. |
| `WaitHeld.cfg`, `SessionMCP` | `NoWaitIsHeldForever` | The helper container restarts while an approval is pending. `publish` counts from zero again (`session_mcp_notices.go:90`), the agent asks for what comes after its old cursor and is told of nothing, not even of a loss; the wait that ended with the helper holds the session's idle clock for good, which `approval_wait.go:30` says clearing the set is there to prevent. |
| `SkillOrphaned.cfg`, `MC_SkillSync` | `SyncIsExact` | A replacement of a skill that stops before its marker is written (between `RemoveAll` and `WriteFile`, or inside `RemoveAll`) leaves a directory without one. Every later sync takes it for the user's and never repairs or removes it, although `codex_skills.go:355` says that the next sync still owns it. |
| `ReaperLate.cfg`, `MC_SnapshotLifecycle` | `ReaperSeesAccess` | The reaper reloads the record and looks at LastAccess (`manager.go:483`), then asks the agent about approvals, then swaps (`manager.go:528`) without comparing LastAccess again. An access recorded in between is followed by the freeze, although `manager.go:442` says that SnapshotIfIdle "does nothing when a client accessed the session after cutoff". The access stays in the record and the client's next request restores the session. |
| `RecoveryStranded.cfg`, `MC_SnapshotLifecycle` | `RecoveryAlwaysResolves` | A restored session is snapshotted again, the replica dies and the agent's container restarts: it comes up awaiting an archive (`main.go:85`) and refuses every abort (`claude.go:850`, `checkpoint.go:97`), so recovery can never clear the transaction. |
| `AuthGrace.cfg`, `MC_AuthPool` | `OnePodPerSlot` | `stopOne` sends a DELETE and does not wait (`client_orchestrator.go:521`); the slot is released at once (`manager.go:584`) and leased to another session while the first pod, in its grace period, still mounts it. `docs/prd/agent-auth-pool.md:9` says that no two pods use one slot at a time. |
| `SlotGone.cfg`, `SignIn` | `MissingMeansLogout` | A CLI that is killed while its rewrite has the login file gone (`auth_slot.go:159` knows of the moment) leaves no file, and the push at the end of the turn, which takes a missing file to mean that "the CLI logged out" (`auth_slot.go:147`), removes the login from the slot. |
| `LateRead.cfg`, `OutputStream` | `StreamAlwaysCatchesUp` | A read beside the stream was served before the agent's buffer was replaced and is answered after the page has reconnected: it passes the cursor gate (`Workspace.tsx:104`), which leaves the page's cursor ahead of its open stream. The stream sends from its own cursor, and the page drops it as known until the output has grown past it. |

Where a violation is known, the passing runs exclude just its cause, by an exception that
the property states (`Stranded`, `dying`, `Gone`, `since`) or by a constant
(`Overtaking`, `LostReply`, `Leaks`, `MaxRestarts`, `Unmarked`) that switches it off; the rest of
the faults stay. Two switches of `AuthPool` mark further limits of the code. With
`Leaks = TRUE`, `RunningKeepsLease` and `SlotExclusive` are violated: a create that dies, or whose cleanup
runs on its cancelled request context, leaves pods without a record, and the slot
they mount is leased again after the grace, although `StaleHolder` takes a missing
record to mean that no pod runs. With `LostReply = TRUE`, `OneSlotPerSession` is
violated: `Acquire` skips a claim that took effect and reported an error, and
claims the next slot as well; `SlotExclusive` still holds.

### Limits the properties state

Some properties carry an exception because the code has one. They are worth knowing:

- A deletion that stops half-way leaves a preparing transaction whose pods may be
  gone; recovery then has no agent to ask. `snapshot_recovery` leaves `terminate` out.
- `InterruptedSnapshotResolves` leaves out a `Stranded` prepare: the source pod is a restored
  one whose container restarted, and waits for an archive (`RecoveryStranded.cfg`).
- The reaper: `RecordedAccessKept` says that an access is not lost, and not that it stops a
  freeze that has already looked (`ReaperLate.cfg`).
- `NoOrphanPods` is stated for behaviours without a fault: the cleanup of a failed restore
  is best effort.
- `AuthPool`: `SlotExclusive` and `RunningKeepsLease` speak of pods that nobody has told to
  stop. A pod in its grace period may share its slot with one of the next holder
  (`AuthGrace.cfg`).
- `SignIn`: `SlotClearedByLogout` admits a CLI that was killed while the file was gone, which
  the agent cannot tell from a logout (`SlotGone.cfg`).
- `SignIn`: a prompt that arrives after a sign-in has begun and before its page is
  shown is taken as the code. A dropped sign-in is remembered by the process only:
  after a restart or a restore the late code is a prompt (`forgotten`). A login whose
  copy to the slot failed is lost if the session is frozen before the next turn
  (`lost`), and a logout whose copy failed is undone by the next pull.
- `OutputStream`: a cursor that was ahead of a new buffer and is overtaken by its output
  before the next chunk gets no reset, and the page splices two histories; and a delta
  answered from before the new buffer moves the cursor ahead of it (`LateRead.cfg`).
- `ShellAgent`: bytes drained after the scrollback was copied are streamed to clients
  and not archived; `pauseTree` gives up after
  its rounds and its settle time, and cannot see a process that left the tree.
- `Provision`: `network_policy.go:131` says the boundary is in place for the whole
  life of the pods; a workload pod that is still terminating outlives the policies
  its helper owned. A create that took effect and reported an error, or a delete that
  failed, leaves a workload behind (`leaked`).
- `VolumeTools`: between the second look and the rename of a download the agent may
  create the file and have it replaced; `GapIsOneStep` says that this is the only way.
- `StateArchive`: a download or a clone that is under way when the volume is archived
  may be archived half-done, under its temporary name or unreported.
- `SkillSync`: what a sync changed before it failed or was killed is in no note; a note
  that could not be read or removed is repeated to a turn that has seen its changes;
  and a boot, unlike a refresh, that does not get the seed in time removes the skills
  until the next sync, which `ensureHome` says it does.
- `OutputPipeline`: the two literals do not contain each other. With nested ones (`ab`
  and `abc`) a split before the `c` redacts the shorter one first and shows the rest,
  so the redactor is not quite the "streaming equivalent of bytes.ReplaceAll" that
  `claude_stream.go:193` calls it; no literal is shown whole. A JSON line cut by a
  kill is shown as a diagnostic.

Bounds. Fencing is about who came between two requests of one call: two operations
overtake each other at every request in `lease_store` (the proofs extend this to
any number). In `SnapshotLifecycle` three calls make an overtaken one, its successor
and the one that made the state they disagree about; a restored session whose second
snapshot is interrupted needs the four of `snapshot_recovery`. Two slots and two sessions are
the least for which a slot can be both free and disputed, and five calls let a
session be created, frozen, restored and frozen again while another competes. The
constraint `InOrder` numbers these calls in the order they begin, and admits one pod in its
grace period at a time, which is all a slot needs to be shared; `PoolView` forgets what
an ended call once knew, which no step reads. Two checkpoints are needed for a late abort, of
the shell too; two prompts and a queue of one give a prompt that runs, one that waits and one that is refused. `MaxFaults`,
`MaxRestarts`, `Refreshes` and `putMaxRetries` count what would otherwise be
unbounded. In `snapshot_faults` the constraint `OneOtherCall` admits at most one
deletion or idle freeze among the three calls; it looks at kinds, which are fixed in
the initial state, so no behaviour is cut short. Three bytes in chunks of two make a
stream that is a chunk behind, cut at either place, and one that ends with the buffer; two
ends of the process replace a buffer by a shorter one and restore it. Two sign-ins are
needed for one to be taken for the other; three processes for a child that is born while its parent is
being stopped; two versions and two moves for a skill that changes twice, or comes and
goes, between two turns; two rounds for a restore beside the collection of its predecessor; a
ring of two for a notice that falls out unread; two calls on the volume for two
claims to one name; and a run limit, a record limit and texts of a few symbols for
every cut to fall before, inside and after a literal, a rune and a marker. `rank` and `clock` are bounded by the number of operations, since each
takes the Lease at most once. Symmetry is used in runs without liveness properties
only. Deadlock is checked for the shell and the page, which always have a step; elsewhere
a finite set of calls ends, and the end is a legal state.

Fairness. `PolledSpec` assumes that goroutines and agents take their steps (they
run on a scheduler and every remote request has a timeout) and that a client keeps
polling, which is when the service recovers; nothing is assumed about faults.
`PromptQueue`'s `FairSpec` assumes that the worker and a draining checkpoint run on
when they are not asleep, that a turn ends (it has a timeout) and that a refresh
ends; nothing is assumed about clients, shutdown or the expiry of a checkpoint.
`OutputStream` assumes that the goroutine of a stream runs while it is not asleep, that the
page's timers fire and that it handles its events, that a dead connection is noticed and that
a request is answered or fails; nothing is assumed about output, restarts, reads
beside the stream, or keepalives, which would hide a lost wakeup.
`Provision` assumes that the kubelet and the garbage collector finish what is being deleted;
`SessionMCP` that a call runs on (its polls have a deadline) and that the tailer
polls while it lives, which is its only loop; `StateArchive` that an upload goes on
while its helper lives. `ShellAgent`, `SignIn`, `SkillSync` and `OutputPipeline` need no fairness.

## What is proved

Eight modules `<component>Proofs` hold the proofs. `ProvisionProofs` also holds those of
`SessionMCP`, `StateArchiveProofs` those of `SkillSync` and `PromptQueueProofs` those of
`OutputPipeline`: each of the three extends both of its components, which is why
`SessionMCP`, `SkillSync` and `OutputPipeline` name their `Init`, `Next`, `Spec` and shared
words with a prefix. Each module states an inductive
invariant as a conjunction of named parts, shows that the initial states have it and
that every action keeps it, one lemma or step per action, and derives the properties
from it. All theorems are for any value of the constants: any number of calls,
sessions, writers, processes, rounds, generations and faults. The assumptions on the
constants say only that names do not clash (`None` is no call, no record, no number)
and that bounds are natural numbers. Five groups of theorems have a hypothesis beyond
that. In four it is the switch of a gap in the code that a configuration above
shows, so none of them can be dropped; the fifth is `Independent`, about nested credentials,
and for the record `Roomy`, about limits smaller than their markers.

### The store (`LeaseStoreProofs`)

- `InvHolds` (and `TypeCorrect`): the inductive invariant `Inv`;
- `LockFences` (`LockedIsFenced`), `SwapLosesNothing` (`NoLostUpdate`): the two state invariants;
- `FenceForward`, `StaleHolderCommitsNothing`, `AccessForward`,
  `UnlockIsTokenSafe`: what no request ever does;
- `StoreIsFenced`: `LeaseStore` implements `FencedStore` under the mapping that
  takes `locked` to the calls that hold the lock and `view` to what they saw.

None of the properties is inductive. `LockedIsFenced` depends on the order in which
Leases were taken (`RankInv`) and on the renewals around the annotation update: an
update that will succeed (its copy is current) was preceded by a renewal, and
whoever took the Lease since must have read a newer copy (`LeaseInv`, `FenceInv`).
That the comparison of state and transaction alone suffices needs that the owner
knows the pod (`WriteInv`), because only an owner changes it and a new owner has
seen nothing yet. The refinement is what entitles `SnapshotLifecycle` and `AuthPool`
to treat the lock and the compare-and-swap as atomic.

### The life of a session (`SnapshotLifecycleProofs`)

`StepIsNormal` first brings every action into one form (what it does to the record,
the fence, the pods, the agents, the calls), so that each part of the invariant is
shown once for each form. Without any hypothesis, with calls that overtake, die and
are cancelled: `FrozenIsReclaimed`, `RecordedAccessKept` (`AccessIsKept`), `NoOrphanPods`, `TypeOK`. The
core is `FenceInv` (the call that is the fence has the record as it is), `CommitInv`
(a generation is committed once, by its own call, and whoever aborts it has fenced
that call off first) and `StopInv` (a pod that some call reclaims is committed to that
call's generation, or was given up): an overtaken call may still run, but every name it
holds was settled before it lost the fence.

| Theorem | Hypothesis | Why it is needed | Further invariant |
|---|---|---|---|
| `WritesSurvive` (`AcceptedWritesSurvive`) | `MaxRestarts = 0` | `GateForgotten.cfg` | `WriteInv`: an archive that may be committed was captured behind a closed gate, and everything accepted is in it |
| `LivePodsAreKept` (`LiveKeepsPods`) | `LostReply = FALSE` | `RestoreLostReply.cfg` | `LiveInv`: a round that is being discarded is not the record's |
| `ClosedGatesAreRecorded` (`ClosedGateIsRecorded`) | `Overtaking = FALSE` | `GateWedged.cfg` | `GateInv`: one call runs at a time, and a shut gate is its own or the transaction's |

The third is about `PolledSpec`, in which recoveries run any number of times.

### The slot pool (`AuthPoolProofs`)

`SlotsAreExclusive`, `SessionHoldsOneSlot` and `RunningPodsKeepLease` hold under
`Undisturbed`: no session lock is overtaken (`AuthLateRelease.cfg`), no claim takes
effect and reports an error, and no call leaves pods behind (see the switches of
`AuthPool` above). Pods that were told to stop are in `dying`, of which the invariant says
nothing: the first and the third are about the others. The inductive part: a pod's slot is leased to its session
(`PodSlotInv`); a lease between claim and record is too young to be reclaimed
(`UseInv`); and a slot that was judged free is free for as long as the copy it was
judged by is current, because whoever gave it a pod wrote its Lease (`FreeInv`).

### Inside the agent

- `PromptQueueProofs`: `DirectoryHoldsStill` (`StateHoldsStill`), `ArchiveIsComplete`
  (`ArchiveHoldsAccepted`) and `OnlyItsAbortReopens`. The flags under the mutex tell
  where the goroutines are (`TurnInv`, `GateInv`); a drained checkpoint finds the queue
  empty and keeps it so (`QuietInv`); an accepted prompt is in the queue, in the worker
  or done (`AcceptedInv`).
- `ShellAgentProofs`: `HomeHoldsStill` (`ArchiveHoldsStill`), `InputPrecedesScrollback`
  (`InputBeforeScrollback`) and `ShellImplementsGate`, the refinement of
  `CheckpointGate`. What `pauseTree` has signalled cannot fork, so a scan that finds
  nothing new has found everything (`PauseInv`), and a child is below the shell unless
  it was handed to init (`TreeInv`).
- `SignInProofs`: `LoginIsKept` (`NewestLoginKept`), `OnlyLogoutClears`
  (`SlotClearedByLogout`, with the exception stated above), `CodesAreNoPrompts` (`FirstWriteIsNoPrompt`), `TypeCorrect`.
  Two invariants that do not meet. `CopyInv`: HOME is never behind the slot, and
  between turns the slot has the login or the agent remembers a failed copy.
  `WatchInv` and `FirstInv`: the arrival count of a sign-in points at its first
  write as long as that write is in the queue; a sign-in that is neither watched nor
  forgotten has taken it already; and what runs was never such a write.
- `StateArchiveProofs`, the archive: `TreeIsNeverLost` (`OldUntilNew`) and `AllOrNothing`
  (`RestoreIsAllOrNothing`), from where the tree is in each phase (`TreeInv`) and how
  far the copy has come, over what a killed attempt left behind (`CopyInv`).
- `StateArchiveProofs`, the shared volume: `ReportsHold` (`ReportedIsThere`) and `GapIsOne`
  (`GapIsOneStep`), for any drops and any number of calls at once, from `FileInv`. What was
  reported was placed by a call that is past it (`TellInv`), under a name that no staging
  file, no body or clone of another call and no other file of its drop has; so it stays on
  the volume until somebody else writes there, and from the checkpoint on it is in the
  archive (`HoldInv`). `PlacesApart` is the part about names: the loop ends, because the
  files before the n-th hold fewer names than the n-th has candidates (the pigeonhole
  theorem of the library), and it gives no name twice.
- `StateArchiveProofs`, the skills: `NotesAreRight` (`NoteNamesChanges`) and
  `RefreshesKeepSkills` (`RefreshKeepsSkills`), for any skills and versions, from
  `SkillInv`. The note alone is not right while a sync runs; the note and the changes
  since it was written are together right about every skill that no failure has touched
  (`NoteInv`), and the same holds of the note in an archive. What a refresh installs was
  read since it was asked for (`SeedInv`).

### The pods (`ProvisionProofs`)

`EveryTypeIsConnected` is about the pod specifications alone: every workload type in
every deployment. `BoundaryHolds` (`BoundaryInService`) needs that whatever bears a
round's name was made by that round (`NameInv`), so that neither the collection of the
predecessor's objects nor a lost create can take the boundary of the next round away.

### The tools and notices of the helper (`ProvisionProofs`)

From `McpInv`, for any number of calls, any ring and any number of restarts and faults:

- `EffectsGranted` (`EffectsAreGranted`): the target of an action is approved, or
  was on the allow list when the call looked (`SafeInv`);
- `AsksAnswered` (`AsksAreAnswered`): an action property of the repository requests;
- `CaughtUp` (`CaughtUpIsExact`): a reader that has caught up without a loss
  waits for exactly the calls that wait. While it is behind, its set differs from them by
  what it has still to read: whoever is in the set and no longer waits will be told of,
  and so will whoever waits and is not in the set, or the loss will be told (`ReadInv`, and
  `AnswerInv` for an answer on its way). That needs the ring to be numbered without a gap
  (`FeedInv`) and the notices of a call to be in the order of its life (`OrderInv`).

The set of waits is a fold over the notices, as in the code. Its closed form (a call is in
the set if the last notice about it begins its wait) is proved with the least-number
principle, which the library's `WFMin` gives: a first notice at which the two differ
does not exist. The library's induction theorems cannot be used here, since they take
the property as an operator. The places of a drop are proved in the same way.

### The output (`PromptQueueProofs`)

For any credentials, texts, prompts and limits, and however the output and the answers are
cut into writes:

- `ShownHolds` (`ShownIsClean`), from `PipeInv`. That what is shown holds no credential is
  not inductive: a write could complete one. What is kept is that no credential has
  begun in the shown text and can still be completed, whatever follows (`Shut`), of what is
  shown, and of that together with what is pending; and every text on the way is cut
  between runes only (`Sound`), because credentials are whole runes and the prefixes are
  taken back to a rune's beginning.
- `PassedHolds` (`PassedOnIsFinal`): a redaction of the whole is the text let go of so far
  and the redaction of what is held with the rest (`DrainRedacts`, `FinalInv`). It has the
  hypothesis `Independent`, that no credential is a part of another one; of the proxy's
  single token this is so. Without it the theorem is false, as the deviations above say.
- `RecordHolds` (`RunIsRecorded`), from `RecordInv`, under `Independent` and `Roomy`: the two
  limits leave room for their markers, which the code's megabytes do. While a run goes on
  there is a text E that the record shows (`Shows`: all of it, notices aside, or if the record
  is full a beginning of it and the marker), and the account says how E stands to what
  is wanted of the input. If the run is still within its allowance, every redaction of the
  input and whatever follows it is E, the pending text and the redaction of what is held with
  the rest (`Owes`); if the record is full, E is a beginning of what is wanted however the
  input goes on (`Ahead`), and if the run was cut off, E is just that (`Fixed`). The two last
  are needed because from then on the sink no longer keeps what comes in. That a cut of
  the whole text is the cut of its pieces (`CutBehind`, `CutInside`) holds only between runes.

The redactor, the normalizer and the reference `Redact` are recursive functions over the
places of a text. `RecursionFromTheEnd` shows that such a recursion has a solution (the
longest end of a text for which it has none would have to be empty), which gives the
equations of `Drain`, `Runes`, `Without` and `Redact`; `FromTheEnd` is the induction along it.

### What the proofs changed

Two definitions of the models had `CASE` expressions whose guards overlap (`Plan` of
`SnapshotLifecycle`, `Runes` and `Project` of `OutputPipeline`). TLC takes the first
guard that holds, as the code's switch does; in TLA+ the choice is open, and the proof
failed there. They are nested conditionals now. `SlotInit` needs a login to exist, so
`MaxLogin` is at least one. The reader's notices of `SessionMCP` are a subsequence by
positions (`Newer`) in place of `SelectSeq`, of which the prover knows nothing, and the
names of `VolumeTools` are records in place of strings put together; for the same reason
`Without` of `OutputPipeline` is a recursive function. Its `Keep` was a maximum over a set
that is empty if there are no credentials; zero is in it now. What the proxy passes on was a part of
`ShownIsClean`, which is now free of the hypothesis `Independent`: `PassedOnIsFinal` has a
definition and a theorem of its own and is checked as a part of `RunIsRecorded`, which needs
the hypothesis too. The rest was naming the sets of the type invariants and
stating that `None` is no record.

### Only model-checked

Liveness (`InterruptedSnapshotResolves`, `AcceptedIsRun`, `SleepersWake`,
`StreamCatchesUp`, `FailedRoundIsReclaimed`, `WaitsAreLetGo`, `UploadEnds`): out of the
prover's reach.

## What is not modelled

- Encoding of records and archives (JSON, tar, base64), S3, HTTP and WebSocket
  transport: translation with no state that another actor can see half-done. An
  archive cut exactly at an entry boundary is not told apart from a shorter one.
- The rest of the pod specifications (security contexts, resources, labels, images)
  and the workload catalog: declarative data, compared with itself by any model.
- The REST handlers besides repository access, tenancy and the start-up of the
  control plane: stateless resolution of a request to a service call.
- The relays of the credential and k3s proxies: they forward one request; the
  stream they redact is in `OutputPipeline`.
- The seeding of MiniMax plugins, files written once at start-up before the worker
  runs, and the checks on plugin manifests and paths: pure functions of a clone.
- Leases of the pool's names without its labels, the in-memory pool of development
  set-ups, List and the loop of the reaper, and the web application but for the page
  that follows the output.

`PROJECT.json` lists every component with its status.
