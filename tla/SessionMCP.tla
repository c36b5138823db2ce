----------------------------- MODULE SessionMCP -----------------------------
(***************************************************************************)
(* The tools of a session's helper pod that reach outside (session_mcp*.go *)
(* and approval_gateway.go of data-plane/cmd/agent), the feed of approval  *)
(* notices they publish, and the loop of the workload pod that tails the   *)
(* feed into the set of approvals the session waits for (approval_wait.go).*)
(* That set holds the session's idle clock, so a wait that is never        *)
(* forgotten keeps a pod for ever, and one never seen lets the reaper      *)
(* freeze a session in the middle of a call.                               *)
(*                                                                         *)
(* A call is one tools/call request and a process of its own; its number   *)
(* stands for the random external identifier.  The gateway, the people who *)
(* decide and the processes of the agent act in between its steps.         *)
(***************************************************************************)
EXTENDS RepoAccess, Sequences, SequencesExt

CONSTANTS
    MaxCalls,      \* bound on the tools/call requests
    MaxListCalls,  \* the same where the deployment keeps an allow list
    Capacity,      \* the notices the feed keeps: noticeFeedCapacity
    MaxMcpFaults,  \* bound on failed, cancelled and lost exchanges
    MaxRestarts    \* bound on restarts of the workload's and of the helper's container

ASSUME SessionMCPAssumption ==
    /\ {MaxCalls, MaxListCalls, Capacity} \subseteq Nat \ {0}
    /\ {MaxMcpFaults, MaxRestarts} \subseteq Nat

VARIABLES
    deployment, \* whether the deployment keeps an allow list, and a proxy that issues tokens
    calls,   \* the calls: tool, where they are, what they were given, the list they were checked against
    gateway, \* the status of each call's approval request at the gateway
    origin,  \* the origin the agent has written into its clone
    acted,   \* the repository or target each call has really reached
    feed,    \* the notice ring: the last number and the notices kept
    tail,    \* the tailer: its cursor and the answer on its way
    pending, \* the agent's set of approvals it waits for
    missed,  \* TRUE once the tailer was told of notices it could not read
    mcpFaults,
    restarts \* how often each of the two processes has restarted

helperVars == <<deployment, calls, gateway, origin, acted, feed, tail, pending, missed, mcpFaults, restarts>>
mcpVars == <<helperVars, storeVars>>

Calls    == 1 .. MaxCalls
Nothing  == "nothing"
Web      == "web"       \* an address a person is asked about
Targets  == Spellings \cup {Web}
Settled  == {"APPROVED", "REJECTED"}   \* an expired request is a refused one
Tools    == {"gated", "git_clone", "git_push", "request_repo_access"}
CallStates == {"idle", "announce", "create", "poll", "decided", "unavailable",
               "check", "mint", "act", "ask", "asked", "done"}
\* Tokens are issued for what is on the list.
Deployments == {d \in [list: BOOLEAN, proxy: BOOLEAN] : d.proxy => d.list}
NoAnswer == [some |-> FALSE, notices |-> << >>, next |-> 0, dropped |-> 0]

McpTypeOK ==
    /\ deployment \in Deployments
    /\ calls \in [Calls -> [tool: Tools \cup {"none"},
                            pc: CallStates, target: Targets \cup {Nothing},
                            decision: Settled \cup {"TIMEOUT", "none"}, list: SUBSET Repos]]
    /\ gateway \in [Calls -> Settled \cup {"none", "PENDING"}]
    /\ origin \in Spellings
    /\ acted \in [Calls -> Targets \cup {Nothing}]
    /\ feed.seq \in Nat /\ Len(feed.kept) <= Capacity
    /\ pending \subseteq Calls /\ missed \in BOOLEAN
    /\ mcpFaults \in 0 .. MaxMcpFaults /\ restarts \in [agent: 0 .. MaxRestarts, helper: 0 .. MaxRestarts]
    /\ StoreTypeOK

McpInit ==
    /\ deployment \in Deployments
    /\ calls = [c \in Calls |-> [tool |-> "none", pc |-> "idle", target |-> Nothing, decision |-> "none",
                              list |-> {}]]
    /\ gateway = [c \in Calls |-> "none"]
    /\ origin = "Repo.git"
    /\ acted = [c \in Calls |-> Nothing]
    /\ feed = [seq |-> 0, kept |-> << >>]
    /\ tail = [after |-> 0, answer |-> NoAnswer]
    /\ pending = {} /\ missed = FALSE
    /\ mcpFaults = 0 /\ restarts = [agent |-> 0, helper |-> 0]
    /\ StoreInit

McpFault == mcpFaults < MaxMcpFaults /\ mcpFaults' = mcpFaults + 1
At(c, step)   == calls[c].pc = step
GoTo(c, step) == calls' = [calls EXCEPT ![c].pc = step]
Tool(c)       == calls[c].tool

-----------------------------------------------------------------------------
\* The notice feed.

\* The oldest notice falls out of a full ring, read or not.
Publish(kind, c) ==
    LET notice == [seq |-> feed.seq + 1, kind |-> kind, id |-> c]
        kept   == Append(feed.kept, notice)
    IN  feed' = [seq |-> feed.seq + 1, kept |-> IF Len(kept) > Capacity THEN Tail(kept) ELSE kept]

\* The notices after a cursor, in their order.
Newer(after) ==
    LET out[i \in 0 .. Len(feed.kept)] ==
            IF i = 0 THEN << >>
            ELSE IF feed.kept[i].seq > after THEN Append(out[i - 1], feed.kept[i]) ELSE out[i - 1]
    IN  out[Len(feed.kept)]

\* A cursor short of the oldest kept notice has missed the ones in between.
Since(after) ==
    [some    |-> TRUE,
     notices |-> Newer(after),
     next    |-> feed.seq,
     dropped |-> IF feed.kept # << >> /\ after < Head(feed.kept).seq - 1
                 THEN Head(feed.kept).seq - 1 - after ELSE 0]

\* The long poll answers when there is something to say, or when its window closes.
ServeNotices ==
    /\ ~tail.answer.some
    /\ tail' = [tail EXCEPT !.answer = Since(tail.after)]
    /\ UNCHANGED <<deployment, calls, gateway, origin, acted, feed, pending, missed, mcpFaults, restarts, storeVars>>

Wait(waits, n) ==
    CASE n.kind = "awaiting"                   -> waits \cup {n.id}
      [] n.kind \in {"decided", "unavailable"} -> waits \ {n.id}
      [] OTHER                                 -> waits

\* Mutation: what a lost notice may have ended stays in the set.
ObserveKeeping(answer) == FoldLeft(Wait, pending, answer.notices)

\* A lost notice may have been a decision, so the set starts over.
Observe(answer) == FoldLeft(Wait, IF answer.dropped > 0 THEN {} ELSE pending, answer.notices)

\* One turn of the tailer: the waits first, then the markers, then the cursor.
Receive ==
    /\ tail.answer.some
    /\ pending' = Observe(tail.answer)
    /\ missed' = (missed \/ tail.answer.dropped > 0)
    /\ tail' = [after  |-> IF tail.answer.next > tail.after THEN tail.answer.next ELSE tail.after,
                answer |-> NoAnswer]
    /\ UNCHANGED <<deployment, calls, gateway, origin, acted, feed, mcpFaults, restarts, storeVars>>

\* The poll fails and is made again with the same cursor.
PollFails ==
    /\ tail.answer.some /\ McpFault
    /\ tail' = [tail EXCEPT !.answer = NoAnswer]
    /\ UNCHANGED <<deployment, calls, gateway, origin, acted, feed, pending, missed, restarts, storeVars>>

-----------------------------------------------------------------------------
\* The calls.

Quiet == UNCHANGED <<deployment, origin, feed, tail, pending, missed, restarts>>

\* "gated" is web_fetch_get, and git_clone where there is no allow list.  A call that
\* is not understood, or that this deployment has no tool for, ends at once: a clone or
\* a push without a shared volume, a push or an ask without a list.
Accepts(tool, target) ==
    CASE tool = "gated"               -> target = Web
      [] tool = "git_clone"           -> deployment.list /\ NormalizeRepo(target) # Invalid
      [] tool = "git_push"            -> deployment.list /\ NormalizeRepo(target) # Invalid /\ target = origin
      [] tool = "request_repo_access" -> deployment.list /\ target \in Spellings

First(tool) ==
    CASE tool = "gated"                    -> "announce"
      [] tool \in {"git_clone", "git_push"} -> "check"
      [] tool = "request_repo_access"      -> "ask"

\* A push reads the origin of the clone once, and keeps it.
CallTool(c) ==
    \E tool \in Tools, target \in Targets :
        /\ At(c, "idle") /\ (c > 1 => ~At(c - 1, "idle")) /\ (deployment.list => c <= MaxListCalls)
        /\ Accepts(tool, target)
        /\ calls' = [calls EXCEPT ![c].tool = tool, ![c].pc = First(tool), ![c].target = target]
        /\ Quiet /\ UNCHANGED <<gateway, acted, mcpFaults, storeVars>>

\* The wait is announced before it begins.
Announce(c) ==
    /\ At(c, "announce") /\ GoTo(c, "create") /\ Publish("awaiting", c)
    /\ UNCHANGED <<deployment, gateway, origin, acted, tail, pending, missed, mcpFaults, restarts, storeVars>>

\* create: the answer may be a decision already, and may be lost.
CreateApproval(c) ==
    /\ At(c, "create")
    /\ \/ \E status \in Settled \cup {"PENDING"} :
            /\ gateway' = [gateway EXCEPT ![c] = status]
            /\ calls' = [calls EXCEPT ![c].pc = IF status = "PENDING" THEN "poll" ELSE "decided",
                                      ![c].decision = IF status = "PENDING" THEN "none" ELSE status]
            /\ UNCHANGED mcpFaults
       \/ \E status \in {"none", "PENDING"} :
            /\ McpFault /\ GoTo(c, "unavailable") /\ gateway' = [gateway EXCEPT ![c] = status]
    /\ Quiet /\ UNCHANGED <<acted, storeVars>>

\* A status that is no decision, or none this code knows, keeps the call waiting.
Polled(c) ==
    /\ At(c, "poll") /\ gateway[c] \in Settled
    /\ calls' = [calls EXCEPT ![c].pc = "decided", ![c].decision = gateway[c]]
    /\ Quiet /\ UNCHANGED <<gateway, acted, mcpFaults, storeVars>>

\* The deadline has passed at a poll that found nothing.
GiveUp(c) ==
    /\ At(c, "poll") /\ gateway[c] \notin Settled
    /\ calls' = [calls EXCEPT ![c].pc = "decided", ![c].decision = "TIMEOUT"]
    /\ Quiet /\ UNCHANGED <<gateway, acted, mcpFaults, storeVars>>

\* The gateway fails at a poll, or the client has hung up.
PollingFails(c) ==
    /\ At(c, "poll") /\ McpFault /\ GoTo(c, "unavailable")
    /\ Quiet /\ UNCHANGED <<gateway, acted, storeVars>>

Decided(c) ==
    /\ At(c, "decided") /\ Publish("decided", c)
    /\ GoTo(c, IF calls[c].decision = "APPROVED" THEN "act" ELSE "done")
    /\ UNCHANGED <<deployment, gateway, origin, acted, tail, pending, missed, mcpFaults, restarts, storeVars>>

\* Mutation: a gateway that cannot be asked ends the call and says nothing.
UnavailableSilently(c) ==
    /\ At(c, "unavailable") /\ GoTo(c, "done")
    /\ Quiet /\ UNCHANGED <<gateway, acted, mcpFaults, storeVars>>

Unavailable(c) ==
    /\ At(c, "unavailable") /\ GoTo(c, "done") /\ Publish("unavailable", c)
    /\ UNCHANGED <<deployment, gateway, origin, acted, tail, pending, missed, mcpFaults, restarts, storeVars>>

\* The allow list is asked over the network, with the helper's own token.
Check(c) ==
    /\ At(c, "check")
    /\ \/ /\ calls' = [calls EXCEPT ![c].pc = IF Allowed(calls[c].target) THEN "mint" ELSE "done",
                                    ![c].list = allow]
          /\ UNCHANGED mcpFaults
       \/ McpFault /\ GoTo(c, "done")
    /\ Quiet /\ UNCHANGED <<gateway, acted, storeVars>>

\* Without a token a clone is tried anonymously; a push is not.
Mint(c) ==
    /\ At(c, "mint")
    /\ \/ deployment.proxy /\ GoTo(c, "act") /\ UNCHANGED mcpFaults
       \/ ~deployment.proxy /\ GoTo(c, IF Tool(c) = "git_clone" THEN "act" ELSE "done") /\ UNCHANGED mcpFaults
       \/ deployment.proxy /\ McpFault /\ GoTo(c, IF Tool(c) = "git_clone" THEN "act" ELSE "done")
    /\ Quiet /\ UNCHANGED <<gateway, acted, storeVars>>

\* Mutation: the push goes to whatever the clone now calls its origin.
TargetNow(c) == IF Tool(c) = "git_push" THEN origin ELSE calls[c].target

\* The remote is the address that was checked, whatever the clone's config says by now.
TargetOf(c) == calls[c].target

\* The fetch, the clone or the push itself, which may still fail far away.
Act(c) ==
    /\ At(c, "act") /\ GoTo(c, "done")
    /\ acted' = [acted EXCEPT ![c] = TargetOf(c)]
    /\ Quiet /\ UNCHANGED <<gateway, mcpFaults, storeVars>>

\* request_repo_access: the request may be recorded and its answer lost.
AskAccess(c) ==
    LET target == calls[c].target
    IN  /\ At(c, "ask")
        /\ \/ /\ Request(target, "own") /\ UNCHANGED mcpFaults
              /\ GoTo(c, IF RequestStatus(target) = "pending" THEN "asked" ELSE "done")
           \/ Request(target, "own") /\ McpFault /\ GoTo(c, "done")
           \/ NormalizeRepo(target) = Invalid /\ GoTo(c, "done") /\ UNCHANGED <<mcpFaults, storeVars>>
        /\ Quiet /\ UNCHANGED <<gateway, acted>>

\* Not a wait: the notice carries no external identifier.
AnnounceAsk(c) ==
    /\ At(c, "asked") /\ GoTo(c, "done") /\ Publish("access-requested", c)
    /\ UNCHANGED <<deployment, gateway, origin, acted, tail, pending, missed, mcpFaults, restarts, storeVars>>

-----------------------------------------------------------------------------
\* The people, the agent and the machines.

Decide(c) ==
    \E decision \in Settled :
        /\ gateway[c] = "PENDING"
        /\ gateway' = [gateway EXCEPT ![c] = decision]
        /\ Quiet /\ UNCHANGED <<calls, acted, mcpFaults, storeVars>>

\* The screen of the control plane, and the helper of another session.
Administer ==
    /\ deployment.list
    /\ \/ \E raw \in Repos : AddRepo(raw) \/ RemoveRepo(raw)
       \/ \E raw \in Repos : Request(raw, "other")
       \/ \E q \in requests : Approve(q) \/ Reject(q)
    /\ Quiet /\ UNCHANGED <<calls, gateway, acted, mcpFaults>>

\* The agent may rewrite its clone's configuration at any time.
RewriteOrigin ==
    /\ deployment.list
    /\ origin' \in Spellings \ {origin}
    /\ UNCHANGED <<deployment, calls, gateway, acted, feed, tail, pending, missed, mcpFaults, restarts, storeVars>>

\* A new process of the workload: its calls are cut off, its waits forgotten, the feed read anew.
RestartAgent ==
    /\ restarts.agent + restarts.helper < MaxRestarts
    /\ restarts' = [restarts EXCEPT !.agent = @ + 1]
    /\ tail' = [after |-> 0, answer |-> NoAnswer] /\ pending' = {}
    /\ calls' = [c \in Calls |-> [calls[c] EXCEPT !.pc = IF @ \in {"create", "poll"} THEN "unavailable" ELSE @]]
    /\ UNCHANGED <<deployment, gateway, origin, acted, feed, missed, mcpFaults, storeVars>>

\* A new process of the helper: its calls are gone, its feed is empty and counts from zero.
RestartHelper ==
    /\ restarts.agent + restarts.helper < MaxRestarts
    /\ restarts' = [restarts EXCEPT !.helper = @ + 1]
    /\ feed' = [seq |-> 0, kept |-> << >>]
    /\ tail' = [tail EXCEPT !.answer = NoAnswer]
    /\ calls' = [c \in Calls |-> [calls[c] EXCEPT !.pc = IF @ = "idle" THEN @ ELSE "done"]]
    /\ UNCHANGED <<deployment, gateway, origin, acted, pending, missed, mcpFaults, storeVars>>

\* What a call does by itself.
Run(c) ==
    \/ Announce(c) \/ CreateApproval(c) \/ Polled(c) \/ GiveUp(c) \/ Decided(c) \/ Unavailable(c)
    \/ Check(c) \/ Mint(c) \/ Act(c) \/ AskAccess(c) \/ AnnounceAsk(c)

McpNext ==
    \/ \E c \in Calls : CallTool(c) \/ Run(c) \/ PollingFails(c) \/ Decide(c)
    \/ ServeNotices \/ Receive \/ PollFails
    \/ Administer \/ RewriteOrigin \/ RestartAgent \/ RestartHelper

\* A call runs on and gives up at its deadline; the tailer polls for as long as it lives.
Fairness ==
    /\ \A c \in Calls : WF_mcpVars(Run(c))
    /\ WF_mcpVars(ServeNotices) /\ WF_mcpVars(Receive)

McpSpec == McpInit /\ [][McpNext]_mcpVars /\ Fairness

-----------------------------------------------------------------------------
\* Calls whose wait is announced and whose end is not.
Waiting == {c \in Calls : Tool(c) = "gated" /\ calls[c].pc \in {"create", "poll", "decided", "unavailable"}}

\* A call reaches outside only where a person let it: what the approval was for,
\* after the gateway itself said APPROVED, or a repository that was on the allow list
\* when the call asked - and it is that repository it reaches, although the agent may
\* rewrite the clone between the check and the push (callTool, callGitClone, callGitPush).
EffectsAreGranted ==
    \A c \in Calls : acted[c] # Nothing =>
        \/ gateway[c] = "APPROVED" /\ acted[c] = calls[c].target
        \/ deployment.list /\ NormalizeRepo(acted[c]) \in calls[c].list

\* When the tailer has read up to the feed's last notice, the agent waits for
\* calls that really wait, and for all of them unless the ring evicted a notice unread
\* (publish, since and observe agree on the cursor, the drop count and the set).
CaughtUpIsExact ==
    (restarts.helper = 0 /\ tail.after = feed.seq) =>
        /\ pending \subseteq Waiting
        /\ missed \/ pending = Waiting

\* A wait whose call has ended is let go of in the end: by its decision, by the
\* notice that the gateway could not be asked, or by the count of lost notices, for as
\* long as the helper's process lives (observe, and the notices of callTool's error path).
WaitsAreLetGo ==
    \A c \in Calls : (c \in pending /\ c \notin Waiting) ~> (c \notin pending \/ restarts.helper > 0)

\* The same whatever happens to the helper: observe clears the set because a lost
\* decision "would otherwise hold this session's lastAccess forever and its pod with it".
NoWaitIsHeldForever == \A c \in Calls : (c \in pending /\ c \notin Waiting) ~> c \notin pending
=============================================================================
