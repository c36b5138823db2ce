------------------------------ MODULE PodSpecs ------------------------------
(***************************************************************************)
(* The pods of a session as the orchestrator renders them                  *)
(* (control-plane/internal/adapter/k8s: buildPod, helperPodSpec and the    *)
(* helpers of each workload type), reduced to what ties them together: the *)
(* ports a container serves, the ports the workload is pointed at, the     *)
(* volume claims a pod cannot start without, and who holds a credential.   *)
(*                                                                         *)
(* A port is <<where, service>>: "pod" is the pod's own loopback, "helper" *)
(* the address of its round's helper pod.                                  *)
(***************************************************************************)
EXTENDS Naturals

Types == {"shell", "claude-code", "approval-gated", "minimax-code", "codex-chat", "codex-task"}

\* The deployment: a ReadWriteMany class, a repository access service, and
\* whether claude-code signs in to a subscription.
Configs == [shared: BOOLEAN, repo: BOOLEAN, subscription: BOOLEAN]

HasApprovalGate(t) == t \in {"approval-gated", "minimax-code"}

\* AuthPoolFor: the types that sign in on a slot of a pool.
TakesSlot(t, c) == t = "codex-task" \/ (t = "claude-code" /\ c.subscription)

Container(serves, holds) == [serves |-> serves, holds |-> holds]

SharedClaim(t, c) == IF HasApprovalGate(t) /\ c.shared THEN {"shared"} ELSE {}

-----------------------------------------------------------------------------
\* The workload pod.

\* Where the workload container is told to find its services.
Dials(t, c) ==
    CASE t = "claude-code" /\ ~c.subscription -> {<<"pod", "provider">>}
      [] t = "approval-gated"                 -> {<<"helper", "provider">>, <<"helper", "mcp">>}
      [] t = "minimax-code" -> {<<"helper", "provider">>, <<"helper", "mcp">>, <<"helper", "k3s">>}
      [] t \in {"codex-chat", "codex-task"}   -> {<<"pod", "k3s">>}
      [] OTHER                                -> {}

AgentContainer(t, c) ==
    Container({"agent"}, (IF t = "claude-code" THEN {"k3s"} ELSE {})
                         \cup (IF TakesSlot(t, c) THEN {"login"} ELSE {}))

Sidecars(t, c) ==
    CASE t = "claude-code" /\ ~c.subscription -> {Container({"provider"}, {"provider"})}
      [] t \in {"codex-chat", "codex-task"}   -> {Container({"k3s"}, {"k3s"})}
      [] OTHER                                -> {}

WorkloadPod(t, c) ==
    [containers |-> {AgentContainer(t, c)} \cup Sidecars(t, c),
     claims     |-> SharedClaim(t, c) \cup (IF TakesSlot(t, c) THEN {"slot"} ELSE {})]

-----------------------------------------------------------------------------
\* The helper pod of a type behind the approval gate.

MCPContainer(c) == Container({"mcp"}, {"gateway"} \cup (IF c.repo THEN {"repo"} ELSE {}))

HelperProxyContainers(t, c) ==
    {Container({"provider"}, {"provider"})}
      \cup (IF t = "minimax-code" \/ c.repo THEN {Container({"k3s"}, {"k3s"})} ELSE {})

HelperPod(t, c) ==
    [containers |-> {MCPContainer(c)} \cup HelperProxyContainers(t, c), claims |-> SharedClaim(t, c)]

\* Mutation: every helper has the same two ports.
TwoHelperPorts(t) == {"provider", "mcp"}

\* The helper's ports that the session's two policies let through.
HelperPolicyPorts(t) == {"provider", "mcp"} \cup (IF t = "minimax-code" THEN {"k3s"} ELSE {})

-----------------------------------------------------------------------------
Serves(pod) == UNION {x.serves : x \in pod.containers}

\* What t's workload is pointed at is served by its own pod, or by the helper of
\* its round and let through by both policies; and of a type behind the gate the
\* container that runs the model holds no credential of the platform.
Connected(t, c) ==
    /\ \A d \in Dials(t, c) :
         CASE d[1] = "pod"    -> d[2] \in Serves(WorkloadPod(t, c))
           [] d[1] = "helper" -> /\ HasApprovalGate(t)
                                 /\ d[2] \in Serves(HelperPod(t, c)) \cap HelperPolicyPorts(t)
    /\ HasApprovalGate(t) => AgentContainer(t, c).holds = {}
=============================================================================
