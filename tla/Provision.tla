----------------------------- MODULE Provision ------------------------------
(***************************************************************************)
(* How the orchestrator brings a session's pods up and takes them down     *)
(* (client_orchestrator.go, network_policy.go and shared_volume.go of      *)
(* control-plane/internal/adapter/k8s) against a cluster that deletes in   *)
(* its own time.                                                           *)
(*                                                                         *)
(* Round 1 is the fresh start of a session, every later round a restore.   *)
(* The helper pod comes first; it owns the round's volume claim and the    *)
(* two network policies, which are made before anyone waits for it; the    *)
(* workload pod comes last.  Objects are known by name, and the cluster's  *)
(* garbage collector goes by the owner's identity: here the round.         *)
(***************************************************************************)
EXTENDS PodSpecs, FiniteSets

CONSTANTS MaxRounds,  \* bound on the rounds of the session
          MaxFaults,  \* bound on failed, timed-out and lost requests
          Lossy       \* TRUE: a create may take effect and report an error

ASSUME ProvisionAssumption == MaxRounds \in Nat \ {0} /\ MaxFaults \in Nat /\ Lossy \in BOOLEAN

VARIABLES
    type, config, \* the session's workload type, the deployment
    pc,           \* where each round is
    pods,         \* the pods by kind and name: their phase and the round that made them
    owned,        \* the claim and the policies by kind and name: the owning round
    leaked,       \* rounds of which a delete failed or a create was lost
    faults

vars == <<type, config, pc, pods, owned, leaked, faults>>

Rounds  == 1 .. MaxRounds
PodKinds   == {"helper", "workload"}
OwnedKinds == {"claim", "egress", "ingress"}
Nobody  == 0
NoPod   == [phase |-> "absent", uid |-> Nobody]
Steps   == {"idle", "helper", "claim", "egress", "ingress", "helperWait", "build", "workload", "workloadWait",
            "kept", "stopWorkload", "stopHelper", "stopped", "cleanWorkload", "cleanHelper", "failed"}

TypeOK ==
    /\ type \in Types /\ config \in Configs
    /\ pc \in [Rounds -> Steps]
    /\ pods \in [PodKinds \X Rounds -> [phase: {"absent", "pending", "ready", "deleting"}, uid: Rounds \cup {Nobody}]]
    /\ owned \in [OwnedKinds \X Rounds -> Rounds \cup {Nobody}]
    /\ leaked \subseteq Rounds /\ faults \in 0 .. MaxFaults

Init ==
    /\ type \in Types /\ config \in Configs
    /\ pc = [r \in Rounds |-> "idle"]
    /\ pods = [x \in PodKinds \X Rounds |-> NoPod]
    /\ owned = [x \in OwnedKinds \X Rounds |-> Nobody]
    /\ leaked = {} /\ faults = 0

Fault == faults < MaxFaults /\ faults' = faults + 1

Gated == HasApprovalGate(type)
Go(r, step) == pc' = [pc EXCEPT ![r] = step]

\* A restore's suffix makes its names its own.
NameOf(r) == r

Helper(r)   == <<"helper", NameOf(r)>>
Workload(r) == <<"workload", NameOf(r)>>

-----------------------------------------------------------------------------
\* The cluster.

\* A pod starts once every claim it mounts exists; the slots' claims always do.
BecomesReady(x) ==
    LET spec == IF x[1] = "helper" THEN HelperPod(type, config) ELSE WorkloadPod(type, config)
    IN  /\ pods[x].phase = "pending"
        /\ "shared" \in spec.claims => owned[<<"claim", x[2]>>] # Nobody
        /\ pods' = [pods EXCEPT ![x].phase = "ready"]
        /\ UNCHANGED <<type, config, pc, owned, leaked, faults>>

Terminated(x) ==
    /\ pods[x].phase = "deleting"
    /\ pods' = [pods EXCEPT ![x] = NoPod]
    /\ UNCHANGED <<type, config, pc, owned, leaked, faults>>

\* What a helper pod owned goes after it; a claim in use waits for its pods.
Collected(y) ==
    /\ owned[y] # Nobody
    /\ \A n \in Rounds : pods[<<"helper", n>>].uid # owned[y]
    /\ y[1] = "claim" => pods[<<"workload", y[2]>>] = NoPod
    /\ owned' = [owned EXCEPT ![y] = Nobody]
    /\ UNCHANGED <<type, config, pc, pods, leaked, faults>>

-----------------------------------------------------------------------------
\* One round of startSet.

\* The pods of the round before may still be terminating.
StartSet(r) ==
    /\ pc[r] = "idle" /\ (r > 1 => pc[r - 1] \in {"stopped", "failed"})
    /\ \/ Go(r, IF Gated THEN "helper" ELSE "build") /\ UNCHANGED faults
       \/ Fault /\ Go(r, "failed")
    /\ UNCHANGED <<type, config, pods, owned, leaked>>

\* provision's create.  Whatever it reports as an error the round never cleans up.
Create(r, x, next, failed) ==
    /\ \/ /\ pods[x] = NoPod
          /\ pods' = [pods EXCEPT ![x] = [phase |-> "pending", uid |-> r]]
          /\ Go(r, next) /\ UNCHANGED <<leaked, faults>>
       \/ pods[x] # NoPod /\ Go(r, failed) /\ UNCHANGED <<pods, leaked, faults>>
       \/ Fault /\ Go(r, failed) /\ UNCHANGED <<pods, leaked>>
       \/ /\ Lossy /\ pods[x] = NoPod /\ Fault /\ Go(r, failed)
          /\ pods' = [pods EXCEPT ![x] = [phase |-> "pending", uid |-> r]]
          /\ leaked' = leaked \cup {r}
    /\ UNCHANGED <<type, config, owned>>

CreateHelper(r) == pc[r] = "helper" /\ Create(r, Helper(r), "claim", "failed")

\* An object of that name that exists already is left alone.
Apply(r, kind, next) ==
    LET y == <<kind, NameOf(r)>>
    IN  /\ \/ /\ owned' = IF owned[y] = Nobody THEN [owned EXCEPT ![y] = r] ELSE owned
              /\ Go(r, next) /\ UNCHANGED faults
           \/ Fault /\ Go(r, "cleanHelper") /\ UNCHANGED owned
        /\ UNCHANGED <<type, config, pods, leaked>>

ApplySharedVolumeClaim(r) ==
    /\ pc[r] = "claim"
    /\ \/ config.shared /\ Apply(r, "claim", "egress")
       \/ ~config.shared /\ Go(r, "egress") /\ UNCHANGED <<type, config, pods, owned, leaked, faults>>

ApplySessionNetworkPolicies(r) ==
    \/ pc[r] = "egress" /\ Apply(r, "egress", "ingress")
    \/ pc[r] = "ingress" /\ Apply(r, "ingress", "helperWait")

\* waitReady, and the check that a ready helper has an address.
WaitHelper(r) ==
    /\ pc[r] = "helperWait"
    /\ \/ pods[Helper(r)].phase = "ready" /\ Go(r, "build") /\ UNCHANGED faults
       \/ Fault /\ Go(r, "cleanHelper")
    /\ UNCHANGED <<type, config, pods, owned, leaked>>

\* Mutation: a workload that fails leaves its helper.
FailKeepingHelper(r) == "failed"

\* Where a round goes when its workload pod cannot be had.
Fail(r) == IF Gated THEN "cleanHelper" ELSE "failed"

BuildPod(r) ==
    /\ pc[r] = "build"
    /\ \/ Go(r, "workload") /\ UNCHANGED faults
       \/ Fault /\ Go(r, Fail(r))
    /\ UNCHANGED <<type, config, pods, owned, leaked>>

CreateWorkload(r) == pc[r] = "workload" /\ Create(r, Workload(r), "workloadWait", Fail(r))

WaitWorkload(r) ==
    /\ pc[r] = "workloadWait"
    /\ \/ pods[Workload(r)].phase = "ready" /\ Go(r, "kept") /\ UNCHANGED faults
       \/ Fault /\ Go(r, "cleanWorkload")
    /\ UNCHANGED <<type, config, pods, owned, leaked>>

-----------------------------------------------------------------------------
\* Deleting.

\* stopOne: a pod that is not there is one that has been reclaimed.
Deleted(x) == IF pods[x] = NoPod THEN pods ELSE [pods EXCEPT ![x].phase = "deleting"]

\* cleanup ignores the error.
Cleanup(r) ==
    \E k \in PodKinds :
      LET x == <<k, NameOf(r)>> IN
      /\ pc[r] = (IF k = "workload" THEN "cleanWorkload" ELSE "cleanHelper")
      /\ Go(r, IF k = "workload" THEN Fail(r) ELSE "failed")
      /\ \/ pods' = Deleted(x) /\ UNCHANGED <<leaked, faults>>
         \/ Fault /\ leaked' = leaked \cup {r} /\ UNCHANGED pods
      /\ UNCHANGED <<type, config, owned>>

\* Mutation: the helper goes first.
StopHelperFirst(r) ==
    /\ \/ /\ pc[r] = "kept" /\ Go(r, "stopHelper") /\ UNCHANGED <<pods, faults>>
       \/ /\ pc[r] = "stopHelper"
          /\ \/ Go(r, "stopWorkload") /\ pods' = Deleted(Helper(r)) /\ UNCHANGED faults
             \/ Fault /\ Go(r, "kept") /\ UNCHANGED pods
       \/ /\ pc[r] = "stopWorkload"
          /\ \/ Go(r, "stopped") /\ pods' = Deleted(Workload(r)) /\ UNCHANGED faults
             \/ Fault /\ Go(r, "kept") /\ UNCHANGED pods
    /\ UNCHANGED <<type, config, owned, leaked>>

\* The service stops a set it was given, the workload first and up to the first
\* error; it calls again after one.
Stop(r) ==
    /\ \/ /\ pc[r] = "kept" /\ Go(r, "stopWorkload") /\ UNCHANGED <<pods, faults>>
       \/ /\ pc[r] = "stopWorkload"
          /\ \/ Go(r, IF Gated THEN "stopHelper" ELSE "stopped") /\ pods' = Deleted(Workload(r)) /\ UNCHANGED faults
             \/ Fault /\ Go(r, "kept") /\ UNCHANGED pods
       \/ /\ pc[r] = "stopHelper"
          /\ \/ Go(r, "stopped") /\ pods' = Deleted(Helper(r)) /\ UNCHANGED faults
             \/ Fault /\ Go(r, "kept") /\ UNCHANGED pods
    /\ UNCHANGED <<type, config, owned, leaked>>

Next ==
    \/ \E x \in PodKinds \X Rounds : BecomesReady(x) \/ Terminated(x)
    \/ \E y \in OwnedKinds \X Rounds : Collected(y)
    \/ \E r \in Rounds :
         \/ StartSet(r) \/ CreateHelper(r) \/ ApplySharedVolumeClaim(r) \/ ApplySessionNetworkPolicies(r)
         \/ WaitHelper(r) \/ BuildPod(r) \/ CreateWorkload(r) \/ WaitWorkload(r)
         \/ Cleanup(r) \/ Stop(r)

\* The kubelet ends what is being deleted and the collector follows.
Spec ==
    /\ Init /\ [][Next]_vars
    /\ \A x \in PodKinds \X Rounds : WF_vars(Terminated(x))
    /\ \A y \in OwnedKinds \X Rounds : WF_vars(Collected(y))

-----------------------------------------------------------------------------
\* The rounds whose workload pod the service has, or still may be given.
InService(r) == pc[r] \in {"workloadWait", "kept", "stopWorkload"}

\* While a round is brought up or in service, a workload pod of it that nobody
\* deleted has its helper, its claim and both halves of its network boundary,
\* although the objects of the round before are being collected and a stop may
\* fail half way; and every port it was given is served, and let through by that
\* boundary.
BoundaryInService ==
    \A r \in Rounds :
      LET pod == pods[Workload(r)] IN
      InService(r) /\ pod.uid = r /\ pod.phase \in {"pending", "ready"} =>
        /\ Connected(type, config)
        /\ Gated =>
             /\ pods[Helper(r)].uid = r /\ pods[Helper(r)].phase # "deleting"
             /\ owned[<<"egress", NameOf(r)>>] = r /\ owned[<<"ingress", NameOf(r)>>] = r
             /\ config.shared => owned[<<"claim", NameOf(r)>>] = r

\* A round that failed leaves no pod, claim or policy behind, wherever it failed,
\* unless a delete failed as well or a create that reported an error took effect.
FailedRoundIsReclaimed ==
    \A r \in Rounds :
      (pc[r] = "failed" /\ r \notin leaked) ~>
        (/\ \A x \in PodKinds \X Rounds : pods[x].uid # r
         /\ \A y \in OwnedKinds \X Rounds : owned[y] # r)
=============================================================================
