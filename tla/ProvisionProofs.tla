--------------------------- MODULE ProvisionProofs ---------------------------
(***************************************************************************)
(* Proofs that a workload pod in service stands behind its own helper,     *)
(* claim and network policies, for any number of rounds and failed         *)
(* requests, lossy creates included, every workload type and deployment;   *)
(* and, of what runs in the helper pod, that its calls reach only what was *)
(* granted and that the reader of its notices, once caught up, knows which *)
(* calls wait.                                                             *)
(***************************************************************************)
EXTENDS Provision, SessionMCP, SequenceTheorems, WellFoundedInduction, TLAPS

\* Rounds that have their helper pod, and how far their boundary has come.
WithIngress == {"helperWait", "build", "workload", "workloadWait", "kept", "stopWorkload", "stopHelper"}
WithEgress  == {"ingress"} \cup WithIngress
WithClaim   == {"egress"} \cup WithEgress
WithHelper  == {"claim"} \cup WithClaim

\* Whatever bears a round's name was made by that round.
NameInv ==
    /\ \A k \in PodKinds, r \in Rounds : pods[<<k, r>>].uid \in {r, Nobody}
    /\ \A k \in PodKinds, r \in Rounds : pods[<<k, r>>].uid = Nobody => pods[<<k, r>>] = NoPod
    /\ \A k \in OwnedKinds, r \in Rounds : owned[<<k, r>>] \in {r, Nobody}

\* A round's helper is there, and nobody deletes it, from its creation to its own stop.
HelperInv ==
    Gated => \A r \in Rounds : pc[r] \in WithHelper =>
                 pods[<<"helper", r>>].uid = r /\ pods[<<"helper", r>>].phase # "deleting"

\* What the helper owns is there from the step that made it, since it lives.
OwnedInv ==
    Gated => \A r \in Rounds :
        /\ pc[r] \in WithClaim /\ config.shared = TRUE => owned[<<"claim", r>>] = r
        /\ pc[r] \in WithEgress => owned[<<"egress", r>>] = r
        /\ pc[r] \in WithIngress => owned[<<"ingress", r>>] = r

\* What the cluster knows of a pod.
PodStates == [phase: {"absent", "pending", "ready", "deleting"}, uid: Rounds \cup {Nobody}]

\* What round r's create of its pod of kind k comes to, however it ends.
Created(r, k, nx, fl) ==
    /\ pods' \in [PodKinds \X Rounds -> PodStates]
    /\ \A x \in PodKinds \X Rounds : x # <<k, r>> => pods'[x] = pods[x]
    /\ \/ pods[<<k, r>>] = NoPod /\ pods'[<<k, r>>] = [phase |-> "pending", uid |-> r]
       \/ pods'[<<k, r>>] = pods[<<k, r>>]
    /\ \/ pods'[<<k, r>>] = [phase |-> "pending", uid |-> r] /\ pc' = [pc EXCEPT ![r] = nx]
       \/ pc' = [pc EXCEPT ![r] = fl]
    /\ leaked' \subseteq Rounds /\ faults' \in 0 .. MaxFaults

\* What applying round r's claim or policy comes to.
Applied(r, kind, nx) ==
    /\ owned' \in [OwnedKinds \X Rounds -> Rounds \cup {Nobody}]
    /\ \A y \in OwnedKinds \X Rounds :
         owned'[y] = owned[y] \/ (y = <<kind, r>> /\ owned[y] = Nobody /\ owned'[y] = r)
    /\ \/ pc' = [pc EXCEPT ![r] = nx] /\ owned'[<<kind, r>>] # Nobody
       \/ pc' = [pc EXCEPT ![r] = "cleanHelper"]
    /\ faults' \in 0 .. MaxFaults

IInv == TypeOK /\ NameInv /\ HelperInv /\ OwnedInv

\* What a container of the pod serves, the pod serves.
LEMMA ContainerServes == ASSUME NEW pod, NEW x \in pod.containers, NEW p \in x.serves PROVE p \in Serves(pod)
  BY DEF Serves

\* Whatever workload type in whatever deployment: the ports its pod is pointed at are
\* served and let through, and behind the gate it holds no credential of the platform.
THEOREM EveryTypeIsConnected == \A t \in Types, c \in Configs : Connected(t, c)
<1> SUFFICES ASSUME NEW t \in Types, NEW c \in Configs PROVE Connected(t, c)
  OBVIOUS
<1>1. c.subscription \in BOOLEAN /\ c.repo \in BOOLEAN
  BY DEF Configs
<1>2. CASE t = "shell"
  BY <1>2 DEF Connected, Dials, HasApprovalGate
<1>3. CASE t = "claude-code"
  <2>1. CASE c.subscription = TRUE
    BY <1>3, <2>1 DEF Connected, Dials, HasApprovalGate
  <2>2. CASE c.subscription = FALSE
    <3>1. Container({"provider"}, {"provider"}) \in WorkloadPod(t, c).containers
      BY <1>3, <2>2 DEF WorkloadPod, Sidecars
    <3>2. "provider" \in Serves(WorkloadPod(t, c))
      BY <3>1, ContainerServes DEF Container
    <3>3. Dials(t, c) = {<<"pod", "provider">>}
      BY <1>3, <2>2 DEF Dials
    <3>4. ~HasApprovalGate(t)
      BY <1>3 DEF HasApprovalGate
    <3>5. QED
      BY <3>2, <3>3, <3>4 DEF Connected
  <2>3. QED
    BY <1>1, <2>1, <2>2
<1>4. CASE t \in {"codex-chat", "codex-task"}
  <2>1. Container({"k3s"}, {"k3s"}) \in WorkloadPod(t, c).containers
    BY <1>4 DEF WorkloadPod, Sidecars
  <2>2. "k3s" \in Serves(WorkloadPod(t, c))
    BY <2>1, ContainerServes DEF Container
  <2>3. Dials(t, c) = {<<"pod", "k3s">>}
    BY <1>4 DEF Dials
  <2>4. QED
    BY <1>4, <2>2, <2>3 DEF Connected, HasApprovalGate
<1>5. CASE t \in {"approval-gated", "minimax-code"}
  <2>1. MCPContainer(c) \in HelperPod(t, c).containers
    BY DEF HelperPod
  <2>2. Container({"provider"}, {"provider"}) \in HelperPod(t, c).containers
    BY DEF HelperPod, HelperProxyContainers
  <2>3. "mcp" \in Serves(HelperPod(t, c)) /\ "provider" \in Serves(HelperPod(t, c))
    BY <2>1, <2>2, ContainerServes DEF Container, MCPContainer
  <2>4. AgentContainer(t, c).holds = {}
    BY <1>5 DEF AgentContainer, Container, TakesSlot
  <2>5. CASE t = "approval-gated"
    <3>1. Dials(t, c) = {<<"helper", "provider">>, <<"helper", "mcp">>}
      BY <2>5 DEF Dials
    <3>2. QED
      BY <1>5, <2>3, <2>4, <3>1 DEF Connected, HasApprovalGate, HelperPolicyPorts
  <2>6. CASE t = "minimax-code"
    <3>1. Container({"k3s"}, {"k3s"}) \in HelperPod(t, c).containers
      BY <2>6 DEF HelperPod, HelperProxyContainers
    <3>2. "k3s" \in Serves(HelperPod(t, c))
      BY <3>1, ContainerServes DEF Container
    <3>3. Dials(t, c) = {<<"helper", "provider">>, <<"helper", "mcp">>, <<"helper", "k3s">>}
      BY <2>6 DEF Dials
    <3>4. "k3s" \in HelperPolicyPorts(t)
      BY <2>6 DEF HelperPolicyPorts
    <3>5. QED
      BY <1>5, <2>3, <2>4, <3>2, <3>3, <3>4 DEF Connected, HasApprovalGate, HelperPolicyPorts
  <2>7. QED
    BY <1>5, <2>5, <2>6
<1>6. QED
  BY <1>2, <1>3, <1>4, <1>5 DEF Types

\* provision's create touches the pod of its own name only, and goes on only with it.
LEMMA CreateEffect ==
  ASSUME TypeOK, NEW k \in PodKinds, NEW r \in Rounds, NEW nx \in Steps, NEW fl \in Steps, Create(r, <<k, r>>, nx, fl)
  PROVE  Created(r, k, nx, fl)
<1> DEFINE new == [phase |-> "pending", uid |-> r]
<1>1. <<k, r>> \in PodKinds \X Rounds /\ new \in PodStates
  BY DEF PodStates
<1>2. pods \in [PodKinds \X Rounds -> PodStates]
  BY DEF TypeOK, PodStates
<1>3. \/ pods[<<k, r>>] = NoPod /\ pods' = [pods EXCEPT ![<<k, r>>] = new]
      \/ pods' = pods
  BY DEF Create
<1>4. pods' \in [PodKinds \X Rounds -> PodStates]
  BY <1>1, <1>2, <1>3
<1>5. \A x \in PodKinds \X Rounds : x # <<k, r>> => pods'[x] = pods[x]
  BY <1>1, <1>2, <1>3
<1>6. \/ pods[<<k, r>>] = NoPod /\ pods'[<<k, r>>] = new
      \/ pods'[<<k, r>>] = pods[<<k, r>>]
  BY <1>1, <1>2, <1>3
<1>7. \/ pods'[<<k, r>>] = new /\ pc' = [pc EXCEPT ![r] = nx]
      \/ pc' = [pc EXCEPT ![r] = fl]
  BY <1>1, <1>2 DEF Create, Go
<1>8. leaked' \subseteq Rounds
  BY DEF Create, TypeOK
<1>9. faults' \in 0 .. MaxFaults
  BY ProvisionAssumption DEF Create, TypeOK, Fault
<1> HIDE DEF new
<1>10. QED
  BY <1>4, <1>5, <1>6, <1>7, <1>8, <1>9 DEF new, Created

\* applying a claim or a policy touches the object of its own name only, and goes on
\* only when there is one.
LEMMA ApplyEffect ==
  ASSUME TypeOK, NEW kind \in OwnedKinds, NEW r \in Rounds, NEW next \in Steps, Apply(r, kind, next)
  PROVE  Applied(r, kind, next)
<1>1. <<kind, r>> \in OwnedKinds \X Rounds
  OBVIOUS
<1>2. owned \in [OwnedKinds \X Rounds -> Rounds \cup {Nobody}]
  BY DEF TypeOK
<1>3. \/ owned[<<kind, r>>] = Nobody /\ owned' = [owned EXCEPT ![<<kind, r>>] = r] /\ pc' = [pc EXCEPT ![r] = next]
      \/ owned[<<kind, r>>] # Nobody /\ owned' = owned /\ pc' = [pc EXCEPT ![r] = next]
      \/ owned' = owned /\ pc' = [pc EXCEPT ![r] = "cleanHelper"]
  BY DEF Apply, NameOf, Go
<1>4. faults' \in 0 .. MaxFaults
  BY ProvisionAssumption DEF Apply, TypeOK, Fault
<1>5. r # Nobody
  BY ProvisionAssumption DEF Rounds, Nobody
<1>6. QED
  BY <1>1, <1>2, <1>3, <1>4, <1>5 DEF Applied

\* A delete marks the one pod, if there is one.
LEMMA DeletedEffect ==
  ASSUME TypeOK, NEW x \in PodKinds \X Rounds, pods' = Deleted(x)
  PROVE  /\ pods' \in [PodKinds \X Rounds -> PodStates]
         /\ \A y \in PodKinds \X Rounds : y # x => pods'[y] = pods[y]
         /\ pods'[x].uid = pods[x].uid
         /\ pods[x] = NoPod => pods'[x] = NoPod
<1>1. pods \in [PodKinds \X Rounds -> PodStates]
  BY DEF TypeOK, PodStates
<1>2. pods[x] \in PodStates
  BY <1>1
<1>3. [pods[x] EXCEPT !.phase = "deleting"] \in PodStates /\ [pods[x] EXCEPT !.phase = "deleting"].uid = pods[x].uid
  BY <1>2 DEF PodStates
<1>4. pods' = pods \/ (pods[x] # NoPod /\ pods' = [pods EXCEPT ![x] = [pods[x] EXCEPT !.phase = "deleting"]])
  BY DEF Deleted
<1>5. QED
  BY <1>1, <1>3, <1>4

\* A delete leaves the names with the rounds that took them.
LEMMA DeleteKeepsNames ==
  ASSUME TypeOK, NameInv, NEW x \in PodKinds \X Rounds, pods' = Deleted(x), owned' = owned
  PROVE  NameInv'
<1>1. /\ \A y \in PodKinds \X Rounds : y # x => pods'[y] = pods[y]
      /\ pods'[x].uid = pods[x].uid
      /\ pods[x] = NoPod => pods'[x] = NoPod
  BY DeletedEffect
<1>2. ASSUME NEW k \in PodKinds, NEW n \in Rounds
      PROVE  pods'[<<k, n>>].uid \in {n, Nobody} /\ (pods'[<<k, n>>].uid = Nobody => pods'[<<k, n>>] = NoPod)
  BY <1>1, <<k, n>> \in PodKinds \X Rounds DEF NameInv
<1>3. QED
  BY <1>2 DEF NameInv

\* Every step keeps the variables in their types.
LEMMA TypeStep == ASSUME IInv, [Next]_vars PROVE TypeOK'
<1> USE ProvisionAssumption DEF TypeOK, IInv, Fault, Go, NameOf, Helper, Workload, PodKinds,
    OwnedKinds, Nobody, NoPod, Rounds, Steps
<1>1. ASSUME NEW x \in PodKinds \X Rounds, BecomesReady(x) PROVE TypeOK'
  <2>1. pods' \in [PodKinds \X Rounds -> PodStates]
    <3> HIDE DEF Rounds, Steps, PodKinds, OwnedKinds, Nobody, NoPod
    <3>1. QED  BY <1>1 DEF BecomesReady, PodStates
  <2>2. UNCHANGED <<type, config, pc, owned, leaked, faults>>
    BY <1>1 DEF BecomesReady
  <2>3. QED
    <3> HIDE DEF Rounds, Steps, PodKinds, OwnedKinds, Nobody, NoPod
    <3>1. QED  BY <2>1, <2>2 DEF PodStates
<1>2. ASSUME NEW x \in PodKinds \X Rounds, Terminated(x) PROVE TypeOK'
  BY <1>2 DEF Terminated
<1>3. ASSUME NEW y \in OwnedKinds \X Rounds, Collected(y) PROVE TypeOK'
  BY <1>3 DEF Collected
<1>4. ASSUME NEW r \in Rounds, StartSet(r) PROVE TypeOK'
  BY <1>4 DEF StartSet
<1>5. ASSUME NEW r \in Rounds, CreateHelper(r) PROVE TypeOK'
  <2>1. "helper" \in PodKinds /\ "claim" \in Steps /\ "failed" \in Steps
    BY DEF PodKinds, Steps, Fail
  <2>2. pc[r] = "helper" /\ Create(r, <<"helper", r>>, "claim", "failed")
    BY <1>5 DEF CreateHelper
  <2> HIDE DEF TypeOK, IInv, NoPod, Rounds, Steps, PodKinds, OwnedKinds, Nobody
  <2>3. Created(r, "helper", "claim", "failed")
    BY <2>1, <2>2, CreateEffect, Zenon DEF IInv
  <2>4. UNCHANGED <<type, config, owned>>
    BY <2>2 DEF Create
  <2>5. pc' \in [Rounds -> Steps]
    BY <2>1, <2>3 DEF TypeOK, IInv, Created
  <2>6. QED
    BY <2>3, <2>4, <2>5 DEF TypeOK, IInv, PodStates, Created
<1>6. ASSUME NEW r \in Rounds, ApplySharedVolumeClaim(r) PROVE TypeOK'
  <2>1. CASE config.shared /\ Apply(r, "claim", "egress")
    <3>1. "claim" \in OwnedKinds /\ "egress" \in Steps /\ "cleanHelper" \in Steps
      BY DEF OwnedKinds, Steps
    <3> HIDE DEF TypeOK, IInv, NoPod, Rounds, Steps, PodKinds, OwnedKinds, Nobody
    <3>2. Applied(r, "claim", "egress")
      BY <2>1, <3>1, ApplyEffect, Zenon DEF IInv
    <3>3. UNCHANGED <<type, config, pods, leaked>>
      BY <2>1 DEF Apply
    <3>4. pc' \in [Rounds -> Steps]
      BY <3>1, <3>2 DEF TypeOK, IInv, Applied
    <3>5. QED
      BY <3>2, <3>3, <3>4 DEF TypeOK, IInv, Applied
  <2>2. CASE ~config.shared /\ Go(r, "egress") /\ UNCHANGED <<type, config, pods, owned, leaked, faults>>
    BY <2>2
  <2>3. QED
    BY <1>6, <2>1, <2>2 DEF ApplySharedVolumeClaim
<1>7. ASSUME NEW r \in Rounds, ApplySessionNetworkPolicies(r) PROVE TypeOK'
  <2>1. CASE pc[r] = "egress" /\ Apply(r, "egress", "ingress")
    <3>1. "egress" \in OwnedKinds /\ "ingress" \in Steps /\ "cleanHelper" \in Steps
      BY DEF OwnedKinds, Steps
    <3> HIDE DEF TypeOK, IInv, NoPod, Rounds, Steps, PodKinds, OwnedKinds, Nobody
    <3>2. Applied(r, "egress", "ingress")
      BY <2>1, <3>1, ApplyEffect, Zenon DEF IInv
    <3>3. UNCHANGED <<type, config, pods, leaked>>
      BY <2>1 DEF Apply
    <3>4. pc' \in [Rounds -> Steps]
      BY <3>1, <3>2 DEF TypeOK, IInv, Applied
    <3>5. QED
      BY <3>2, <3>3, <3>4 DEF TypeOK, IInv, Applied
  <2>2. CASE pc[r] = "ingress" /\ Apply(r, "ingress", "helperWait")
    <3>1. "ingress" \in OwnedKinds /\ "helperWait" \in Steps /\ "cleanHelper" \in Steps
      BY DEF OwnedKinds, Steps
    <3> HIDE DEF TypeOK, IInv, NoPod, Rounds, Steps, PodKinds, OwnedKinds, Nobody
    <3>2. Applied(r, "ingress", "helperWait")
      BY <2>2, <3>1, ApplyEffect, Zenon DEF IInv
    <3>3. UNCHANGED <<type, config, pods, leaked>>
      BY <2>2 DEF Apply
    <3>4. pc' \in [Rounds -> Steps]
      BY <3>1, <3>2 DEF TypeOK, IInv, Applied
    <3>5. QED
      BY <3>2, <3>3, <3>4 DEF TypeOK, IInv, Applied
  <2>3. QED
    BY <1>7, <2>1, <2>2 DEF ApplySessionNetworkPolicies
<1>8. ASSUME NEW r \in Rounds, WaitHelper(r) PROVE TypeOK'
  <2>1. "build" \in Steps /\ "cleanHelper" \in Steps
    OBVIOUS
  <2>2. faults' \in 0 .. MaxFaults
    BY <1>8 DEF WaitHelper
  <2>3. UNCHANGED <<type, config, pods, owned, leaked>>
    BY <1>8 DEF WaitHelper
  <2> HIDE DEF Rounds, Steps, PodKinds, OwnedKinds, Nobody, NoPod
  <2>4. pc' = [pc EXCEPT ![r] = "build"] \/ pc' = [pc EXCEPT ![r] = "cleanHelper"]
    BY <1>8 DEF WaitHelper
  <2>5. pc' \in [Rounds -> Steps]
    BY <2>1, <2>4
  <2>6. QED
    BY <2>2, <2>3, <2>5
<1>9. ASSUME NEW r \in Rounds, BuildPod(r) PROVE TypeOK'
  <2>1. "workload" \in Steps /\ Fail(r) \in Steps
    BY DEF Fail
  <2>2. faults' \in 0 .. MaxFaults
    BY <1>9 DEF BuildPod
  <2>3. UNCHANGED <<type, config, pods, owned, leaked>>
    BY <1>9 DEF BuildPod
  <2> HIDE DEF Rounds, Steps, PodKinds, OwnedKinds, Nobody, NoPod
  <2>4. pc' = [pc EXCEPT ![r] = "workload"] \/ pc' = [pc EXCEPT ![r] = Fail(r)]
    BY <1>9 DEF BuildPod
  <2>5. pc' \in [Rounds -> Steps]
    BY <2>1, <2>4
  <2>6. QED
    BY <2>2, <2>3, <2>5
<1>10. ASSUME NEW r \in Rounds, CreateWorkload(r) PROVE TypeOK'
  <2>1. "workload" \in PodKinds /\ "workloadWait" \in Steps /\ Fail(r) \in Steps
    BY DEF PodKinds, Steps, Fail
  <2>2. pc[r] = "workload" /\ Create(r, <<"workload", r>>, "workloadWait", Fail(r))
    BY <1>10 DEF CreateWorkload
  <2> HIDE DEF TypeOK, IInv, NoPod, Rounds, Steps, PodKinds, OwnedKinds, Nobody
  <2>3. Created(r, "workload", "workloadWait", Fail(r))
    BY <2>1, <2>2, CreateEffect, Zenon DEF IInv
  <2>4. UNCHANGED <<type, config, owned>>
    BY <2>2 DEF Create
  <2>5. pc' \in [Rounds -> Steps]
    BY <2>1, <2>3 DEF TypeOK, IInv, Created
  <2>6. QED
    BY <2>3, <2>4, <2>5 DEF TypeOK, IInv, PodStates, Created
<1>11. ASSUME NEW r \in Rounds, WaitWorkload(r) PROVE TypeOK'
  BY <1>11 DEF WaitWorkload
<1>12. ASSUME NEW r \in Rounds, Cleanup(r) PROVE TypeOK'
  <2>1. PICK k \in PodKinds :
          /\ pc[r] = (IF k = "workload" THEN "cleanWorkload" ELSE "cleanHelper")
          /\ pc' = [pc EXCEPT ![r] = IF k = "workload" THEN Fail(r) ELSE "failed"]
          /\ \/ pods' = Deleted(<<k, r>>) /\ UNCHANGED <<leaked, faults>>
             \/ Fault /\ leaked' = leaked \cup {r} /\ UNCHANGED pods
          /\ UNCHANGED <<type, config, owned>>
    BY <1>12 DEF Cleanup
  <2> HIDE DEF TypeOK, IInv, NoPod, Rounds, Nobody, PodKinds, OwnedKinds, Fault
  <2>2. pods' \in [PodKinds \X Rounds -> PodStates]
    BY <2>1, <<k, r>> \in PodKinds \X Rounds, DeletedEffect DEF TypeOK, IInv, PodStates
  <2>3. pc' \in [Rounds -> Steps]
    BY <2>1 DEF TypeOK, IInv, Fail
  <2>4. leaked' \subseteq Rounds /\ faults' \in 0 .. MaxFaults
    BY <2>1 DEF TypeOK, IInv, Fault
  <2>5. QED
    BY <2>1, <2>2, <2>3, <2>4 DEF TypeOK, IInv, PodStates
<1>13. ASSUME NEW r \in Rounds, Stop(r) PROVE TypeOK'
  <2>1. /\ pods' \in {pods, Deleted(<<"workload", r>>), Deleted(<<"helper", r>>)}
        /\ UNCHANGED <<type, config, owned, leaked>>
    BY <1>13 DEF Stop
  <2>2. <<"workload", r>> \in PodKinds \X Rounds /\ <<"helper", r>> \in PodKinds \X Rounds
    OBVIOUS
  <2>3. pc' \in [Rounds -> Steps] /\ faults' \in 0 .. MaxFaults
    BY <1>13 DEF Stop
  <2> HIDE DEF TypeOK, IInv, NoPod, Rounds, Steps, PodKinds, OwnedKinds, Nobody
  <2>4. pods' \in [PodKinds \X Rounds -> PodStates]
    BY <2>1, <2>2, DeletedEffect DEF TypeOK, IInv, PodStates
  <2>5. QED
    BY <2>1, <2>3, <2>4 DEF TypeOK, IInv, PodStates
<1>14. CASE UNCHANGED vars
  BY <1>14 DEF vars
<1>15. QED
  BY <1>1, <1>2, <1>3, <1>4, <1>5, <1>6, <1>7, <1>8, <1>9, <1>10, <1>11, <1>12, <1>13, <1>14 DEF
      Next

\* A name is never taken by another round.
LEMMA NameStep == ASSUME IInv, [Next]_vars PROVE NameInv'
<1> USE ProvisionAssumption DEF TypeOK, IInv, Fault, Go, NameOf, Helper, Workload, PodKinds,
    OwnedKinds, Nobody, NoPod, Rounds, Steps, NameInv
<1>1. ASSUME NEW x \in PodKinds \X Rounds, BecomesReady(x) PROVE NameInv'
  BY <1>1 DEF BecomesReady
<1>2. ASSUME NEW x \in PodKinds \X Rounds, Terminated(x) PROVE NameInv'
  BY <1>2 DEF Terminated
<1>3. ASSUME NEW y \in OwnedKinds \X Rounds, Collected(y) PROVE NameInv'
  BY <1>3 DEF Collected
<1>4. ASSUME NEW r \in Rounds, StartSet(r) PROVE NameInv'
  BY <1>4 DEF StartSet
<1>5. ASSUME NEW r \in Rounds, CreateHelper(r) PROVE NameInv'
  <2>1. "helper" \in PodKinds /\ "claim" \in Steps /\ "failed" \in Steps
    BY DEF PodKinds, Steps, Fail
  <2>2. pc[r] = "helper" /\ Create(r, <<"helper", r>>, "claim", "failed")
    BY <1>5 DEF CreateHelper
  <2> HIDE DEF TypeOK, IInv, NoPod, Rounds, Steps, PodKinds, OwnedKinds, Nobody
  <2>3. Created(r, "helper", "claim", "failed")
    BY <2>1, <2>2, CreateEffect, Zenon DEF IInv
  <2>4. UNCHANGED <<type, config, owned>>
    BY <2>2 DEF Create
  <2>5. r # Nobody
    BY DEF Rounds, Nobody
  <2>6. ASSUME NEW j \in PodKinds, NEW n \in Rounds
        PROVE  pods'[<<j, n>>].uid \in {n, Nobody} /\ (pods'[<<j, n>>].uid = Nobody => pods'[<<j, n>>] = NoPod)
    BY <2>3, <2>5, <<j, n>> \in PodKinds \X Rounds DEF IInv, NameInv, Created
  <2>7. QED
    BY <2>4, <2>6 DEF IInv, NameInv
<1>6. ASSUME NEW r \in Rounds, ApplySharedVolumeClaim(r) PROVE NameInv'
  <2>1. CASE config.shared /\ Apply(r, "claim", "egress")
    <3>1. "claim" \in OwnedKinds /\ "egress" \in Steps /\ "cleanHelper" \in Steps
      BY DEF OwnedKinds, Steps
    <3> HIDE DEF TypeOK, IInv, NoPod, Rounds, Steps, PodKinds, OwnedKinds, Nobody
    <3>2. Applied(r, "claim", "egress")
      BY <2>1, <3>1, ApplyEffect, Zenon DEF IInv
    <3>3. UNCHANGED <<type, config, pods, leaked>>
      BY <2>1 DEF Apply
    <3>4. ASSUME NEW j \in OwnedKinds, NEW n \in Rounds PROVE owned'[<<j, n>>] \in {n, Nobody}
      BY <3>2, <<j, n>> \in OwnedKinds \X Rounds DEF IInv, NameInv, Applied
    <3>5. QED
      BY <3>3, <3>4 DEF IInv, NameInv
  <2>2. CASE ~config.shared /\ Go(r, "egress") /\ UNCHANGED <<type, config, pods, owned, leaked, faults>>
    BY <2>2
  <2>3. QED
    BY <1>6, <2>1, <2>2 DEF ApplySharedVolumeClaim
<1>7. ASSUME NEW r \in Rounds, ApplySessionNetworkPolicies(r) PROVE NameInv'
  <2>1. CASE pc[r] = "egress" /\ Apply(r, "egress", "ingress")
    <3>1. "egress" \in OwnedKinds /\ "ingress" \in Steps /\ "cleanHelper" \in Steps
      BY DEF OwnedKinds, Steps
    <3> HIDE DEF TypeOK, IInv, NoPod, Rounds, Steps, PodKinds, OwnedKinds, Nobody
    <3>2. Applied(r, "egress", "ingress")
      BY <2>1, <3>1, ApplyEffect, Zenon DEF IInv
    <3>3. UNCHANGED <<type, config, pods, leaked>>
      BY <2>1 DEF Apply
    <3>4. ASSUME NEW j \in OwnedKinds, NEW n \in Rounds PROVE owned'[<<j, n>>] \in {n, Nobody}
      BY <3>2, <<j, n>> \in OwnedKinds \X Rounds DEF IInv, NameInv, Applied
    <3>5. QED
      BY <3>3, <3>4 DEF IInv, NameInv
  <2>2. CASE pc[r] = "ingress" /\ Apply(r, "ingress", "helperWait")
    <3>1. "ingress" \in OwnedKinds /\ "helperWait" \in Steps /\ "cleanHelper" \in Steps
      BY DEF OwnedKinds, Steps
    <3> HIDE DEF TypeOK, IInv, NoPod, Rounds, Steps, PodKinds, OwnedKinds, Nobody
    <3>2. Applied(r, "ingress", "helperWait")
      BY <2>2, <3>1, ApplyEffect, Zenon DEF IInv
    <3>3. UNCHANGED <<type, config, pods, leaked>>
      BY <2>2 DEF Apply
    <3>4. ASSUME NEW j \in OwnedKinds, NEW n \in Rounds PROVE owned'[<<j, n>>] \in {n, Nobody}
      BY <3>2, <<j, n>> \in OwnedKinds \X Rounds DEF IInv, NameInv, Applied
    <3>5. QED
      BY <3>3, <3>4 DEF IInv, NameInv
  <2>3. QED
    BY <1>7, <2>1, <2>2 DEF ApplySessionNetworkPolicies
<1>8. ASSUME NEW r \in Rounds, WaitHelper(r) PROVE NameInv'
  BY <1>8 DEF WaitHelper
<1>9. ASSUME NEW r \in Rounds, BuildPod(r) PROVE NameInv'
  BY <1>9 DEF BuildPod, Fail
<1>10. ASSUME NEW r \in Rounds, CreateWorkload(r) PROVE NameInv'
  <2>1. "workload" \in PodKinds /\ "workloadWait" \in Steps /\ Fail(r) \in Steps
    BY DEF PodKinds, Steps, Fail
  <2>2. pc[r] = "workload" /\ Create(r, <<"workload", r>>, "workloadWait", Fail(r))
    BY <1>10 DEF CreateWorkload
  <2> HIDE DEF TypeOK, IInv, NoPod, Rounds, Steps, PodKinds, OwnedKinds, Nobody
  <2>3. Created(r, "workload", "workloadWait", Fail(r))
    BY <2>1, <2>2, CreateEffect, Zenon DEF IInv
  <2>4. UNCHANGED <<type, config, owned>>
    BY <2>2 DEF Create
  <2>5. r # Nobody
    BY DEF Rounds, Nobody
  <2>6. ASSUME NEW j \in PodKinds, NEW n \in Rounds
        PROVE  pods'[<<j, n>>].uid \in {n, Nobody} /\ (pods'[<<j, n>>].uid = Nobody => pods'[<<j, n>>] = NoPod)
    BY <2>3, <2>5, <<j, n>> \in PodKinds \X Rounds DEF IInv, NameInv, Created
  <2>7. QED
    BY <2>4, <2>6 DEF IInv, NameInv
<1>11. ASSUME NEW r \in Rounds, WaitWorkload(r) PROVE NameInv'
  BY <1>11 DEF WaitWorkload
<1>12. ASSUME NEW r \in Rounds, Cleanup(r) PROVE NameInv'
  <2>1. PICK k \in PodKinds :
          /\ pc[r] = (IF k = "workload" THEN "cleanWorkload" ELSE "cleanHelper")
          /\ pc' = [pc EXCEPT ![r] = IF k = "workload" THEN Fail(r) ELSE "failed"]
          /\ \/ pods' = Deleted(<<k, r>>) /\ UNCHANGED <<leaked, faults>>
             \/ Fault /\ leaked' = leaked \cup {r} /\ UNCHANGED pods
          /\ UNCHANGED <<type, config, owned>>
    BY <1>12 DEF Cleanup
  <2> HIDE DEF TypeOK, IInv, NoPod, Rounds, Nobody, PodKinds, OwnedKinds, Fault
  <2>2. CASE pods' = Deleted(<<k, r>>)
    BY <2>1, <2>2, <<k, r>> \in PodKinds \X Rounds, DeleteKeepsNames DEF IInv
  <2>3. CASE pods' = pods
    BY <2>1, <2>3 DEF IInv, NameInv
  <2>4. QED
    BY <2>1, <2>2, <2>3
<1>13. ASSUME NEW r \in Rounds, Stop(r) PROVE NameInv'
  <2>1. /\ pods' \in {pods, Deleted(<<"workload", r>>), Deleted(<<"helper", r>>)}
        /\ UNCHANGED <<type, config, owned, leaked>>
    BY <1>13 DEF Stop
  <2>2. <<"workload", r>> \in PodKinds \X Rounds /\ <<"helper", r>> \in PodKinds \X Rounds
    OBVIOUS
  <2> HIDE DEF TypeOK, IInv, NoPod, Rounds, PodKinds, OwnedKinds, Nobody
  <2>3. CASE pods' = pods
    BY <2>1, <2>3 DEF IInv, NameInv
  <2>4. CASE pods' # pods
    BY <2>1, <2>2, <2>4, DeleteKeepsNames DEF IInv
  <2>5. QED
    BY <2>3, <2>4
<1>14. CASE UNCHANGED vars
  BY <1>14 DEF vars
<1>15. QED
  BY <1>1, <1>2, <1>3, <1>4, <1>5, <1>6, <1>7, <1>8, <1>9, <1>10, <1>11, <1>12, <1>13, <1>14 DEF
      Next

\* A helper goes only by the stop or the cleanup of its own round.
LEMMA HelperStep == ASSUME IInv, [Next]_vars PROVE HelperInv'
<1> USE ProvisionAssumption DEF TypeOK, IInv, Fault, Go, NameOf, Helper, Workload, PodKinds,
    OwnedKinds, Nobody, NoPod, Rounds, NameInv, HelperInv, Gated, WithHelper, WithClaim,
    WithEgress, WithIngress
<1>1. ASSUME NEW x \in PodKinds \X Rounds, BecomesReady(x) PROVE HelperInv'
  BY <1>1 DEF BecomesReady
<1>2. ASSUME NEW x \in PodKinds \X Rounds, Terminated(x) PROVE HelperInv'
  BY <1>2 DEF Terminated
<1>3. ASSUME NEW y \in OwnedKinds \X Rounds, Collected(y) PROVE HelperInv'
  BY <1>3 DEF Collected
<1>4. ASSUME NEW r \in Rounds, StartSet(r) PROVE HelperInv'
  BY <1>4 DEF StartSet
<1>5. ASSUME NEW r \in Rounds, CreateHelper(r) PROVE HelperInv'
  <2>1. "helper" \in PodKinds /\ "claim" \in Steps /\ "failed" \in Steps
    BY DEF PodKinds, Steps, Fail
  <2>2. pc[r] = "helper" /\ Create(r, <<"helper", r>>, "claim", "failed")
    BY <1>5 DEF CreateHelper
  <2> HIDE DEF TypeOK, IInv, NoPod, Rounds, Steps, PodKinds, OwnedKinds, Nobody
  <2>3. Created(r, "helper", "claim", "failed")
    BY <2>1, <2>2, CreateEffect, Zenon DEF IInv
  <2>4. UNCHANGED <<type, config, owned>>
    BY <2>2 DEF Create
  <2>5. "failed" \notin WithHelper /\ pc \in [Rounds -> Steps]
    BY DEF IInv, TypeOK
  <2> HIDE DEF WithHelper
  <2>6. ASSUME Gated, NEW n \in Rounds, pc'[n] \in WithHelper
        PROVE  pods'[<<"helper", n>>].uid = n /\ pods'[<<"helper", n>>].phase # "deleting"
    <3>1. CASE n = r
      BY <2>3, <2>5, <2>6, <3>1 DEF Created
    <3>2. CASE n # r
      BY <2>1, <2>3, <2>5, <2>6, <3>2 DEF IInv, HelperInv, Created
    <3>3. QED
      BY <3>1, <3>2
  <2>7. QED
    BY <2>4, <2>6 DEF HelperInv, Gated
<1>6. ASSUME NEW r \in Rounds, ApplySharedVolumeClaim(r) PROVE HelperInv'
  BY <1>6 DEF ApplySharedVolumeClaim, Apply
<1>7. ASSUME NEW r \in Rounds, ApplySessionNetworkPolicies(r) PROVE HelperInv'
  BY <1>7 DEF ApplySessionNetworkPolicies, Apply
<1>8. ASSUME NEW r \in Rounds, WaitHelper(r) PROVE HelperInv'
  BY <1>8 DEF WaitHelper
<1>9. ASSUME NEW r \in Rounds, BuildPod(r) PROVE HelperInv'
  BY <1>9 DEF BuildPod, Fail
<1>10. ASSUME NEW r \in Rounds, CreateWorkload(r) PROVE HelperInv'
  BY <1>10 DEF CreateWorkload, Create, Fail
<1>11. ASSUME NEW r \in Rounds, WaitWorkload(r) PROVE HelperInv'
  BY <1>11 DEF WaitWorkload
<1>12. ASSUME NEW r \in Rounds, Cleanup(r) PROVE HelperInv'
  BY <1>12 DEF Cleanup, Deleted, Fail
<1>13. ASSUME NEW r \in Rounds, Stop(r) PROVE HelperInv'
  BY <1>13 DEF Stop, Deleted
<1>14. CASE UNCHANGED vars
  BY <1>14 DEF vars
<1>15. QED
  BY <1>1, <1>2, <1>3, <1>4, <1>5, <1>6, <1>7, <1>8, <1>9, <1>10, <1>11, <1>12, <1>13, <1>14 DEF
      Next

\* What a living helper owns is not collected.
LEMMA OwnedStep == ASSUME IInv, [Next]_vars PROVE OwnedInv'
<1> USE ProvisionAssumption DEF TypeOK, IInv, Fault, Go, NameOf, Helper, Workload, PodKinds,
    OwnedKinds, Nobody, NoPod, Rounds, NameInv, HelperInv, OwnedInv, Gated, WithHelper,
    WithClaim, WithEgress, WithIngress
<1>1. ASSUME NEW x \in PodKinds \X Rounds, BecomesReady(x) PROVE OwnedInv'
  BY <1>1 DEF BecomesReady
<1>2. ASSUME NEW x \in PodKinds \X Rounds, Terminated(x) PROVE OwnedInv'
  BY <1>2 DEF Terminated
<1>3. ASSUME NEW y \in OwnedKinds \X Rounds, Collected(y) PROVE OwnedInv'
  <2>1. UNCHANGED <<type, config, pc, pods>> /\ owned' = [owned EXCEPT ![y] = Nobody]
    BY <1>3 DEF Collected
  <2>2. \A n \in Rounds : pods[<<"helper", n>>].uid # owned[y]
    BY <1>3 DEF Collected
  <2> HIDE DEF TypeOK, IInv, NoPod, Rounds, PodKinds, OwnedKinds, Nobody
  <2> HIDE DEF WithHelper, WithClaim, WithEgress, WithIngress
  <2>3. owned \in [OwnedKinds \X Rounds -> Rounds \cup {Nobody}]
    BY DEF IInv, TypeOK
  <2>4. ASSUME NEW k \in OwnedKinds, NEW n \in Rounds, owned[<<k, n>>] = n, pods[<<"helper", n>>].uid = n
        PROVE  owned'[<<k, n>>] = n
    BY <2>1, <2>2, <2>3, <2>4, <<k, n>> \in OwnedKinds \X Rounds
  <2>5. "claim" \in OwnedKinds /\ "egress" \in OwnedKinds /\ "ingress" \in OwnedKinds
    BY DEF OwnedKinds
  <2>6. \A n \in Rounds : pc[n] \in WithClaim \/ pc[n] \in WithEgress \/ pc[n] \in WithIngress => pc[n] \in WithHelper
    BY DEF WithHelper, WithClaim, WithEgress, WithIngress
  <2>7. ASSUME Gated, NEW n \in Rounds
        PROVE  /\ pc'[n] \in WithClaim /\ config.shared = TRUE => owned'[<<"claim", n>>] = n
               /\ pc'[n] \in WithEgress => owned'[<<"egress", n>>] = n
               /\ pc'[n] \in WithIngress => owned'[<<"ingress", n>>] = n
    <3>1. /\ pc[n] \in WithClaim /\ config.shared = TRUE => owned[<<"claim", n>>] = n
          /\ pc[n] \in WithEgress => owned[<<"egress", n>>] = n
          /\ pc[n] \in WithIngress => owned[<<"ingress", n>>] = n
          /\ pc[n] \in WithHelper => pods[<<"helper", n>>].uid = n
      BY <2>7 DEF IInv, OwnedInv, HelperInv
    <3>2. QED
      BY <2>1, <2>4, <2>5, <2>6, <3>1
  <2>8. QED
    BY <2>1, <2>7 DEF OwnedInv, Gated
<1>4. ASSUME NEW r \in Rounds, StartSet(r) PROVE OwnedInv'
  <2> SUFFICES ASSUME Gated PROVE OwnedInv'
    BY <1>4 DEF StartSet, OwnedInv, Gated
  <2>1. UNCHANGED <<type, config, owned>>
    BY <1>4 DEF StartSet
  <2>2. \E step \in {"helper", "failed"} : pc' = [pc EXCEPT ![r] = step]
    BY <1>4 DEF StartSet
  <2> HIDE DEF NoPod, Rounds, PodKinds, OwnedKinds, Nobody
  <2>3. pc \in [Rounds -> Steps]
    BY DEF TypeOK, IInv
  <2>4. \A n \in Rounds :
          /\ pc'[n] \in WithClaim => pc[n] \in WithClaim
          /\ pc'[n] \in WithEgress => pc[n] \in WithEgress
          /\ pc'[n] \in WithIngress => pc[n] \in WithIngress
    BY <2>2, <2>3
  <2> HIDE DEF TypeOK, IInv, HelperInv, NameInv, WithClaim, WithEgress, WithIngress
  <2>5. ASSUME Gated, NEW n \in Rounds
        PROVE  /\ pc'[n] \in WithClaim /\ config.shared = TRUE => owned'[<<"claim", n>>] = n
               /\ pc'[n] \in WithEgress => owned'[<<"egress", n>>] = n
               /\ pc'[n] \in WithIngress => owned'[<<"ingress", n>>] = n
    <3>1. /\ pc[n] \in WithClaim /\ config.shared = TRUE => owned[<<"claim", n>>] = n
          /\ pc[n] \in WithEgress => owned[<<"egress", n>>] = n
          /\ pc[n] \in WithIngress => owned[<<"ingress", n>>] = n
      BY <2>5 DEF IInv, OwnedInv
    <3>2. owned' = owned
      BY <2>1
    <3>3. QED
      BY <2>4, <3>1, <3>2
  <2>6. QED
    BY <2>1, <2>5 DEF OwnedInv, Gated
<1>5. ASSUME NEW r \in Rounds, CreateHelper(r) PROVE OwnedInv'
  <2>1. UNCHANGED <<type, config, owned>>
    BY <1>5 DEF CreateHelper, Create
  <2>2. \E step \in {"claim", "failed"} : pc' = [pc EXCEPT ![r] = step]
    BY <1>5 DEF CreateHelper, Create
  <2> HIDE DEF NoPod, Rounds, PodKinds, OwnedKinds, Nobody
  <2>3. pc \in [Rounds -> Steps]
    BY DEF TypeOK, IInv
  <2>4. \A n \in Rounds :
          /\ pc'[n] \in WithClaim => pc[n] \in WithClaim
          /\ pc'[n] \in WithEgress => pc[n] \in WithEgress
          /\ pc'[n] \in WithIngress => pc[n] \in WithIngress
    BY <2>2, <2>3
  <2> HIDE DEF TypeOK, IInv, HelperInv, NameInv, WithClaim, WithEgress, WithIngress
  <2>5. ASSUME Gated, NEW n \in Rounds
        PROVE  /\ pc'[n] \in WithClaim /\ config.shared = TRUE => owned'[<<"claim", n>>] = n
               /\ pc'[n] \in WithEgress => owned'[<<"egress", n>>] = n
               /\ pc'[n] \in WithIngress => owned'[<<"ingress", n>>] = n
    <3>1. /\ pc[n] \in WithClaim /\ config.shared = TRUE => owned[<<"claim", n>>] = n
          /\ pc[n] \in WithEgress => owned[<<"egress", n>>] = n
          /\ pc[n] \in WithIngress => owned[<<"ingress", n>>] = n
      BY <2>5 DEF IInv, OwnedInv
    <3>2. owned' = owned
      BY <2>1
    <3>3. QED
      BY <2>4, <3>1, <3>2
  <2>6. QED
    BY <2>1, <2>5 DEF OwnedInv, Gated
<1>6. ASSUME NEW r \in Rounds, ApplySharedVolumeClaim(r) PROVE OwnedInv'
  <2>1. CASE config.shared /\ Apply(r, "claim", "egress")
    <3>1. "claim" \in OwnedKinds /\ "egress" \in Steps /\ "cleanHelper" \in Steps
      BY DEF OwnedKinds, Steps
    <3> HIDE DEF TypeOK, IInv, NoPod, Rounds, Steps, PodKinds, OwnedKinds, Nobody
    <3>2. Applied(r, "claim", "egress")
      BY <2>1, <3>1, ApplyEffect, Zenon DEF IInv
    <3>3. UNCHANGED <<type, config, pods, leaked>>
      BY <2>1 DEF Apply
    <3>4. r # Nobody /\ pc \in [Rounds -> Steps]
      BY DEF Rounds, Nobody, IInv, TypeOK
    <3>5. \A k \in OwnedKinds, n \in Rounds : owned[<<k, n>>] = n => owned'[<<k, n>>] = n
      BY <3>2, <3>4 DEF Applied
    <3>6. pc' = [pc EXCEPT ![r] = "egress"] => owned'[<<"claim", r>>] = r
      BY <3>1, <3>2, <3>4 DEF IInv, NameInv, Applied
    <3>7. ASSUME NEW n \in Rounds, Gated
          PROVE  /\ pc'[n] \in WithClaim /\ config.shared = TRUE => owned'[<<"claim", n>>] = n
                 /\ pc'[n] \in WithEgress => owned'[<<"egress", n>>] = n
                 /\ pc'[n] \in WithIngress => owned'[<<"ingress", n>>] = n
      <4>1. /\ pc[n] \in WithClaim /\ config.shared = TRUE => owned[<<"claim", n>>] = n
            /\ pc[n] \in WithEgress => owned[<<"egress", n>>] = n
            /\ pc[n] \in WithIngress => owned[<<"ingress", n>>] = n
        BY <3>7 DEF IInv, OwnedInv
      <4>2. "claim" \in OwnedKinds /\ "egress" \in OwnedKinds /\ "ingress" \in OwnedKinds
        BY DEF OwnedKinds
      <4>3. CASE n = r
        BY <1>6, <2>1, <3>2, <3>4, <3>5, <3>6, <4>1, <4>2, <4>3 DEF ApplySharedVolumeClaim, Applied
      <4>4. CASE n # r
        BY <3>2, <3>4, <3>5, <4>1, <4>2, <4>4 DEF Applied
      <4>5. QED
        BY <4>3, <4>4
    <3>8. QED
      BY <3>3, <3>7 DEF OwnedInv, Gated
  <2>2. CASE ~config.shared /\ Go(r, "egress") /\ UNCHANGED <<type, config, pods, owned, leaked, faults>>
    BY <1>6, <2>2 DEF ApplySharedVolumeClaim
  <2>3. QED
    BY <1>6, <2>1, <2>2 DEF ApplySharedVolumeClaim
<1>7. ASSUME NEW r \in Rounds, ApplySessionNetworkPolicies(r) PROVE OwnedInv'
  <2>1. CASE pc[r] = "egress" /\ Apply(r, "egress", "ingress")
    <3>1. "egress" \in OwnedKinds /\ "ingress" \in Steps /\ "cleanHelper" \in Steps
      BY DEF OwnedKinds, Steps
    <3> HIDE DEF TypeOK, IInv, NoPod, Rounds, Steps, PodKinds, OwnedKinds, Nobody
    <3>2. Applied(r, "egress", "ingress")
      BY <2>1, <3>1, ApplyEffect, Zenon DEF IInv
    <3>3. UNCHANGED <<type, config, pods, leaked>>
      BY <2>1 DEF Apply
    <3>4. r # Nobody /\ pc \in [Rounds -> Steps]
      BY DEF Rounds, Nobody, IInv, TypeOK
    <3>5. \A k \in OwnedKinds, n \in Rounds : owned[<<k, n>>] = n => owned'[<<k, n>>] = n
      BY <3>2, <3>4 DEF Applied
    <3>6. pc' = [pc EXCEPT ![r] = "ingress"] => owned'[<<"egress", r>>] = r
      BY <3>1, <3>2, <3>4 DEF IInv, NameInv, Applied
    <3>7. ASSUME NEW n \in Rounds, Gated
          PROVE  /\ pc'[n] \in WithClaim /\ config.shared = TRUE => owned'[<<"claim", n>>] = n
                 /\ pc'[n] \in WithEgress => owned'[<<"egress", n>>] = n
                 /\ pc'[n] \in WithIngress => owned'[<<"ingress", n>>] = n
      <4>1. /\ pc[n] \in WithClaim /\ config.shared = TRUE => owned[<<"claim", n>>] = n
            /\ pc[n] \in WithEgress => owned[<<"egress", n>>] = n
            /\ pc[n] \in WithIngress => owned[<<"ingress", n>>] = n
        BY <3>7 DEF IInv, OwnedInv
      <4>2. "claim" \in OwnedKinds /\ "egress" \in OwnedKinds /\ "ingress" \in OwnedKinds
        BY DEF OwnedKinds
      <4>3. CASE n = r
        BY <1>7, <2>1, <3>2, <3>4, <3>5, <3>6, <4>1, <4>2, <4>3 DEF ApplySharedVolumeClaim, Applied
      <4>4. CASE n # r
        BY <3>2, <3>4, <3>5, <4>1, <4>2, <4>4 DEF Applied
      <4>5. QED
        BY <4>3, <4>4
    <3>8. QED
      BY <3>3, <3>7 DEF OwnedInv, Gated
  <2>2. CASE pc[r] = "ingress" /\ Apply(r, "ingress", "helperWait")
    <3>1. "ingress" \in OwnedKinds /\ "helperWait" \in Steps /\ "cleanHelper" \in Steps
      BY DEF OwnedKinds, Steps
    <3> HIDE DEF TypeOK, IInv, NoPod, Rounds, Steps, PodKinds, OwnedKinds, Nobody
    <3>2. Applied(r, "ingress", "helperWait")
      BY <2>2, <3>1, ApplyEffect, Zenon DEF IInv
    <3>3. UNCHANGED <<type, config, pods, leaked>>
      BY <2>2 DEF Apply
    <3>4. r # Nobody /\ pc \in [Rounds -> Steps]
      BY DEF Rounds, Nobody, IInv, TypeOK
    <3>5. \A k \in OwnedKinds, n \in Rounds : owned[<<k, n>>] = n => owned'[<<k, n>>] = n
      BY <3>2, <3>4 DEF Applied
    <3>6. pc' = [pc EXCEPT ![r] = "helperWait"] => owned'[<<"ingress", r>>] = r
      BY <3>1, <3>2, <3>4 DEF IInv, NameInv, Applied
    <3>7. ASSUME NEW n \in Rounds, Gated
          PROVE  /\ pc'[n] \in WithClaim /\ config.shared = TRUE => owned'[<<"claim", n>>] = n
                 /\ pc'[n] \in WithEgress => owned'[<<"egress", n>>] = n
                 /\ pc'[n] \in WithIngress => owned'[<<"ingress", n>>] = n
      <4>1. /\ pc[n] \in WithClaim /\ config.shared = TRUE => owned[<<"claim", n>>] = n
            /\ pc[n] \in WithEgress => owned[<<"egress", n>>] = n
            /\ pc[n] \in WithIngress => owned[<<"ingress", n>>] = n
        BY <3>7 DEF IInv, OwnedInv
      <4>2. "claim" \in OwnedKinds /\ "egress" \in OwnedKinds /\ "ingress" \in OwnedKinds
        BY DEF OwnedKinds
      <4>3. CASE n = r
        BY <1>7, <2>2, <3>2, <3>4, <3>5, <3>6, <4>1, <4>2, <4>3 DEF ApplySharedVolumeClaim, Applied
      <4>4. CASE n # r
        BY <3>2, <3>4, <3>5, <4>1, <4>2, <4>4 DEF Applied
      <4>5. QED
        BY <4>3, <4>4
    <3>8. QED
      BY <3>3, <3>7 DEF OwnedInv, Gated
  <2>3. QED
    BY <1>7, <2>1, <2>2 DEF ApplySessionNetworkPolicies
<1>8. ASSUME NEW r \in Rounds, WaitHelper(r) PROVE OwnedInv'
  BY <1>8, ZenonT(40) DEF WaitHelper
<1>9. ASSUME NEW r \in Rounds, BuildPod(r) PROVE OwnedInv'
  BY <1>9, ZenonT(40) DEF BuildPod, Fail
<1>10. ASSUME NEW r \in Rounds, CreateWorkload(r) PROVE OwnedInv'
  BY <1>10, ZenonT(40) DEF CreateWorkload, Create, Fail
<1>11. ASSUME NEW r \in Rounds, WaitWorkload(r) PROVE OwnedInv'
  BY <1>11, ZenonT(40) DEF WaitWorkload
<1>12. ASSUME NEW r \in Rounds, Cleanup(r) PROVE OwnedInv'
  <2>1. UNCHANGED <<type, config, owned>>
    BY <1>12 DEF Cleanup
  <2>2. \E step \in {"cleanHelper", "failed"} : pc' = [pc EXCEPT ![r] = step]
    BY <1>12 DEF Cleanup, Fail
  <2> HIDE DEF NoPod, Rounds, PodKinds, OwnedKinds, Nobody
  <2>3. pc \in [Rounds -> Steps]
    BY DEF TypeOK, IInv
  <2>4. \A n \in Rounds :
          /\ pc'[n] \in WithClaim => pc[n] \in WithClaim
          /\ pc'[n] \in WithEgress => pc[n] \in WithEgress
          /\ pc'[n] \in WithIngress => pc[n] \in WithIngress
    BY <2>2, <2>3
  <2> HIDE DEF TypeOK, IInv, HelperInv, NameInv, WithClaim, WithEgress, WithIngress
  <2>5. ASSUME Gated, NEW n \in Rounds
        PROVE  /\ pc'[n] \in WithClaim /\ config.shared = TRUE => owned'[<<"claim", n>>] = n
               /\ pc'[n] \in WithEgress => owned'[<<"egress", n>>] = n
               /\ pc'[n] \in WithIngress => owned'[<<"ingress", n>>] = n
    <3>1. /\ pc[n] \in WithClaim /\ config.shared = TRUE => owned[<<"claim", n>>] = n
          /\ pc[n] \in WithEgress => owned[<<"egress", n>>] = n
          /\ pc[n] \in WithIngress => owned[<<"ingress", n>>] = n
      BY <2>5 DEF IInv, OwnedInv
    <3>2. owned' = owned
      BY <2>1
    <3>3. QED
      BY <2>4, <3>1, <3>2
  <2>6. QED
    BY <2>1, <2>5 DEF OwnedInv, Gated
<1>13. ASSUME NEW r \in Rounds, Stop(r) PROVE OwnedInv'
  BY <1>13, ZenonT(40) DEF Stop, Deleted
<1>14. CASE UNCHANGED vars
  BY <1>14 DEF vars
<1>15. QED
  BY <1>1, <1>2, <1>3, <1>4, <1>5, <1>6, <1>7, <1>8, <1>9, <1>10, <1>11, <1>12, <1>13, <1>14 DEF
      Next

\* A cluster without a pod of the session satisfies the invariant.
LEMMA InitHolds == Init => IInv
<1> SUFFICES ASSUME Init PROVE IInv
  OBVIOUS
<1>1. TypeOK
  BY ProvisionAssumption DEF Init, TypeOK, NoPod, Nobody, Steps
<1>2. NameInv
  BY DEF Init, NameInv, NoPod
<1>3. HelperInv /\ OwnedInv
  BY DEF Init, HelperInv, OwnedInv, WithHelper, WithClaim, WithEgress, WithIngress
<1>4. QED
  BY <1>1, <1>2, <1>3 DEF IInv

\* The invariant of the orchestrator: names, helpers and what they own agree with
\* where each round is.
THEOREM InvHolds == Spec => []IInv
<1>1. Init => IInv
  BY InitHolds
<1>2. IInv /\ [Next]_vars => IInv'
  BY TypeStep, NameStep, HelperStep, OwnedStep DEF IInv
<1>3. QED
  BY <1>1, <1>2, PTL DEF Spec

\* A workload pod in service has its helper, its claim and both its policies, and
\* every port it was given is served (startSet, applySessionNetworkPolicies,
\* applySharedVolumeClaim, Stop).
THEOREM BoundaryHolds == Spec => []BoundaryInService
<1>1. IInv => BoundaryInService
  <2> SUFFICES ASSUME IInv, NEW r \in Rounds, InService(r)
               PROVE  /\ Connected(type, config)
                      /\ Gated => /\ pods[Helper(r)].uid = r /\ pods[Helper(r)].phase # "deleting"
                                  /\ owned[<<"egress", NameOf(r)>>] = r /\ owned[<<"ingress", NameOf(r)>>] = r
                                  /\ config.shared => owned[<<"claim", NameOf(r)>>] = r
    BY DEF BoundaryInService
  <2>1. Connected(type, config)
    BY EveryTypeIsConnected DEF IInv, TypeOK
  <2>2. pc[r] \in WithIngress /\ pc[r] \in WithEgress /\ pc[r] \in WithClaim /\ pc[r] \in WithHelper
    BY DEF InService, WithHelper, WithClaim, WithEgress, WithIngress
  <2>3. config.shared \in BOOLEAN
    BY DEF IInv, TypeOK, Configs
  <2>4. QED
    BY <2>1, <2>2, <2>3 DEF IInv, HelperInv, OwnedInv, NameOf, Helper
<1>2. QED
  BY <1>1, InvHolds, PTL

-----------------------------------------------------------------------------
(***************************************************************************)
(* What runs in the helper pod: the calls of the session's MCP server, the *)
(* ring of approval notices and the reader of it in the workload           *)
(* (SessionMCP).                                                           *)
(***************************************************************************)

\* The calls, what the gateway and the world know of them, and the notices.
CallRecords == [tool: Tools \cup {"none"}, pc: CallStates, target: Targets \cup {Nothing},
                decision: Settled \cup {"TIMEOUT", "none"}, list: SUBSET Repos]
Notices == [seq: Nat, kind: {"awaiting", "decided", "unavailable", "access-requested"}, id: Calls]

Statuses == Settled \cup {"none", "PENDING"}
Reached == Targets \cup {Nothing}
CallsTypeOK ==
    calls \in [Calls -> CallRecords] /\ gateway \in [Calls -> Statuses] /\ acted \in [Calls -> Reached]

RestTypeOK ==
    /\ deployment \in Deployments /\ origin \in Spellings
    /\ pending \subseteq Calls /\ missed \in BOOLEAN
    /\ mcpFaults \in 0 .. MaxMcpFaults /\ restarts \in [agent: 0 .. MaxRestarts, helper: 0 .. MaxRestarts]
    /\ StoreTypeOK

\* Which calls come where, what a call at its end was granted before, and what a
\* call that has reached outside was granted: r is the call, g its request's status.
SafeAt(r, g, a, conf) ==
    /\ r.pc \in {"announce", "create", "poll", "decided", "unavailable"} => r.tool = "gated"
    /\ r.pc \in {"check", "mint"} => r.tool \in {"git_clone", "git_push"} /\ conf.list
    /\ r.pc = "act" => r.tool \in {"gated", "git_clone", "git_push"}
    /\ r.pc = "decided" /\ r.decision = "APPROVED" => g = "APPROVED"
    /\ r.pc = "act" /\ r.tool = "gated" => g = "APPROVED"
    /\ r.pc \in {"mint", "act"} /\ r.tool # "gated" => conf.list /\ NormalizeRepo(r.target) \in r.list
    /\ a # Nothing => r.pc = "done"
    /\ a # Nothing => \/ g = "APPROVED" /\ a = r.target
                      \/ conf.list /\ NormalizeRepo(a) \in r.list
SafeInv == \A c \in Calls : SafeAt(calls[c], gateway[c], acted[c], deployment)

Waits(r)  == r.tool = "gated" /\ r.pc \in {"create", "poll", "decided", "unavailable"}
IsOver(r) == r.tool = "gated" /\ r.pc \in {"act", "done"}

\* The notices the ring has let go of.
Gone == feed.seq - Len(feed.kept)

\* The ring holds the last notices, numbered without a gap.
FeedInv ==
    /\ feed \in [seq: Nat, kept: Seq(Notices)]
    /\ Len(feed.kept) <= feed.seq /\ Len(feed.kept) <= Capacity /\ (feed.seq > 0 => Len(feed.kept) > 0)
    /\ \A i \in DOMAIN feed.kept : feed.kept[i].seq = Gone + i

Begins(n, c) == n.id = c /\ n.kind = "awaiting"
Ends(n, c)   == n.id = c /\ n.kind \in {"decided", "unavailable"}
About(n, c)  == Begins(n, c) \/ Ends(n, c)
Over(c)      == IsOver(calls[c])

\* The notices tell of a call in the order of its life.
OrderInv ==
    /\ \A c \in Calls, i \in DOMAIN feed.kept :
         /\ Ends(feed.kept[i], c) => Over(c)
         /\ Begins(feed.kept[i], c) => c \in Waiting \/ \E j \in DOMAIN feed.kept : j > i /\ Ends(feed.kept[j], c)
    /\ \A c \in Waiting : Gone > 0 \/ \E i \in DOMAIN feed.kept : Begins(feed.kept[i], c)

\* What a reader at this cursor will still be told of c by the feed f, or will be
\* told that it missed.
Lost(f, after) == after < f.seq - Len(f.kept)
WillEnd(f, after, c) ==
    Lost(f, after) \/ \E i \in DOMAIN f.kept : f.kept[i].seq > after /\ Ends(f.kept[i], c)
WillBegin(f, after, c) ==
    Lost(f, after) \/ \E i \in DOMAIN f.kept : f.kept[i].seq > after /\ Begins(f.kept[i], c)

\* The set differs from the calls that wait by what the reader has still to read.
Exact(f, waiting, set, after, complete) ==
    /\ \A c \in set : c \in waiting \/ WillEnd(f, after, c)
    /\ complete => \A c \in waiting : c \in set \/ WillBegin(f, after, c)

ReadInv ==
    restarts.helper = 0 =>
      /\ tail.after <= feed.seq
      /\ Exact(feed, Waiting, pending, tail.after, ~missed)

\* What the reader waits for once it has taken an answer in.
Opens(ns, s, c)  == \E i \in s : Begins(ns[i], c) /\ \A j \in s : j > i => ~About(ns[j], c)
Silent(ns, s, c) == \A i \in s : ~About(ns[i], c)
Taken(answer) ==
    {c \in Calls :
        \/ Opens(answer.notices, DOMAIN answer.notices, c)
        \/ ~(answer.dropped > 0) /\ c \in pending /\ Silent(answer.notices, DOMAIN answer.notices, c)}

Answers == [some: BOOLEAN, notices: Seq(Notices), next: Nat, dropped: Nat]
TailTypeOK == tail \in [after: Nat, answer: Answers]

\* So it will when the answer on its way has been taken in.
AnswerInv ==
    restarts.helper = 0 /\ tail.answer.some =>
      /\ tail.after <= tail.answer.next /\ tail.answer.next <= feed.seq
      /\ Exact(feed, Waiting, Taken(tail.answer), tail.answer.next, ~missed /\ tail.answer.dropped = 0)

McpInv == CallsTypeOK /\ RestTypeOK /\ TailTypeOK /\ FeedInv /\ SafeInv /\ OrderInv /\ ReadInv /\ AnswerInv

\* Every set of numbers has a least one.
LEMMA LeastNatural == ASSUME NEW T, T \subseteq Nat, T # {} PROVE \E x \in T : \A y \in T : x <= y
<1>1. IsWellFoundedOn(OpToRel(<, Nat), Nat)
  BY NatLessThanWellFounded
<1>2. \E x \in T : \A y \in T : ~(<<y, x>> \in OpToRel(<, Nat))
  BY <1>1, WFMin
<1>3. \A x, y \in Nat : y < x => <<y, x>> \in OpToRel(<, Nat)
  BY SMT DEF OpToRel
<1>4. PICK x \in T : \A y \in T : ~(<<y, x>> \in OpToRel(<, Nat))
  BY <1>2
<1>5. ASSUME NEW y \in T PROVE x <= y
  <2>1. x \in Nat /\ y \in Nat /\ ~(y < x)
    BY <1>3, <1>4
  <2>2. QED
    BY <2>1
<1>6. QED
  BY <1>5

\* The largest number of a set of positions is one of them and bounds them.
LEMMA MaxIs ==
  ASSUME NEW n \in Nat, NEW s, s \subseteq 1 .. n, s # {}
  PROVE  Max(s) \in s /\ \A y \in s : y <= Max(s)
<1> DEFINE T == {k \in Nat : n - k \in s}
<1>1. T # {} /\ T \subseteq Nat
  <2>1. PICK y \in s : TRUE
    OBVIOUS
  <2>2. n - y \in T
    BY <2>1
  <2>3. QED
    BY <2>2
<1>2. PICK k \in T : \A j \in T : k <= j
  <2> HIDE DEF T
  <2>1. QED
    BY <1>1, LeastNatural
<1>3. n - k \in s /\ \A y \in s : n - k >= y
  <2>1. SUFFICES ASSUME NEW y \in s PROVE n - k >= y
    BY <1>2
  <2>2. y \in 1 .. n /\ k \in Nat
    OBVIOUS
  <2>3. n - y \in Nat /\ n - (n - y) = y
    BY <2>2
  <2>4. n - y \in T
    BY <2>3
  <2>5. k <= n - y
    BY <1>2, <2>4
  <2>6. QED
    BY <2>2, <2>5
<1>4. QED
  BY <1>3 DEF Max

\* What the loop over the notices ns[i], i \in s, makes of the set base.
FoldStep(f, base, ns) ==
    [s \in SUBSET DOMAIN ns |-> IF s = {} THEN base ELSE Wait(f[s \ {Max(s)}], ns[Max(s)])]
Folded(base, ns) == [s \in SUBSET DOMAIN ns |-> {c \in Calls : Opens(ns, s, c) \/ (c \in base /\ Silent(ns, s, c))}]

\* One turn of observe: the set gains what a notice begins and loses what it ends.
LEMMA WaitIs ==
  ASSUME NEW waits, waits \subseteq Calls, NEW n \in Notices
  PROVE  Wait(waits, n) = {c \in Calls : Begins(n, c) \/ (c \in waits /\ ~Ends(n, c))}
<1>1. n.id \in Calls /\ n.kind \in {"awaiting", "decided", "unavailable", "access-requested"}
  BY DEF Notices
<1>2. QED
  BY <1>1 DEF Wait, Begins, Ends

\* The closed form satisfies the equation of the loop.
LEMMA FoldedIsStep ==
  ASSUME NEW base, base \subseteq Calls, NEW ns \in Seq(Notices)
  PROVE  Folded(base, ns) = FoldStep(Folded(base, ns), base, ns)
<1> DEFINE G == Folded(base, ns)
<1>1. ASSUME NEW s \in SUBSET DOMAIN ns
      PROVE  G[s] = IF s = {} THEN base ELSE Wait(G[s \ {Max(s)}], ns[Max(s)])
  <2>1. CASE s = {}
    BY <2>1 DEF Folded, Opens, Silent
  <2>2. CASE s # {}
    <3> DEFINE m == Max(s)
               r == s \ {m}
    <3>1. m \in s /\ (\A y \in s : y <= m) /\ s \subseteq 1 .. Len(ns) /\ ns[m] \in Notices
      BY <2>2, MaxIs, LenProperties, ElementOfSeq
    <3> HIDE DEF m
    <3>2. \A c \in Calls : Opens(ns, s, c) <=> Begins(ns[m], c) \/ (Opens(ns, r, c) /\ ~About(ns[m], c))
      BY <3>1 DEF Opens
    <3>3. \A c \in Calls : Silent(ns, s, c) <=> Silent(ns, r, c) /\ ~About(ns[m], c)
      BY <3>1 DEF Silent
    <3>4. G[r] = {c \in Calls : Opens(ns, r, c) \/ (c \in base /\ Silent(ns, r, c))}
      BY DEF Folded
    <3>5. G[s] = {c \in Calls : Opens(ns, s, c) \/ (c \in base /\ Silent(ns, s, c))}
      BY DEF Folded
    <3>6. Wait(G[r], ns[m]) = {c \in Calls : Begins(ns[m], c) \/ (c \in G[r] /\ ~Ends(ns[m], c))}
      BY <3>1, <3>4, WaitIs
    <3>7. G[s] = Wait(G[r], ns[m])
      <4> HIDE DEF G, r
      <4>1. QED
        BY <3>2, <3>3, <3>4, <3>5, <3>6 DEF About, Begins, Ends
    <3>8. QED
      BY <2>2, <3>7 DEF m
  <2>3. QED
    BY <2>1, <2>2
<1>2. G = [s \in SUBSET DOMAIN ns |-> G[s]]
  BY DEF Folded
<1>3. QED
  BY <1>1, <1>2 DEF FoldStep

\* Nothing else does: two solutions would differ first at some length of the prefix.
LEMMA FoldIsUnique ==
  ASSUME NEW base, base \subseteq Calls, NEW ns \in Seq(Notices), NEW f, f = FoldStep(f, base, ns)
  PROVE  f = Folded(base, ns)
<1> DEFINE G == Folded(base, ns)
           Bad == {k \in Nat : \E s \in SUBSET DOMAIN ns : s \subseteq 1 .. k /\ f[s] # G[s]}
<1>1. /\ f = [s \in SUBSET DOMAIN ns |-> IF s = {} THEN base ELSE Wait(f[s \ {Max(s)}], ns[Max(s)])]
      /\ G = [s \in SUBSET DOMAIN ns |-> IF s = {} THEN base ELSE Wait(G[s \ {Max(s)}], ns[Max(s)])]
  BY FoldedIsStep DEF FoldStep
<1> HIDE DEF G
<1>2. Bad = {}
  <2>1. SUFFICES ASSUME Bad # {} PROVE FALSE
    OBVIOUS
  <2>2. PICK k \in Bad : \A j \in Bad : k <= j
    <3> HIDE DEF Bad
    <3>0. Bad \subseteq Nat
      BY DEF Bad
    <3>1. QED
      BY <2>1, <3>0, LeastNatural
  <2>3. PICK s \in SUBSET DOMAIN ns : s \subseteq 1 .. k /\ f[s] # G[s]
    BY <2>2
  <2>4. s # {}
    BY <1>1, <2>3
  <2> DEFINE m == Max(s)
             r == s \ {m}
  <2>5. m \in s /\ \A y \in s : y <= m
    BY <2>2, <2>3, <2>4, MaxIs
  <2> HIDE DEF m
  <2>6. r \in SUBSET DOMAIN ns /\ m - 1 \in Nat /\ r \subseteq 1 .. (m - 1) /\ m - 1 < k
    <3>1. k \in Nat /\ s \subseteq 1 .. k
      BY <2>2, <2>3
    <3>2. QED
      BY <2>5, <3>1
  <2>7. f[r] = G[r]
    <3>1. m - 1 \notin Bad
      <4> HIDE DEF Bad
      <4>1. k \in Nat
        BY <2>2 DEF Bad
      <4>2. QED
        BY <2>2, <2>6, <4>1
    <3>2. QED
      BY <2>6, <3>1
  <2>8. f[s] = Wait(f[r], ns[m]) /\ G[s] = Wait(G[r], ns[m])
    BY <1>1, <2>3, <2>4 DEF m
  <2>9. QED
    BY <2>3, <2>7, <2>8
<1>3. \A s \in SUBSET DOMAIN ns : f[s] = G[s]
  <2>1. DOMAIN ns \subseteq 1 .. Len(ns) /\ Len(ns) \in Nat
    BY LenProperties
  <2>2. QED
    BY <1>2, <2>1
<1>4. QED
  BY <1>1, <1>3 DEF G

\* So the fold of observe is the closed form.
LEMMA FoldIs ==
  ASSUME NEW base, base \subseteq Calls, NEW ns \in Seq(Notices)
  PROVE  FoldLeft(Wait, base, ns) = Folded(base, ns)[DOMAIN ns]
<1> DEFINE It == CHOOSE f : f = FoldStep(f, base, ns)
<1>1. It = FoldStep(It, base, ns)
  <2>1. \E f : f = FoldStep(f, base, ns)
    BY FoldedIsStep
  <2>2. QED
    BY <2>1
<1>2. It = Folded(base, ns)
  <2> HIDE DEF It
  <2>1. QED
    BY <1>1, FoldIsUnique
<1>3. FoldLeft(Wait, base, ns) = It[DOMAIN ns]
  BY DEF FoldLeft, MapThenFoldSet, FoldStep
<1>4. QED
  BY <1>2, <1>3

\* What the reader waits for once it has taken an answer in.
LEMMA ObserveIs ==
  ASSUME pending \subseteq Calls, NEW answer, answer.notices \in Seq(Notices)
  PROVE  Observe(answer) = Taken(answer)
<1> DEFINE ns == answer.notices
           base == IF answer.dropped > 0 THEN {} ELSE pending
<1>1. Observe(answer) = FoldLeft(Wait, base, ns)
  BY DEF Observe
<1>2. base \subseteq Calls
  OBVIOUS
<1>3. Observe(answer) = Folded(base, ns)[DOMAIN ns]
  <2> HIDE DEF base, ns
  <2>1. ns \in Seq(Notices)
    BY DEF ns
  <2>2. QED
    BY <1>1, <1>2, <2>1, FoldIs
<1>4. Folded(base, ns)[DOMAIN ns] =
        {c \in Calls : Opens(ns, DOMAIN ns, c) \/ (c \in base /\ Silent(ns, DOMAIN ns, c))}
  BY DEF Folded
<1>5. QED
  BY <1>3, <1>4 DEF Taken

\* The loop of since over the ring.
NewerStep(f, after) ==
    [i \in 0 .. Len(feed.kept) |->
        IF i = 0 THEN << >>
        ELSE IF feed.kept[i].seq > after THEN Append(f[i - 1], feed.kept[i]) ELSE f[i - 1]]
\* The kept notices from the old-th, to the i-th.
Piece(old, i) == [p \in 1 .. (IF i > old THEN i - old ELSE 0) |-> feed.kept[old + p]]
SplitAt(old, after) == \A i \in DOMAIN feed.kept : feed.kept[i].seq > after <=> i > old

\* A function on the first n positions is a list of length n.
LEMMA ListIsSeq == ASSUME NEW S, NEW n \in Nat, NEW f \in [1 .. n -> S] PROVE f \in Seq(S) /\ Len(f) = n
<1>1. f \in Seq(S)
  BY SeqDef
<1>2. Len(f) \in Nat /\ DOMAIN f = 1 .. Len(f) /\ DOMAIN f = 1 .. n
  BY <1>1, LenProperties
<1>3. QED
  BY <1>1, <1>2

\* A piece of the ring is a list of notices.
LEMMA PieceIs ==
  ASSUME FeedInv, NEW old \in 0 .. Len(feed.kept), NEW i \in 0 .. Len(feed.kept)
  PROVE  /\ Piece(old, i) \in Seq(Notices)
         /\ Len(Piece(old, i)) = IF i > old THEN i - old ELSE 0
         /\ \A p \in 1 .. Len(Piece(old, i)) : Piece(old, i)[p] = feed.kept[old + p]
<1> DEFINE n == IF i > old THEN i - old ELSE 0
<1>1. Len(feed.kept) \in Nat /\ DOMAIN feed.kept = 1 .. Len(feed.kept) /\ feed.kept \in Seq(Notices)
  BY LenProperties DEF FeedInv
<1>2. n \in Nat /\ \A p \in 1 .. n : old + p \in 1 .. Len(feed.kept)
  BY <1>1
<1>3. \A p \in 1 .. n : feed.kept[old + p] \in Notices
  BY <1>1, <1>2, ElementOfSeq
<1> HIDE DEF n
<1>4. Piece(old, i) = [p \in 1 .. n |-> feed.kept[old + p]]
  BY DEF Piece, n
<1>5. Piece(old, i) \in [1 .. n -> Notices]
  BY <1>3, <1>4
<1>6. Piece(old, i) \in Seq(Notices) /\ Len(Piece(old, i)) = n
  BY <1>2, <1>5, ListIsSeq
<1>7. QED
  BY <1>4, <1>6 DEF n

\* The numbers of the ring have no gap, so a cursor cuts it in two.
LEMMA CursorSplits ==
  ASSUME FeedInv, NEW after \in Nat
  PROVE  \E old \in 0 .. Len(feed.kept) : SplitAt(old, after)
<1> DEFINE L == Len(feed.kept)
           old == IF after <= Gone THEN 0 ELSE IF after >= Gone + L THEN L ELSE after - Gone
<1>1. L \in Nat /\ Gone \in Nat /\ DOMAIN feed.kept = 1 .. L
  BY LenProperties DEF FeedInv, Gone
<1>2. \A i \in 1 .. L : feed.kept[i].seq = Gone + i
  BY <1>1 DEF FeedInv
<1> HIDE DEF L
<1>3. old \in 0 .. L
  BY <1>1
<1>4. \A i \in 1 .. L : Gone + i > after <=> i > old
  BY <1>1
<1>5. SplitAt(old, after)
  BY <1>1, <1>2, <1>4 DEF SplitAt
<1>6. QED
  BY <1>3, <1>5 DEF L

\* The loop of since keeps what lies behind the cut, in its order.
LEMMA NewerIs ==
  ASSUME FeedInv, NEW after \in Nat, NEW old \in 0 .. Len(feed.kept), SplitAt(old, after)
  PROVE  Newer(after) = Piece(old, Len(feed.kept))
<1> DEFINE L == Len(feed.kept)
           g == [i \in 0 .. L |-> Piece(old, i)]
           out == CHOOSE f : f = NewerStep(f, after)
<1>1. L \in Nat /\ DOMAIN feed.kept = 1 .. L /\ feed.kept \in Seq(Notices)
  BY LenProperties DEF FeedInv
<1>2. g = NewerStep(g, after)
  <2>1. ASSUME NEW i \in 0 .. L
        PROVE  Piece(old, i) = IF i = 0 THEN << >>
                 ELSE IF feed.kept[i].seq > after THEN Append(Piece(old, i - 1), feed.kept[i]) ELSE Piece(old, i - 1)
    <3>1. CASE i = 0
      BY <1>1, <3>1 DEF Piece
    <3>2. CASE i # 0 /\ i > old
      <4>1. feed.kept[i].seq > after
        BY <1>1, <3>2 DEF SplitAt
      <4>2. i - 1 \in 0 .. L /\ i \in 1 .. L /\ feed.kept[i] \in Notices
        BY <1>1, <3>2, ElementOfSeq
      <4>3. /\ Piece(old, i - 1) \in Seq(Notices) /\ Len(Piece(old, i - 1)) = i - 1 - old
            /\ \A p \in 1 .. (i - 1 - old) : Piece(old, i - 1)[p] = feed.kept[old + p]
        <5>1. (IF i - 1 > old THEN i - 1 - old ELSE 0) = i - 1 - old
          BY <3>2
        <5> DEFINE j == i - 1
        <5>2. j \in 0 .. L
          BY <4>2
        <5> HIDE DEF j
        <5>3. /\ Piece(old, j) \in Seq(Notices) /\ Len(Piece(old, j)) = IF j > old THEN j - old ELSE 0
              /\ \A p \in 1 .. Len(Piece(old, j)) : Piece(old, j)[p] = feed.kept[old + p]
          BY <5>2, PieceIs
        <5>4. QED
          BY <5>1, <5>3 DEF j
      <4>4. /\ Piece(old, i) \in Seq(Notices) /\ Len(Piece(old, i)) = i - old
            /\ \A p \in 1 .. (i - old) : Piece(old, i)[p] = feed.kept[old + p]
        BY <3>2, PieceIs
      <4> DEFINE a == Append(Piece(old, i - 1), feed.kept[i])
      <4>5. /\ a \in Seq(Notices) /\ Len(a) = i - old
            /\ \A p \in 1 .. (i - 1 - old) : a[p] = feed.kept[old + p]
            /\ a[i - old] = feed.kept[i]
        <5>1. i - 1 - old + 1 = i - old
          BY <3>2
        <5>2. QED
          BY <4>2, <4>3, <5>1, AppendProperties
      <4> HIDE DEF a
      <4>6. Append(Piece(old, i - 1), feed.kept[i]) = Piece(old, i)
        <5>1. \A p \in 1 .. (i - old) : a[p] = feed.kept[old + p]
          BY <3>2, <4>5
        <5>2. a = Piece(old, i)
          BY <4>4, <4>5, <5>1, SeqEqual
        <5>3. QED
          BY <5>2 DEF a
      <4>7. QED
        BY <3>2, <4>1, <4>6
    <3>3. CASE i # 0 /\ ~(i > old)
      <4>1. ~(feed.kept[i].seq > after)
        BY <1>1, <3>3 DEF SplitAt
      <4>2. Piece(old, i - 1) = Piece(old, i)
        BY <1>1, <3>3 DEF Piece
      <4>3. QED
        BY <3>3, <4>1, <4>2
    <3>4. QED
      BY <3>1, <3>2, <3>3
  <2>2. \A i \in 0 .. L : i # 0 => g[i - 1] = Piece(old, i - 1)
    BY <1>1
  <2>3. QED
    <3>1. ASSUME NEW i \in 0 .. L
          PROVE  g[i] = IF i = 0 THEN << >>
                 ELSE IF feed.kept[i].seq > after THEN Append(g[i - 1], feed.kept[i]) ELSE g[i - 1]
      <4>1. g[i] = Piece(old, i)
        OBVIOUS
      <4> HIDE DEF g
      <4>2. QED
        BY <2>1, <2>2, <4>1
    <3>2. g = [i \in 0 .. L |-> g[i]]
      OBVIOUS
    <3> HIDE DEF g
    <3>3. QED
      BY <3>1, <3>2 DEF NewerStep
<1>3. out = NewerStep(out, after)
  <2>1. \E f : f = NewerStep(f, after)
    BY <1>2
  <2>2. QED
    BY <2>1
<1> HIDE DEF out, g
<1>4. out = g
  <2> DEFINE Bad == {k \in 0 .. L : out[k] # g[k]}
  <2>1. Bad = {}
    <3>1. SUFFICES ASSUME Bad # {} PROVE FALSE
      OBVIOUS
    <3>2. PICK k \in Bad : \A j \in Bad : k <= j
      <4>0. Bad \subseteq Nat
        BY <1>1
      <4> HIDE DEF Bad
      <4>1. QED
        BY <3>1, <4>0, LeastNatural
    <3>3. k \in 0 .. L /\ out[k] # g[k]
      OBVIOUS
    <3>4. k # 0
      BY <1>1, <1>2, <1>3, <3>3 DEF NewerStep
    <3>5. k - 1 \in 0 .. L /\ k - 1 < k /\ k - 1 \notin Bad
      <4>1. k - 1 \in 0 .. L /\ k - 1 < k /\ ~(k <= k - 1)
        BY <1>1, <3>3, <3>4
      <4> HIDE DEF Bad
      <4>2. QED
        BY <3>2, <4>1
    <3>6. out[k - 1] = g[k - 1]
      BY <3>5
    <3>7. QED
      BY <1>2, <1>3, <3>3, <3>4, <3>6 DEF NewerStep
  <2>2. \A k \in 0 .. L : out[k] = g[k]
    BY <2>1
  <2>3. QED
    BY <1>2, <1>3, <2>2 DEF NewerStep
<1>5. Newer(after) = out[L]
  BY DEF Newer, out, NewerStep
<1>6. QED
  BY <1>1, <1>4, <1>5 DEF g

\* A cursor reads what the answer holds, and the set it then has differs by nothing.
LEMMA SinceIsExact ==
  ASSUME FeedInv, OrderInv, pending \subseteq Calls,
         NEW after \in Nat, after <= feed.seq, Exact(feed, Waiting, pending, after, ~missed)
  PROVE  Exact(feed, Waiting, Taken(Since(after)), feed.seq, ~missed /\ Since(after).dropped = 0)
<1> DEFINE a == Since(after)
           L == Len(feed.kept)
<1>1. L \in Nat /\ DOMAIN feed.kept = 1 .. L /\ feed.seq \in Nat /\ Gone \in Nat /\ L = feed.seq - Gone
  BY LenProperties DEF FeedInv, Gone
<1>2. PICK old \in 0 .. Len(feed.kept) : SplitAt(old, after)
  BY CursorSplits
<1> DEFINE ns == a.notices
<1>3. /\ DOMAIN ns = 1 .. (L - old)
      /\ \A p \in 1 .. (L - old) : ns[p] = feed.kept[old + p] /\ old + p \in 1 .. L
  <2>1. ns = Piece(old, L)
    BY <1>2, NewerIs DEF Since
  <2>2. L \in 0 .. L
    BY <1>1
  <2>3. /\ Piece(old, L) \in Seq(Notices) /\ Len(Piece(old, L)) = IF L > old THEN L - old ELSE 0
        /\ \A p \in 1 .. Len(Piece(old, L)) : Piece(old, L)[p] = feed.kept[old + p]
    BY <1>2, <2>2, PieceIs
  <2>4. (IF L > old THEN L - old ELSE 0) = L - old
    BY <1>1, <1>2
  <2>5. DOMAIN Piece(old, L) = 1 .. (L - old)
    BY <2>3, <2>4, LenProperties
  <2> HIDE DEF ns, L
  <2>6. \A p \in 1 .. (L - old) : old + p \in 1 .. L
    BY <1>1, <1>2 DEF L
  <2>7. QED
    BY <2>1, <2>3, <2>4, <2>5, <2>6
<1>4. \A i \in 1 .. L : feed.kept[i].seq > after <=> i > old
  BY <1>1, <1>2 DEF SplitAt
<1>5. \A i \in 1 .. L : i > old => i - old \in 1 .. (L - old) /\ ns[i - old] = feed.kept[i]
  <2>1. ASSUME NEW i \in 1 .. L, i > old
        PROVE  i - old \in 1 .. (L - old) /\ old + (i - old) = i
    BY <1>1, <1>2, <2>1
  <2> HIDE DEF ns, L
  <2>2. QED
    BY <1>3, <2>1
<1>6. after < Gone <=> a.dropped > 0
  <2>1. CASE feed.kept = << >>
    <3>1. L = 0 /\ feed.seq = 0 /\ Gone = 0 /\ after = 0
      BY <1>1, <2>1, EmptySeq DEF FeedInv
    <3>2. a.dropped = 0
      BY <2>1 DEF Since
    <3>3. QED
      BY <3>1, <3>2
  <2>2. CASE feed.kept # << >>
    <3>1. 1 \in 1 .. L
      BY <1>1, <2>2, EmptySeq DEF FeedInv
    <3>2. Head(feed.kept).seq - 1 = Gone
      <4>1. Head(feed.kept) = feed.kept[1]
        OBVIOUS
      <4>2. feed.kept[1].seq = Gone + 1
        BY <1>1, <3>1 DEF FeedInv
      <4>3. Gone \in Nat
        BY <1>1
      <4>4. feed.kept[1].seq - 1 = Gone
        BY <4>2, <4>3
      <4>5. QED
        BY <4>1, <4>4, Zenon
    <3>3. a.dropped = IF feed.kept # << >> /\ after < Head(feed.kept).seq - 1
                      THEN Head(feed.kept).seq - 1 - after ELSE 0
      BY DEF Since
    <3>4. a.dropped = IF after < Gone THEN Gone - after ELSE 0
      BY <2>2, <3>2, <3>3
    <3>5. QED
      BY <3>4, <1>1
  <2>3. QED
    BY <2>1, <2>2
<1>7. /\ \A c \in pending : c \in Waiting \/ WillEnd(feed, after, c)
      /\ ~missed => \A c \in Waiting : c \in pending \/ WillBegin(feed, after, c)
  BY DEF Exact
<1>8. /\ \A c \in Calls, i \in 1 .. L :
           /\ Ends(feed.kept[i], c) => Over(c)
           /\ Begins(feed.kept[i], c) => c \in Waiting \/ \E j \in 1 .. L : j > i /\ Ends(feed.kept[j], c)
  BY <1>1 DEF OrderInv
<1> HIDE DEF ns, L
<1>9. ASSUME NEW c \in Taken(a) PROVE c \in Waiting
  <2>1. c \in Calls
    BY DEF Taken
  <2>2. CASE Opens(ns, DOMAIN ns, c)
    <3>1. PICK p \in 1 .. (L - old) : Begins(ns[p], c) /\ \A q \in 1 .. (L - old) : q > p => ~About(ns[q], c)
      BY <1>3, <2>2 DEF Opens
    <3>2. old + p \in 1 .. L /\ Begins(feed.kept[old + p], c)
      BY <1>3, <3>1
    <3>3. SUFFICES ASSUME NEW j \in 1 .. L, j > old + p, Ends(feed.kept[j], c) PROVE FALSE
      BY <1>8, <2>1, <3>2
    <3>4. j > old /\ j - old > p
      BY <3>3, <1>1, <1>2, <3>1 DEF L
    <3>5. j - old \in 1 .. (L - old) /\ ns[j - old] = feed.kept[j]
      BY <1>5, <3>4
    <3>6. QED
      BY <3>1, <3>3, <3>4, <3>5 DEF About
  <2>3. CASE ~(a.dropped > 0) /\ c \in pending /\ Silent(ns, DOMAIN ns, c)
    <3>1. SUFFICES ASSUME WillEnd(feed, after, c) PROVE FALSE
      BY <1>7, <2>3
    <3>2. PICK i \in 1 .. L : feed.kept[i].seq > after /\ Ends(feed.kept[i], c)
      BY <1>1, <1>6, <2>3, <3>1 DEF WillEnd, Lost, Gone
    <3>3. i - old \in DOMAIN ns /\ ns[i - old] = feed.kept[i]
      BY <1>3, <1>4, <1>5, <3>2
    <3>4. QED
      BY <2>3, <3>2, <3>3 DEF Silent, About
  <2>4. QED
    <3>1. Opens(ns, DOMAIN ns, c) \/ (~(a.dropped > 0) /\ c \in pending /\ Silent(ns, DOMAIN ns, c))
      BY DEF Taken, ns
    <3>2. QED
      BY <2>2, <2>3, <3>1
<1>10. ASSUME ~missed, a.dropped = 0, NEW c \in Waiting PROVE c \in Taken(a)
  <2>1. c \in Calls /\ ~Over(c)
    BY DEF Waiting, Over, IsOver, Tool
  <2>2. \A i \in 1 .. L : ~Ends(feed.kept[i], c)
    BY <1>8, <2>1
  <2>3. c \in pending \/ \E i \in 1 .. L : feed.kept[i].seq > after /\ Begins(feed.kept[i], c)
    <3>1. ~(after < Gone)
      BY <1>6, <1>10
    <3>2. c \in pending \/ WillBegin(feed, after, c)
      BY <1>7, <1>10
    <3>3. QED
      BY <1>1, <3>1, <3>2 DEF WillBegin, Lost, Gone
  <2> DEFINE S == {p \in 1 .. (L - old) : Begins(ns[p], c)}
  <2>4. \A p \in 1 .. (L - old) : About(ns[p], c) <=> p \in S
    BY <1>3, <2>2 DEF About
  <2>5. CASE S = {}
    <3>1. Silent(ns, DOMAIN ns, c)
      BY <1>3, <2>4, <2>5 DEF Silent
    <3>2. c \in pending
      <4>1. SUFFICES ASSUME NEW i \in 1 .. L, feed.kept[i].seq > after, Begins(feed.kept[i], c) PROVE FALSE
        BY <2>3
      <4>2. i - old \in S
        BY <1>4, <1>5, <4>1
      <4>3. QED
        BY <4>2, <2>5
    <3>3. ~(a.dropped > 0)
      BY <1>10
    <3>4. QED
      BY <2>1, <3>1, <3>2, <3>3 DEF Taken, ns
  <2>6. CASE S # {}
    <3>1. L - old \in Nat /\ S \subseteq 1 .. (L - old)
      <4>1. old \in 0 .. L
        BY <1>2 DEF L
      <4>2. QED
        BY <1>1, <4>1
    <3> HIDE DEF S
    <3>2. Max(S) \in S /\ \A y \in S : y <= Max(S)
      BY <2>6, <3>1, MaxIs
    <3> DEFINE m == Max(S)
    <3>3. m \in 1 .. (L - old) /\ Begins(ns[m], c)
      BY <3>2 DEF S
    <3> HIDE DEF m
    <3>4. \A j \in 1 .. (L - old) : j > m => ~About(ns[j], c)
      <4>1. SUFFICES ASSUME NEW j \in 1 .. (L - old), j > m, j \in S PROVE FALSE
        BY <2>4
      <4>2. j <= m
        BY <3>2, <4>1 DEF m
      <4>3. QED
        BY <4>1, <4>2, <3>1, <3>3
    <3>5. Opens(ns, DOMAIN ns, c)
      BY <1>3, <3>3, <3>4 DEF Opens
    <3>6. QED
      BY <2>1, <3>5 DEF Taken, ns
  <2>7. QED
    BY <2>5, <2>6
<1>11. QED
  BY <1>9, <1>10 DEF Exact

\* What since answers is an answer, whatever the cursor.
LEMMA SinceIsAnswer ==
  ASSUME FeedInv, NEW after \in Nat
  PROVE  Since(after) \in Answers
<1> DEFINE L == Len(feed.kept)
<1>1. L \in Nat /\ L \in 0 .. L /\ feed.kept \in Seq(Notices) /\ feed.seq \in Nat /\ DOMAIN feed.kept = 1 .. L
  BY LenProperties DEF FeedInv
<1>2. PICK old \in 0 .. Len(feed.kept) : SplitAt(old, after)
  BY CursorSplits
<1>3. Newer(after) \in Seq(Notices)
  BY <1>1, <1>2, NewerIs, PieceIs
<1> DEFINE d == IF feed.kept # << >> /\ after < Head(feed.kept).seq - 1
                 THEN Head(feed.kept).seq - 1 - after ELSE 0
<1>4. d \in Nat
  <2>1. feed.kept # << >> => Head(feed.kept).seq \in Nat
    <3>1. feed.kept # << >> => Head(feed.kept) \in Notices
      BY <1>1, HeadTailProperties
    <3>2. QED
      BY <3>1 DEF Notices
  <2>2. QED
    BY <2>1
<1>5. Since(after) = [some |-> TRUE, notices |-> Newer(after), next |-> feed.seq, dropped |-> d]
  BY DEF Since
<1> HIDE DEF d
<1>6. QED
  BY <1>1, <1>3, <1>4, <1>5 DEF Answers

Kinds == {"awaiting", "decided", "unavailable", "access-requested"}
Notice(kind, c) == [seq |-> feed.seq + 1, kind |-> kind, id |-> c]

\* The ring has lost its d oldest notices and gained one.
Shifted(d, kind, c) ==
    /\ feed' \in [seq: Nat, kept: Seq(Notices)]
    /\ feed'.seq = feed.seq + 1
    /\ Len(feed'.kept) = Len(feed.kept) + 1 - d /\ Len(feed'.kept) >= 1 /\ Len(feed'.kept) <= Capacity
    /\ \A i \in 1 .. (Len(feed.kept) - d) : feed'.kept[i] = feed.kept[i + d]
    /\ feed'.kept[Len(feed.kept) + 1 - d] = Notice(kind, c)

\* publish appends its notice and lets at most one, the oldest, fall out.
LEMMA PublishIs ==
  ASSUME FeedInv, NEW kind \in Kinds, NEW c \in Calls, Publish(kind, c)
  PROVE  \E d \in {0, 1} : Shifted(d, kind, c)
<1> DEFINE L == Len(feed.kept)
           n == Notice(kind, c)
           k == Append(feed.kept, n)
<1>1. /\ L \in Nat /\ feed.kept \in Seq(Notices) /\ feed.seq \in Nat /\ L <= Capacity
      /\ Capacity \in Nat /\ Capacity >= 1
  BY SessionMCPAssumption, LenProperties DEF FeedInv
<1>2. n \in Notices
  BY <1>1 DEF Notice, Notices, Kinds
<1>3. /\ k \in Seq(Notices) /\ k # << >> /\ Len(k) = L + 1
      /\ \A i \in 1 .. L : k[i] = feed.kept[i]
      /\ k[L + 1] = n
  <2> HIDE DEF n
  <2>1. QED
    BY <1>1, <1>2, AppendProperties
<1>4. feed' = [seq |-> feed.seq + 1, kept |-> IF Len(k) > Capacity THEN Tail(k) ELSE k]
  BY DEF Publish, Notice
<1> HIDE DEF n, k, L
<1>5. CASE L + 1 > Capacity
  <2>1. feed'.seq = feed.seq + 1 /\ feed'.kept = Tail(k) /\ feed' = [seq |-> feed'.seq, kept |-> feed'.kept]
    BY <1>3, <1>4, <1>5
  <2>2. Tail(k) \in Seq(Notices) /\ Len(Tail(k)) = L /\ \A i \in 1 .. L : Tail(k)[i] = k[i + 1]
    <3>1. L + 1 - 1 = L
      BY <1>1
    <3>2. Tail(k) \in Seq(Notices) /\ Len(Tail(k)) = Len(k) - 1 /\ \A i \in 1 .. Len(Tail(k)) : Tail(k)[i] = k[i + 1]
      BY <1>3, HeadTailProperties
    <3>3. Len(k) - 1 = L
      <4>1. Len(k) = L + 1
        BY <1>3
      <4>2. QED
        BY <1>1, <4>1
    <3>4. QED
      BY <3>2, <3>3
  <2>3. L >= 1 /\ L = L + 1 - 1
    BY <1>1, <1>5
  <2>4. \A i \in 1 .. (L - 1) : feed'.kept[i] = feed.kept[i + 1]
    <3>1. ASSUME NEW i \in 1 .. (L - 1) PROVE i \in 1 .. L /\ i + 1 \in 1 .. L
      BY <1>1
    <3>2. QED
      BY <1>3, <2>1, <2>2, <3>1
  <2>5. feed'.kept[L + 1 - 1] = n
    BY <1>1, <1>3, <2>1, <2>2, <2>3
  <2>6. feed' \in [seq: Nat, kept: Seq(Notices)]
    <3>1. feed'.seq \in Nat /\ feed'.kept \in Seq(Notices)
      BY <1>1, <2>1, <2>2
    <3>2. QED
      BY <2>1, <3>1
  <2>7. Shifted(1, kind, c)
    BY <1>1, <2>1, <2>2, <2>3, <2>4, <2>5, <2>6 DEF Shifted, L, n
  <2>8. QED
    BY <2>7
<1>6. CASE ~(L + 1 > Capacity)
  <2>1. feed'.seq = feed.seq + 1 /\ feed'.kept = k /\ feed' = [seq |-> feed'.seq, kept |-> feed'.kept]
    BY <1>3, <1>4, <1>6
  <2>2. L + 1 >= 1 /\ L + 1 - 0 = L + 1 /\ L - 0 = L /\ L + 1 <= Capacity
    BY <1>1, <1>6
  <2>3. \A i \in 1 .. L : feed'.kept[i] = feed.kept[i + 0]
    BY <1>1, <1>3, <2>1
  <2>4. feed' \in [seq: Nat, kept: Seq(Notices)]
    BY <1>1, <2>1, <1>3
  <2>5. Shifted(0, kind, c)
    BY <1>3, <2>1, <2>2, <2>3, <2>4 DEF Shifted, L, n
  <2>6. QED
    BY <2>5
<1>7. QED
  BY <1>5, <1>6

\* The calls that wait, by their records.
LEMMA WaitingIs == Waiting = {c \in Calls : Waits(calls[c])}
  BY DEF Waiting, Waits, Tool

\* A step that leaves the feed and its reader alone, and starts or ends no wait.
Calm ==
    /\ feed' = feed /\ tail' = tail /\ pending' = pending /\ missed' = missed /\ restarts' = restarts
    /\ \A c \in Calls : (Waits(calls'[c]) <=> Waits(calls[c])) /\ (IsOver(calls[c]) => IsOver(calls'[c]))

\* A calm step keeps what the feed and its reader know.
LEMMA CalmStep ==
  ASSUME TailTypeOK, FeedInv, OrderInv, ReadInv, AnswerInv, Calm
  PROVE  TailTypeOK' /\ FeedInv' /\ OrderInv' /\ ReadInv' /\ AnswerInv'
<1>1. feed' = feed /\ tail' = tail /\ pending' = pending /\ missed' = missed /\ restarts' = restarts
  BY DEF Calm
<1>2. Waiting' = Waiting
  <2>1. Waiting' = {c \in Calls : Waits(calls'[c])}
    BY DEF Waiting, Waits, Tool
  <2>2. QED
    BY <2>1, WaitingIs DEF Calm
<1>3. \A c \in Calls : Over(c) => Over(c)'
  BY DEF Calm, Over
<1>4. TailTypeOK'
  BY <1>1 DEF TailTypeOK
<1>5. Gone' = Gone
  BY <1>1 DEF Gone
<1>6. FeedInv'
  BY <1>1, <1>5 DEF FeedInv
<1>7. OrderInv'
  <2>1. /\ \A c \in Calls, i \in DOMAIN feed.kept :
             /\ Ends(feed.kept[i], c) => Over(c)'
             /\ Begins(feed.kept[i], c) => c \in Waiting \/ \E j \in DOMAIN feed.kept : j > i /\ Ends(feed.kept[j], c)
        /\ \A c \in Waiting : Gone > 0 \/ \E i \in DOMAIN feed.kept : Begins(feed.kept[i], c)
    BY <1>3 DEF OrderInv
  <2>2. QED
    BY <1>1, <1>2, <1>5, <2>1 DEF OrderInv
<1>8. ReadInv'
  BY <1>1, <1>2 DEF ReadInv
<1>9. AnswerInv'
  <2>1. Taken(tail.answer)' = Taken(tail.answer)
    BY <1>1 DEF Taken
  <2>2. QED
    BY <1>1, <1>2, <2>1 DEF AnswerInv
<1>10. QED
  BY <1>4, <1>6, <1>7, <1>8, <1>9

\* A call publishes a notice, which says what the step does to its wait.
Speaks(kind, c) ==
    /\ Publish(kind, c)
    /\ tail' = tail /\ pending' = pending /\ missed' = missed /\ restarts' = restarts
    /\ \A d \in Calls : d # c => calls'[d] = calls[d]
    /\ IsOver(calls[c]) => IsOver(calls'[c])
    /\ kind = "awaiting" => ~Waits(calls[c]) /\ Waits(calls'[c])
    /\ kind \in {"decided", "unavailable"} => Waits(calls[c]) /\ ~Waits(calls'[c]) /\ IsOver(calls'[c])
    /\ kind = "access-requested" => ~Waits(calls[c]) /\ ~Waits(calls'[c])

\* A notice that fell out unread is counted, the others are read later.
LEMMA ShiftKeeps ==
  ASSUME FeedInv, NEW d \in {0, 1}, NEW kind \in Kinds, NEW c \in Calls, Shifted(d, kind, c),
         NEW after \in Nat, after <= feed.seq, NEW e
  PROVE  /\ WillEnd(feed, after, e) => WillEnd(feed', after, e)
         /\ WillBegin(feed, after, e) => WillBegin(feed', after, e)
         /\ Ends(Notice(kind, c), e) => WillEnd(feed', after, e)
         /\ Begins(Notice(kind, c), e) => WillBegin(feed', after, e)
<1> DEFINE L == Len(feed.kept)
           g == feed.seq - L
           k == feed.kept
           k2 == feed'.kept
<1>1. /\ L \in Nat /\ feed.seq \in Nat /\ DOMAIN k = 1 .. L /\ g \in Nat
      /\ \A i \in 1 .. L : k[i].seq = g + i
  BY LenProperties DEF FeedInv, Gone
<1>2. /\ feed'.seq = feed.seq + 1 /\ Len(k2) = L + 1 - d /\ L + 1 - d >= 1
      /\ DOMAIN k2 = 1 .. (L + 1 - d)
      /\ \A i \in 1 .. (L - d) : k2[i] = k[i + d]
      /\ k2[L + 1 - d] = Notice(kind, c)
  BY LenProperties DEF Shifted
<1> HIDE DEF L, k, k2
<1>3. L + 1 - d \in 1 .. (L + 1 - d) /\ Notice(kind, c).seq > after
  BY <1>1, <1>2 DEF Notice
<1>4. Lost(feed, after) => Lost(feed', after)
  <2>1. feed'.seq - Len(k2) = g + d
    BY <1>1, <1>2
  <2>2. Lost(feed, after) => after < g
    BY DEF Lost, L, k
  <2>3. after < g + d => Lost(feed', after)
    BY <2>1 DEF Lost, k2
  <2> HIDE DEF g
  <2>4. QED
    BY <1>1, <2>2, <2>3
<1>5. ASSUME NEW i \in 1 .. L, k[i].seq > after
      PROVE  Lost(feed', after) \/ \E j \in 1 .. (L + 1 - d) : k2[j] = k[i]
  <2>1. CASE i - d >= 1
    <3>1. i - d \in 1 .. (L - d) /\ i - d + d = i /\ i - d \in 1 .. (L + 1 - d)
      BY <1>1, <2>1
    <3>2. k2[i - d] = k[i]
      BY <1>2, <3>1
    <3>3. QED
      BY <3>1, <3>2
  <2>2. CASE ~(i - d >= 1)
    <3>1. d = 1 /\ i = 1
      BY <1>1, <2>2
    <3>2. after < g + 1
      BY <1>1, <1>5, <3>1
    <3>3. feed'.seq - Len(k2) = g + 1
      BY <1>1, <1>2, <3>1
    <3>4. QED
      BY <3>2, <3>3 DEF Lost, k2
  <2>3. QED
    BY <2>1, <2>2
<1>6. DOMAIN feed.kept = 1 .. L /\ DOMAIN feed'.kept = 1 .. (L + 1 - d) /\ k = feed.kept /\ k2 = feed'.kept
  BY <1>1, <1>2 DEF k, k2
<1>7. WillEnd(feed, after, e) => WillEnd(feed', after, e)
  <2>1. CASE Lost(feed, after)
    BY <1>4, <2>1 DEF WillEnd
  <2>2. ASSUME NEW i \in 1 .. L, k[i].seq > after, Ends(k[i], e) PROVE WillEnd(feed', after, e)
    BY <1>5, <1>6, <2>2 DEF WillEnd
  <2>3. QED
    BY <1>6, <2>1, <2>2 DEF WillEnd
<1>8. WillBegin(feed, after, e) => WillBegin(feed', after, e)
  <2>1. CASE Lost(feed, after)
    BY <1>4, <2>1 DEF WillBegin
  <2>2. ASSUME NEW i \in 1 .. L, k[i].seq > after, Begins(k[i], e) PROVE WillBegin(feed', after, e)
    BY <1>5, <1>6, <2>2 DEF WillBegin
  <2>3. QED
    BY <1>6, <2>1, <2>2 DEF WillBegin
<1>9. Ends(Notice(kind, c), e) => WillEnd(feed', after, e)
  BY <1>2, <1>3, <1>6 DEF WillEnd
<1>10. Begins(Notice(kind, c), e) => WillBegin(feed', after, e)
  BY <1>2, <1>3, <1>6 DEF WillBegin
<1>11. QED
  BY <1>7, <1>8, <1>9, <1>10

\* publish keeps the numbers without a gap.
LEMMA ShiftedFeed ==
  ASSUME FeedInv, NEW d \in {0, 1}, NEW kind \in Kinds, NEW c \in Calls, Shifted(d, kind, c)
  PROVE  FeedInv' /\ Gone' = Gone + d
<1> DEFINE L == Len(feed.kept)
           L2 == Len(feed'.kept)
<1>1. /\ L \in Nat /\ feed.seq \in Nat /\ DOMAIN feed.kept = 1 .. L /\ Gone = feed.seq - L /\ Gone \in Nat
      /\ \A i \in 1 .. L : feed.kept[i].seq = Gone + i
  BY LenProperties DEF FeedInv, Gone
<1>2. /\ feed'.seq = feed.seq + 1 /\ L2 = L + 1 - d /\ L2 >= 1 /\ L2 <= Capacity
      /\ DOMAIN feed'.kept = 1 .. L2 /\ L2 \in Nat
      /\ \A i \in 1 .. (L - d) : feed'.kept[i] = feed.kept[i + d]
      /\ feed'.kept[L + 1 - d] = Notice(kind, c)
      /\ feed' \in [seq: Nat, kept: Seq(Notices)]
  BY LenProperties DEF Shifted
<1>3. Gone' = feed'.seq - L2
  BY DEF Gone
<1> HIDE DEF L, L2
<1>4. Gone' = Gone + d
  BY <1>1, <1>2, <1>3
<1>5. L2 <= feed'.seq
  BY <1>1, <1>2
<1>6. ASSUME NEW i \in 1 .. L2 PROVE feed'.kept[i].seq = Gone' + i
  <2>1. CASE i = L2
    <3>1. feed'.kept[i].seq = feed.seq + 1
      BY <1>2, <2>1 DEF Notice
    <3>2. QED
      BY <1>1, <1>2, <1>3, <2>1, <3>1
  <2>2. CASE i # L2
    <3>1. i \in 1 .. (L - d) /\ i + d \in 1 .. L
      BY <1>1, <1>2, <2>2
    <3>2. feed'.kept[i].seq = Gone + (i + d)
      BY <1>1, <1>2, <3>1
    <3>3. QED
      BY <1>1, <1>4, <3>2
  <2>3. QED
    BY <2>1, <2>2
<1>7. FeedInv'
  BY <1>2, <1>5, <1>6 DEF FeedInv, L2
<1>8. QED
  BY <1>4, <1>7

\* What a reader has still to read makes up for what a notice says has changed.
LEMMA ShiftedExact ==
  ASSUME FeedInv, NEW kind \in Kinds, NEW c \in Calls, Speaks(kind, c),
         NEW d \in {0, 1}, Shifted(d, kind, c),
         NEW after \in Nat, after <= feed.seq, NEW set, set \subseteq Calls, NEW complete,
         Exact(feed, Waiting, set, after, complete)
  PROVE  Exact(feed', Waiting', set, after, complete)
<1>1. \A e : /\ WillEnd(feed, after, e) => WillEnd(feed', after, e)
             /\ WillBegin(feed, after, e) => WillBegin(feed', after, e)
             /\ Ends(Notice(kind, c), e) => WillEnd(feed', after, e)
             /\ Begins(Notice(kind, c), e) => WillBegin(feed', after, e)
  BY ShiftKeeps
<1>2. Waiting = {e \in Calls : Waits(calls[e])} /\ Waiting' = {e \in Calls : Waits(calls'[e])}
  BY DEF Waiting, Waits, Tool
<1>3. Notice(kind, c).id = c /\ Notice(kind, c).kind = kind
  BY DEF Notice
<1>4. ASSUME NEW e \in set, e \notin Waiting' PROVE WillEnd(feed', after, e)
  <2>1. e \in Waiting \/ WillEnd(feed, after, e)
    BY <1>4 DEF Exact
  <2>2. CASE e \in Waiting
    <3>1. e = c /\ kind \in {"decided", "unavailable"}
      BY <1>2, <1>4, <2>2 DEF Speaks, Kinds
    <3>2. QED
      BY <1>1, <1>3, <3>1 DEF Ends
  <2>3. QED
    BY <1>1, <2>1, <2>2
<1>5. ASSUME complete, NEW e \in Waiting', e \notin set PROVE WillBegin(feed', after, e)
  <2>1. CASE e \in Waiting
    <3>1. WillBegin(feed, after, e)
      BY <1>5, <2>1 DEF Exact
    <3>2. QED
      BY <1>1, <3>1
  <2>2. CASE e \notin Waiting
    <3>1. e = c /\ kind = "awaiting"
      BY <1>2, <1>5, <2>2 DEF Speaks, Kinds
    <3>2. QED
      BY <1>1, <1>3, <3>1 DEF Begins
  <2>3. QED
    BY <2>1, <2>2
<1>6. QED
  BY <1>4, <1>5 DEF Exact

\* publish keeps the notices in the order of the calls' lives.
LEMMA ShiftedOrder ==
  ASSUME FeedInv, OrderInv, NEW kind \in Kinds, NEW c \in Calls, Speaks(kind, c),
         NEW d \in {0, 1}, Shifted(d, kind, c)
  PROVE  OrderInv'
<1> DEFINE L == Len(feed.kept)
           L2 == L + 1 - d
           k == feed.kept
           k2 == feed'.kept
<1>1. L \in Nat /\ DOMAIN k = 1 .. L /\ Gone \in Nat
  BY LenProperties DEF FeedInv, Gone
<1>2. /\ DOMAIN k2 = 1 .. L2 /\ L2 >= 1
      /\ \A i \in 1 .. (L - d) : k2[i] = k[i + d]
      /\ k2[L2] = Notice(kind, c)
  BY LenProperties DEF Shifted
<1>3. Gone' = Gone + d
  BY ShiftedFeed
<1>4. Waiting = {e \in Calls : Waits(calls[e])} /\ Waiting' = {e \in Calls : Waits(calls'[e])}
  BY DEF Waiting, Waits, Tool
<1>5. \A e \in Calls : (Over(e) => Over(e)') /\ (Over(e)' <=> IsOver(calls'[e]))
  BY DEF Over, Speaks
<1>6. Notice(kind, c).id = c /\ Notice(kind, c).kind = kind
  BY DEF Notice
<1>7. /\ \A e \in Calls, i \in 1 .. L :
           /\ Ends(k[i], e) => Over(e)
           /\ Begins(k[i], e) => e \in Waiting \/ \E j \in 1 .. L : j > i /\ Ends(k[j], e)
      /\ \A e \in Waiting : Gone > 0 \/ \E i \in 1 .. L : Begins(k[i], e)
  BY <1>1 DEF OrderInv
<1> HIDE DEF L, k, k2
<1>8. \A i \in 1 .. L2 : i = L2 \/ (i \in 1 .. (L - d) /\ i + d \in 1 .. L /\ k2[i] = k[i + d])
  BY <1>1, <1>2
<1> HIDE DEF L2
<1>9. L2 \in Nat /\ L2 \in 1 .. L2
  BY <1>1, <1>2 DEF L2
<1>10. ASSUME NEW e \in Calls, NEW i \in 1 .. L2, Ends(k2[i], e) PROVE Over(e)'
  <2>1. CASE i = L2
    <3>1. e = c /\ kind \in {"decided", "unavailable"}
      BY <1>2, <1>6, <1>10, <2>1 DEF Ends
    <3>2. QED
      BY <1>5, <3>1 DEF Speaks
  <2>2. CASE i # L2
    BY <1>5, <1>7, <1>8, <1>10, <2>2
  <2>3. QED
    BY <2>1, <2>2
<1>11. ASSUME NEW e \in Calls, NEW i \in 1 .. L2, Begins(k2[i], e), e \notin Waiting'
       PROVE  \E j \in 1 .. L2 : j > i /\ Ends(k2[j], e)
  <2>1. i # L2
    <3>1. SUFFICES ASSUME i = L2 PROVE FALSE
      OBVIOUS
    <3>2. e = c /\ kind = "awaiting"
      BY <1>2, <1>6, <1>11, <3>1 DEF Begins
    <3>3. QED
      BY <1>4, <1>11, <3>2 DEF Speaks
  <2>2. i + d \in 1 .. L /\ Begins(k[i + d], e) /\ i \in 1 .. (L - d)
    BY <1>8, <1>11, <2>1
  <2>3. CASE e \in Waiting
    <3>1. e = c /\ kind \in {"decided", "unavailable"}
      BY <1>4, <1>11, <2>3 DEF Speaks, Kinds
    <3>2. Ends(k2[L2], e)
      BY <1>2, <1>6, <3>1 DEF Ends
    <3>3. L2 > i
      BY <1>9, <2>1
    <3>4. QED
      BY <1>9, <3>2, <3>3
  <2>4. CASE e \notin Waiting
    <3>1. PICK j \in 1 .. L : j > i + d /\ Ends(k[j], e)
      BY <1>7, <2>2, <2>4
    <3>2. j - d \in 1 .. (L - d) /\ j - d > i /\ j - d + d = j /\ j - d \in 1 .. L2
      BY <1>1, <3>1, <2>2 DEF L2
    <3>3. k2[j - d] = k[j]
      BY <1>2, <3>2
    <3>4. QED
      BY <3>1, <3>2, <3>3
  <2>5. QED
    BY <2>3, <2>4
<1>12. ASSUME NEW e \in Waiting' PROVE Gone' > 0 \/ \E i \in 1 .. L2 : Begins(k2[i], e)
  <2>1. CASE e \in Waiting
    <3>1. Gone > 0 \/ \E i \in 1 .. L : Begins(k[i], e)
      BY <1>7, <2>1
    <3>2. CASE Gone > 0
      BY <1>1, <1>3, <3>2
    <3>3. CASE d = 1
      BY <1>1, <1>3, <3>3
    <3>4. ASSUME d = 0, NEW i \in 1 .. L, Begins(k[i], e) PROVE \E j \in 1 .. L2 : Begins(k2[j], e)
      <4>1. i \in 1 .. (L - d) /\ i + d = i /\ i \in 1 .. L2
        BY <1>1, <3>4 DEF L2
      <4>2. k2[i] = k[i]
        BY <1>2, <4>1
      <4>3. QED
        BY <3>4, <4>1, <4>2
    <3>5. QED
      BY <3>1, <3>2, <3>3, <3>4
  <2>2. CASE e \notin Waiting
    <3>1. e = c /\ kind = "awaiting"
      BY <1>4, <1>12, <2>2 DEF Speaks, Kinds
    <3>2. Begins(k2[L2], e)
      BY <1>2, <1>6, <3>1 DEF Begins
    <3>3. QED
      BY <1>9, <3>2
  <2>3. QED
    BY <2>1, <2>2
<1>13. DOMAIN feed'.kept = 1 .. L2 /\ k2 = feed'.kept
  BY <1>2 DEF k2
<1>14. QED
  BY <1>10, <1>11, <1>12, <1>13 DEF OrderInv

\* So a step that publishes keeps what the feed and its reader know.
LEMMA SpeakStep ==
  ASSUME pending \subseteq Calls, TailTypeOK, FeedInv, OrderInv, ReadInv, AnswerInv,
         NEW kind \in Kinds, NEW c \in Calls, Speaks(kind, c)
  PROVE  TailTypeOK' /\ FeedInv' /\ OrderInv' /\ ReadInv' /\ AnswerInv'
<1>1. tail' = tail /\ pending' = pending /\ missed' = missed /\ restarts' = restarts /\ Publish(kind, c)
  BY DEF Speaks
<1>2. PICK d \in {0, 1} : Shifted(d, kind, c)
  BY <1>1, PublishIs
<1>3. FeedInv' /\ OrderInv'
  BY <1>2, ShiftedFeed, ShiftedOrder
<1>4. TailTypeOK'
  BY <1>1 DEF TailTypeOK
<1>5. feed'.seq = feed.seq + 1 /\ feed.seq \in Nat
  BY <1>2 DEF Shifted, FeedInv
<1>6. tail.after \in Nat /\ tail.answer.next \in Nat
  BY DEF TailTypeOK, Answers
<1>7. ReadInv'
  <2>1. SUFFICES ASSUME restarts.helper = 0
                 PROVE  tail.after <= feed'.seq /\ Exact(feed', Waiting', pending, tail.after, ~missed)
    BY <1>1 DEF ReadInv
  <2>2. tail.after <= feed.seq /\ Exact(feed, Waiting, pending, tail.after, ~missed)
    BY <2>1 DEF ReadInv
  <2>3. Exact(feed', Waiting', pending, tail.after, ~missed)
    BY <1>2, <1>6, <2>2, ShiftedExact
  <2>4. QED
    BY <1>5, <1>6, <2>2, <2>3
<1>8. AnswerInv'
  <2> DEFINE a == tail.answer
             all == ~missed /\ a.dropped = 0
  <2>0. Taken(a)' = Taken(a) /\ Taken(a) \subseteq Calls
    BY <1>1 DEF Taken
  <2>1. SUFFICES ASSUME restarts.helper = 0, a.some
                 PROVE  /\ tail.after <= a.next /\ a.next <= feed'.seq
                        /\ Exact(feed', Waiting', Taken(a), a.next, all)
    BY <1>1, <2>0 DEF AnswerInv
  <2>2. tail.after <= a.next /\ a.next <= feed.seq /\ Exact(feed, Waiting, Taken(a), a.next, all)
    BY <2>1 DEF AnswerInv
  <2>3. Exact(feed', Waiting', Taken(a), a.next, all)
    <3> HIDE DEF all
    <3>1. QED
      BY <1>2, <1>6, <2>0, <2>2, ShiftedExact
  <2>4. QED
    BY <1>5, <1>6, <2>2, <2>3
<1>9. QED
  BY <1>3, <1>4, <1>7, <1>8

\* Two records of a call that differ in what is named.
Like(y, tool, step, target, decision, list) ==
    /\ y \in CallRecords
    /\ y.tool = tool /\ y.pc = step /\ y.target = target /\ y.decision = decision /\ y.list = list

\* What an update of a call's record changes, and what it leaves.
LEMMA AtStep ==
  ASSUME NEW x \in CallRecords, NEW step \in CallStates
  PROVE  LET y == [x EXCEPT !.pc = step] IN Like(y, x.tool, step, x.target, x.decision, x.list)
  BY DEF CallRecords, Like

\* The same where the call gets its decision.
LEMMA AtDecision ==
  ASSUME NEW x \in CallRecords, NEW step \in CallStates, NEW decision \in Settled \cup {"TIMEOUT", "none"}
  PROVE  LET y == [x EXCEPT !.pc = step, !.decision = decision] IN Like(y, x.tool, step, x.target, decision, x.list)
  BY DEF CallRecords, Like

\* The same where it gets its list.
LEMMA AtList ==
  ASSUME NEW x \in CallRecords, NEW step \in CallStates, NEW list \in SUBSET Repos
  PROVE  LET y == [x EXCEPT !.pc = step, !.list = list] IN Like(y, x.tool, step, x.target, x.decision, list)
  BY DEF CallRecords, Like

\* The same where it begins.
LEMMA AtCall ==
  ASSUME NEW x \in CallRecords, NEW step \in CallStates, NEW tool \in Tools, NEW target \in Targets
  PROVE  LET y == [x EXCEPT !.tool = tool, !.pc = step, !.target = target]
         IN  Like(y, tool, step, target, x.decision, x.list)
  BY DEF CallRecords, Like

Put(c, r) == calls' = [calls EXCEPT ![c] = r]

\* The calls stay safe when the one that moves is.
LEMMA PutStep ==
  ASSUME CallsTypeOK, SafeInv, NEW c \in Calls, NEW r \in CallRecords, NEW g \in Statuses, NEW a \in Reached,
         Put(c, r), gateway' = [gateway EXCEPT ![c] = g], acted' = [acted EXCEPT ![c] = a], deployment' = deployment,
         SafeAt(r, g, a, deployment)
  PROVE  CallsTypeOK' /\ SafeInv' /\ calls'[c] = r /\ (\A d \in Calls : d # c => calls'[d] = calls[d])
<1>1. CallsTypeOK'
  BY DEF CallsTypeOK, Put
<1>2. calls'[c] = r /\ gateway'[c] = g /\ acted'[c] = a
  BY DEF CallsTypeOK, Put
<1>3. \A d \in Calls : d # c => calls'[d] = calls[d] /\ gateway'[d] = gateway[d] /\ acted'[d] = acted[d]
  BY DEF CallsTypeOK, Put
<1>4. ASSUME NEW d \in Calls PROVE SafeAt(calls'[d], gateway'[d], acted'[d], deployment')
  <2>1. CASE d = c
    BY <1>2, <2>1
  <2>2. CASE d # c
    BY <1>3, <2>2 DEF SafeInv
  <2>3. QED
    BY <2>1, <2>2
<1>5. SafeInv'
  BY <1>4 DEF SafeInv
<1>6. QED
  BY <1>1, <1>2, <1>3, <1>5

Unsaid == deployment' = deployment /\ origin' = origin /\ mcpFaults' \in 0 .. MaxMcpFaults

GoodCall == CallsTypeOK' /\ SafeInv' /\ Calm /\ Unsaid
GoodTalk(kind, c) == CallsTypeOK' /\ SafeInv' /\ Speaks(kind, c) /\ Unsaid

\* A call that moves and says nothing is a calm step if its wait neither begins nor ends.
LEMMA QuietCall ==
  ASSUME CallsTypeOK, SafeInv, NEW c \in Calls, NEW r \in CallRecords, NEW g \in Statuses, NEW a \in Reached,
         Put(c, r), gateway' = [gateway EXCEPT ![c] = g], acted' = [acted EXCEPT ![c] = a],
         Quiet, mcpFaults' \in 0 .. MaxMcpFaults,
         SafeAt(r, g, a, deployment), Waits(r) <=> Waits(calls[c]), IsOver(calls[c]) => IsOver(r)
  PROVE  GoodCall
<1>1. /\ deployment' = deployment /\ origin' = origin /\ feed' = feed /\ tail' = tail /\ pending' = pending
      /\ missed' = missed /\ restarts' = restarts
  BY DEF Quiet
<1>2. CallsTypeOK' /\ SafeInv' /\ calls'[c] = r /\ (\A d \in Calls : d # c => calls'[d] = calls[d])
  BY <1>1, PutStep
<1>3. Calm
  BY <1>1, <1>2 DEF Calm
<1>4. QED
  BY <1>1, <1>2, <1>3 DEF GoodCall, Unsaid

\* The call that is at hand.
Premise(c) ==
    /\ CallsTypeOK /\ SafeInv /\ mcpFaults \in 0 .. MaxMcpFaults /\ MaxMcpFaults \in Nat
    /\ c \in Calls /\ allow \subseteq Repos

\* What is known of the call at hand.
LEMMA Hand ==
  ASSUME NEW c, Premise(c)
  PROVE  /\ c \in Calls /\ calls[c] \in CallRecords /\ gateway[c] \in Statuses /\ acted[c] \in Reached
         /\ SafeAt(calls[c], gateway[c], acted[c], deployment)
         /\ gateway = [gateway EXCEPT ![c] = gateway[c]] /\ acted = [acted EXCEPT ![c] = acted[c]]
         /\ mcpFaults \in 0 .. MaxMcpFaults /\ (McpFault => mcpFaults' \in 0 .. MaxMcpFaults)
<1>1. gateway = [gateway EXCEPT ![c] = gateway[c]] /\ acted = [acted EXCEPT ![c] = acted[c]]
  BY DEF Premise, CallsTypeOK
<1>2. McpFault => mcpFaults' \in 0 .. MaxMcpFaults
  BY DEF Premise, McpFault
<1>3. QED
  BY <1>1, <1>2 DEF Premise, CallsTypeOK, SafeInv

\* A move changes where the call is, and nothing else.
LEMMA GoIs ==
  ASSUME NEW c \in Calls, CallsTypeOK, NEW step \in CallStates, GoTo(c, step)
  PROVE  \E r \in CallRecords :
           Put(c, r) /\ Like(r, calls[c].tool, step, calls[c].target, calls[c].decision, calls[c].list)
<1> DEFINE r == [calls[c] EXCEPT !.pc = step]
<1>1. calls[c] \in CallRecords
  BY DEF CallsTypeOK
<1>2. Like(r, calls[c].tool, step, calls[c].target, calls[c].decision, calls[c].list)
  BY <1>1, AtStep
<1>3. Put(c, r)
  BY DEF GoTo, Put
<1>4. QED
  BY <1>2, <1>3 DEF Like

\* A call goes on by itself.
LEMMA GoCalm ==
  ASSUME NEW c, Premise(c), NEW step \in CallStates, GoTo(c, step), NEW g \in Statuses,
         gateway' = [gateway EXCEPT ![c] = g], acted' = acted,
         Quiet, mcpFaults' \in 0 .. MaxMcpFaults,
         \A r \in CallRecords : Like(r, calls[c].tool, step, calls[c].target, calls[c].decision, calls[c].list) =>
            SafeAt(r, g, acted[c], deployment) /\ (Waits(r) <=> Waits(calls[c])) /\ (IsOver(calls[c]) => IsOver(r))
  PROVE  GoodCall
<1>1. c \in Calls /\ CallsTypeOK /\ SafeInv /\ acted[c] \in Reached /\ acted' = [acted EXCEPT ![c] = acted[c]]
  BY Hand DEF Premise
<1>2. PICK r \in CallRecords :
        Put(c, r) /\ Like(r, calls[c].tool, step, calls[c].target, calls[c].decision, calls[c].list)
  BY <1>1, GoIs
<1>3. SafeAt(r, g, acted[c], deployment) /\ (Waits(r) <=> Waits(calls[c])) /\ (IsOver(calls[c]) => IsOver(r))
  BY <1>2
<1>4. QED
  BY <1>1, <1>2, <1>3, QuietCall

\* callTool takes a request in.
LEMMA CallToolStep == ASSUME NEW c, Premise(c), CallTool(c) PROVE GoodCall
<1>1. PICK tool \in Tools, target \in Targets :
        /\ At(c, "idle") /\ Accepts(tool, target)
        /\ calls' = [calls EXCEPT ![c].tool = tool, ![c].pc = First(tool), ![c].target = target]
        /\ Quiet /\ UNCHANGED <<gateway, acted, mcpFaults, storeVars>>
  BY DEF CallTool
<1> DEFINE x == calls[c]
           r == [x EXCEPT !.tool = tool, !.pc = First(tool), !.target = target]
<1>2. /\ c \in Calls /\ x \in CallRecords /\ gateway[c] \in Statuses /\ acted[c] \in Reached
      /\ SafeAt(x, gateway[c], acted[c], deployment)
      /\ gateway' = [gateway EXCEPT ![c] = gateway[c]] /\ acted' = [acted EXCEPT ![c] = acted[c]]
      /\ mcpFaults' \in 0 .. MaxMcpFaults /\ CallsTypeOK /\ SafeInv
  BY <1>1, Hand DEF Premise
<1>3. /\ First(tool) \in CallStates /\ First(tool) \in {"announce", "check", "ask"}
      /\ First(tool) = "announce" => tool = "gated"
      /\ First(tool) = "check" => tool \in {"git_clone", "git_push"} /\ deployment.list
  BY <1>1 DEF First, Tools, CallStates, Accepts
<1>4. Like(r, tool, First(tool), target, x.decision, x.list)
  <2> HIDE DEF x
  <2>1. QED
    BY <1>2, <1>3, AtCall
<1>5. Put(c, r)
  BY <1>1 DEF Put
<1>6. x.pc = "idle" /\ acted[c] = Nothing
  BY <1>1, <1>2 DEF At, SafeAt
<1> HIDE DEF r, x
<1>7. SafeAt(r, gateway[c], acted[c], deployment) /\ ~Waits(r)
  BY <1>3, <1>4, <1>6 DEF SafeAt, Waits, Like
<1>8. ~Waits(calls[c]) /\ ~IsOver(calls[c])
  BY <1>6 DEF Waits, IsOver, x
<1>9. r \in CallRecords
  BY <1>4 DEF Like
<1>10. QED
  BY <1>1, <1>2, <1>5, <1>7, <1>8, <1>9, QuietCall DEF x

\* The request for an approval, answered or lost.
LEMMA CreateStep == ASSUME NEW c, Premise(c), CreateApproval(c) PROVE GoodCall
<1> DEFINE x == calls[c]
<1>1. /\ c \in Calls /\ x \in CallRecords /\ gateway[c] \in Statuses /\ acted[c] \in Reached
      /\ SafeAt(x, gateway[c], acted[c], deployment) /\ acted = [acted EXCEPT ![c] = acted[c]]
      /\ mcpFaults \in 0 .. MaxMcpFaults /\ (McpFault => mcpFaults' \in 0 .. MaxMcpFaults) /\ CallsTypeOK /\ SafeInv
  BY Hand DEF Premise
<1>2. x.pc = "create" /\ x.tool = "gated" /\ acted[c] = Nothing
  BY <1>1 DEF CreateApproval, At, SafeAt
<1>3. Waits(x) /\ ~IsOver(x)
  BY <1>2 DEF Waits, IsOver
<1>4. Quiet /\ acted' = acted
  BY DEF CreateApproval
<1>5. ASSUME NEW status \in Settled \cup {"PENDING"}, gateway' = [gateway EXCEPT ![c] = status],
             calls' = [calls EXCEPT ![c].pc = IF status = "PENDING" THEN "poll" ELSE "decided",
                                    ![c].decision = IF status = "PENDING" THEN "none" ELSE status],
             UNCHANGED mcpFaults
      PROVE  GoodCall
  <2> DEFINE step == IF status = "PENDING" THEN "poll" ELSE "decided"
             decision == IF status = "PENDING" THEN "none" ELSE status
             r == [x EXCEPT !.pc = step, !.decision = decision]
  <2>1. /\ step \in CallStates /\ step \in {"poll", "decided"} /\ decision \in Settled \cup {"TIMEOUT", "none"}
        /\ decision = "APPROVED" => status = "APPROVED"
    BY <1>5 DEF CallStates, Settled
  <2>2. Put(c, r)
    BY <1>5 DEF Put
  <2>3. Like(r, x.tool, step, x.target, decision, x.list)
    <3> HIDE DEF x, step, decision
    <3>1. QED
      BY <1>1, <2>1, AtDecision
  <2> HIDE DEF r, step, decision
  <2>4. SafeAt(r, status, acted[c], deployment) /\ Waits(r)
    BY <1>2, <2>1, <2>3 DEF SafeAt, Waits, Like
  <2>5. r \in CallRecords /\ status \in Statuses
    BY <1>5, <2>3 DEF Like, Statuses
  <2>6. QED
    BY <1>1, <1>3, <1>4, <1>5, <2>2, <2>4, <2>5, QuietCall
<1>6. ASSUME NEW status \in {"none", "PENDING"}, McpFault, GoTo(c, "unavailable"),
             gateway' = [gateway EXCEPT ![c] = status]
      PROVE  GoodCall
  <2>1. "unavailable" \in CallStates /\ status \in Statuses /\ mcpFaults' \in 0 .. MaxMcpFaults
    BY <1>1, <1>6 DEF CallStates, Statuses
  <2>2. ASSUME NEW r \in CallRecords, Like(r, x.tool, "unavailable", x.target, x.decision, x.list)
        PROVE  SafeAt(r, status, acted[c], deployment) /\ Waits(r)
    BY <1>2, <2>2 DEF SafeAt, Waits, Like
  <2>3. QED
    BY <1>3, <1>4, <1>6, <2>1, <2>2, GoCalm
<1>7. QED
  BY <1>5, <1>6 DEF CreateApproval

\* A poll ends with the gateway's decision, or at the deadline.
LEMMA PolledStep == ASSUME NEW c, Premise(c), Polled(c) \/ GiveUp(c) PROVE GoodCall
<1> DEFINE x == calls[c]
<1>1. /\ c \in Calls /\ x \in CallRecords /\ gateway[c] \in Statuses /\ acted[c] \in Reached
      /\ SafeAt(x, gateway[c], acted[c], deployment) /\ acted = [acted EXCEPT ![c] = acted[c]]
      /\ gateway = [gateway EXCEPT ![c] = gateway[c]] /\ mcpFaults \in 0 .. MaxMcpFaults /\ CallsTypeOK /\ SafeInv
  BY Hand DEF Premise
<1>2. x.pc = "poll" /\ x.tool = "gated" /\ acted[c] = Nothing
  BY <1>1 DEF Polled, GiveUp, At, SafeAt
<1>3. Waits(x) /\ ~IsOver(x)
  BY <1>2 DEF Waits, IsOver
<1>4. Quiet /\ acted' = acted /\ gateway' = gateway /\ mcpFaults' = mcpFaults
  BY DEF Polled, GiveUp
<1>5. PICK decision \in Settled \cup {"TIMEOUT", "none"} :
        /\ calls' = [calls EXCEPT ![c].pc = "decided", ![c].decision = decision]
        /\ decision = "APPROVED" => gateway[c] = "APPROVED"
  <2>1. CASE Polled(c)
    BY <2>1 DEF Polled
  <2>2. CASE GiveUp(c)
    <3>1. calls' = [calls EXCEPT ![c].pc = "decided", ![c].decision = "TIMEOUT"]
      BY <2>2 DEF GiveUp
    <3>2. "TIMEOUT" \in Settled \cup {"TIMEOUT", "none"} /\ "TIMEOUT" # "APPROVED"
      OBVIOUS
    <3>3. QED
      BY <3>1, <3>2
  <2>3. QED
    BY <2>1, <2>2
<1> DEFINE r == [x EXCEPT !.pc = "decided", !.decision = decision]
<1>6. Put(c, r)
  BY <1>5 DEF Put
<1>7. Like(r, x.tool, "decided", x.target, decision, x.list)
  <2> HIDE DEF x
  <2>1. "decided" \in CallStates
    BY DEF CallStates
  <2>2. QED
    BY <1>1, <1>5, <2>1, AtDecision
<1> HIDE DEF r
<1>8. SafeAt(r, gateway[c], acted[c], deployment) /\ Waits(r) /\ r \in CallRecords
  BY <1>2, <1>5, <1>7 DEF SafeAt, Waits, Like
<1>9. QED
  BY <1>1, <1>3, <1>4, <1>6, <1>8, QuietCall

\* A poll fails.
LEMMA PollingFailsStep == ASSUME NEW c, Premise(c), PollingFails(c) PROVE GoodCall
<1> DEFINE x == calls[c]
<1>1. /\ c \in Calls /\ x \in CallRecords /\ gateway[c] \in Statuses
      /\ SafeAt(x, gateway[c], acted[c], deployment)
      /\ gateway = [gateway EXCEPT ![c] = gateway[c]] /\ (McpFault => mcpFaults' \in 0 .. MaxMcpFaults)
  BY Hand DEF Premise
<1>2. x.pc = "poll" /\ x.tool = "gated" /\ acted[c] = Nothing
  BY <1>1 DEF PollingFails, At, SafeAt
<1>3. Waits(x) /\ ~IsOver(x)
  BY <1>2 DEF Waits, IsOver
<1>4. /\ Quiet /\ acted' = acted /\ gateway' = gateway
      /\ McpFault /\ GoTo(c, "unavailable") /\ "unavailable" \in CallStates
  BY DEF PollingFails, CallStates
<1>5. ASSUME NEW r \in CallRecords, Like(r, x.tool, "unavailable", x.target, x.decision, x.list)
      PROVE  SafeAt(r, gateway[c], acted[c], deployment) /\ Waits(r)
  BY <1>2, <1>5 DEF SafeAt, Waits, Like
<1>6. QED
  BY <1>1, <1>3, <1>4, <1>5, GoCalm

\* The allow list is asked.
LEMMA CheckStep == ASSUME NEW c, Premise(c), Check(c) PROVE GoodCall
<1> DEFINE x == calls[c]
<1>1. /\ c \in Calls /\ x \in CallRecords /\ gateway[c] \in Statuses /\ acted[c] \in Reached
      /\ SafeAt(x, gateway[c], acted[c], deployment) /\ acted = [acted EXCEPT ![c] = acted[c]]
      /\ gateway = [gateway EXCEPT ![c] = gateway[c]] /\ mcpFaults \in 0 .. MaxMcpFaults
      /\ (McpFault => mcpFaults' \in 0 .. MaxMcpFaults) /\ CallsTypeOK /\ SafeInv /\ allow \in SUBSET Repos
  BY Hand DEF Premise
<1>2. x.pc = "check" /\ x.tool \in {"git_clone", "git_push"} /\ deployment.list /\ acted[c] = Nothing
  BY <1>1 DEF Check, At, SafeAt
<1>3. ~Waits(x) /\ ~IsOver(x)
  BY <1>2 DEF Waits, IsOver
<1>4. Quiet /\ acted' = acted /\ gateway' = gateway
  BY DEF Check
<1>5. ASSUME calls' = [calls EXCEPT ![c].pc = IF Allowed(calls[c].target) THEN "mint" ELSE "done", ![c].list = allow],
             mcpFaults' = mcpFaults
      PROVE  GoodCall
  <2> DEFINE step == IF Allowed(calls[c].target) THEN "mint" ELSE "done"
             r == [x EXCEPT !.pc = step, !.list = allow]
  <2>1. step \in CallStates /\ step \in {"mint", "done"} /\ (step = "mint" => NormalizeRepo(x.target) \in allow)
    BY DEF CallStates, Allowed
  <2>2. Put(c, r)
    BY <1>5 DEF Put
  <2>3. Like(r, x.tool, step, x.target, x.decision, allow)
    <3> HIDE DEF x, step
    <3>1. QED
      BY <1>1, <2>1, AtList
  <2> HIDE DEF r, step
  <2>4. SafeAt(r, gateway[c], acted[c], deployment) /\ ~Waits(r) /\ r \in CallRecords
    BY <1>2, <2>1, <2>3 DEF SafeAt, Waits, Like
  <2>5. QED
    BY <1>1, <1>3, <1>4, <1>5, <2>2, <2>4, QuietCall
<1>6. ASSUME McpFault, GoTo(c, "done") PROVE GoodCall
  <2>1. ASSUME NEW r \in CallRecords, Like(r, x.tool, "done", x.target, x.decision, x.list)
        PROVE  SafeAt(r, gateway[c], acted[c], deployment) /\ ~Waits(r)
    BY <1>2, <2>1 DEF SafeAt, Waits, Like
  <2>2. "done" \in CallStates
    BY DEF CallStates
  <2>3. QED
    BY <1>1, <1>3, <1>4, <1>6, <2>1, <2>2, GoCalm
<1>7. QED
  BY <1>5, <1>6 DEF Check

\* A token is issued, or not.
LEMMA MintStep == ASSUME NEW c, Premise(c), Mint(c) PROVE GoodCall
<1> DEFINE x == calls[c]
<1>1. /\ c \in Calls /\ x \in CallRecords /\ gateway[c] \in Statuses
      /\ SafeAt(x, gateway[c], acted[c], deployment)
      /\ gateway = [gateway EXCEPT ![c] = gateway[c]] /\ mcpFaults \in 0 .. MaxMcpFaults
      /\ (McpFault => mcpFaults' \in 0 .. MaxMcpFaults)
  BY Hand DEF Premise
<1>2. /\ x.pc = "mint" /\ x.tool \in {"git_clone", "git_push"} /\ deployment.list /\ acted[c] = Nothing
      /\ NormalizeRepo(x.target) \in x.list
  BY <1>1 DEF Mint, At, SafeAt
<1>3. ~Waits(x) /\ ~IsOver(x)
  BY <1>2 DEF Waits, IsOver
<1>4. Quiet /\ acted' = acted /\ gateway' = gateway
  BY DEF Mint
<1>5. mcpFaults' \in 0 .. MaxMcpFaults
  BY <1>1 DEF Mint
<1>6. PICK step \in {"act", "done"} : GoTo(c, step)
  BY DEF Mint
<1>7. step \in CallStates
  BY <1>6 DEF CallStates
<1>8. ASSUME NEW r \in CallRecords, Like(r, x.tool, step, x.target, x.decision, x.list)
      PROVE  SafeAt(r, gateway[c], acted[c], deployment) /\ ~Waits(r)
  BY <1>2, <1>6, <1>8 DEF SafeAt, Waits, Like
<1>9. QED
  BY <1>1, <1>3, <1>4, <1>5, <1>6, <1>7, <1>8, GoCalm

\* The call reaches outside: here is what was granted.
LEMMA ActStep == ASSUME NEW c, Premise(c), Act(c) PROVE GoodCall
<1> DEFINE x == calls[c]
<1>1. /\ c \in Calls /\ x \in CallRecords /\ gateway[c] \in Statuses
      /\ SafeAt(x, gateway[c], acted[c], deployment)
      /\ gateway = [gateway EXCEPT ![c] = gateway[c]] /\ mcpFaults \in 0 .. MaxMcpFaults /\ CallsTypeOK /\ SafeInv
  BY Hand DEF Premise
<1>2. /\ x.pc = "act" /\ x.tool \in {"gated", "git_clone", "git_push"}
      /\ x.tool = "gated" => gateway[c] = "APPROVED"
      /\ x.tool # "gated" => deployment.list /\ NormalizeRepo(x.target) \in x.list
  BY <1>1 DEF Act, At, SafeAt
<1>3. /\ Quiet /\ gateway' = gateway /\ mcpFaults' = mcpFaults
      /\ acted' = [acted EXCEPT ![c] = x.target] /\ GoTo(c, "done")
  BY DEF Act, TargetOf
<1>4. x.target \in Reached
  BY <1>1 DEF CallRecords, Reached
<1>5. PICK r \in CallRecords : Put(c, r) /\ Like(r, x.tool, "done", x.target, x.decision, x.list)
  <2>1. "done" \in CallStates
    BY DEF CallStates
  <2>2. QED
    BY <1>1, <1>3, <2>1, GoIs
<1>6. SafeAt(r, gateway[c], x.target, deployment)
  BY <1>2, <1>5 DEF SafeAt, Like
<1>7. ~Waits(x) /\ ~Waits(r) /\ (IsOver(x) => IsOver(r))
  BY <1>2, <1>5 DEF Waits, IsOver, Like
<1>8. QED
  BY <1>1, <1>3, <1>4, <1>5, <1>6, <1>7, QuietCall

\* request_repo_access.
LEMMA AskStep == ASSUME NEW c, Premise(c), AskAccess(c) PROVE GoodCall
<1> DEFINE x == calls[c]
<1>1. /\ c \in Calls /\ x \in CallRecords /\ gateway[c] \in Statuses
      /\ SafeAt(x, gateway[c], acted[c], deployment)
      /\ gateway = [gateway EXCEPT ![c] = gateway[c]] /\ mcpFaults \in 0 .. MaxMcpFaults
      /\ (McpFault => mcpFaults' \in 0 .. MaxMcpFaults)
  BY Hand DEF Premise
<1>2. x.pc = "ask" /\ acted[c] = Nothing
  BY <1>1 DEF AskAccess, At, SafeAt
<1>3. ~Waits(x) /\ ~IsOver(x)
  BY <1>2 DEF Waits, IsOver
<1>4. Quiet /\ acted' = acted /\ gateway' = gateway
  BY DEF AskAccess
<1>5. mcpFaults' \in 0 .. MaxMcpFaults
  BY <1>1 DEF AskAccess
<1>6. PICK step \in {"asked", "done"} : GoTo(c, step)
  BY DEF AskAccess
<1>7. step \in CallStates
  BY <1>6 DEF CallStates
<1>8. ASSUME NEW r \in CallRecords, Like(r, x.tool, step, x.target, x.decision, x.list)
      PROVE  SafeAt(r, gateway[c], acted[c], deployment) /\ ~Waits(r)
  BY <1>2, <1>6, <1>8 DEF SafeAt, Waits, Like
<1>9. QED
  BY <1>1, <1>3, <1>4, <1>5, <1>6, <1>7, <1>8, GoCalm

\* A person decides.
LEMMA DecideStep == ASSUME NEW c, Premise(c), Decide(c) PROVE GoodCall
<1> DEFINE x == calls[c]
<1>1. /\ c \in Calls /\ x \in CallRecords /\ gateway[c] \in Statuses /\ acted[c] \in Reached
      /\ SafeAt(x, gateway[c], acted[c], deployment) /\ acted = [acted EXCEPT ![c] = acted[c]]
      /\ mcpFaults \in 0 .. MaxMcpFaults /\ CallsTypeOK /\ SafeInv
  BY Hand DEF Premise
<1>2. PICK decision \in Settled :
        /\ gateway[c] = "PENDING" /\ gateway' = [gateway EXCEPT ![c] = decision]
        /\ Quiet /\ calls' = calls /\ acted' = acted /\ mcpFaults' = mcpFaults
  BY DEF Decide
<1>3. Put(c, x)
  BY <1>2 DEF Put, Premise, CallsTypeOK
<1>4. SafeAt(x, decision, acted[c], deployment)
  BY <1>1, <1>2 DEF SafeAt
<1>5. decision \in Statuses
  BY DEF Statuses
<1>6. QED
  BY <1>1, <1>2, <1>3, <1>4, <1>5, QuietCall

\* A call goes on and says so.
LEMMA GoTalk ==
  ASSUME NEW c, Premise(c), NEW step \in CallStates, GoTo(c, step), NEW kind, Publish(kind, c),
         UNCHANGED <<deployment, gateway, origin, acted, tail, pending, missed, mcpFaults, restarts, storeVars>>,
         \A r \in CallRecords : Like(r, calls[c].tool, step, calls[c].target, calls[c].decision, calls[c].list) =>
            /\ SafeAt(r, gateway[c], acted[c], deployment)
            /\ IsOver(calls[c]) => IsOver(r)
            /\ kind = "awaiting" => ~Waits(calls[c]) /\ Waits(r)
            /\ kind \in {"decided", "unavailable"} => Waits(calls[c]) /\ ~Waits(r) /\ IsOver(r)
            /\ kind = "access-requested" => ~Waits(calls[c]) /\ ~Waits(r)
  PROVE  GoodTalk(kind, c)
<1>1. /\ c \in Calls /\ CallsTypeOK /\ SafeInv /\ acted[c] \in Reached /\ acted' = [acted EXCEPT ![c] = acted[c]]
      /\ gateway[c] \in Statuses /\ gateway' = [gateway EXCEPT ![c] = gateway[c]] /\ mcpFaults \in 0 .. MaxMcpFaults
  BY Hand DEF Premise
<1>2. PICK r \in CallRecords :
        Put(c, r) /\ Like(r, calls[c].tool, step, calls[c].target, calls[c].decision, calls[c].list)
  BY <1>1, GoIs
<1>3. /\ SafeAt(r, gateway[c], acted[c], deployment)
      /\ IsOver(calls[c]) => IsOver(r)
      /\ kind = "awaiting" => ~Waits(calls[c]) /\ Waits(r)
      /\ kind \in {"decided", "unavailable"} => Waits(calls[c]) /\ ~Waits(r) /\ IsOver(r)
      /\ kind = "access-requested" => ~Waits(calls[c]) /\ ~Waits(r)
  BY <1>2
<1>4. CallsTypeOK' /\ SafeInv' /\ calls'[c] = r /\ (\A d \in Calls : d # c => calls'[d] = calls[d])
  BY <1>1, <1>2, <1>3, PutStep
<1>5. Speaks(kind, c)
  BY <1>3, <1>4 DEF Speaks
<1>6. QED
  BY <1>1, <1>4, <1>5 DEF GoodTalk, Unsaid

Talks(c) == \E kind \in Kinds : GoodTalk(kind, c)

\* The wait is announced.
LEMMA AnnounceStep == ASSUME NEW c, Premise(c), Announce(c) PROVE Talks(c)
<1> DEFINE x == calls[c]
<1>1. SafeAt(x, gateway[c], acted[c], deployment)
  BY Hand
<1>2. x.pc = "announce" /\ x.tool = "gated" /\ acted[c] = Nothing
  BY <1>1 DEF Announce, At, SafeAt
<1>3. ~Waits(x) /\ ~IsOver(x)
  BY <1>2 DEF Waits, IsOver
<1>4. ASSUME NEW r \in CallRecords, Like(r, x.tool, "create", x.target, x.decision, x.list)
      PROVE  SafeAt(r, gateway[c], acted[c], deployment) /\ Waits(r)
  BY <1>2, <1>4 DEF SafeAt, Waits, Like
<1>5. GoodTalk("awaiting", c)
  <2>1. "create" \in CallStates
    BY DEF CallStates
  <2>2. QED
    BY <1>3, <1>4, <2>1, GoTalk DEF Announce
<1>6. QED
  BY <1>5 DEF Talks, Kinds

\* The decision is announced.
LEMMA DecidedStep == ASSUME NEW c, Premise(c), Decided(c) PROVE Talks(c)
<1> DEFINE x == calls[c]
           step == IF x.decision = "APPROVED" THEN "act" ELSE "done"
<1>1. SafeAt(x, gateway[c], acted[c], deployment)
  BY Hand
<1>2. /\ x.pc = "decided" /\ x.tool = "gated" /\ acted[c] = Nothing
      /\ (x.decision = "APPROVED" => gateway[c] = "APPROVED")
  BY <1>1 DEF Decided, At, SafeAt
<1>3. Waits(x) /\ ~IsOver(x)
  BY <1>2 DEF Waits, IsOver
<1>4. step \in {"act", "done"} /\ (step = "act" => gateway[c] = "APPROVED") /\ step \in CallStates
  BY <1>2 DEF CallStates
<1>5. GoTo(c, step)
  BY DEF Decided
<1> HIDE DEF step
<1>6. ASSUME NEW r \in CallRecords, Like(r, x.tool, step, x.target, x.decision, x.list)
      PROVE  SafeAt(r, gateway[c], acted[c], deployment) /\ ~Waits(r) /\ IsOver(r)
  BY <1>2, <1>4, <1>6 DEF SafeAt, Waits, IsOver, Like
<1>7. GoodTalk("decided", c)
  BY <1>3, <1>4, <1>5, <1>6, GoTalk DEF Decided
<1>8. QED
  BY <1>7 DEF Talks, Kinds

\* That the gateway cannot be asked is announced.
LEMMA UnavailableStep == ASSUME NEW c, Premise(c), Unavailable(c) PROVE Talks(c)
<1> DEFINE x == calls[c]
<1>1. SafeAt(x, gateway[c], acted[c], deployment)
  BY Hand
<1>2. x.pc = "unavailable" /\ x.tool = "gated" /\ acted[c] = Nothing
  BY <1>1 DEF Unavailable, At, SafeAt
<1>3. Waits(x) /\ ~IsOver(x)
  BY <1>2 DEF Waits, IsOver
<1>4. ASSUME NEW r \in CallRecords, Like(r, x.tool, "done", x.target, x.decision, x.list)
      PROVE  SafeAt(r, gateway[c], acted[c], deployment) /\ ~Waits(r) /\ IsOver(r)
  BY <1>2, <1>4 DEF SafeAt, Waits, IsOver, Like
<1>5. GoodTalk("unavailable", c)
  <2>1. "done" \in CallStates
    BY DEF CallStates
  <2>2. QED
    BY <1>3, <1>4, <2>1, GoTalk DEF Unavailable
<1>6. QED
  BY <1>5 DEF Talks, Kinds

\* That access was asked for is announced; it is no wait.
LEMMA AnnounceAskStep == ASSUME NEW c, Premise(c), AnnounceAsk(c) PROVE Talks(c)
<1> DEFINE x == calls[c]
<1>1. SafeAt(x, gateway[c], acted[c], deployment)
  BY Hand
<1>2. x.pc = "asked" /\ acted[c] = Nothing
  BY <1>1 DEF AnnounceAsk, At, SafeAt
<1>3. ~Waits(x) /\ ~IsOver(x)
  BY <1>2 DEF Waits, IsOver
<1>4. ASSUME NEW r \in CallRecords, Like(r, x.tool, "done", x.target, x.decision, x.list)
      PROVE  SafeAt(r, gateway[c], acted[c], deployment) /\ ~Waits(r)
  BY <1>2, <1>4 DEF SafeAt, Waits, Like
<1>5. GoodTalk("access-requested", c)
  <2>1. "done" \in CallStates
    BY DEF CallStates
  <2>2. QED
    BY <1>3, <1>4, <2>1, GoTalk DEF AnnounceAsk
<1>6. QED
  BY <1>5 DEF Talks, Kinds

\* The parts of the type invariant.
LEMMA TypeParts == ASSUME FeedInv PROVE McpTypeOK <=> CallsTypeOK /\ RestTypeOK
  BY DEF McpTypeOK, CallsTypeOK, RestTypeOK, FeedInv, CallRecords, Statuses, Reached

\* The store's own steps.
StoreStep ==
    \/ \E raw, session : session \in Sessions /\ Request(raw, session)
    \/ \E raw : AddRepo(raw) \/ RemoveRepo(raw)
    \/ \E q \in requests : Approve(q) \/ Reject(q)

\* The store changes by its own operations only.
LEMMA StoreSteps == ASSUME [McpNext]_mcpVars PROVE StoreStep \/ UNCHANGED storeVars
<1>1. CASE Administer
  <2>1. "other" \in Sessions
    BY DEF Sessions
  <2>2. QED
    BY <1>1, <2>1 DEF Administer, StoreStep
<1>2. ASSUME NEW c \in Calls, AskAccess(c) PROVE StoreStep \/ UNCHANGED storeVars
  <2>1. "own" \in Sessions
    BY DEF Sessions
  <2>2. QED
    BY <1>2, <2>1 DEF AskAccess, StoreStep
<1>3. ASSUME NEW c \in Calls,
             \/ CallTool(c) \/ PollingFails(c) \/ Decide(c)
             \/ Announce(c) \/ CreateApproval(c) \/ Polled(c) \/ GiveUp(c) \/ Decided(c) \/ Unavailable(c)
             \/ Check(c) \/ Mint(c) \/ Act(c) \/ AnnounceAsk(c)
      PROVE  UNCHANGED storeVars
  BY <1>3 DEF CallTool, PollingFails, Decide, Announce, CreateApproval, Polled, GiveUp, Decided, Unavailable,
              Check, Mint, Act, AnnounceAsk
<1>4. ASSUME \/ ServeNotices \/ Receive \/ PollFails \/ RewriteOrigin
             \/ RestartAgent \/ RestartHelper \/ UNCHANGED mcpVars
      PROVE  UNCHANGED storeVars
  BY <1>4 DEF ServeNotices, Receive, PollFails, RewriteOrigin, RestartAgent, RestartHelper, mcpVars
<1>5. QED
  BY <1>1, <1>2, <1>3, <1>4 DEF McpNext, Run

\* A name is normalised to a repository's, or is none.
LEMMA NormalIs == ASSUME NEW raw PROVE NormalizeRepo(raw) \in Repos \cup {Invalid}
  BY DEF NormalizeRepo, Repos, Invalid

\* They keep its types.
LEMMA StoreKeepsType == ASSUME StoreTypeOK, StoreStep \/ UNCHANGED storeVars PROVE StoreTypeOK'
<1>1. ASSUME NEW raw, NEW session \in Sessions, Request(raw, session) PROVE StoreTypeOK'
  <2>1. NormalizeRepo(raw) \in Repos
    BY <1>1, NormalIs DEF Request
  <2>2. QED
    BY <1>1, <2>1 DEF Request, StoreTypeOK
<1>2. ASSUME NEW raw, AddRepo(raw) \/ RemoveRepo(raw) PROVE StoreTypeOK'
  <2>1. NormalizeRepo(raw) \in Repos
    BY <1>2, NormalIs DEF AddRepo, RemoveRepo
  <2>2. QED
    BY <1>2, <2>1 DEF AddRepo, RemoveRepo, StoreTypeOK
<1>3. ASSUME NEW q \in requests, Approve(q) \/ Reject(q) PROVE StoreTypeOK'
  BY <1>3 DEF Approve, Reject, StoreTypeOK
<1>4. CASE UNCHANGED storeVars
  BY <1>4 DEF storeVars, StoreTypeOK
<1>5. QED
  BY <1>1, <1>2, <1>3, <1>4 DEF StoreStep

\* What leaves the queue of requests has its answer.
LEMMA StoreAnswers ==
  ASSUME StoreStep
  PROVE  \A q \in requests \ requests' : q.repo \in allow' \/ requests' = requests \ {q}
<1>1. ASSUME NEW q \in requests, Approve(q)
      PROVE  \A p \in requests \ requests' : p.repo \in allow' \/ requests' = requests \ {p}
  BY <1>1 DEF Approve
<1>2. ASSUME NEW q \in requests, Reject(q)
      PROVE  \A p \in requests \ requests' : p.repo \in allow' \/ requests' = requests \ {p}
  BY <1>2 DEF Reject
<1>3. ASSUME NEW raw, NEW session, Request(raw, session) PROVE requests \ requests' = {}
  BY <1>3 DEF Request
<1>4. ASSUME NEW raw, AddRepo(raw) \/ RemoveRepo(raw) PROVE requests \ requests' = {}
  BY <1>4 DEF AddRepo, RemoveRepo
<1>5. QED
  BY <1>1, <1>2, <1>3, <1>4 DEF StoreStep

\* The calls as a whole stay as they are.
LEMMA StillCalls ==
  ASSUME CallsTypeOK, SafeInv, UNCHANGED <<deployment, calls, gateway, acted>>
  PROVE  CallsTypeOK' /\ SafeInv' /\ Waiting' = Waiting /\ \A c \in Calls : Over(c)' <=> Over(c)
  BY DEF CallsTypeOK, SafeInv, Waiting, Over, Tool

\* The helper answers the long poll.
LEMMA ServeStep ==
  ASSUME McpInv, ServeNotices
  PROVE  CallsTypeOK' /\ SafeInv' /\ TailTypeOK' /\ FeedInv' /\ OrderInv' /\ ReadInv' /\ AnswerInv'
<1> DEFINE a == Since(tail.after)
<1>1. /\ tail' = [tail EXCEPT !.answer = a] /\ deployment' = deployment /\ calls' = calls /\ gateway' = gateway
      /\ acted' = acted /\ feed' = feed /\ pending' = pending /\ missed' = missed /\ restarts' = restarts
  BY DEF ServeNotices
<1>2. CallsTypeOK' /\ SafeInv' /\ Waiting' = Waiting /\ (\A c \in Calls : Over(c)' <=> Over(c))
  BY <1>1, StillCalls DEF McpInv
<1>3. tail.after \in Nat /\ tail \in [after: Nat, answer: Answers]
  BY DEF McpInv, TailTypeOK
<1>4. a \in Answers
  BY <1>3, SinceIsAnswer DEF McpInv
<1> HIDE DEF a
<1>5. tail' \in [after: Nat, answer: Answers] /\ tail'.answer = a /\ tail'.after = tail.after
  BY <1>1, <1>3, <1>4
<1>6. Gone' = Gone
  BY <1>1 DEF Gone
<1>7. FeedInv'
  BY <1>1, <1>6 DEF McpInv, FeedInv
<1>8. OrderInv'
  BY <1>1, <1>2, <1>6 DEF McpInv, OrderInv
<1>9. ReadInv'
  BY <1>1, <1>2, <1>5 DEF McpInv, ReadInv
<1>10. AnswerInv'
  <2>1. SUFFICES ASSUME restarts.helper = 0
                 PROVE  /\ tail.after <= a.next /\ a.next <= feed.seq
                        /\ Exact(feed, Waiting, Taken(a), a.next, ~missed /\ a.dropped = 0)
    <3>1. Taken(tail.answer)' = Taken(a)
      BY <1>1, <1>5 DEF Taken
    <3>2. QED
      BY <1>1, <1>2, <1>5, <3>1 DEF AnswerInv
  <2>2. tail.after <= feed.seq /\ Exact(feed, Waiting, pending, tail.after, ~missed) /\ feed.seq \in Nat
    BY <2>1 DEF McpInv, ReadInv, FeedInv
  <2>3. Exact(feed, Waiting, Taken(a), feed.seq, ~missed /\ a.dropped = 0)
    BY <1>3, <2>2, SinceIsExact DEF McpInv, RestTypeOK, a
  <2>4. a.next = feed.seq
    BY DEF a, Since
  <2>5. QED
    BY <2>2, <2>3, <2>4
<1>11. QED
  BY <1>2, <1>5, <1>7, <1>8, <1>9, <1>10 DEF TailTypeOK

\* No answer is an answer that is not there.
LEMMA NoAnswerIs == NoAnswer \in Answers /\ NoAnswer.some = FALSE
<1>1. << >> \in Seq(Notices)
  BY EmptySeq
<1>2. QED
  BY <1>1 DEF NoAnswer, Answers

\* The tailer takes the answer in.
LEMMA ReceiveStep ==
  ASSUME McpInv, Receive
  PROVE  /\ CallsTypeOK' /\ SafeInv' /\ TailTypeOK' /\ FeedInv' /\ OrderInv' /\ ReadInv' /\ AnswerInv'
         /\ pending' \subseteq Calls /\ missed' \in BOOLEAN
<1> DEFINE a == tail.answer
           after == IF a.next > tail.after THEN a.next ELSE tail.after
<1>1. /\ tail' = [after |-> after, answer |-> NoAnswer]
      /\ deployment' = deployment /\ calls' = calls /\ gateway' = gateway
      /\ acted' = acted /\ feed' = feed /\ pending' = Observe(a) /\ missed' = (missed \/ a.dropped > 0)
      /\ restarts' = restarts /\ a.some
  BY DEF Receive
<1>2. CallsTypeOK' /\ SafeInv' /\ Waiting' = Waiting /\ (\A c \in Calls : Over(c)' <=> Over(c))
  BY <1>1, StillCalls DEF McpInv
<1>3. tail.after \in Nat /\ a.next \in Nat /\ a.dropped \in Nat /\ a.notices \in Seq(Notices)
  BY DEF McpInv, TailTypeOK, Answers
<1>4. pending' = Taken(a)
  BY <1>1, <1>3, ObserveIs DEF McpInv, RestTypeOK
<1>5. pending' \subseteq Calls
  BY <1>4 DEF Taken
<1>6. missed' \in BOOLEAN
  BY <1>1
<1>7. Gone' = Gone
  BY <1>1 DEF Gone
<1>8. FeedInv'
  BY <1>1, <1>7 DEF McpInv, FeedInv
<1>9. OrderInv'
  BY <1>1, <1>2, <1>7 DEF McpInv, OrderInv
<1>10. tail'.after = after /\ tail'.answer = NoAnswer /\ after \in Nat
  BY <1>1, <1>3
<1>11. TailTypeOK'
  BY <1>1, <1>10, NoAnswerIs DEF TailTypeOK
<1>12. AnswerInv'
  BY <1>10, NoAnswerIs DEF AnswerInv
<1>13. ReadInv'
  <2>1. SUFFICES ASSUME restarts.helper = 0
                 PROVE  after <= feed.seq /\ Exact(feed, Waiting, Taken(a), after, ~missed')
    BY <1>1, <1>2, <1>4, <1>10 DEF ReadInv
  <2>2. /\ tail.after <= a.next /\ a.next <= feed.seq
        /\ Exact(feed, Waiting, Taken(a), a.next, ~missed /\ a.dropped = 0)
    BY <1>1, <2>1 DEF McpInv, AnswerInv
  <2>3. after = a.next
    BY <1>3, <2>2
  <2>4. ~missed' => ~missed /\ a.dropped = 0
    <3>1. ~(a.dropped > 0) => a.dropped = 0
      BY <1>3
    <3>2. QED
      BY <1>1, <3>1, Zenon
  <2> HIDE DEF after
  <2>5. Exact(feed, Waiting, Taken(a), a.next, ~missed')
    BY <2>2, <2>4 DEF Exact
  <2>6. QED
    BY <2>2, <2>3, <2>5
<1>14. QED
  BY <1>2, <1>5, <1>6, <1>8, <1>9, <1>11, <1>12, <1>13

\* The poll fails.
LEMMA PollFailsStep ==
  ASSUME McpInv, PollFails
  PROVE  CallsTypeOK' /\ SafeInv' /\ TailTypeOK' /\ FeedInv' /\ OrderInv' /\ ReadInv' /\ AnswerInv'
<1>1. /\ tail' = [tail EXCEPT !.answer = NoAnswer] /\ deployment' = deployment /\ calls' = calls /\ gateway' = gateway
      /\ acted' = acted /\ feed' = feed /\ pending' = pending /\ missed' = missed /\ restarts' = restarts
  BY DEF PollFails
<1>2. CallsTypeOK' /\ SafeInv' /\ Waiting' = Waiting /\ (\A c \in Calls : Over(c)' <=> Over(c))
  BY <1>1, StillCalls DEF McpInv
<1>3. tail \in [after: Nat, answer: Answers]
  BY DEF McpInv, TailTypeOK
<1>4. tail' \in [after: Nat, answer: Answers] /\ tail'.answer = NoAnswer /\ tail'.after = tail.after
  BY <1>1, <1>3, NoAnswerIs
<1>5. Gone' = Gone
  BY <1>1 DEF Gone
<1>6. FeedInv'
  BY <1>1, <1>5 DEF McpInv, FeedInv
<1>7. OrderInv'
  BY <1>1, <1>2, <1>5 DEF McpInv, OrderInv
<1>8. ReadInv'
  BY <1>1, <1>2, <1>4 DEF McpInv, ReadInv
<1>9. AnswerInv'
  BY <1>4, NoAnswerIs DEF AnswerInv
<1>10. QED
  BY <1>2, <1>4, <1>6, <1>7, <1>8, <1>9 DEF TailTypeOK

\* The workload restarts: the ring still tells of every wait, or that it does not.
LEMMA RestartAgentStep ==
  ASSUME McpInv, RestartAgent
  PROVE  CallsTypeOK' /\ SafeInv' /\ TailTypeOK' /\ FeedInv' /\ OrderInv' /\ ReadInv' /\ AnswerInv'
<1> DEFINE Cut(r) == [r EXCEPT !.pc = IF @ \in {"create", "poll"} THEN "unavailable" ELSE @]
<1>1. /\ deployment' = deployment /\ gateway' = gateway /\ acted' = acted /\ feed' = feed /\ missed' = missed
      /\ tail' = [after |-> 0, answer |-> NoAnswer] /\ pending' = {}
      /\ calls' = [c \in Calls |-> Cut(calls[c])]
  BY DEF RestartAgent
<1>2. calls \in [Calls -> CallRecords] /\ gateway \in [Calls -> Statuses] /\ acted \in [Calls -> Reached]
  BY DEF McpInv, CallsTypeOK
<1>3. ASSUME NEW r \in CallRecords
      PROVE  /\ Cut(r) \in CallRecords /\ (Waits(Cut(r)) <=> Waits(r)) /\ (IsOver(Cut(r)) <=> IsOver(r))
             /\ \A g, a, conf : SafeAt(r, g, a, conf) => SafeAt(Cut(r), g, a, conf)
  <2> DEFINE step == IF r.pc \in {"create", "poll"} THEN "unavailable" ELSE r.pc
             y == [r EXCEPT !.pc = step]
  <2>1. Cut(r) = y
    OBVIOUS
  <2>2. step \in CallStates /\ (r.pc \in {"create", "poll"} => step = "unavailable")
        /\ (r.pc \notin {"create", "poll"} => step = r.pc)
    BY DEF CallRecords, CallStates
  <2> HIDE DEF step
  <2>3. Like(y, r.tool, step, r.target, r.decision, r.list)
    BY <2>2, AtStep
  <2> HIDE DEF y, Cut
  <2>4. y \in CallRecords /\ (Waits(y) <=> Waits(r)) /\ (IsOver(y) <=> IsOver(r))
    BY <2>2, <2>3 DEF Like, Waits, IsOver
  <2>5. \A g, a, conf : SafeAt(r, g, a, conf) => SafeAt(y, g, a, conf)
    BY <2>2, <2>3 DEF Like, SafeAt
  <2>6. QED
    BY <2>1, <2>4, <2>5
<1> HIDE DEF Cut
<1>4. CallsTypeOK'
  BY <1>1, <1>2, <1>3 DEF CallsTypeOK
<1>5. SafeInv'
  BY <1>1, <1>2, <1>3 DEF McpInv, SafeInv
<1>6. Waiting' = Waiting
  <2>1. Waiting' = {c \in Calls : Waits(calls'[c])}
    BY DEF Waiting, Waits, Tool
  <2>2. QED
    BY <1>1, <1>2, <1>3, <2>1, WaitingIs
<1>7. \A c \in Calls : Over(c)' <=> Over(c)
  BY <1>1, <1>2, <1>3 DEF Over
<1>8. Gone' = Gone
  BY <1>1 DEF Gone
<1>9. FeedInv'
  BY <1>1, <1>8 DEF McpInv, FeedInv
<1>10. OrderInv'
  BY <1>1, <1>6, <1>7, <1>8 DEF McpInv, OrderInv
<1>11. tail'.after = 0 /\ tail'.answer = NoAnswer
  BY <1>1
<1>12. TailTypeOK'
  BY <1>1, NoAnswerIs DEF TailTypeOK
<1>13. AnswerInv'
  BY <1>11, NoAnswerIs DEF AnswerInv
<1>14. ReadInv'
  <2>1. /\ feed.seq \in Nat /\ Gone \in Nat
        /\ \A i \in DOMAIN feed.kept : feed.kept[i].seq = Gone + i /\ i \in Nat /\ i > 0
    BY LenProperties DEF McpInv, FeedInv, Gone
  <2>2. \A c \in Waiting : WillBegin(feed, 0, c)
    <3>1. SUFFICES ASSUME NEW c \in Waiting PROVE WillBegin(feed, 0, c)
      OBVIOUS
    <3>2. Gone > 0 \/ \E i \in DOMAIN feed.kept : Begins(feed.kept[i], c)
      BY DEF McpInv, OrderInv
    <3>3. Gone > 0 => Lost(feed, 0)
      BY <2>1 DEF Gone, Lost
    <3>4. \A i \in DOMAIN feed.kept : feed.kept[i].seq > 0
      BY <2>1
    <3>5. QED
      BY <3>2, <3>3, <3>4 DEF WillBegin
  <2>3. Exact(feed, Waiting, {}, 0, ~missed)
    BY <2>2 DEF Exact
  <2>4. QED
    BY <1>1, <1>6, <1>11, <2>1, <2>3 DEF ReadInv
<1>15. QED
  BY <1>4, <1>5, <1>9, <1>10, <1>12, <1>13, <1>14

\* The helper restarts: nothing is claimed of a reader from then on.
LEMMA RestartHelperStep ==
  ASSUME McpInv, RestartHelper
  PROVE  CallsTypeOK' /\ SafeInv' /\ TailTypeOK' /\ FeedInv' /\ OrderInv' /\ ReadInv' /\ AnswerInv'
<1> DEFINE End(r) == [r EXCEPT !.pc = IF @ = "idle" THEN @ ELSE "done"]
<1>1. /\ deployment' = deployment /\ gateway' = gateway /\ acted' = acted
      /\ feed' = [seq |-> 0, kept |-> << >>] /\ tail' = [tail EXCEPT !.answer = NoAnswer]
      /\ restarts' = [restarts EXCEPT !.helper = @ + 1]
      /\ calls' = [c \in Calls |-> End(calls[c])]
  BY DEF RestartHelper
<1>2. calls \in [Calls -> CallRecords] /\ gateway \in [Calls -> Statuses] /\ acted \in [Calls -> Reached]
  BY DEF McpInv, CallsTypeOK
<1>3. ASSUME NEW r \in CallRecords
      PROVE  /\ End(r) \in CallRecords /\ ~Waits(End(r))
             /\ \A g, a, conf : SafeAt(r, g, a, conf) => SafeAt(End(r), g, a, conf)
  <2> DEFINE step == IF r.pc = "idle" THEN r.pc ELSE "done"
             y == [r EXCEPT !.pc = step]
  <2>1. End(r) = y
    OBVIOUS
  <2>2. step \in CallStates /\ step \in {"idle", "done"} /\ (step = "idle" => r.pc = "idle")
    BY DEF CallRecords, CallStates
  <2> HIDE DEF step
  <2>3. Like(y, r.tool, step, r.target, r.decision, r.list)
    BY <2>2, AtStep
  <2> HIDE DEF y, End
  <2>4. y \in CallRecords /\ ~Waits(y)
    BY <2>2, <2>3 DEF Like, Waits
  <2>5. \A g, a, conf : SafeAt(r, g, a, conf) => SafeAt(y, g, a, conf)
    BY <2>2, <2>3 DEF Like, SafeAt
  <2>6. QED
    BY <2>1, <2>4, <2>5
<1> HIDE DEF End
<1>4. CallsTypeOK'
  BY <1>1, <1>2, <1>3 DEF CallsTypeOK
<1>5. SafeInv'
  BY <1>1, <1>2, <1>3 DEF McpInv, SafeInv
<1>6. Waiting' = {}
  <2>1. Waiting' = {c \in Calls : Waits(calls'[c])}
    BY DEF Waiting, Waits, Tool
  <2>2. QED
    BY <1>1, <1>2, <1>3, <2>1
<1>7. feed'.seq = 0 /\ feed'.kept = << >> /\ Len(feed'.kept) = 0 /\ DOMAIN feed'.kept = {}
  BY <1>1
<1>8. FeedInv'
  <2>1. << >> \in Seq(Notices)
    BY EmptySeq
  <2>2. Capacity \in Nat
    BY SessionMCPAssumption
  <2>3. feed' \in [seq: Nat, kept: Seq(Notices)]
    BY <1>1, <2>1
  <2>4. QED
    BY <1>7, <2>2, <2>3 DEF FeedInv
<1>9. OrderInv'
  BY <1>6, <1>7 DEF OrderInv
<1>10. tail' \in [after: Nat, answer: Answers]
  BY <1>1, NoAnswerIs DEF McpInv, TailTypeOK
<1>11. restarts'.helper # 0
  <2>1. restarts \in [agent: 0 .. MaxRestarts, helper: 0 .. MaxRestarts] /\ MaxRestarts \in Nat
    BY SessionMCPAssumption DEF McpInv, RestTypeOK
  <2>2. QED
    BY <1>1, <2>1
<1>12. ReadInv' /\ AnswerInv'
  BY <1>11 DEF ReadInv, AnswerInv
<1>13. QED
  BY <1>4, <1>5, <1>8, <1>9, <1>10, <1>12 DEF TailTypeOK

\* No call, no notice.
LEMMA McpInitHolds == ASSUME McpInit PROVE McpInv
<1>1. CallsTypeOK
  <2>1. [tool |-> "none", pc |-> "idle", target |-> Nothing, decision |-> "none", list |-> {}] \in CallRecords
    BY DEF CallRecords, CallStates
  <2>2. QED
    BY <2>1 DEF McpInit, CallsTypeOK, Statuses, Reached
<1>2. SafeInv
  <2>1. SUFFICES ASSUME NEW c \in Calls PROVE SafeAt(calls[c], gateway[c], acted[c], deployment)
    BY DEF SafeInv
  <2>2. calls[c].pc = "idle" /\ acted[c] = Nothing
    BY DEF McpInit
  <2>3. QED
    BY <2>2 DEF SafeAt
<1>3. Waiting = {}
  BY DEF McpInit, Waiting
<1>4. << >> \in Seq(Notices) /\ Len(<< >>) = 0 /\ DOMAIN << >> = {}
  BY EmptySeq
<1>5. feed.seq = 0 /\ feed.kept = << >> /\ feed \in [seq: Nat, kept: Seq(Notices)]
  BY <1>4 DEF McpInit
<1>6. FeedInv
  <2>1. Capacity \in Nat
    BY SessionMCPAssumption
  <2>2. QED
    BY <1>4, <1>5, <2>1 DEF FeedInv
<1>7. OrderInv
  BY <1>3, <1>4, <1>5 DEF OrderInv
<1>8. /\ tail.after = 0 /\ tail.answer = NoAnswer
      /\ tail \in [after: Nat, answer: Answers] /\ pending = {} /\ missed = FALSE
  BY NoAnswerIs DEF McpInit
<1>9. ReadInv /\ AnswerInv
  <2>1. Exact(feed, Waiting, pending, tail.after, ~missed)
    BY <1>3, <1>8 DEF Exact
  <2>2. QED
    BY <1>5, <1>8, <2>1, NoAnswerIs DEF ReadInv, AnswerInv
<1>10. RestTypeOK
  <2>1. MaxMcpFaults \in Nat /\ MaxRestarts \in Nat
    BY SessionMCPAssumption
  <2>2. StoreTypeOK
    BY DEF McpInit, StoreInit, StoreTypeOK
  <2>3. /\ deployment \in Deployments /\ origin = "Repo.git" /\ pending = {} /\ missed = FALSE
        /\ mcpFaults = 0 /\ restarts = [agent |-> 0, helper |-> 0]
    BY DEF McpInit
  <2>4. origin \in Spellings
    BY <2>3 DEF Spellings
  <2>5. mcpFaults \in 0 .. MaxMcpFaults /\ restarts \in [agent: 0 .. MaxRestarts, helper: 0 .. MaxRestarts]
    BY <2>1, <2>3
  <2>6. QED
    BY <2>2, <2>3, <2>4, <2>5 DEF RestTypeOK
<1>11. QED
  BY <1>1, <1>2, <1>6, <1>7, <1>8, <1>9, <1>10 DEF McpInv, TailTypeOK

\* What one call does leaves the invariant as it is.
LEMMA CallSteps ==
  ASSUME McpInv, NEW c \in Calls, CallTool(c) \/ Run(c) \/ PollingFails(c) \/ Decide(c)
  PROVE  GoodCall \/ Talks(c)
<1>1. Premise(c)
  BY SessionMCPAssumption DEF Premise, McpInv, RestTypeOK, StoreTypeOK
<1>2. CASE CallTool(c) \/ PollingFails(c) \/ Decide(c)
  BY <1>1, <1>2, CallToolStep, PollingFailsStep, DecideStep
<1>3. CASE Run(c)
  BY <1>1, <1>3, CreateStep, PolledStep, CheckStep, MintStep, ActStep, AskStep,
     AnnounceStep, DecidedStep, UnavailableStep, AnnounceAskStep DEF Run
<1>4. QED
  BY <1>2, <1>3

\* What a step has to say of the other variables.
LEMMA StillRest ==
  ASSUME RestTypeOK, StoreTypeOK', deployment' = deployment, origin' \in Spellings,
         pending' \subseteq Calls, missed' \in BOOLEAN,
         mcpFaults' \in 0 .. MaxMcpFaults, restarts' \in [agent: 0 .. MaxRestarts, helper: 0 .. MaxRestarts]
  PROVE  RestTypeOK'
  BY DEF RestTypeOK

\* Every step keeps the invariant.
LEMMA McpStep ==
  ASSUME McpInv, [McpNext]_mcpVars
  PROVE  McpInv'
<1>1. McpInv
  OBVIOUS
<1>2. StoreTypeOK'
  BY <1>1, StoreSteps, StoreKeepsType DEF McpInv, RestTypeOK
<1>3. /\ deployment \in Deployments /\ origin \in Spellings /\ pending \subseteq Calls /\ missed \in BOOLEAN
      /\ mcpFaults \in 0 .. MaxMcpFaults /\ restarts \in [agent: 0 .. MaxRestarts, helper: 0 .. MaxRestarts]
      /\ MaxMcpFaults \in Nat /\ MaxRestarts \in Nat /\ RestTypeOK
  BY SessionMCPAssumption, <1>1 DEF McpInv, RestTypeOK
<1> DEFINE Rest == CallsTypeOK' /\ SafeInv' /\ TailTypeOK' /\ FeedInv' /\ OrderInv' /\ ReadInv' /\ AnswerInv'
<1>4. SUFFICES Rest /\ RestTypeOK'
  BY DEF McpInv
<1>5. ASSUME NEW c \in Calls, CallTool(c) \/ Run(c) \/ PollingFails(c) \/ Decide(c)
      PROVE  Rest /\ RestTypeOK'
  <2>1. CASE GoodCall
    <3>1. TailTypeOK' /\ FeedInv' /\ OrderInv' /\ ReadInv' /\ AnswerInv'
      BY <1>1, <2>1, CalmStep DEF GoodCall, McpInv
    <3>2. RestTypeOK'
      BY <1>2, <1>3, <2>1, StillRest DEF GoodCall, Unsaid, Calm
    <3>3. QED
      BY <2>1, <3>1, <3>2 DEF GoodCall
  <2>2. CASE Talks(c)
    <3>1. PICK kind \in Kinds : GoodTalk(kind, c)
      BY <2>2 DEF Talks
    <3>2. TailTypeOK' /\ FeedInv' /\ OrderInv' /\ ReadInv' /\ AnswerInv'
      BY <1>1, <1>3, <3>1, SpeakStep DEF GoodTalk, McpInv
    <3>3. RestTypeOK'
      BY <1>2, <1>3, <3>1, StillRest DEF GoodTalk, Unsaid, Speaks
    <3>4. QED
      BY <3>1, <3>2, <3>3 DEF GoodTalk
  <2>3. QED
    BY <1>1, <1>5, <2>1, <2>2, CallSteps
<1>6. CASE ServeNotices
  <2>1. RestTypeOK'
    BY <1>2, <1>3, <1>6, StillRest DEF ServeNotices
  <2>2. QED
    BY <1>1, <1>6, <2>1, ServeStep
<1>7. CASE Receive
  <2>1. Rest /\ pending' \subseteq Calls /\ missed' \in BOOLEAN
    BY <1>1, <1>7, ReceiveStep
  <2>2. RestTypeOK'
    BY <1>2, <1>3, <1>7, <2>1, StillRest DEF Receive
  <2>3. QED
    BY <2>1, <2>2
<1>8. CASE PollFails
  <2>1. mcpFaults' \in 0 .. MaxMcpFaults
    BY <1>3, <1>8 DEF PollFails, McpFault
  <2>2. RestTypeOK'
    BY <1>2, <1>3, <1>8, <2>1, StillRest DEF PollFails
  <2>3. QED
    BY <1>1, <1>8, <2>2, PollFailsStep
<1>9. ASSUME UNCHANGED <<deployment, calls, gateway, acted, feed, tail, pending, missed, mcpFaults, restarts>>,
             origin' \in Spellings
      PROVE  Rest /\ RestTypeOK'
  <2>1. Calm
    BY <1>9 DEF Calm
  <2>2. TailTypeOK' /\ FeedInv' /\ OrderInv' /\ ReadInv' /\ AnswerInv'
    BY <1>1, <2>1, CalmStep DEF McpInv
  <2>3. CallsTypeOK' /\ SafeInv'
    BY <1>1, <1>9, StillCalls DEF McpInv
  <2>4. RestTypeOK'
    BY <1>2, <1>3, <1>9, StillRest
  <2>5. QED
    BY <2>2, <2>3, <2>4
<1>10. CASE Administer
  BY <1>3, <1>9, <1>10 DEF Administer, Quiet
<1>11. CASE RewriteOrigin
  BY <1>9, <1>11 DEF RewriteOrigin
<1>12. CASE RestartAgent
  <2>1. restarts' \in [agent: 0 .. MaxRestarts, helper: 0 .. MaxRestarts] /\ pending' \subseteq Calls
    BY <1>3, <1>12 DEF RestartAgent
  <2>2. RestTypeOK'
    BY <1>2, <1>3, <1>12, <2>1, StillRest DEF RestartAgent
  <2>3. QED
    BY <1>1, <1>12, <2>2, RestartAgentStep
<1>13. CASE RestartHelper
  <2>1. restarts' \in [agent: 0 .. MaxRestarts, helper: 0 .. MaxRestarts]
    BY <1>3, <1>13 DEF RestartHelper
  <2>2. RestTypeOK'
    BY <1>2, <1>3, <1>13, <2>1, StillRest DEF RestartHelper
  <2>3. QED
    BY <1>1, <1>13, <2>2, RestartHelperStep
<1>14. CASE UNCHANGED mcpVars
  BY <1>3, <1>9, <1>14 DEF mcpVars, helperVars
<1>15. QED
  BY <1>5, <1>6, <1>7, <1>8, <1>10, <1>11, <1>12, <1>13, <1>14 DEF McpNext

\* The invariant of the helper's calls, its feed and the feed's reader.
THEOREM McpInvariant == McpSpec => []McpInv
<1>1. McpInit => McpInv
  BY McpInitHolds
<1>2. McpInv /\ [McpNext]_mcpVars => McpInv'
  BY McpStep
<1>3. QED
  BY <1>1, <1>2, PTL DEF McpSpec

\* The variables keep their types, whatever calls, restarts and failures come.
THEOREM McpTypes == McpSpec => []McpTypeOK
<1>1. McpInv => McpTypeOK
  BY TypeParts DEF McpInv
<1>2. QED
  BY <1>1, McpInvariant, PTL

\* A call reaches outside only where a person let it, and reaches what was granted,
\* although the agent may rewrite its clone between the check and the push (callTool,
\* callGitClone, callGitPush).
THEOREM EffectsGranted == McpSpec => []EffectsAreGranted
<1>1. McpInv => EffectsAreGranted
  BY DEF McpInv, SafeInv, SafeAt, EffectsAreGranted
<1>2. QED
  BY <1>1, McpInvariant, PTL

\* A tailer that has read up to the feed's last notice waits for calls that really
\* wait, and for all of them unless the ring evicted a notice unread, for any capacity of
\* the ring, any number of calls and restarts of the workload (publish, since, observe).
THEOREM CaughtUp == McpSpec => []CaughtUpIsExact
<1>1. McpInv => CaughtUpIsExact
  <2>1. SUFFICES ASSUME McpInv, restarts.helper = 0, tail.after = feed.seq
                 PROVE  pending \subseteq Waiting /\ (missed \/ pending = Waiting)
    BY DEF CaughtUpIsExact
  <2>2. Exact(feed, Waiting, pending, feed.seq, ~missed)
    BY <2>1 DEF McpInv, ReadInv
  <2>3. \A c : ~WillEnd(feed, feed.seq, c) /\ ~WillBegin(feed, feed.seq, c)
    <3>1. /\ feed.seq \in Nat /\ Len(feed.kept) \in Nat /\ DOMAIN feed.kept = 1 .. Len(feed.kept)
          /\ Len(feed.kept) <= feed.seq
          /\ \A i \in 1 .. Len(feed.kept) : feed.kept[i].seq = feed.seq - Len(feed.kept) + i
      BY <2>1, LenProperties DEF McpInv, FeedInv, Gone
    <3>2. ~Lost(feed, feed.seq) /\ \A i \in DOMAIN feed.kept : ~(feed.kept[i].seq > feed.seq)
      BY <3>1 DEF Lost
    <3>3. QED
      BY <3>2 DEF WillEnd, WillBegin
  <2>4. pending \subseteq Waiting /\ (~missed => Waiting \subseteq pending)
    BY <2>2, <2>3 DEF Exact
  <2>5. QED
    BY <2>4
<1>2. QED
  BY <1>1, McpInvariant, PTL

\* A request for a repository leaves the queue because the repository is on the list,
\* or because a person rejected that one request (Approve, Reject).
THEOREM AsksAnswered == McpSpec => AsksAreAnswered
<1> DEFINE A == \A q \in requests \ requests' : q.repo \in allow' \/ requests' = requests \ {q}
<1>1. [McpNext]_mcpVars => [A]_storeVars
  BY StoreSteps, StoreAnswers
<1>2. QED
  BY <1>1, PTL DEF McpSpec, AsksAreAnswered
=============================================================================
