--------------------------- MODULE CheckpointGate ---------------------------
(***************************************************************************)
(* What the control plane relies on of an agent's checkpoint gate,         *)
(* whichever workload is behind it: SnapshotLifecycle gives every pod this *)
(* gate, the shell agent and the prompt queue implement it.                *)
(*                                                                         *)
(* A gate that streams its archive is opened again only by a failure of    *)
(* that stream; a gate whose archive is out stays closed until the abort   *)
(* of that very generation, or until the process itself ends.              *)
(***************************************************************************)
EXTENDS Naturals

CONSTANTS Gens,  \* the generations the control plane gives its checkpoints
          None

VARIABLES
    gate,  \* "awaiting" a restore, "open", "streaming" an archive, or "ready"
    gen,   \* the generation that closed it
    life,  \* which process of the agent this is
    asked  \* the generation whose abort was requested last

gateVars == <<gate, gen, life, asked>>

Init == gate \in {"awaiting", "open"} /\ gen = None /\ life = 0 /\ asked = None

Serve    == gate = "awaiting" /\ gate' = "open" /\ UNCHANGED <<gen, life, asked>>
Close(g) == gate = "open" /\ gate' = "streaming" /\ gen' = g /\ UNCHANGED <<life, asked>>
Finish   == gate = "streaming" /\ gate' = "ready" /\ UNCHANGED <<gen, life, asked>>
Reopen   == gate = "streaming" /\ gate' = "open" /\ gen' = None /\ UNCHANGED <<life, asked>>
Restart  == gate' \in {"awaiting", "open"} /\ gen' = None /\ life' = life + 1 /\ UNCHANGED asked

\* Whatever generation is named, only the one that closed the gate opens it.
Abort(g) ==
    /\ asked' = g
    /\ IF gate = "ready" /\ gen = g THEN gate' = "open" /\ gen' = None ELSE UNCHANGED <<gate, gen>>
    /\ UNCHANGED life

Next == Serve \/ Finish \/ Reopen \/ Restart \/ \E g \in Gens : Close(g) \/ Abort(g)

Spec == Init /\ [][Next]_gateVars
=============================================================================
