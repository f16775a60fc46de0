-------------------------- MODULE DeliveryContract --------------------------
(***************************************************************************)
(* What the enrichment stream promises its publishers, whatever the        *)
(* workers, their batches, restarts and failures do: at-least-once         *)
(* delivery.  An entry, once published, is ready until a consumer claims   *)
(* it, stays claimed however often its consumer fails or restarts, and is  *)
(* done only when the finding it names is settled: enriched, or deleted.   *)
(* Redis may lose the whole stream at once (eviction), never one entry.    *)
(***************************************************************************)
EXTENDS Naturals

CONSTANT Ids   \* names of entries

VARIABLES
    status,    \* status[e]: the stage entry e has reached
    settled    \* entries whose finding needs no enrichment any more

vars == <<status, settled>>

Stage == {"none", "ready", "claimed", "done", "lost"}

Init ==
    /\ status = [e \in Ids |-> "none"]
    /\ settled = {}

\* The finding of a new entry may be settled already (it is met again).
Publish(e) ==
    /\ status[e] = "none"
    /\ status' = [status EXCEPT ![e] = "ready"]
    /\ settled' \in {settled, settled \union {e}}

Claim(T) ==
    /\ \A e \in T : status[e] = "ready"
    /\ status' = [e \in Ids |-> IF e \in T THEN "claimed" ELSE status[e]]
    /\ UNCHANGED settled

\* Findings are enriched, by whoever does it, or deleted.
Settle(T) ==
    /\ settled' = settled \union T
    /\ UNCHANGED status

Complete(e) ==
    /\ status[e] = "claimed"
    /\ e \in settled
    /\ status' = [status EXCEPT ![e] = "done"]
    /\ UNCHANGED settled

Lose ==
    /\ status' = [e \in Ids |-> IF status[e] = "none" THEN "none" ELSE "lost"]
    /\ UNCHANGED settled

Next ==
    \/ \E e \in Ids : Publish(e) \/ Complete(e)
    \/ \E T \in SUBSET Ids : Claim(T) \/ Settle(T)
    \/ Lose

Spec == Init /\ [][Next]_vars
=============================================================================
