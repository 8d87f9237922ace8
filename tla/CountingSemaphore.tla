-------------------------- MODULE CountingSemaphore --------------------------
(***************************************************************************)
(* What a bionic semaphore promises: a number of permits that waiting      *)
(* takes one of, posting adds one to up to a maximum, and that nothing     *)
(* else changes between the semaphore's creation and its destruction.      *)
(***************************************************************************)
EXTENDS Naturals

CONSTANT MaxValue

VARIABLES status, permits

Init == status = "live" /\ permits \in 0 .. MaxValue

Take == status = "live" /\ permits > 0 /\ permits' = permits - 1 /\ UNCHANGED status

Give == status = "live" /\ permits < MaxValue /\ permits' = permits + 1 /\ UNCHANGED status

Discard == status = "live" /\ status' = "destroyed" /\ permits' = 0

Create == status = "destroyed" /\ status' = "live" /\ permits' \in 0 .. MaxValue

Next == Take \/ Give \/ Discard \/ Create

Spec == Init /\ [][Next]_<<status, permits>>
=============================================================================
