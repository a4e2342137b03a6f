---------------------------- MODULE CircuitBreaker ---------------------------
(***************************************************************************)
(* What RiskManager promises of its trading gate, whatever the coroutines  *)
(* do: trading pauses and resumes, a halt is possible from every state and *)
(* nothing leaves it (manager.py:22, "hard stop - manual intervention      *)
(* required"; there is no reset method).                                   *)
(***************************************************************************)
VARIABLE gate

Init == gate = "active"

PauseGate == gate = "active" /\ gate' = "paused"

ResumeGate == gate = "paused" /\ gate' = "active"

HaltGate == gate' = "halted"

Next == PauseGate \/ ResumeGate \/ HaltGate

Spec == Init /\ [][Next]_gate
=============================================================================
