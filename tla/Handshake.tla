------------------------------ MODULE Handshake ------------------------------
(***************************************************************************)
(* What the programs that measure a wake-up rely on: the measuring thread  *)
(* makes one request at a time, each request is answered once, and the     *)
(* measurement goes on after the answer and not before.                    *)
(***************************************************************************)
VARIABLE phase

Init == phase = "idle"
Request == phase = "idle" /\ phase' = "requested"
Answer == phase = "requested" /\ phase' = "answered"
Accept == phase = "answered" /\ phase' = "idle"

Next == Request \/ Answer \/ Accept
Safe == Init /\ [][Next]_phase

(* The measuring thread may stop making requests, but no request is left   *)
(* without an answer.                                                      *)
Spec == Safe /\ WF_phase(Answer) /\ WF_phase(Accept)
=============================================================================
