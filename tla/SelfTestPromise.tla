---------------------------- MODULE SelfTestPromise ----------------------------
(***************************************************************************)
(* What the self-test promises Home Assistant, by the status it publishes:  *)
(* a request is answered once, not before Duration and not after Latest,    *)
(* and a request made while the test runs changes nothing.                  *)
(***************************************************************************)
EXTENDS Naturals

CONSTANTS Duration, Latest

VARIABLES
  status,   (* SEM Self-Test Status                                         *)
  waited    (* the time since the request that is being answered, or 0      *)

Init == status = "NOT_RUN" /\ waited = 0

Request ==
  /\ status # "RUNNING"
  /\ status' = "RUNNING"
  /\ UNCHANGED waited

Wait ==
  /\ status = "RUNNING" /\ waited < Latest
  /\ waited' = waited + 1
  /\ UNCHANGED status

Answer ==
  /\ status = "RUNNING" /\ waited >= Duration
  /\ status' \in {"PASS", "FAIL"}
  /\ waited' = 0

Next == Request \/ Wait \/ Answer

(* Every request is answered.                                               *)
Spec == Init /\ [][Next]_<<status, waited>> /\ WF_<<status, waited>>(Wait)
          /\ WF_<<status, waited>>(Answer)
=============================================================================
