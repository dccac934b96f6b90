---------------------------- MODULE RateAllowance -----------------------------
(***************************************************************************)
(* What a rate limiter promises, with no clock, no map and no pruning in   *)
(* sight: every client has a count, which an admission raises by one and   *)
(* only below the allowance, and which otherwise only falls, when the      *)
(* window slides or the limiter starts anew. RateLimiter, whose count is   *)
(* what was admitted within the window, implements this, and CommsDispatch *)
(* takes it for the limiter.                                               *)
(***************************************************************************)
EXTENDS Naturals

CONSTANTS
  Clients,    (* who is admitted                                           *)
  Allowance   (* admissions a count may reach                              *)

VARIABLE count

Init == count = [s \in Clients |-> 0]

Admit(s) ==
  /\ count[s] < Allowance
  /\ count' = [count EXCEPT ![s] = @ + 1]

Fall ==
  /\ count' \in [Clients -> Nat]
  /\ \A s \in Clients : count'[s] <= count[s]

Next == Fall \/ \E s \in Clients : Admit(s)

Spec == Init /\ [][Next]_count
=============================================================================
