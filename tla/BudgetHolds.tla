------------------------------- MODULE BudgetHolds -------------------------------
(****************************************************************************)
(* What a cost ledger promises, without a table: every request holds one    *)
(* charge on a set of budgets, which is settled to its actual cost or       *)
(* returned, once, on all of those budgets together.                        *)
(****************************************************************************)
EXTENDS Integers, FiniteSetsExt

CONSTANTS Requests, Budgets, HardLimit, NoLimit, Modes

VARIABLES phase,  \* what became of each request
          scope,  \* the budgets each request is charged on
          charge, \* what each request is charged on each of them
          spent   \* the accumulated charges of each budget

holdVars == <<phase, scope, charge, spent>>

Init ==
  /\ phase  = [r \in Requests |-> "none"]
  /\ scope  = [r \in Requests |-> {}]
  /\ charge = [r \in Requests |-> 0]
  /\ spent  = [b \in Budgets |-> 0]

(* Charging c to request r, and moving the difference on all of its budgets. *)
Recharge(r, S, next, c) ==
  /\ phase'  = [phase EXCEPT ![r] = next]
  /\ charge' = [charge EXCEPT ![r] = c]
  /\ spent'  = [b \in Budgets |->
                  IF b \in S THEN spent[b] + (c - charge[r]) ELSE spent[b]]

WithinLimits(S, c) ==
  \A b \in S : HardLimit[b] # NoLimit => spent[b] + c <= HardLimit[b]

Hold(r, S, c) ==
  /\ phase[r] = "none" /\ S # {} /\ S \subseteq Budgets /\ c >= 0
  /\ FALSE \in Modes \/ WithinLimits(S, c)
  /\ scope' = [scope EXCEPT ![r] = S]
  /\ Recharge(r, S, "held", c)

SettleTo(r, c) ==
  /\ phase[r] = "held" /\ c >= 0
  /\ Recharge(r, scope[r], "settled", c)
  /\ UNCHANGED scope

Return(r) ==
  /\ phase[r] = "held"
  /\ Recharge(r, scope[r], "returned", 0)
  /\ UNCHANGED scope

(* The step a request takes is determined by its charge in the next state.  *)
Next == \E r \in Requests :
  \/ Hold(r, scope'[r], charge'[r])
  \/ SettleTo(r, charge'[r])
  \/ Return(r)

Spec == Init /\ [][Next]_holdVars

(* Each budget has been charged the sum of the charges on it.               *)
SpentIsCharges ==
  \A b \in Budgets :
    spent[b] = MapThenSumSet(LAMBDA r : charge[r], {r \in Requests : b \in scope[r]})
================================================================================
