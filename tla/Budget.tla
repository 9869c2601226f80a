------------------------------- MODULE Budget -------------------------------
(***************************************************************************)
(* services/agent/src/agent/budget and the call of model/client.py around  *)
(* it: each run's guard admits a model call against two ceilings before it *)
(* is sent, and is told exactly once what the call came to.                *)
(*                                                                         *)
(* A call is counted, admitted, sent, and then either answered with its    *)
(* usage or lost: an error, a malformed body, a deadline, a cancellation.  *)
(* `billed` is what the provider charges, which the agent does not see of  *)
(* a call it lost.  The guard reserves nothing for a call in flight: it is *)
(* the run's turn lock that keeps a second call from being admitted before *)
(* the first is settled (Turns checks the lock).                           *)
(***************************************************************************)
EXTENDS Integers

CONSTANTS
    Guards,         \* one guard per run an agent serves
    CallCeiling,    \* limits.model_call_ceiling
    SpendCeiling,   \* limits.model_spend_ceiling_usd, in micro-dollars
    Requests,       \* requests as the guard sees them: [input, max]
    Bound,          \* Bound[q]: the most a request can cost
    Usages,         \* Usages[q]: the costs the provider may report for it
    Nothing         \* no call in flight

ASSUME BudgetAssumption ==
    /\ CallCeiling \in Nat /\ SpendCeiling \in Nat
    /\ Nothing \notin Requests
    /\ Bound \in [Requests -> Nat]
    /\ Usages \in [Requests -> SUBSET Nat]

(* The count the provider gave is of the tokens it bills, and the output   *)
(* stops at max_tokens: no cost is above the bound.  MCNegotiation gives   *)
(* the two from the prices below, where TLC evaluates this assumption.     *)
ASSUME PricedAssumption ==
    \A q \in Requests : \A cost \in Usages[q] : cost <= Bound[q]

VARIABLES
    calls,      \* BudgetGuard._calls, by guard
    spent,      \* BudgetGuard._spent
    billed,     \* what the provider has charged for the run
    charge      \* the unsettled _Charge of the call in flight

budgetVars == <<calls, spent, billed, charge>>

-----------------------------------------------------------------------------
(* prices.py: rates per unit of tokens, rounded up.                        *)

usd(tokensTimesRate, unit) == (tokensTimesRate + unit - 1) \div unit

DearestInput(p) ==
    CHOOSE r \in {p.input, p.write5m, p.write1h, p.read} :
        \A s \in {p.input, p.write5m, p.write1h, p.read} : r >= s

(* Every input token at the dearest rate, the output at its cap.           *)
BoundUsd(p, q, unit) == usd(q.input * DearestInput(p) + q.max * p.output, unit)

(* Each kind of token at its own rate.                                     *)
CostUsd(p, u, unit) ==
    usd(u.input * p.input + u.output * p.output + u.read * p.read
        + (u.created - u.created1h) * p.write5m + u.created1h * p.write1h, unit)

(* A usage the client can read: counts, the 1-hour part within the writes. *)
Readable(u) == u.created1h <= u.created

-----------------------------------------------------------------------------
BudgetInit ==
    /\ calls = [g \in Guards |-> 0]
    /\ spent = [g \in Guards |-> 0]
    /\ billed = [g \in Guards |-> 0]
    /\ charge = [g \in Guards |-> Nothing]

(* Mutant: what the call may cost is not part of the check.                *)
AdmissibleUnestimated(g, q) ==
    /\ calls[g] + 1 <= CallCeiling
    /\ spent[g] <= SpendCeiling

(* The call counts, and its bound fits in what is left.                    *)
Admissible(g, q) ==
    /\ calls[g] + 1 <= CallCeiling
    /\ spent[g] + Bound[q] <= SpendCeiling

Admit(g, q) ==
    /\ charge[g] = Nothing
    /\ Admissible(g, q)
    /\ calls' = [calls EXCEPT ![g] = @ + 1]
    /\ charge' = [charge EXCEPT ![g] = q]
    /\ UNCHANGED <<spent, billed>>

(* The answer came back with a usage: its reported cost is what was spent. *)
Settle(g, cost) ==
    /\ charge[g] # Nothing
    /\ cost \in Usages[charge[g]]
    /\ spent' = [spent EXCEPT ![g] = @ + cost]
    /\ billed' = [billed EXCEPT ![g] = @ + cost]
    /\ charge' = [charge EXCEPT ![g] = Nothing]
    /\ UNCHANGED calls

(* No usage came back: the estimate is charged, since the call may have    *)
(* been billed for any of its costs or for none.                           *)
SettleLost(g, cost) ==
    /\ charge[g] # Nothing
    /\ cost \in Usages[charge[g]] \cup {0}
    /\ spent' = [spent EXCEPT ![g] = @ + Bound[charge[g]]]
    /\ billed' = [billed EXCEPT ![g] = @ + cost]
    /\ charge' = [charge EXCEPT ![g] = Nothing]
    /\ UNCHANGED calls

BudgetNext ==
    \E g \in Guards :
        \/ \E q \in Requests : Admit(g, q)
        \/ \E cost \in Nat : Settle(g, cost) \/ SettleLost(g, cost)

BudgetSpec == BudgetInit /\ [][BudgetNext]_budgetVars

-----------------------------------------------------------------------------
BudgetTypeOK ==
    /\ calls \in [Guards -> Nat]
    /\ spent \in [Guards -> Nat]
    /\ billed \in [Guards -> Nat]
    /\ charge \in [Guards -> Requests \cup {Nothing}]

(* What a call in flight may still add to the bill.                        *)
Outstanding(g) == IF charge[g] = Nothing THEN 0 ELSE Bound[charge[g]]

(* Neither ceiling of a run is ever crossed, not by a call in flight, a    *)
(* lost answer, a repair or a late refusal: what the provider bills stays  *)
(* within the spend ceiling although the guard sees only the usages that   *)
(* come back (guard.py admit and settle, client.py _Charge).               *)
SpendWithinCeiling ==
    \A g \in Guards :
        /\ billed[g] + Outstanding(g) <= SpendCeiling
        /\ calls[g] <= CallCeiling
=============================================================================
