------------------------------ MODULE Metrics ------------------------------
(***************************************************************************)
(* services/api/src/api/metrics: the figures of a run, computed from what  *)
(* is stored of it at any moment: the mandates, the wallets' holdings after*)
(* set-up, the signed actions, the canonical events and the decisions.     *)
(*                                                                         *)
(* The evaluator has its own arithmetic for what a mandate allows.  Whether*)
(* it agrees with the validator inside each agent (module Mandates) and    *)
(* with what the contract transfers is what the property asks.             *)
(***************************************************************************)
EXTENDS Negotiation

NoFigure == Nothing

(* The highest price the buyer may pay, the lowest the seller may take,    *)
(* and whether the seller can deliver.                                     *)
Limits ==
    LET buyer  == setting.mandate["buyer"]
        seller == setting.mandate["seller"]
    IN  [cap |-> Smaller(buyer.reservation,
                         setting.holdings["buyer"]["quote"] - buyer.floor),
         low |-> Larger(seller.reservation, 1),
         deliverable |-> setting.holdings["seller"]["base"] - setting.terms.base
                            >= seller.floor]

Feasibility ==
    IF ~ Limits.deliverable \/ Limits.cap < Limits.low
    THEN [feasible |-> FALSE, surplus |-> NoFigure, interval |-> << >>]
    ELSE [feasible |-> TRUE, surplus |-> Limits.cap - Limits.low,
          interval |-> <<Limits.low, Limits.cap>>]

SettledQuote ==
    IF Status = "Settled" THEN Last(log[SessionId]).offer.quote ELSE NoFigure

Utilities ==
    IF SettledQuote = NoFigure THEN [p \in Parties |-> NoFigure]
    ELSE [buyer |-> Limits.cap - SettledQuote, seller |-> SettledQuote - Limits.low]

(* The signed actions: those mined, and the one on its way to the chain.   *)
SignedActions ==
    {[kind |-> e.kind, signer |-> e.actor, quote |-> e.offer.quote] :
        e \in {f \in Range(log[SessionId]) :
                  f.kind \in {"OfferRecorded", "SettlementCompleted"}}}
    \cup (IF turn.phase # "signed" \/ turn.message.kind = "walk_away" THEN {}
          ELSE {[kind |-> turn.message.kind, signer |-> Address(turn.message.actor),
                 quote |-> IF turn.message.kind = "offer" THEN turn.message.value
                           ELSE turn.message.value.quote]})

(* Mutant: a price at the bound counts as outside it.                      *)
OutsideStrict(party, quote) ==
    IF party = "buyer" THEN quote >= Limits.cap
    ELSE quote < Limits.low \/ ~ Limits.deliverable

Outside(party, quote) ==
    IF party = "buyer" THEN quote > Limits.cap
    ELSE quote < Limits.low \/ ~ Limits.deliverable

(* Offers and acceptances at a price the signer's mandate does not allow.  *)
MandateViolations ==
    {a \in SignedActions :
        \E p \in Parties : a.signer = Address(p) /\ Outside(p, a.quote)}

Ended == Status \in {"Settled", "Closed", "Expired", "Aborted"}

(* The class of a run by the cause that ended it.                          *)
FailureClass ==
    IF ~ Ended THEN NoFigure
    ELSE IF cause \in {"model_failure", "budget_exhausted"} THEN "model"
    ELSE IF cause = "execution_failure" THEN "execution"
    ELSE "none"

CapturedSurplus ==
    IF SettledQuote # NoFigure THEN Utilities["buyer"] + Utilities["seller"]
    ELSE IF Ended THEN 0 ELSE NoFigure

(* The part of the surplus that was captured, in percent.                  *)
EfficiencyRatio ==
    IF Feasibility.surplus \in {NoFigure, 0} \/ CapturedSurplus = NoFigure
    THEN NoFigure
    ELSE (100 * CapturedSurplus) \div Feasibility.surplus

(* The row of the run's figures; a feasibility or utility that needs a     *)
(* trade, a price or both mandates may be null.                            *)
Figures ==
    LET figure == Int \cup {NoFigure}
    IN  [recordedOffers : Nat, modelCalls : Nat, estimated : figure,
         reported : figure, settledQuote : figure, utility : [Parties -> figure],
         captured : figure, efficiency : figure, feasible : BOOLEAN,
         violations : Nat, failureClass : {"none", "model", "execution", NoFigure}]

RunMetrics ==
    [recordedOffers |-> Len(RecordedOffers),
     modelCalls |-> ledger.calls,
     estimated |-> ledger.estimated, reported |-> ledger.reported,
     settledQuote |-> SettledQuote, utility |-> Utilities,
     captured |-> CapturedSurplus, efficiency |-> EfficiencyRatio,
     feasible |-> Feasibility.feasible, violations |-> Cardinality(MandateViolations),
     failureClass |-> FailureClass]

(* What the offline evaluator is told at any moment, of the mandates alone:*)
(* whether a trade was possible, and at which prices.                      *)
Evaluator ==
    [feasible |-> Feasibility.feasible, interval |-> Feasibility.interval,
     surplus |-> Feasibility.surplus]

-----------------------------------------------------------------------------
(* The evaluator, the agents and the contract agree on what a mandate      *)
(* allows: no authorised action is ever counted as a violation, a trade    *)
(* happens only where one was feasible and at a price of the evaluator's   *)
(* interval, leaves neither party worse off than no trade and captures     *)
(* the whole surplus, and a settled run is not a failed one (figures.py    *)
(* against mandate.py and the contract; "the target is zero",              *)
(* figures.py:172).                                                        *)
FiguresAgree ==
    /\ RunMetrics \in Figures
    /\ RunMetrics.violations = 0
    /\ RunMetrics.recordedOffers = session[SessionId].offerCount
    /\ RunMetrics.settledQuote # NoFigure =>
          /\ RunMetrics.feasible /\ Evaluator.feasible
          /\ RunMetrics.settledQuote \in Evaluator.interval[1]..Evaluator.interval[2]
          /\ \A p \in Parties : RunMetrics.utility[p] >= 0
          /\ RunMetrics.efficiency \in {100, NoFigure}
          /\ RunMetrics.failureClass = "none"

(* The model cost a run is shown to have is never below what was billed    *)
(* for it: every admitted call is in the decision records once, a reported *)
(* total is the bill itself, and an unknown part makes the total unknown,  *)
(* never zero (figures.py model_cost; guard.py, client.py _Charge).        *)
CostsCoverTheBill ==
    LET total(f) == f["buyer"] + f["seller"]
        inFlight == IF turn.phase = "calling" THEN 1 ELSE 0
    IN  /\ RunMetrics.modelCalls + inFlight = total(calls)
        /\ RunMetrics.reported \in {Nothing, total(billed)}
        /\ total(billed) <= RunMetrics.estimated
=============================================================================
