----------------------------- MODULE Negotiation -----------------------------
(***************************************************************************)
(* The negotiation itself: turn after turn, the backend builds an          *)
(* observation for the party that acts next, that party's agent decides    *)
(* with its policy, the validator and the repairs, signs, and the contract *)
(* (module Exchange) executes or reverts what was signed.                  *)
(*                                                                         *)
(* One turn is open at a time and nothing is lost: what the processes,     *)
(* messages and restarts can do to a turn is module Turns.  Time passes    *)
(* between any two steps, so a signed action may reach the chain too late. *)
(***************************************************************************)
EXTENDS Mandates, Budget, SequencesExt

CONSTANTS
    SessionId,      \* the session's identifier
    Buyer, Seller,  \* the two agents' addresses
    Operator, ZeroAddress, NoConfig,
    Settings,       \* the runs: [terms, mandate, holdings, policy, script]
    RepairAttempts, \* provisioning's repair_attempts
    Prices,         \* amounts a model may write
    Malformed,      \* answers a model may give that are no decision
    MaxTime         \* bound: the last block timestamp

Parties == Roles
Address(role) == IF role = "buyer" THEN Buyer ELSE Seller

(* Two addresses, a guard for each, and the values that stand for nothing.      *)
ASSUME PartiesAssumption ==
    /\ Buyer # Seller /\ Guards = Parties
    /\ Nothing \notin Int /\ NoOffer \notin StandingOffer
    /\ UINT256_MAX \in Nat \ {0}

(* What a decision read from an answer offers is a number.                 *)
Legible(answer) ==
    LET decision == ParseDecision(answer)
    IN  Is("action", decision) /\ decision.action = "offer" => decision.value \in Nat

(* An entry of a script is a failure, or an answer that can be read.       *)
Playable(script) ==
    /\ Len(script) \in Nat /\ DOMAIN script = 1..Len(script)
    /\ \A i \in DOMAIN script :
          /\ script[i].request \in Requests
          /\ script[i].kind \in {"answer", "failure"}
          /\ script[i].kind = "answer" => Legible(script[i].answer)

(* An approved session's offers live for some time (bodies.py).            *)
ASSUME SettingsAssumption ==
    \A s \in Settings :
        /\ s.terms \in Session /\ s.terms.lifetime > 0
        /\ s.mandate \in [Parties -> Mandate]
        /\ s.holdings \in [Parties -> Holdings]
        /\ s.policy \in [Parties -> {"deterministic", "model", "fixture"}]
        /\ \A p \in Parties : Playable(s.script[p])

ASSUME AnswersAssumption ==
    /\ Prices \subseteq Nat
    /\ \A answer \in Malformed : Is("refused", ParseDecision(answer))

VARIABLES
    setting,    \* the run's public terms and private mandates
    turn,       \* the turn in progress
    previous,   \* what each party's own earlier attempts came to
    cause,      \* the run's termination cause
    ledger,     \* the model costs of the run's decision records
    played,     \* by role, the entries played of its fixture script
    now, session, balance, allowance, log   \* the contract and its tokens

chainVars == <<now, session, balance, allowance, log>>
modelVars == <<ledger, played>>
vars == <<setting, turn, previous, cause, modelVars, chainVars, budgetVars>>

(* The signed messages are whatever the agents sign, so the contract is    *)
(* used through its entry points and not through its Next.                 *)
Contract == INSTANCE Exchange WITH
    SessionIds <- {SessionId}, Accounts <- {Buyer, Seller}, Configs <- {},
    OfferMessages <- {}, AcceptMessages <- {}, CloseMessages <- {},
    Funding <- {}, MaxBalance <- 0

(* The zero digest is no offer's.                                          *)
ASSUME DigestAssumption == NoOffer \notin Contract!Offer

Config(s) == [session |-> SessionId, buyer |-> Buyer, seller |-> Seller,
              baseAmount |-> s.terms.base, expiresAt |-> s.terms.expiresAt,
              maxOffers |-> s.terms.maxOffers]

NoObservation == [role |-> "none", history |-> << >>]

Init ==
    /\ setting \in Settings
    /\ turn = [phase |-> "idle", observation |-> NoObservation, attempt |-> 0,
               message |-> NoOffer]
    /\ previous = [p \in Parties |-> << >>]
    /\ cause = "none"
    /\ ledger = [calls |-> 0, estimated |-> 0, reported |-> 0]
    /\ played = [p \in Parties |-> 0]
    /\ now = 0
    /\ session = [s \in {SessionId} |->
          [Contract!Unknown EXCEPT !.config = Config(setting), !.status = "Open"]]
    /\ balance =
          [t \in Contract!Tokens |-> [a \in {Buyer, Seller} |->
              setting.holdings[IF a = Buyer THEN "buyer" ELSE "seller"][t]]]
    /\ allowance = balance
    /\ log = [s \in {SessionId} |-> << >>]
    /\ BudgetInit

Status == session[SessionId].status

(* The recorded offers: their events in the order of their sequence, as    *)
(* the observation builder decodes them.                                   *)
RecordedOffers ==
    LET events == log[SessionId]
        offers == {k \in DOMAIN events : events[k].kind = "OfferRecorded"}
        Rank(k) == Cardinality({j \in offers : events[j].sequence <= events[k].sequence})
        Sorted(i) == events[CHOOSE k \in offers : Rank(k) = i]
    IN  [i \in 1..Cardinality(offers) |->
            [sequence |-> Sorted(i).sequence,
             proposer |-> IF Sorted(i).actor = Buyer THEN "buyer" ELSE "seller",
             quote |-> Sorted(i).offer.quote,
             validUntil |-> Sorted(i).offer.validUntil]]

-----------------------------------------------------------------------------
(* A turn begins: an observation for whoever acts next, unless the session *)
(* deadline has passed.  The agent refuses one that contradicts itself.    *)
Begin ==
    /\ turn.phase = "idle" /\ cause = "none"
    /\ Status = "Open" /\ now < setting.terms.expiresAt
    /\ LET o == Build(setting.terms, RecordedOffers, now, setting.holdings,
                      setting.mandate, previous)
       IN  /\ CheckObservation(o, setting.terms) = "none"
           /\ turn' = [turn EXCEPT !.phase = "deciding", !.observation = o,
                                   !.attempt = 1]
    /\ UNCHANGED <<setting, previous, cause, modelVars, chainVars, budgetVars>>

Role == turn.observation.role
Policy == setting.policy[Role]

(* What a call that got no answer came to, by the error the SDK raised.    *)
Errors == {"APITimeoutError", "APIConnectionError", "status_429", "status_5xx",
           "status_other", "other"}

SortError(e) ==
    CASE e = "APITimeoutError" -> "timeout"
      [] e = "APIConnectionError" -> "connection_failed"
      [] e = "status_429" -> "rate_limited"
      [] e = "status_other" -> "rejected"
      [] OTHER -> "provider_failure"

(* Why the turn of an unanswered call failed; of these only an exhausted   *)
(* budget terminates the run differently.                                  *)
PolicyResult(outcome) ==
    IF outcome = "budget_refused" THEN "budget_exhausted"
    ELSE IF outcome = "timeout" THEN "timeout" ELSE "provider_error"

FailureCause(failure) ==
    IF failure = "budget_exhausted" THEN failure ELSE "model_failure"

(* What an attempt came to, for the party's own later observations.        *)
Recall(result) == previous' = [previous EXCEPT ![Role] = Append(@, result)]

(* A refused attempt is left out when it is no decision at all.            *)
RecallRejected(response) ==
    IF Is("refused", ParseDecision(response)) THEN UNCHANGED previous
    ELSE Recall("rejected")

Finish(why) ==
    /\ turn' = [turn EXCEPT !.phase = "idle", !.observation = NoObservation,
                            !.attempt = 0, !.message = NoOffer]
    /\ cause' = why

(* The validator judges an answer.  A decision it accepts is signed; one   *)
(* it refuses is repaired while attempts are left, then the turn fails.    *)
Judge(response) ==
    LET verdict == Validate(response, turn.observation)
    IN  \/ /\ Accepted(verdict)
           /\ turn' = [turn EXCEPT !.phase = "signed", !.message =
                 SignedMessage(verdict, turn.observation, setting.terms.lifetime)]
           /\ UNCHANGED <<previous, cause>>
        \/ /\ ~ Accepted(verdict)
           /\ turn.attempt <= RepairAttempts
           /\ turn' = [turn EXCEPT !.phase = "deciding", !.attempt = @ + 1]
           /\ RecallRejected(response)
           /\ UNCHANGED cause
        \/ /\ ~ Accepted(verdict)
           /\ turn.attempt > RepairAttempts
           /\ RecallRejected(response)
           /\ Finish(FailureCause("repair_exhausted"))

(* The deterministic policy answers at once and ignores a repair.          *)
DecideDeterministic ==
    /\ turn.phase = "deciding" /\ Policy = "deterministic"
    /\ Judge(Choose(turn.observation))
    /\ UNCHANGED <<setting, modelVars, chainVars, budgetVars>>

(* Mutant: an unknown cost counts as nothing.                              *)
PlusZero(total, cost) == IF cost = Nothing THEN total ELSE total + cost

(* The sum of the decision records' costs: unknown once a part of it is.   *)
Plus(total, cost) ==
    IF total = Nothing \/ cost = Nothing THEN Nothing ELSE total + cost

ModelCost(total, decision) ==
    [calls |-> total.calls + 1,
     estimated |-> Plus(total.estimated, decision.estimated),
     reported |-> Plus(total.reported, decision.reported)]

(* A sent call is in the attempt's decision record, answered or not, with  *)
(* the estimate it was admitted for and the cost it reported, if any.      *)
RecordCall(reported) ==
    ledger' = ModelCost(ledger, [estimated |-> Bound[charge[Role]],
                                 reported |-> reported])

InCall(policy) == turn.phase = "calling" /\ Policy = policy

(* The model policy counts the request and asks the guard.                 *)
CallModel(q) ==
    /\ turn.phase = "deciding" /\ Policy = "model"
    /\ Admit(Role, q)
    /\ turn' = [turn EXCEPT !.phase = "calling"]
    /\ UNCHANGED <<setting, previous, cause, modelVars, chainVars>>

FailTurn(outcome) ==
    /\ Finish(FailureCause(PolicyResult(outcome)))
    /\ UNCHANGED <<setting, previous, chainVars>>

RefuseCall(q) ==
    /\ turn.phase = "deciding" /\ Policy = "model"
    /\ ~ Admissible(Role, q)
    /\ FailTurn("budget_refused")
    /\ UNCHANGED <<modelVars, budgetVars>>

(* Text that nests too deep, is no JSON or holds a number or a character   *)
(* that cannot travel reaches the validator as text.                       *)
Untravelled == {"too_deep", "not_json", "not_finite"}
AsWritten(w) == IF Is("text", w) THEN [string |-> w.text] ELSE w

(* An answer is judged whatever its stop reason: a refusal or a truncation *)
(* whose text is a valid decision is signed like any other.                *)
Answered(response, cost) ==
    /\ Settle(Role, cost)
    /\ RecordCall(cost)
    /\ Judge(AsWritten(response))
    /\ UNCHANGED <<setting, played, chainVars>>

ModelAnswers(response, cost) == InCall("model") /\ Answered(response, cost)

(* What a model may write, in sight of the observation: any price, any     *)
(* offer of the history, standing or not, any reason, or no decision.      *)
Responses(o) ==
    {Answer("offer", "quote_amount_minor", [amount |-> p]) : p \in Prices}
    \cup {Answer("accept", "offer_hash", [digest |-> o.history[i].digest]) :
            i \in DOMAIN o.history}
    \cup {Answer("walk_away", "reason", [string |-> "terms_unacceptable"])}
    \cup {[text |-> t] : t \in Untravelled}
    \cup Malformed

(* A sent call without an answer is charged its estimate, whatever the     *)
(* provider bills for it, and ends the turn without a repair.              *)
Unanswered(outcome, cost) ==
    /\ turn.phase = "calling"
    /\ SettleLost(Role, cost)
    /\ RecordCall(Nothing)
    /\ FailTurn(outcome)
    /\ UNCHANGED played

CallFails(e, cost) == InCall("model") /\ Unanswered(SortError(e), cost)

(* A success whose body is no message, or has no usage that can be read.   *)
Unreadable(cost) == InCall("model") /\ Unanswered("provider_failure", cost)

(* The turn's deadline cuts the call short: sent, it may have been billed; *)
(* while the tokens are still being counted it was not sent.               *)
DeadlineCutsCall(cost) == Unanswered("timeout", cost)

DeadlineCutsCount ==
    /\ turn.phase = "deciding" /\ Policy = "model"
    /\ FailTurn("timeout")
    /\ UNCHANGED <<modelVars, budgetVars>>

(* The tokens cannot be counted: nothing is admitted and nothing charged.  *)
CountFails(e) ==
    /\ turn.phase = "deciding" /\ Policy = "model"
    /\ FailTurn(SortError(e))
    /\ UNCHANGED <<modelVars, budgetVars>>

-----------------------------------------------------------------------------
(* The fixture client: one entry of the role's script per call, through    *)
(* the run's guard.  An entry is an answer, a text or a failure.           *)

Script == setting.script[Role]

(* A script that has run out fails the turn with a call never sent.        *)
FixtureExhausted ==
    /\ turn.phase = "deciding" /\ Policy = "fixture"
    /\ played[Role] = Len(Script)
    /\ FailTurn("provider_failure")
    /\ UNCHANGED <<modelVars, budgetVars>>

(* The entry is played whether the guard admits the call or refuses it.    *)
FixtureCalls ==
    /\ turn.phase = "deciding" /\ Policy = "fixture"
    /\ played[Role] < Len(Script)
    /\ played' = [played EXCEPT ![Role] = @ + 1]
    /\ LET entry == Script[played[Role] + 1]
       IN  \/ /\ Admit(Role, entry.request)
              /\ turn' = [turn EXCEPT !.phase = "calling"]
              /\ UNCHANGED <<setting, previous, cause, ledger, chainVars>>
           \/ /\ ~ Admissible(Role, entry.request)
              /\ FailTurn("budget_refused")
              /\ UNCHANGED <<ledger, budgetVars>>

(* An answer may name the offer that stands; without one it cannot.        *)
CanFill(answer, o) == Is("path", answer) => o.active # NoOffer

Fill(answer, o) ==
    IF Is("path", answer)
    THEN Answer("accept", "offer_hash", [digest |-> o.active.digest])
    ELSE answer

FixturePlays ==
    LET entry == Script[played[Role]]
    IN  /\ InCall("fixture")
        /\ \/ entry.kind = "failure" /\ Unanswered(entry.failure, 0)
           \/ /\ entry.kind = "answer" /\ ~ CanFill(entry.answer, turn.observation)
              /\ Unanswered("provider_failure", 0)
           \/ /\ entry.kind = "answer" /\ CanFill(entry.answer, turn.observation)
              /\ Answered(Fill(entry.answer, turn.observation), entry.cost)

-----------------------------------------------------------------------------
(* The signed message on the chain. *)

OfferMessage(p, sequence, quote, validUntil) ==
    [session |-> SessionId, config |-> Config(setting), sequence |-> sequence,
     proposer |-> Address(p), quote |-> quote, validUntil |-> validUntil]

AcceptMessage(p, sequence, o) ==
    [session |-> SessionId, config |-> Config(setting), sequence |-> sequence,
     actor |-> Address(p),
     offer |-> OfferMessage(o.proposer, o.sequence, o.quote, o.validUntil)]

ReasonCode(reason) ==
    CHOOSE i \in 1..3 : reason = <<"terms_unacceptable", "inventory_constraint",
                                   "no_further_concession">>[i]

CloseMessage(p, sequence, reason) ==
    [session |-> SessionId, config |-> Config(setting), sequence |-> sequence,
     actor |-> Address(p), reason |-> ReasonCode(reason)]

(* The entry point each kind of action is encoded for, with its signer.    *)
Execute(m) ==
    \/ /\ m.kind = "offer"
       /\ Contract!RecordOffer(
             OfferMessage(m.actor, m.sequence, m.value, m.validUntil),
             Address(m.actor))
    \/ /\ m.kind = "accept"
       /\ Contract!AcceptAndSettle(AcceptMessage(m.actor, m.sequence, m.value),
                                   Address(m.actor))
    \/ /\ m.kind = "walk_away"
       /\ Contract!CloseSession(CloseMessage(m.actor, m.sequence, m.value),
                                Address(m.actor))

ResultFor == [offer |-> "recorded", accept |-> "settled", walk_away |-> "closed"]

Mine ==
    /\ turn.phase = "signed"
    /\ Execute(turn.message)
    /\ Recall(ResultFor[turn.message.kind])
    /\ Finish(cause)
    /\ UNCHANGED <<setting, modelVars, budgetVars>>

(* The transaction reverts: the run is asked to terminate.                 *)
Revert ==
    /\ turn.phase = "signed"
    /\ ~ ENABLED Execute(turn.message)
    /\ Recall("failed")
    /\ Finish("execution_failure")
    /\ UNCHANGED <<setting, modelVars, chainVars, budgetVars>>

(* Termination aborts the session before its deadline and expires it after.*)
Terminate ==
    /\ cause # "none"
    /\ Contract!AbortSession(SessionId)
    /\ UNCHANGED <<setting, turn, previous, cause, modelVars, budgetVars>>

Expire ==
    /\ Contract!ExpireSession(SessionId)
    /\ UNCHANGED <<setting, turn, previous, cause, modelVars, budgetVars>>

Tick ==
    /\ Status = "Open"
    /\ Contract!NextBlock
    /\ UNCHANGED <<setting, turn, previous, cause, modelVars, budgetVars>>

Next ==
    \/ Begin
    \/ DecideDeterministic
    \/ \E q \in Requests : CallModel(q) \/ RefuseCall(q)
    \/ \E e \in Errors : CountFails(e)
    \/ \E cost \in UNION {Usages[q] : q \in Requests} \cup {0} :
          \/ \E r \in Responses(turn.observation) : ModelAnswers(r, cost)
          \/ \E e \in Errors : CallFails(e, cost)
          \/ Unreadable(cost)
          \/ DeadlineCutsCall(cost)
    \/ DeadlineCutsCount
    \/ FixtureExhausted
    \/ FixtureCalls
    \/ FixturePlays
    \/ Mine
    \/ Revert
    \/ Terminate
    \/ Expire
    \/ Tick

Spec == Init /\ [][Next]_vars

-----------------------------------------------------------------------------
(* Properties *)

(* The builder's account and the agent's own agree: an observation built   *)
(* from the recorded events at any chain time is one the agent accepts, so *)
(* a turn is never refused as inconsistent for what the builder does       *)
(* (builder.py, consistency.py), and it says an own offer is left exactly  *)
(* when the contract would record one more of this party's.                *)
BuiltIsConsistent ==
    LET o == Build(setting.terms, RecordedOffers, now, setting.holdings,
                   setting.mandate, previous)
    IN  /\ o \in Observation
        /\ Contradictions(o) = {}
        /\ (o.remaining > 0) <=> (session[SessionId].offerCount < setting.terms.maxOffers)

(* What an agent signs passes the backend's check, and the contract        *)
(* accepts it at the chain time it was decided at: no signed action can    *)
(* only revert (messages.py and mandate.py against executor.py _check and  *)
(* NegotiationExchange.sol).                                               *)
SignedIsExecutable ==
    turn.phase = "signed" =>
        /\ CheckSigned(turn.message, turn.observation)
        /\ now = turn.observation.now /\ Status = "Open" =>
              ENABLED Execute(turn.message)

(* No settlement is outside either party's private mandate: its price is   *)
(* within both reservations and leaves both floors (mandate.py), however   *)
(* the two policies, their repairs and the offers' expiries interleave.    *)
MandatesKept ==
    Status = "Settled" =>
        LET price  == Last(log[SessionId]).offer.quote
            buyer  == setting.mandate["buyer"]
            seller == setting.mandate["seller"]
        IN  /\ seller.reservation <= price /\ price <= buyer.reservation
            /\ balance["quote"][Buyer] >= buyer.floor
            /\ balance["base"][Seller] >= seller.floor

(* Both parties run the baseline, their bounds overlap at a price an offer *)
(* can carry and their holdings bear any price within them.                *)
Agreeable(s) ==
    LET buyer  == s.mandate["buyer"]
        seller == s.mandate["seller"]
    IN  /\ \A p \in Parties : s.policy[p] = "deterministic"
        /\ Larger(seller.reservation, 1) <= Smaller(buyer.reservation, UINT256_MAX)
        /\ s.holdings["buyer"]["quote"] >= buyer.reservation + buyer.floor
        /\ s.holdings["seller"]["base"] >= s.terms.base + seller.floor

(* Two baselines whose bounds overlap do not walk away from each other     *)
(* over an offer that stands: the schedule's last step is the bound, and   *)
(* that reaches the other before its offers run out (deterministic.py).    *)
BaselinesAgree ==
    Agreeable(setting) /\ Status = "Closed" =>
        LET offers == RecordedOffers
            closed == Last(log[SessionId]).at
        IN  offers # << >> /\ offers[Len(offers)].validUntil <= closed
=============================================================================
