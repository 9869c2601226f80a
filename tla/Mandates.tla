------------------------------ MODULE Mandates ------------------------------
(***************************************************************************)
(* What one agent reads, decides and signs, as operators: the observation  *)
(* the backend builds for it (services/api/src/api/observation), the       *)
(* agent's own consistency check, the parser and the validator every       *)
(* policy's answer goes through, the deterministic policy, and the signed  *)
(* message (services/agent/src/agent).                                     *)
(*                                                                         *)
(* A digest is the record it commits to.  A JSON value is a record whose   *)
(* one field names its kind, so that "is a string" is a test on DOMAIN.    *)
(***************************************************************************)
EXTENDS Naturals, Sequences, FiniteSetsExt

CONSTANTS
    NoOffer,        \* null, where an offer could stand
    UINT256_MAX     \* the largest amount an offer can carry

Roles == {"buyer", "seller"}
counterparty(role) == IF role = "buyer" THEN "seller" ELSE "buyer"

Larger(a, b) == IF a >= b THEN a ELSE b
Smaller(a, b) == IF a <= b THEN a ELSE b
FloorDiv(a, b) == a \div b
CeilDiv(a, b) == (a + b - 1) \div b

(* Own offer opportunities: the buyer has the odd one.                     *)
opportunities(role, maxOffers) ==
    IF role = "buyer" THEN (maxOffers + 1) \div 2 ELSE maxOffers \div 2

-----------------------------------------------------------------------------
(* The typed view of an observation (observation.py, observation.v1.json). *)
(* An offer is what its canonical event decodes to.                        *)

Offer == [sequence : Nat \ {0}, proposer : Roles, quote : Nat, validUntil : Nat]

Mandate == [reservation : Nat, floor : Nat]

Session == [base : Nat, expiresAt : Nat, maxOffers : Nat \ {0}, lifetime : Nat]

StandingOffer == [digest : Offer, proposer : Roles, quote : Nat,
                  validUntil : Nat, sequence : Nat \ {0}]

Entry == [sequence : Nat \ {0}, actor : Roles, kind : {"offer"}, quote : Nat,
          validUntil : Nat, digest : Offer,
          status : {"active", "expired", "replaced"}]

Holdings == [base : Nat, quote : Nat]

Results == {"rejected", "recorded", "settled", "closed", "failed"}

Observation ==
    [role : Roles, terms : Session, now : Nat, expectedSequence : Nat \ {0},
     remaining : Nat, active : StandingOffer \cup {NoOffer},
     history : Seq(Entry), holdings : Holdings, previous : Seq(Results),
     mandate : Mandate]

-----------------------------------------------------------------------------
(* The observation as the backend builds it (observation/builder.py).      *)

Standing(offers, now) ==
    Len(offers) > 0 /\ offers[Len(offers)].validUntil > now

NextParty(offers) ==
    IF offers = << >> THEN "buyer"
    ELSE counterparty(offers[Len(offers)].proposer)

ActiveOffer(offers, now) ==
    IF ~ Standing(offers, now) THEN NoOffer
    ELSE LET o == offers[Len(offers)]
         IN  [digest |-> o, proposer |-> o.proposer, quote |-> o.quote,
              validUntil |-> o.validUntil, sequence |-> o.sequence]

History(offers, now) ==
    [i \in 1..Len(offers) |->
        [sequence |-> offers[i].sequence, actor |-> offers[i].proposer,
         kind |-> "offer", quote |-> offers[i].quote,
         validUntil |-> offers[i].validUntil, digest |-> offers[i],
         status |-> IF i # Len(offers) THEN "replaced"
                    ELSE IF Standing(offers, now) THEN "active"
                    ELSE "expired"]]

OwnOffers(role, offers) ==
    Cardinality({i \in DOMAIN offers : offers[i].proposer = role})

(* Mutant: the share is not reduced by the offers already made.            *)
BuildWholeShare(terms, offers, now, holdings, mandate, previous) ==
    LET role == NextParty(offers)
    IN  [role |-> role, terms |-> terms, now |-> now,
         expectedSequence |-> Len(offers) + 1,
         remaining |-> opportunities(role, terms.maxOffers),
         active |-> ActiveOffer(offers, now),
         history |-> History(offers, now), holdings |-> holdings[role],
         previous |-> previous[role], mandate |-> mandate[role]]

ExpectedSequence(offers) ==
    IF offers = << >> THEN 1 ELSE offers[Len(offers)].sequence + 1

(* A party is shown its own post_setup balances, and both tokens of them.  *)
OwnBalances(role, holdings) ==
    [t \in {"base", "quote"} |-> holdings[role][t]]

(* For whichever party acts next, from confirmed events, its own holdings  *)
(* after set-up, its own earlier decisions and its own mandate alone.      *)
Build(terms, offers, now, holdings, mandate, previous) ==
    LET role == NextParty(offers)
        own  == OwnOffers(role, offers)
        share == opportunities(role, terms.maxOffers)
    IN  [role |-> role, terms |-> terms, now |-> now,
         expectedSequence |-> ExpectedSequence(offers),
         remaining |-> IF share > own THEN share - own ELSE 0,
         active |-> ActiveOffer(offers, now),
         history |-> History(offers, now),
         holdings |-> OwnBalances(role, holdings),
         previous |-> previous[role], mandate |-> mandate[role]]

-----------------------------------------------------------------------------
(* consistency.py: does the observation agree with itself?  Each element   *)
(* names a place that contradicts the rest.                                *)

EntryProblems(o, i) ==
    LET e == o.history[i]
        last == i = Len(o.history)
    IN  IF e.sequence # i THEN {"sequence"}
        ELSE IF e.kind # "offer" THEN {"kind"}
        ELSE IF e.actor # (IF i % 2 = 1 THEN "buyer" ELSE "seller") THEN {"actor"}
        ELSE (IF e.digest = [sequence |-> e.sequence, proposer |-> e.actor,
                             quote |-> e.quote, validUntil |-> e.validUntil]
              THEN {} ELSE {"offer_hash"})
             \cup
             (IF e.status = (IF ~ last THEN "replaced"
                             ELSE IF e.validUntil > o.now THEN "active"
                             ELSE "expired")
              THEN {} ELSE {"status"})

ActiveOfferProblems(o) ==
    LET n == Len(o.history)
        standing == n > 0 /\ o.history[n].validUntil > o.now
        last == o.history[n]
    IN  IF o.active = NoOffer THEN (IF standing THEN {"active_offer"} ELSE {})
        ELSE IF ~ standing THEN {"active_offer"}
        ELSE IF o.active = [digest |-> last.digest, proposer |-> last.actor,
                            quote |-> last.quote, validUntil |-> last.validUntil,
                            sequence |-> last.sequence]
        THEN {} ELSE {"active_offer"}

OwnRecorded(o) ==
    Cardinality({i \in DOMAIN o.history :
        o.history[i].kind = "offer" /\ o.history[i].actor = o.role})

Contradictions(o) ==
    LET share == opportunities(o.role, o.terms.maxOffers)
        own   == OwnRecorded(o)
    IN  UNION {EntryProblems(o, i) : i \in DOMAIN o.history}
        \cup (IF Len(o.history) > o.terms.maxOffers THEN {"history"} ELSE {})
        \cup (IF o.expectedSequence # Len(o.history) + 1
              THEN {"expected_sequence"} ELSE {})
        \cup (IF o.remaining # (IF share > own THEN share - own ELSE 0)
              THEN {"offers_remaining_for_me"} ELSE {})
        \cup ActiveOfferProblems(o)

(* signing/session.py: the fields in which an observation's session is not *)
(* the approved one.                                                       *)
MismatchesWith(o, approved) == {f \in DOMAIN approved : o.terms[f] # approved[f]}

(* service.py: what the agent refuses to decide on, before any policy sees *)
(* it: another session than the approved one, one past its deadline, one   *)
(* that contradicts itself.                                                *)
CheckObservation(o, approved) ==
    IF MismatchesWith(o, approved) # {} THEN "session_mismatch"
    ELSE IF o.now >= approved.expiresAt THEN "session_deadline_passed"
    ELSE IF Contradictions(o) # {} THEN "observation_inconsistent"
    ELSE "none"

-----------------------------------------------------------------------------
(* structure.py: a response is a decision or the first rule it breaks.     *)

Is(kind, v) == kind \in DOMAIN v
IsString(v) == DOMAIN v \cap {"string", "long", "amount", "digest"} # {}

Reasons == {"terms_unacceptable", "inventory_constraint", "no_further_concession"}

Refused(code) == [refused |-> code]
Proposed(action, value) == [action |-> action, value |-> value]

ReadAmount(v) ==
    IF ~ Is("amount", v) THEN Refused("invalid_amount")
    ELSE IF v.amount > UINT256_MAX THEN Refused("invalid_amount")
    ELSE IF v.amount = 0 THEN Refused("zero_amount")
    ELSE Proposed("offer", v.amount)

ReadHash(v) ==
    IF Is("digest", v) THEN Proposed("accept", v.digest)
    ELSE Refused("invalid_offer_hash")

ReadReason(v) ==
    IF Is("string", v) /\ v.string \in Reasons
    THEN Proposed("walk_away", v.string)
    ELSE Refused("invalid_reason")

(* The one field each action carries.                                      *)
ShapeField == [offer |-> "quote_amount_minor", accept |-> "offer_hash",
               walk_away |-> "reason"]

ReadField(action, v) ==
    IF action = "offer" THEN ReadAmount(v)
    ELSE IF action = "accept" THEN ReadHash(v)
    ELSE ReadReason(v)

ActionOf(d) ==
    IF "action" \in DOMAIN d /\ Is("string", d.action) THEN d.action.string
    ELSE "none"

ParseShape(d) ==
    LET action == ActionOf(d)
        field  == ShapeField[action]
    IN  IF action \notin DOMAIN ShapeField THEN Refused("schema_error")
        ELSE IF DOMAIN d \ {"action", field} # {} THEN Refused("extra_fields")
        ELSE IF field \notin DOMAIN d THEN Refused("schema_error")
        ELSE ReadField(action, d[field])

ParseDecision(r) ==
    IF ~ Is("object", r) THEN Refused("schema_error")
    ELSE LET e == r.object
         IN  IF DOMAIN e \ {"decision", "explanation"} # {}
             THEN Refused("extra_fields")
             ELSE IF "decision" \notin DOMAIN e THEN Refused("schema_error")
             ELSE IF "explanation" \in DOMAIN e
                     /\ (~ IsString(e.explanation) \/ Is("long", e.explanation))
             THEN Refused("schema_error")
             ELSE IF ~ Is("object", e.decision) THEN Refused("schema_error")
             ELSE ParseShape(e.decision.object)

-----------------------------------------------------------------------------
(* mandate.py: the complete trade against the rules, the mandate and the   *)
(* holdings.  A refusal carries the first code of the list that applies.   *)

NoCode == "none"

FirstCode(codes, applies) ==
    LET hits == {i \in DOMAIN codes : applies[codes[i]]}
    IN  IF hits = {} THEN NoCode ELSE codes[Min(hits)]

(* What is left of what this party gives up, were it to trade at `price`.  *)
Leg(o, price) == IF o.role = "buyer" THEN price ELSE o.terms.base
Held(o) == IF o.role = "buyer" THEN o.holdings.quote ELSE o.holdings.base

OutsideReservation(o, price) ==
    IF o.role = "buyer" THEN price > o.mandate.reservation
    ELSE price < o.mandate.reservation

Unaffordable(o, price) == Held(o) < Leg(o, price)
BelowFloor(o, price) == Held(o) < Leg(o, price) + o.mandate.floor

(* Next proposer, from history: an expired offer still decides whose turn  *)
(* it is.                                                                  *)
NextProposer(o) ==
    LET offers == {i \in DOMAIN o.history : o.history[i].kind = "offer"}
    IN  IF offers = {} THEN "buyer" ELSE counterparty(o.history[Max(offers)].actor)

OfferCode(o, price) ==
    FirstCode(<<"not_your_turn", "offer_limit_reached", "outside_reservation",
                "insufficient_balance", "inventory_floor">>,
        [not_your_turn |-> NextProposer(o) # o.role,
         offer_limit_reached |->
            o.remaining = 0 \/ Len(o.history) >= o.terms.maxOffers,
         outside_reservation |-> OutsideReservation(o, price),
         insufficient_balance |-> Unaffordable(o, price),
         inventory_floor |-> BelowFloor(o, price)])

(* Mutant: an acceptance is not checked against the mandate.               *)
AcceptCodeAnyPrice(o, digest) ==
    LET a == o.active
    IN  IF a = NoOffer THEN "no_active_offer"
        ELSE FirstCode(<<"self_acceptance", "stale_offer_hash", "offer_expired">>,
               [self_acceptance |-> a.proposer = o.role,
                stale_offer_hash |-> digest # a.digest,
                offer_expired |-> o.now >= a.validUntil])

AcceptCode(o, digest) ==
    LET a == o.active
    IN  IF a = NoOffer THEN "no_active_offer"
        ELSE FirstCode(<<"self_acceptance", "stale_offer_hash", "offer_expired",
                         "outside_reservation", "insufficient_balance",
                         "inventory_floor">>,
               [self_acceptance |-> a.proposer = o.role,
                stale_offer_hash |-> digest # a.digest,
                offer_expired |-> o.now >= a.validUntil,
                outside_reservation |-> OutsideReservation(o, a.quote),
                insufficient_balance |-> Unaffordable(o, a.quote),
                inventory_floor |-> BelowFloor(o, a.quote)])

(* The decision as proposed, never altered, or the code it is refused for. *)
Validate(response, o) ==
    LET p == ParseDecision(response)
        judged(code) == IF code = NoCode THEN p ELSE Refused(code)
    IN  IF Is("refused", p) THEN p
        ELSE IF p.action = "offer" THEN judged(OfferCode(o, p.value))
        ELSE IF p.action = "accept" THEN judged(AcceptCode(o, p.value))
        ELSE p

Accepted(v) == Is("action", v)

-----------------------------------------------------------------------------
(* deterministic.py: the linear-concession baseline.                       *)

Answer(action, field, value) ==
    [object |-> [decision |-> [object |->
        [f \in {"action", field} |->
            IF f = "action" THEN [string |-> action] ELSE value]]]]

(* Mutant: the schedule runs from the bound to the anchor.                 *)
ConcessionPriceReversed(role, r, k, n) ==
    IF n = 1 THEN r
    ELSE IF role = "buyer"
    THEN Larger(1, FloorDiv(r * (5 * (n - 1) - k), 5 * (n - 1)))
    ELSE Larger(r, CeilDiv(r * (5 * (n - 1) + k), 5 * (n - 1)))

(* The price of own offer k, from 0, of n: from 0.8 of the bound up to it  *)
(* for the buyer, from 1.2 of it down for the seller, rounded to the       *)
(* party's advantage, never past the bound, at least 1.                    *)
ConcessionPrice(role, r, k, n) ==
    LET span  == 5 * (n - 1)
        price == IF n = 1 THEN r
                 ELSE IF role = "buyer"
                 THEN Smaller(FloorDiv(r * (4 * (n - 1) + k), span), r)
                 ELSE Larger(CeilDiv(r * (6 * (n - 1) - k), span), r)
    IN  Smaller(Larger(price, 1), UINT256_MAX)

NextPrice(o) ==
    ConcessionPrice(o.role, o.mandate.reservation, OwnRecorded(o),
                    opportunities(o.role, o.terms.maxOffers))

HoldingsCodes == {"insufficient_balance", "inventory_floor"}

IncomingOutsideBound(o) ==
    /\ o.active # NoOffer
    /\ o.active.proposer # o.role
    /\ OutsideReservation(o, o.active.quote)

(* The move: the active offer when the validator lets it, else the next    *)
(* price of the schedule when it lets that, else away, with the reason.    *)
Choose(o) ==
    LET incoming == o.active # NoOffer /\ o.active.proposer # o.role
        acceptance == Answer("accept", "offer_hash",
                             [digest |-> IF incoming THEN o.active.digest
                                         ELSE NoOffer])
        taken  == incoming /\ Accepted(Validate(acceptance, o))
        offer  == Answer("offer", "quote_amount_minor",
                         [amount |-> IF o.remaining > 0 THEN NextPrice(o) ELSE 0])
        made   == o.remaining > 0 /\ Accepted(Validate(offer, o))
        heldBack ==
            \/ incoming /\ Validate(acceptance, o).refused \in HoldingsCodes
            \/ o.remaining > 0 /\ Validate(offer, o).refused \in HoldingsCodes
        reason == IF heldBack THEN "inventory_constraint"
                  ELSE IF o.remaining = 0 /\ IncomingOutsideBound(o)
                  THEN "terms_unacceptable" ELSE "no_further_concession"
    IN  IF taken THEN acceptance
        ELSE IF made THEN offer
        ELSE Answer("walk_away", "reason", [string |-> reason])

-----------------------------------------------------------------------------
(* signing/messages.py: the message a validated decision becomes.          *)

(* Mutant: an offer outlives the session.                                  *)
SignedMessageUnclipped(decision, o, lifetime) ==
    [kind |-> decision.action, sequence |-> o.expectedSequence, actor |-> o.role,
     value |-> decision.value, validUntil |-> o.now + lifetime]

SignedMessage(decision, o, lifetime) ==
    [kind |-> decision.action, sequence |-> o.expectedSequence, actor |-> o.role,
     value |-> decision.value,
     validUntil |-> Smaller(o.now + lifetime, o.terms.expiresAt)]

(* turns/executor.py: the action's own terms against the observation.      *)
TermsHold(m, o) ==
    \/ /\ m.kind = "offer"
       /\ o.now < m.validUntil /\ m.validUntil <= o.terms.expiresAt
       /\ m.value > 0
    \/ m.kind = "accept" /\ o.active # NoOffer /\ m.value = o.active.digest
    \/ m.kind = "walk_away" /\ m.value \in Reasons

(* The backend's check of a signed action, before it is recorded.          *)
CheckSigned(m, o) ==
    /\ m.actor = o.role
    /\ m.sequence = o.expectedSequence
    /\ TermsHold(m, o)
=============================================================================
