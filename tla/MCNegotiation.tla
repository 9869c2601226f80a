--------------------------- MODULE MCNegotiation ---------------------------
(***************************************************************************)
(* Instances of Negotiation for TLC: every pair of policies under the same *)
(* public terms, with mandates that overlap, that miss each other and that *)
(* the holdings cannot bear; and a model priced as prices.py does.         *)
(***************************************************************************)
EXTENDS Metrics

CONSTANTS MaxOffers, Lifetimes, Reservations, Floors, Policies, Wealth

MCTerms == [base : {1}, expiresAt : {MaxTime}, maxOffers : MaxOffers,
            lifetime : Lifetimes]

(* A seller with a floor could never trade here, so only the buyer has one.*)
MCMandates ==
    {m \in [Roles -> [reservation : Reservations, floor : Floors]] :
        m["seller"].floor = 0}

MCHoldings ==
    [buyer |-> [quote |-> Wealth, base |-> 0],
     seller |-> [quote |-> 0, base |-> 1]]

(* One price list; 10 tokens make the unit it is given in.                 *)
Price == [input |-> 2, output |-> 9, write5m |-> 3, write1h |-> 4, read |-> 1]
Unit == 10

MCRequests == [input : {8}, max : {2}]
MCBound == [q \in MCRequests |-> BoundUsd(Price, q, Unit)]

(* Every usage of the counted prompt: uncached, read, or written.          *)
UsagesOf(q) ==
    {u \in [input : 0..q.input, output : {0, q.max}, read : {0, 2},
            created : {0, 2, 4}, created1h : {0, 2, 4}] :
        /\ Readable(u)
        /\ u.input + u.read + u.created = q.input}

(* The cheapest and the dearest of them are enough for the ceilings.       *)
MCUsages == [q \in MCRequests |->
                LET costs == {CostUsd(Price, u, Unit) : u \in UsagesOf(q)}
                IN  {Min(costs), Max(costs)}]

(* Fixture sets, after tests/fixtures/model_responses: one that settles,   *)
(* one that meets the spend ceiling, and ones that time out, run out and   *)
(* name an offer where none stands.                                        *)
Counted == CHOOSE q \in MCRequests : TRUE
Replies(answer, cost) == [kind |-> "answer", answer |-> answer,
                          request |-> Counted, cost |-> cost]
Fails(outcome) == [kind |-> "failure", failure |-> outcome, request |-> Counted]
Offers(amount, cost) ==
    Replies(Answer("offer", "quote_amount_minor", [amount |-> amount]), cost)
Accepts == Replies([path |-> "active_offer.offer_hash"], Min(MCUsages[Counted]))
Babbles == Replies([text |-> "not_json"], Min(MCUsages[Counted]))
Cheap == Min(MCUsages[Counted])
Dear  == Max(MCUsages[Counted])

NoScripts == [p \in Roles |-> << >>]
FixtureSets ==
    {[buyer |-> <<Offers(3, Cheap), Offers(4, Cheap)>>,
      seller |-> <<Offers(7, Cheap), Accepts>>],
     [buyer |-> <<Offers(3, Dear), Offers(4, Dear)>>,
      seller |-> <<Offers(7, Cheap), Offers(6, Cheap)>>],
     [buyer |-> <<Offers(3, Cheap)>>, seller |-> <<Fails("timeout")>>],
     [buyer |-> <<Babbles>>, seller |-> <<Accepts>>],
     [buyer |-> <<Babbles, Accepts>>, seller |-> <<Accepts>>]}

(* Two baselines play under all of them; where a model plays, two offers   *)
(* are enough for a repair, a counter-offer and a late acceptance; fixtures*)
(* play each other, with the four offers of default-overlap.               *)
MCSettings ==
    {s \in [terms : MCTerms, mandate : MCMandates, holdings : {MCHoldings},
            policy : [Roles -> Policies], script : {NoScripts} \cup FixtureSets] :
        LET fixed == s.terms.lifetime = Min(Lifetimes)
                        /\ s.mandate["seller"].reservation = Min(Reservations)
        IN  \/ /\ \A p \in Roles : s.policy[p] = "deterministic"
               /\ s.script = NoScripts
            \/ /\ \E p \in Roles : s.policy[p] = "model"
               /\ "fixture" \notin {s.policy[p] : p \in Roles}
               /\ s.script = NoScripts /\ s.terms.maxOffers = 2 /\ fixed
            \/ /\ \A p \in Roles : s.policy[p] = "fixture"
               /\ s.script # NoScripts /\ s.terms.maxOffers = 4 /\ fixed}

(* The parser's refusals, one of each rule.                                *)
Decision(d) == [object |-> [decision |-> [object |-> d]]]
MCMalformed ==
    {[string |-> "I would rather not"],
     [object |-> [reply |-> [string |-> "hello"]]],
     [object |-> [explanation |-> [string |-> "none"]]],
     [object |-> [decision |-> [object |-> [action |-> [string |-> "accept"]]],
                  explanation |-> [long |-> 281]]],
     [object |-> [decision |-> [string |-> "accept"]]],
     Decision([action |-> [string |-> "counter"]]),
     Decision([action |-> [string |-> "accept"], price |-> [amount |-> 1]]),
     Decision([action |-> [string |-> "offer"]]),
     Decision([action |-> [string |-> "offer"],
               quote_amount_minor |-> [number |-> 2]]),
     Decision([action |-> [string |-> "accept"],
               offer_hash |-> [string |-> "0x"]]),
     Decision([action |-> [string |-> "walk_away"],
               reason |-> [string |-> "bored"]])}
=============================================================================
