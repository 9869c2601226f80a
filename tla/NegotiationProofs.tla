-------------------------- MODULE NegotiationProofs --------------------------
(***************************************************************************)
(* Proofs about modules Budget, Negotiation and Metrics: for every number  *)
(* of offers, lifetime, mandate, holding, price list and script, whatever  *)
(* a model answers.                                                        *)
(*                                                                         *)
(* The guard's books come first: what was billed is below what was spent,  *)
(* and that with the call in flight below the ceiling.                     *)
(*                                                                         *)
(* Then the negotiation.  ChainInv: the log is the recorded offers, in     *)
(* turns, each within its party's mandate and, for a baseline, on its      *)
(* schedule, and the storage carries the newest.  EndingInv: what the one  *)
(* last entry and the balances are.  TurnInv: an open turn has an          *)
(* observation built from the offers as they still are, and what is signed *)
(* is within the mandate under it.  BooksInv: the decision records count   *)
(* what the guard counted.  The properties, and the figures of the metrics,*)
(* follow from the four together.                                          *)
(***************************************************************************)
EXTENDS Metrics, SequenceTheorems, FiniteSetTheorems, TLAPS

-----------------------------------------------------------------------------
(* The budget *)

BudgetInv ==
    /\ BudgetTypeOK
    /\ \A g \in Guards :
        /\ calls[g] <= CallCeiling
        /\ billed[g] <= spent[g]
        /\ spent[g] + Outstanding(g) <= SpendCeiling

(* A call in flight costs a natural number at most.                        *)
LEMMA OutstandingNat ==
    ASSUME BudgetTypeOK, NEW g \in Guards
    PROVE  Outstanding(g) \in Nat
<1>1. CASE charge[g] = Nothing
    BY <1>1 DEF Outstanding
<1>2. CASE charge[g] # Nothing
    <2>1. charge[g] \in Requests
        BY <1>2 DEF BudgetTypeOK
    <2> QED
        BY <1>2, <2>1, BudgetAssumption DEF Outstanding
<1> QED
    BY <1>1, <1>2

LEMMA BudgetInit_Inv == BudgetInit => BudgetInv
BY BudgetAssumption DEF BudgetInit, BudgetInv, BudgetTypeOK, Outstanding

(* What another guard does leaves this one's books alone.                  *)
LEMMA OtherGuard ==
    ASSUME BudgetInv, NEW g \in Guards,
           calls'[g] = calls[g], spent'[g] = spent[g],
           billed'[g] = billed[g], charge'[g] = charge[g]
    PROVE  /\ calls'[g] <= CallCeiling
           /\ billed'[g] <= spent'[g]
           /\ spent'[g] + Outstanding(g)' <= SpendCeiling
<1>1. Outstanding(g)' = Outstanding(g)
    BY DEF Outstanding
<1> QED
    BY <1>1 DEF BudgetInv

(* An admitted call fits in what is left, whatever it turns out to cost.   *)
LEMMA Admit_Inv ==
    ASSUME BudgetInv, NEW h \in Guards, NEW q \in Requests, Admit(h, q)
    PROVE  BudgetInv'
<1>1. BudgetTypeOK'
    BY BudgetAssumption DEF BudgetInv, BudgetTypeOK, Admit
<1>2. ASSUME NEW g \in Guards
      PROVE  /\ calls'[g] <= CallCeiling
             /\ billed'[g] <= spent'[g]
             /\ spent'[g] + Outstanding(g)' <= SpendCeiling
    <2>1. CASE g # h
        <3>1. /\ calls'[g] = calls[g] /\ spent'[g] = spent[g]
              /\ billed'[g] = billed[g] /\ charge'[g] = charge[g]
            BY <2>1 DEF BudgetInv, BudgetTypeOK, Admit
        <3> QED
            BY <3>1, OtherGuard
    <2>2. CASE g = h
        <3>1. charge'[g] = q /\ calls'[g] = calls[g] + 1
            BY <2>2 DEF BudgetInv, BudgetTypeOK, Admit
        <3>2. Outstanding(g)' = Bound[q]
            BY <3>1, BudgetAssumption DEF Outstanding
        <3>3. spent' = spent /\ billed' = billed
            BY DEF Admit
        <3> QED
            BY <2>2, <3>1, <3>2, <3>3 DEF BudgetInv, Admit, Admissible
    <2> QED
        BY <2>1, <2>2
<1> QED
    BY <1>1, <1>2 DEF BudgetInv

(* A settled call cost no more than was set aside for it.                  *)
LEMMA Settled_Inv ==
    ASSUME BudgetInv, NEW h \in Guards, NEW cost \in Nat,
           Settle(h, cost) \/ SettleLost(h, cost)
    PROVE  BudgetInv'
<1>1. charge[h] \in Requests
    BY DEF BudgetInv, BudgetTypeOK, Settle, SettleLost
<1>2. Bound[charge[h]] \in Nat /\ cost <= Bound[charge[h]]
    BY <1>1, BudgetAssumption, PricedAssumption DEF Settle, SettleLost
<1>3. PICK paid \in Nat :
          /\ cost <= paid /\ paid <= Bound[charge[h]]
          /\ spent' = [spent EXCEPT ![h] = @ + paid]
    BY <1>2 DEF Settle, SettleLost
<1>4. /\ billed' = [billed EXCEPT ![h] = @ + cost]
      /\ charge' = [charge EXCEPT ![h] = Nothing]
      /\ calls' = calls
    BY DEF Settle, SettleLost
<1>5. BudgetTypeOK'
    BY <1>3, <1>4 DEF BudgetInv, BudgetTypeOK
<1>6. ASSUME NEW g \in Guards
      PROVE  /\ calls'[g] <= CallCeiling
             /\ billed'[g] <= spent'[g]
             /\ spent'[g] + Outstanding(g)' <= SpendCeiling
    <2>1. CASE g # h
        <3>1. /\ calls'[g] = calls[g] /\ spent'[g] = spent[g]
              /\ billed'[g] = billed[g] /\ charge'[g] = charge[g]
            BY <2>1, <1>3, <1>4 DEF BudgetInv, BudgetTypeOK
        <3> QED
            BY <3>1, OtherGuard
    <2>2. CASE g = h
        <3>1. /\ spent[g] \in Nat /\ billed[g] \in Nat
              /\ spent'[g] = spent[g] + paid /\ billed'[g] = billed[g] + cost
            BY <2>2, <1>3, <1>4 DEF BudgetInv, BudgetTypeOK
        <3>2. Outstanding(g)' = 0
            BY <2>2, <1>4 DEF BudgetInv, BudgetTypeOK, Outstanding
        <3>3. spent[g] + Bound[charge[g]] <= SpendCeiling
            BY <2>2, <1>1, BudgetAssumption DEF BudgetInv, Outstanding
        <3>4. calls'[g] <= CallCeiling /\ billed[g] <= spent[g]
            BY <1>4 DEF BudgetInv
        <3> QED
            BY <2>2, <1>2, <1>3, <3>1, <3>2, <3>3, <3>4, BudgetAssumption
    <2> QED
        BY <2>1, <2>2
<1> QED
    BY <1>5, <1>6 DEF BudgetInv

LEMMA BudgetNext_Inv == BudgetInv /\ [BudgetNext]_budgetVars => BudgetInv'
<1> SUFFICES ASSUME BudgetInv, [BudgetNext]_budgetVars
             PROVE  BudgetInv'
    OBVIOUS
<1>1. CASE BudgetNext
    <2>1. PICK g \in Guards :
              \/ \E q \in Requests : Admit(g, q)
              \/ \E cost \in Nat : Settle(g, cost) \/ SettleLost(g, cost)
        BY <1>1 DEF BudgetNext
    <2> QED
        BY <2>1, Admit_Inv, Settled_Inv
<1>2. CASE UNCHANGED budgetVars
    BY <1>2 DEF budgetVars, BudgetInv, BudgetTypeOK, Outstanding
<1> QED
    BY <1>1, <1>2

(* What was billed, with the call in flight, is below the ceiling because  *)
(* it is below what the guard has spent and set aside.                     *)
LEMMA BudgetInv_Spend == BudgetInv => SpendWithinCeiling
<1> SUFFICES ASSUME BudgetInv, NEW g \in Guards
             PROVE  /\ billed[g] + Outstanding(g) <= SpendCeiling
                    /\ calls[g] <= CallCeiling
    BY DEF SpendWithinCeiling
<1>1. Outstanding(g) \in Nat
    BY OutstandingNat DEF BudgetInv
<1> QED
    BY <1>1, BudgetAssumption DEF BudgetInv, BudgetTypeOK

(* The books of the guard (budget/guard.py) keep their types.              *)
THEOREM BudgetTyped == BudgetSpec => []BudgetTypeOK
<1>1. BudgetInv => BudgetTypeOK
    BY DEF BudgetInv
<1> QED
    BY BudgetInit_Inv, BudgetNext_Inv, <1>1, PTL DEF BudgetSpec

(* Neither ceiling of any run is ever crossed: what the provider bills,    *)
(* answers it lost included, and what a call in flight may still cost stay *)
(* within the spend ceiling (guard.py admit and settle).                   *)
THEOREM BudgetKept == BudgetSpec => []SpendWithinCeiling
BY BudgetInit_Inv, BudgetNext_Inv, BudgetInv_Spend, PTL DEF BudgetSpec

-----------------------------------------------------------------------------
(* Sequences, counts and prices *)

(* What an append does to a sequence.                                      *)
LEMMA Appended ==
    ASSUME NEW S, NEW L \in Seq(S), NEW e \in S
    PROVE  /\ Append(L, e) \in Seq(S)
           /\ Len(L) \in Nat /\ DOMAIN L = 1..Len(L)
           /\ Len(Append(L, e)) = Len(L) + 1
           /\ DOMAIN Append(L, e) = 1..(Len(L) + 1)
           /\ Append(L, e)[Len(L) + 1] = e
           /\ \A i \in 1..Len(L) : Append(L, e)[i] = L[i]
OBVIOUS

(* A table by number is a sequence.                                        *)
LEMMA AsSeq ==
    ASSUME NEW S, NEW n \in Nat, NEW f \in [1..n -> S]
    PROVE  f \in Seq(S) /\ Len(f) = n /\ DOMAIN f = 1..n
OBVIOUS

(* The party of the i-th move: the buyer opens and the two take turns.     *)
Mover(i) == IF i % 2 = 1 THEN "buyer" ELSE "seller"

LEMMA Movers ==
    ASSUME NEW i \in Nat
    PROVE  /\ Mover(i) \in Roles
           /\ Mover(i + 1) = counterparty(Mover(i))
           /\ Mover(i + 1) # Mover(i)
           /\ {Mover(i), Mover(i + 1)} = Roles
BY DEF Mover, Roles, counterparty

(* Of the first n moves, half were by the party that moves next.           *)
LEMMA HalfOfThem ==
    ASSUME NEW n \in Nat
    PROVE  Cardinality({i \in 1..n : Mover(i) = Mover(n + 1)}) = n \div 2
<1> DEFINE T == {i \in 1..n : Mover(i) = Mover(n + 1)}
           h == n \div 2
           f == [k \in 1..h |-> 2 * k - 1 + (n % 2)]
<1>1. h \in Nat /\ n % 2 \in {0, 1} /\ n = 2 * h + (n % 2)
  <2>1. n \div 2 \in Nat /\ n % 2 \in Nat /\ n % 2 < 2
    OBVIOUS
  <2>2. n = 2 * (n \div 2) + (n % 2)
    OBVIOUS
  <2> QED
    BY <2>1, <2>2
<1>2. T = {i \in 1..n : i % 2 = (n + 1) % 2}
  <2>1. \A i \in 1..n : Mover(i) = Mover(n + 1) <=> i % 2 = (n + 1) % 2
    BY DEF Mover
  <2> QED
    BY <2>1
<1>3. \A k \in 1..h : f[k] \in T
  BY <1>1, <1>2
<1>4. \A j, k \in 1..h : f[j] = f[k] => j = k
  BY <1>1
<1>5. ASSUME NEW i \in T PROVE \E k \in 1..h : f[k] = i
  <2> DEFINE k == i \div 2 + (i % 2)
  <2>1. i \in 1..n /\ i % 2 = (n + 1) % 2
    BY <1>2, <1>5
  <2>2. i % 2 = 1 - (n % 2)
    BY <1>1, <2>1
  <2>3. i = 2 * (i \div 2) + (i % 2) /\ i \div 2 \in Nat
    BY <2>1
  <2>4. i = 2 * k - 1 + (n % 2) /\ k \in Int
    BY <1>1, <2>2, <2>3
  <2>5. k \in 1..h
    <3> HIDE DEF k, h
    <3> QED
      BY <1>1, <2>1, <2>4
  <2> QED
    BY <2>4, <2>5
<1>6. f \in Bijection(1..h, T)
  <2> HIDE DEF f, T
  <2>1. f \in [1..h -> T]
    <3>1. f = [k \in 1..h |-> f[k]]
      BY DEF f
    <3> QED
      BY <1>3, <3>1
  <2> QED
    BY <1>4, <1>5, <2>1 DEF Bijection, Injection, Surjection, IsInjective
<1>7. IsFiniteSet(1..h) /\ Cardinality(1..h) = h
  BY <1>1, FS_Interval
<1>8. ExistsBijection(1..h, T)
  BY <1>6 DEF ExistsBijection
<1>9. Cardinality(T) = Cardinality(1..h)
  <2> HIDE DEF T, h
  <2> QED
    BY <1>7, <1>8, FS_Bijection
<1> QED
  BY <1>7, <1>9

(* An own offer is left to whoever moves next exactly while the session    *)
(* records another one.                                                    *)
LEMMA Shares ==
    ASSUME NEW n \in Nat, NEW max \in Nat \ {0}
    PROVE  LET share == opportunities(Mover(n + 1), max)
           IN  /\ share \in Nat
               /\ (share > n \div 2) <=> (n < max)
               /\ n + 1 = max => share = n \div 2 + 1
BY DEF Mover, opportunities

(* The schedule stays within its party's bound wherever the bound is a     *)
(* price an offer can carry, and its last step is the bound.               *)
LEMMA Scheduled ==
    ASSUME NEW role \in Roles, NEW r \in Nat, NEW k \in Nat, NEW n \in Nat \ {0}
    PROVE  LET price == ConcessionPrice(role, r, k, n)
           IN  /\ price \in 1..UINT256_MAX
               /\ role = "buyer" /\ r >= 1 => price <= r
               /\ role = "seller" /\ r <= UINT256_MAX => price >= r
               /\ k = n - 1 => price = Smaller(Larger(r, 1), UINT256_MAX)
<1> DEFINE span == 5 * (n - 1)
           down == FloorDiv(r * (4 * (n - 1) + k), span)
           up   == CeilDiv(r * (6 * (n - 1) - k), span)
           price == IF n = 1 THEN r
                    ELSE IF role = "buyer" THEN Smaller(down, r) ELSE Larger(up, r)
<1>1. UINT256_MAX \in Nat \ {0}
  BY PartiesAssumption
<1>2. CASE n = 1
  BY <1>1, <1>2 DEF ConcessionPrice, Smaller, Larger
<1>3. CASE n # 1
  <2>1. span \in Nat \ {0}
    BY <1>3
  <2>2. r * (4 * (n - 1) + k) \in Int /\ r * (6 * (n - 1) - k) \in Int
    OBVIOUS
  <2>3. down \in Int /\ up \in Int
    <3> HIDE DEF span
    <3> QED
      BY <2>1, <2>2 DEF FloorDiv, CeilDiv
  <2>4. k = n - 1 => down = r /\ up = r
    <3> SUFFICES ASSUME k = n - 1 PROVE down = r /\ up = r
      OBVIOUS
    <3>1. 4 * (n - 1) + k = span /\ 6 * (n - 1) - k = span
      OBVIOUS
    <3> HIDE DEF span
    <3>2. (r * span) \div span = r /\ (r * span + span - 1) \div span = r
      BY <2>1
    <3> QED
      BY <3>1, <3>2 DEF FloorDiv, CeilDiv
  <2>5. ConcessionPrice(role, r, k, n) = Smaller(Larger(price, 1), UINT256_MAX)
    BY DEF ConcessionPrice
  <2> HIDE DEF down, up
  <2> QED
    BY <1>1, <1>3, <2>3, <2>4, <2>5 DEF Smaller, Larger, Roles
<1> QED
  BY <1>2, <1>3

-----------------------------------------------------------------------------
(* What the parser and the validator let through *)

LEMMA Least ==
    ASSUME NEW S, S \subseteq Nat, S # {}
    PROVE  Min(S) \in S
<1> DEFINE Below == OpToRel(<, Nat)
<1>1. IsWellFoundedOn(Below, Nat)
  BY NatLessThanWellFounded
<1>2. \A y, x \in Nat : ~(<<y, x>> \in Below) => x <= y
  BY DEF OpToRel
<1> HIDE DEF Below
<1>3. PICK x \in S : \A y \in S : ~(<<y, x>> \in Below)
  BY <1>1, WFMin
<1>4. \A y \in S : x <= y
  BY <1>2, <1>3
<1> QED
  BY <1>4 DEF Min

(* No code of the list applies, or the code given is one of the list.      *)
LEMMA FirstOf ==
    ASSUME NEW n \in Nat, NEW codes, NEW applies, DOMAIN codes = 1..n,
           \A i \in 1..n : codes[i] # NoCode
    PROVE  FirstCode(codes, applies) = NoCode <=> \A i \in 1..n : ~ applies[codes[i]]
<1> DEFINE hits == {i \in 1..n : applies[codes[i]]}
<1>1. FirstCode(codes, applies) = IF hits = {} THEN NoCode ELSE codes[Min(hits)]
  BY DEF FirstCode
<1>2. CASE hits = {}
  BY <1>1, <1>2
<1>3. CASE hits # {}
  <2>1. hits \subseteq Nat
    OBVIOUS
  <2>2. Min(hits) \in hits
    <3> HIDE DEF hits
    <3> QED
      BY <1>3, <2>1, Least
  <2> QED
    BY <1>1, <1>3, <2>2
<1> QED
  BY <1>2, <1>3

LEMMA OfferAllowed ==
    ASSUME NEW o, NEW price
    PROVE  OfferCode(o, price) = NoCode <=>
               /\ NextProposer(o) = o.role
               /\ ~ (o.remaining = 0 \/ Len(o.history) >= o.terms.maxOffers)
               /\ ~ OutsideReservation(o, price)
               /\ ~ Unaffordable(o, price)
               /\ ~ BelowFloor(o, price)
<1> DEFINE codes == <<"not_your_turn", "offer_limit_reached", "outside_reservation",
                      "insufficient_balance", "inventory_floor">>
           applies == [not_your_turn |-> NextProposer(o) # o.role,
                       offer_limit_reached |->
                          o.remaining = 0 \/ Len(o.history) >= o.terms.maxOffers,
                       outside_reservation |-> OutsideReservation(o, price),
                       insufficient_balance |-> Unaffordable(o, price),
                       inventory_floor |-> BelowFloor(o, price)]
<1>1. DOMAIN codes = 1..5 /\ \A i \in 1..5 : codes[i] # NoCode
  BY DEF NoCode
<1>2. (\A i \in 1..5 : ~ applies[codes[i]]) <=>
          /\ ~ applies.not_your_turn /\ ~ applies.offer_limit_reached
          /\ ~ applies.outside_reservation /\ ~ applies.insufficient_balance
          /\ ~ applies.inventory_floor
  <2> HIDE DEF applies
  <2> QED
    OBVIOUS
<1>3. OfferCode(o, price) = FirstCode(codes, applies)
  BY DEF OfferCode
<1>4. FirstCode(codes, applies) = NoCode <=> \A i \in 1..5 : ~ applies[codes[i]]
  <2> HIDE DEF codes, applies
  <2> QED
    BY <1>1, FirstOf
<1> HIDE DEF codes
<1> QED
  BY <1>2, <1>3, <1>4

LEMMA AcceptAllowed ==
    ASSUME NEW o, NEW digest
    PROVE  AcceptCode(o, digest) = NoCode <=>
               /\ o.active # NoOffer
               /\ o.active.proposer # o.role
               /\ digest = o.active.digest
               /\ ~ (o.now >= o.active.validUntil)
               /\ ~ OutsideReservation(o, o.active.quote)
               /\ ~ Unaffordable(o, o.active.quote)
               /\ ~ BelowFloor(o, o.active.quote)
<1> DEFINE codes == <<"self_acceptance", "stale_offer_hash", "offer_expired",
                      "outside_reservation", "insufficient_balance",
                      "inventory_floor">>
           applies == [self_acceptance |-> o.active.proposer = o.role,
                       stale_offer_hash |-> digest # o.active.digest,
                       offer_expired |-> o.now >= o.active.validUntil,
                       outside_reservation |-> OutsideReservation(o, o.active.quote),
                       insufficient_balance |-> Unaffordable(o, o.active.quote),
                       inventory_floor |-> BelowFloor(o, o.active.quote)]
<1>1. DOMAIN codes = 1..6 /\ \A i \in 1..6 : codes[i] # NoCode
  BY DEF NoCode
<1>2. (\A i \in 1..6 : ~ applies[codes[i]]) <=>
          /\ ~ applies.self_acceptance /\ ~ applies.stale_offer_hash
          /\ ~ applies.offer_expired /\ ~ applies.outside_reservation
          /\ ~ applies.insufficient_balance /\ ~ applies.inventory_floor
  <2> HIDE DEF applies
  <2> QED
    OBVIOUS
<1>3. AcceptCode(o, digest) = IF o.active = NoOffer THEN "no_active_offer"
                              ELSE FirstCode(codes, applies)
  BY DEF AcceptCode
<1>4. FirstCode(codes, applies) = NoCode <=> \A i \in 1..6 : ~ applies[codes[i]]
  <2> HIDE DEF codes, applies
  <2> QED
    BY <1>1, FirstOf
<1> HIDE DEF codes
<1> QED
  BY <1>2, <1>3, <1>4 DEF NoCode

(* A decision the parser reads is one of three, with a value it checked.   *)
Read(p) ==
    \/ \E x : p = Proposed("offer", x) /\ ~ (x > UINT256_MAX) /\ x # 0
    \/ \E d : p = Proposed("accept", d)
    \/ \E x \in Reasons : p = Proposed("walk_away", x)

LEMMA Parsed ==
    ASSUME NEW r
    PROVE  (\E x : ParseDecision(r) = Refused(x)) \/ Read(ParseDecision(r))
<1>1. \A v : (\E x : ReadAmount(v) = Refused(x)) \/ Read(ReadAmount(v))
  BY DEF ReadAmount, Read
<1>2. \A v : (\E x : ReadHash(v) = Refused(x)) \/ Read(ReadHash(v))
  BY DEF ReadHash, Read
<1>3. \A v : (\E x : ReadReason(v) = Refused(x)) \/ Read(ReadReason(v))
  BY DEF ReadReason, Read
<1>4. \A a, v : (\E x : ReadField(a, v) = Refused(x)) \/ Read(ReadField(a, v))
  BY <1>1, <1>2, <1>3 DEF ReadField
<1>5. \A d : (\E x : ParseShape(d) = Refused(x)) \/ Read(ParseShape(d))
  BY <1>4 DEF ParseShape
<1> QED
  BY <1>5 DEF ParseDecision

LEMMA RefusedOrNot ==
    /\ \A x : Is("refused", Refused(x)) /\ ~ Is("action", Refused(x))
    /\ \A a, x : Is("action", Proposed(a, x)) /\ ~ Is("refused", Proposed(a, x))
    /\ \A a, x : Proposed(a, x).action = a /\ Proposed(a, x).value = x
    /\ \A x : Refused(x).refused = x
BY DEF Is, Refused, Proposed

(* A decision the validator accepts is the one it was given, and no rule   *)
(* of its kind refuses it.                                                 *)
LEMMA Validated ==
    ASSUME NEW r, NEW o, Accepted(Validate(r, o))
    PROVE  LET v == Validate(r, o)
           IN  /\ v = ParseDecision(r)
               /\ v.action \in {"offer", "accept", "walk_away"}
               /\ v.action = "offer" =>
                     /\ ~ (v.value > UINT256_MAX) /\ v.value # 0
                     /\ OfferCode(o, v.value) = NoCode
               /\ v.action = "accept" => AcceptCode(o, v.value) = NoCode
               /\ v.action = "walk_away" => v.value \in Reasons
<1> DEFINE p == ParseDecision(r)
           v == Validate(r, o)
<1>1. ~ Is("refused", p)
  <2>1. CASE Is("refused", p)
    <3>1. v = p
      BY <2>1 DEF Validate
    <3>2. Is("action", p)
      BY <3>1 DEF Accepted
    <3>3. (\E x : p = Refused(x)) \/ Read(p)
      BY Parsed
    <3> HIDE DEF p
    <3> QED
      BY <2>1, <3>2, <3>3, RefusedOrNot DEF Read
  <2> QED
    BY <2>1
<1>2. Read(p)
  BY <1>1, Parsed, RefusedOrNot
<1>3. CASE p.action = "offer"
  <2>1. v = IF OfferCode(o, p.value) = NoCode THEN p ELSE Refused(OfferCode(o, p.value))
    BY <1>1, <1>3 DEF Validate
  <2>2. OfferCode(o, p.value) = NoCode /\ v = p
    BY <2>1, RefusedOrNot DEF Accepted
  <2> HIDE DEF p, v
  <2> QED
    BY <1>2, <1>3, <2>2, RefusedOrNot DEF Read, p, v
<1>4. CASE p.action = "accept"
  <2>1. v = IF AcceptCode(o, p.value) = NoCode THEN p ELSE Refused(AcceptCode(o, p.value))
    BY <1>1, <1>4 DEF Validate
  <2>2. AcceptCode(o, p.value) = NoCode /\ v = p
    BY <2>1, RefusedOrNot DEF Accepted
  <2> QED
    BY <1>4, <2>2
<1>5. CASE p.action \notin {"offer", "accept"}
  <2>1. v = p
    BY <1>1, <1>5 DEF Validate
  <2>2. p.action = "walk_away" /\ p.value \in Reasons
    <3> HIDE DEF p
    <3> QED
      BY <1>2, <1>5, RefusedOrNot DEF Read
  <2> QED
    BY <2>1, <2>2
<1> QED
  BY <1>3, <1>4, <1>5

-----------------------------------------------------------------------------
(* The observation built from a trail of offers *)

(* The offers of a session in order: numbered, and by the two in turns.    *)
Trail(offers) ==
    /\ offers \in Seq(Offer)
    /\ \A i \in 1..Len(offers) :
          offers[i].sequence = i /\ offers[i].proposer = Mover(i)

(* What the builder is given besides.                                      *)
Given(terms, t, holdings, mandate, previously) ==
    /\ terms \in Session /\ t \in Nat
    /\ holdings \in [Parties -> Holdings]
    /\ mandate \in [Parties -> Mandate]
    /\ previously \in [Parties -> Seq(Results)]

(* What is left of the share of the party that moves next.                 *)
Left(n, max) ==
    LET share == opportunities(Mover(n + 1), max)
    IN  IF share > n \div 2 THEN share - n \div 2 ELSE 0

LEMMA Trailed ==
    ASSUME NEW offers, Trail(offers)
    PROVE  /\ Len(offers) \in Nat /\ DOMAIN offers = 1..Len(offers)
           /\ offers = << >> <=> Len(offers) = 0
           /\ \A i \in 1..Len(offers) :
                 /\ offers[i] \in Offer /\ offers[i].sequence = i
                 /\ offers[i].proposer = Mover(i)
                 /\ offers[i].quote \in Nat /\ offers[i].validUntil \in Nat
<1>1. offers \in Seq(Offer)
  BY DEF Trail
<1>2. /\ Len(offers) \in Nat /\ DOMAIN offers = 1..Len(offers)
      /\ offers = << >> <=> Len(offers) = 0
  BY <1>1, LenProperties, EmptySeq
<1>3. \A i \in 1..Len(offers) : offers[i] \in Offer
  BY <1>1, ElementOfSeq
<1>4. \A i \in 1..Len(offers) : offers[i].quote \in Nat /\ offers[i].validUntil \in Nat
  BY <1>3 DEF Offer
<1> QED
  BY <1>2, <1>3, <1>4 DEF Trail

LEMMA Lefts ==
    ASSUME NEW n \in Nat, NEW max \in Nat \ {0}
    PROVE  Left(n, max) \in Nat /\ ((Left(n, max) > 0) <=> (n < max))
<1>1. n \div 2 \in Nat
  OBVIOUS
<1>2. /\ opportunities(Mover(n + 1), max) \in Nat
      /\ (opportunities(Mover(n + 1), max) > n \div 2) <=> (n < max)
  BY Shares
<1> DEFINE share == opportunities(Mover(n + 1), max)
           half == n \div 2
<1>3. Left(n, max) = IF share > half THEN share - half ELSE 0
  BY DEF Left
<1>4. share \in Nat /\ half \in Nat /\ ((share > half) <=> (n < max))
  BY <1>1, <1>2
<1> HIDE DEF share, half
<1> QED
  BY <1>3, <1>4

LEMMA Built ==
    ASSUME NEW offers, NEW terms, NEW t, NEW holdings, NEW mandate, NEW previously,
           Trail(offers), Given(terms, t, holdings, mandate, previously)
    PROVE  LET n == Len(offers)
               role == Mover(n + 1)
           IN  Build(terms, offers, t, holdings, mandate, previously) =
                 [role |-> role, terms |-> terms, now |-> t,
                  expectedSequence |-> n + 1, remaining |-> Left(n, terms.maxOffers),
                  active |-> ActiveOffer(offers, t), history |-> History(offers, t),
                  holdings |-> holdings[role], previous |-> previously[role],
                  mandate |-> mandate[role]]
<1> DEFINE n == Len(offers)
           role == Mover(n + 1)
<1>1. /\ n \in Nat /\ DOMAIN offers = 1..n /\ (offers = << >> <=> n = 0)
      /\ \A i \in 1..n : offers[i].sequence = i /\ offers[i].proposer = Mover(i)
  BY Trailed
<1>2. role \in Roles /\ (n > 0 => role = counterparty(Mover(n)))
  BY <1>1, Movers
<1>3. NextParty(offers) = role
  BY <1>1, <1>2 DEF NextParty, Mover
<1>4. ExpectedSequence(offers) = n + 1
  BY <1>1 DEF ExpectedSequence
<1>5. OwnOffers(role, offers) = n \div 2
  <2>1. {i \in DOMAIN offers : offers[i].proposer = role}
          = {i \in 1..n : Mover(i) = Mover(n + 1)}
    BY <1>1
  <2> QED
    BY <1>1, <2>1, HalfOfThem DEF OwnOffers
<1>6. OwnBalances(role, holdings) = holdings[role]
  <2>1. holdings[role] \in [base : Nat, quote : Nat]
    BY <1>2 DEF Given, Parties, Holdings
  <2> QED
    BY <2>1 DEF OwnBalances
<1>7. Build(terms, offers, t, holdings, mandate, previously) =
         [role |-> role, terms |-> terms, now |-> t,
          expectedSequence |-> n + 1,
          remaining |-> IF opportunities(role, terms.maxOffers) > n \div 2
                        THEN opportunities(role, terms.maxOffers) - n \div 2 ELSE 0,
          active |-> ActiveOffer(offers, t), history |-> History(offers, t),
          holdings |-> holdings[role], previous |-> previously[role],
          mandate |-> mandate[role]]
  <2> HIDE DEF role, n
  <2> QED
    BY <1>3, <1>4, <1>5, <1>6 DEF Build
<1> QED
  BY <1>7 DEF Left

(* The active offer is the newest one, while it stands.                    *)
LEMMA ActiveIs ==
    ASSUME NEW offers, NEW t, Trail(offers), t \in Nat
    PROVE  LET n == Len(offers)
               stands == n > 0 /\ offers[n].validUntil > t
           IN  /\ ~ stands => ActiveOffer(offers, t) = NoOffer
               /\ stands => /\ ActiveOffer(offers, t) =
                                 [digest |-> offers[n], proposer |-> Mover(n),
                                  quote |-> offers[n].quote,
                                  validUntil |-> offers[n].validUntil,
                                  sequence |-> n]
                            /\ ActiveOffer(offers, t) \in StandingOffer
                            /\ ActiveOffer(offers, t) # NoOffer
<1> DEFINE n == Len(offers)
<1>1. /\ n \in Nat
      /\ n > 0 => /\ offers[n] \in Offer /\ offers[n].sequence = n
                  /\ offers[n].proposer = Mover(n)
                  /\ offers[n].quote \in Nat /\ offers[n].validUntil \in Nat
  BY Trailed
<1>2. CASE ~ (n > 0 /\ offers[n].validUntil > t)
  BY <1>2 DEF ActiveOffer, Standing
<1>3. CASE n > 0 /\ offers[n].validUntil > t
  <2>1. ActiveOffer(offers, t) =
          [digest |-> offers[n], proposer |-> Mover(n), quote |-> offers[n].quote,
           validUntil |-> offers[n].validUntil, sequence |-> n]
    BY <1>1, <1>3 DEF ActiveOffer, Standing
  <2>2. Mover(n) \in Roles
    BY <1>1, Movers
  <2>3. ActiveOffer(offers, t) \in StandingOffer
    BY <1>1, <1>3, <2>1, <2>2 DEF StandingOffer
  <2> QED
    BY <1>3, <2>1, <2>3, PartiesAssumption
<1> QED
  BY <1>2, <1>3

LEMMA HistoryIs ==
    ASSUME NEW offers, NEW t, Trail(offers), t \in Nat
    PROVE  LET n == Len(offers)
               h == History(offers, t)
           IN  /\ h \in Seq(Entry) /\ Len(h) = n /\ DOMAIN h = 1..n
               /\ \A i \in 1..n :
                     /\ h[i].sequence = i /\ h[i].actor = Mover(i)
                     /\ h[i].kind = "offer" /\ h[i].quote = offers[i].quote
                     /\ h[i].validUntil = offers[i].validUntil
                     /\ h[i].digest = offers[i]
                     /\ h[i].status = IF i # n THEN "replaced"
                                      ELSE IF offers[n].validUntil > t THEN "active"
                                      ELSE "expired"
<1> DEFINE n == Len(offers)
           h == History(offers, t)
           entry(i) == [sequence |-> offers[i].sequence, actor |-> offers[i].proposer,
                        kind |-> "offer", quote |-> offers[i].quote,
                        validUntil |-> offers[i].validUntil, digest |-> offers[i],
                        status |-> IF i # Len(offers) THEN "replaced"
                                   ELSE IF Standing(offers, t) THEN "active"
                                   ELSE "expired"]
<1>1. /\ n \in Nat
      /\ \A i \in 1..n : /\ offers[i] \in Offer /\ offers[i].sequence = i
                         /\ offers[i].proposer = Mover(i)
                         /\ offers[i].quote \in Nat /\ offers[i].validUntil \in Nat
  BY Trailed
<1>2. h = [i \in 1..n |-> entry(i)]
  BY DEF History
<1>3. \A i \in 1..n : entry(i) \in Entry
  <2> SUFFICES ASSUME NEW i \in 1..n PROVE entry(i) \in Entry
    OBVIOUS
  <2>1. Mover(i) \in Roles
    BY <1>1, Movers
  <2> QED
    BY <1>1, <2>1 DEF Entry
<1>4. h \in Seq(Entry) /\ Len(h) = n /\ DOMAIN h = 1..n
  <2> HIDE DEF entry, h
  <2>1. h \in [1..n -> Entry]
    BY <1>2, <1>3
  <2> QED
    BY <1>1, <2>1, AsSeq
<1>5. \A i \in 1..n : h[i] = entry(i)
  BY <1>2
<1>6. n > 0 => (Standing(offers, t) <=> offers[n].validUntil > t)
  BY DEF Standing
<1>7. \A i \in 1..n :
         /\ h[i].sequence = i /\ h[i].actor = Mover(i)
         /\ h[i].kind = "offer" /\ h[i].quote = offers[i].quote
         /\ h[i].validUntil = offers[i].validUntil /\ h[i].digest = offers[i]
         /\ h[i].status = IF i # n THEN "replaced"
                          ELSE IF Standing(offers, t) THEN "active" ELSE "expired"
  <2> SUFFICES ASSUME NEW i \in 1..n
               PROVE  /\ entry(i).sequence = i /\ entry(i).actor = Mover(i)
                      /\ entry(i).kind = "offer" /\ entry(i).quote = offers[i].quote
                      /\ entry(i).validUntil = offers[i].validUntil
                      /\ entry(i).digest = offers[i]
                      /\ entry(i).status =
                            IF i # n THEN "replaced"
                            ELSE IF Standing(offers, t) THEN "active" ELSE "expired"
    <3> HIDE DEF h, entry
    <3> QED
      BY <1>5
  <2> QED
    BY <1>1
<1>8. \A i \in 1..n : i = n => (Standing(offers, t) <=> offers[n].validUntil > t)
  BY <1>1, <1>6
<1>9. ASSUME NEW i \in 1..n
      PROVE  h[i].status = IF i # n THEN "replaced"
                           ELSE IF offers[n].validUntil > t THEN "active" ELSE "expired"
  <2> HIDE DEF h
  <2> QED
    BY <1>7, <1>8
<1>10. \A i \in 1..n :
         /\ h[i].sequence = i /\ h[i].actor = Mover(i)
         /\ h[i].kind = "offer" /\ h[i].quote = offers[i].quote
         /\ h[i].validUntil = offers[i].validUntil /\ h[i].digest = offers[i]
         /\ h[i].status = IF i # n THEN "replaced"
                          ELSE IF offers[n].validUntil > t THEN "active" ELSE "expired"
  <2> HIDE DEF h, n
  <2> QED
    BY <1>7, <1>9, Zenon
<1> QED
  BY <1>4, <1>10, Zenon

(* What the builder says of a trail no longer than the session allows, the *)
(* agent finds consistent.                                                 *)
LEMMA Consistent ==
    ASSUME NEW offers, NEW terms, NEW t, NEW holdings, NEW mandate, NEW previously,
           Trail(offers), Given(terms, t, holdings, mandate, previously),
           Len(offers) <= terms.maxOffers
    PROVE  LET o == Build(terms, offers, t, holdings, mandate, previously)
           IN  /\ o \in Observation
               /\ Contradictions(o) = {}
               /\ (o.remaining > 0) <=> (Len(offers) < terms.maxOffers)
<1> DEFINE n == Len(offers)
           role == Mover(n + 1)
           max == terms.maxOffers
           h == History(offers, t)
           a == ActiveOffer(offers, t)
           o == [role |-> role, terms |-> terms, now |-> t,
                 expectedSequence |-> n + 1, remaining |-> Left(n, max),
                 active |-> a, history |-> h,
                 holdings |-> holdings[role], previous |-> previously[role],
                 mandate |-> mandate[role]]
<1>1. Build(terms, offers, t, holdings, mandate, previously) = o
  BY Built
<1>2. n \in Nat /\ max \in Nat \ {0} /\ t \in Nat /\ n <= max
  BY Trailed DEF Given, Session
<1>3. role \in Roles /\ role \in Parties
  BY <1>2, Movers DEF Parties
<1>4. Left(n, max) \in Nat /\ ((Left(n, max) > 0) <=> (n < max))
  BY <1>2, Lefts
<1>5. /\ h \in Seq(Entry) /\ Len(h) = n /\ DOMAIN h = 1..n
      /\ \A i \in 1..n :
            /\ h[i].sequence = i /\ h[i].actor = Mover(i)
            /\ h[i].kind = "offer" /\ h[i].quote = offers[i].quote
            /\ h[i].validUntil = offers[i].validUntil
            /\ h[i].digest = offers[i]
            /\ h[i].status = IF i # n THEN "replaced"
                             ELSE IF offers[n].validUntil > t THEN "active"
                             ELSE "expired"
  BY <1>2, HistoryIs
<1> DEFINE stands == n > 0 /\ offers[n].validUntil > t
<1>6. /\ ~ stands => a = NoOffer
      /\ stands => /\ a = [digest |-> offers[n], proposer |-> Mover(n),
                           quote |-> offers[n].quote,
                           validUntil |-> offers[n].validUntil, sequence |-> n]
                   /\ a \in StandingOffer /\ a # NoOffer
  BY <1>2, ActiveIs
<1> HIDE DEF h, a
<1>7. /\ o.role = role /\ o.terms = terms /\ o.now = t /\ o.expectedSequence = n + 1
      /\ o.remaining = Left(n, max) /\ o.active = a /\ o.history = h
      /\ o.holdings = holdings[role] /\ o.previous = previously[role]
      /\ o.mandate = mandate[role]
  OBVIOUS
<1>8. o \in Observation
  <2>1. a \in StandingOffer \cup {NoOffer}
    BY <1>6
  <2>2. /\ holdings[role] \in Holdings /\ previously[role] \in Seq(Results)
        /\ mandate[role] \in Mandate /\ terms \in Session
    BY <1>3 DEF Given
  <2>3. n + 1 \in Nat \ {0}
    BY <1>2
  <2> HIDE DEF n, role, max, h, a
  <2> QED
    BY <1>2, <1>3, <1>4, <1>5, <2>1, <2>2, <2>3 DEF Observation
<1>9. \A i \in 1..n : EntryProblems(o, i) = {}
  <2> SUFFICES ASSUME NEW i \in 1..n PROVE EntryProblems(o, i) = {}
    OBVIOUS
  <2>1. h[i].digest = [sequence |-> h[i].sequence, proposer |-> h[i].actor,
                       quote |-> h[i].quote, validUntil |-> h[i].validUntil]
    <3>1. offers[i] \in Offer /\ offers[i].sequence = i /\ offers[i].proposer = Mover(i)
      BY Trailed
    <3>2. offers[i] = [sequence |-> offers[i].sequence, proposer |-> offers[i].proposer,
                       quote |-> offers[i].quote, validUntil |-> offers[i].validUntil]
      BY <3>1 DEF Offer
    <3>3. /\ h[i].digest = offers[i] /\ h[i].sequence = i /\ h[i].actor = Mover(i)
          /\ h[i].quote = offers[i].quote /\ h[i].validUntil = offers[i].validUntil
      BY <1>5
    <3> HIDE DEF n, role, o
    <3> QED
      BY <3>1, <3>2, <3>3
  <2>2. h[i].actor = IF i % 2 = 1 THEN "buyer" ELSE "seller"
    BY <1>5 DEF Mover
  <2>3. h[i].status = IF ~ (i = n) THEN "replaced"
                      ELSE IF h[i].validUntil > t THEN "active" ELSE "expired"
    <3> HIDE DEF n
    <3>1. CASE i = n
      BY <1>5, <3>1
    <3>2. CASE i # n
      BY SMTT(40), <1>5, <3>2
    <3> QED
      BY <3>1, <3>2
  <2>4. h[i].sequence = i /\ h[i].kind = "offer" /\ Len(h) = n
    BY <1>5
  <2> HIDE DEF h, n, o
  <2> QED
    BY <1>7, <2>1, <2>2, <2>3, <2>4 DEF EntryProblems
<1>10. ActiveOfferProblems(o) = {}
  <2>1. n > 0 => /\ h[n].digest = offers[n] /\ h[n].actor = Mover(n)
                 /\ h[n].quote = offers[n].quote /\ h[n].sequence = n
                 /\ h[n].validUntil = offers[n].validUntil
    <3>1. n > 0 => n \in 1..n
      BY SMTT(40), <1>2
    <3> HIDE DEF n
    <3> QED
      BY <1>5, <3>1
  <2> DEFINE standing == Len(o.history) > 0
                            /\ o.history[Len(o.history)].validUntil > o.now
             last == o.history[Len(o.history)]
  <2>2. standing <=> stands
    BY ZenonT(60), <1>5, <1>7, <2>1
  <2>3. stands => last = h[n]
    BY <1>5, <1>7
  <2>4. ActiveOfferProblems(o) =
          IF o.active = NoOffer THEN (IF standing THEN {"active_offer"} ELSE {})
          ELSE IF ~ standing THEN {"active_offer"}
          ELSE IF o.active = [digest |-> last.digest, proposer |-> last.actor,
                              quote |-> last.quote, validUntil |-> last.validUntil,
                              sequence |-> last.sequence]
          THEN {} ELSE {"active_offer"}
    BY DEF ActiveOfferProblems
  <2>5. CASE ~ stands
    <3> HIDE DEF stands, standing, o, a, last
    <3> QED
      BY <1>6, <1>7, <2>2, <2>4, <2>5
  <2>6. CASE stands
    <3>1. o.active = [digest |-> last.digest, proposer |-> last.actor,
                      quote |-> last.quote, validUntil |-> last.validUntil,
                      sequence |-> last.sequence]
      <4>1. n > 0
        BY <2>6
      <4> HIDE DEF stands, standing, o, a, last, n, h
      <4> QED
        BY <1>6, <1>7, <2>1, <2>3, <2>6, <4>1
    <3> HIDE DEF stands, standing, o, a, last
    <3> QED
      BY <1>6, <1>7, <2>2, <2>4, <2>6, <3>1
  <2> QED
    BY <2>5, <2>6
<1>11. OwnRecorded(o) = n \div 2
  <2>1. {i \in DOMAIN o.history : o.history[i].kind = "offer" /\ o.history[i].actor = o.role}
          = {i \in 1..n : Mover(i) = Mover(n + 1)}
    <3>1. o.history = h /\ o.role = Mover(n + 1) /\ DOMAIN h = 1..n
      BY <1>5, <1>7
    <3>2. \A i \in 1..n : h[i].kind = "offer" /\ h[i].actor = Mover(i)
      BY <1>5
    <3> HIDE DEF h, o, n
    <3> QED
      BY <3>1, <3>2
  <2>2. Cardinality({i \in 1..n : Mover(i) = Mover(n + 1)}) = n \div 2
    BY <1>2, HalfOfThem
  <2> HIDE DEF o, n
  <2> QED
    BY <2>1, <2>2 DEF OwnRecorded
<1>12. Contradictions(o) = {}
  <2>1. UNION {EntryProblems(o, i) : i \in DOMAIN o.history} = {}
    <3>1. DOMAIN o.history = 1..n
      <4> HIDE DEF o, n
      <4> QED
        BY <1>5, <1>7
    <3> HIDE DEF o, n
    <3> QED
      BY <1>9, <3>1
  <2>2. /\ ~ (Len(o.history) > o.terms.maxOffers)
        /\ o.expectedSequence = Len(o.history) + 1
    <3> HIDE DEF o, n
    <3> QED
      BY <1>2, <1>5, <1>7
  <2>4. o.remaining = IF opportunities(o.role, o.terms.maxOffers) > OwnRecorded(o)
                      THEN opportunities(o.role, o.terms.maxOffers) - OwnRecorded(o)
                      ELSE 0
    <3>1. Left(n, max) = IF opportunities(role, max) > n \div 2
                         THEN opportunities(role, max) - n \div 2 ELSE 0
      BY DEF Left
    <3> HIDE DEF o, n, role, max
    <3> QED
      BY <1>7, <1>11, <3>1 DEF max
  <2> HIDE DEF o
  <2> QED
    BY <1>10, <2>1, <2>2, <2>4 DEF Contradictions
<1>13. (o.remaining > 0) <=> (n < max)
  BY <1>4, <1>7
<1> HIDE DEF o
<1> QED
  BY <1>1, <1>8, <1>12, <1>13

-----------------------------------------------------------------------------
(* The inductive invariant *)

Events == log[SessionId]
Count == session[SessionId].offerCount

(* The recorded offers, read off the log by number.                        *)
Offers ==
    [i \in 1..Count |->
        [sequence |-> i, proposer |-> Mover(i), quote |-> Events[i].offer.quote,
         validUntil |-> Events[i].offer.validUntil]]

(* A price the mandate and the holdings of p allow.                        *)
Within(p, price) ==
    LET m == setting.mandate[p]
        h == setting.holdings[p]
    IN  /\ price \in 1..UINT256_MAX
        /\ p = "buyer" => price <= m.reservation /\ price + m.floor <= h.quote
        /\ p = "seller" => /\ m.reservation <= price
                           /\ setting.terms.base + m.floor <= h.base

(* The baseline's i-th move of the session is the one of its schedule.     *)
OnSchedule(i, price) ==
    LET p == Mover(i)
    IN  setting.policy[p] = "deterministic" =>
            price = ConcessionPrice(p, setting.mandate[p].reservation, (i - 1) \div 2,
                                    opportunities(p, setting.terms.maxOffers))

Recorded(i) ==
    LET e == Events[i]
    IN  /\ e.kind = "OfferRecorded" /\ e.sequence = i
        /\ e.actor = Address(Mover(i)) /\ e.offer \in Contract!Offer
      /\ e.offer = OfferMessage(Mover(i), i, e.offer.quote, e.offer.validUntil)
        /\ Within(Mover(i), e.offer.quote) /\ OnSchedule(i, e.offer.quote)

(* The contract's storage holds the newest offer as it was recorded.       *)
Carried ==
    LET st == session[SessionId]
        e  == Events[Count]
    IN  /\ st.activeOffer = e.offer /\ st.activeProposer = e.actor
        /\ st.activeQuote = e.offer.quote
        /\ st.activeValidUntil = e.offer.validUntil

(* The log is the offers, in turns and each within its party's mandate,    *)
(* and the entry that ends the session.                                    *)
ChainInv ==
    /\ setting \in Settings
    /\ Contract!TypeOK
    /\ session[SessionId].config = Config(setting)
    /\ Status # "None"
    /\ Count <= setting.terms.maxOffers
    /\ Len(Events) = IF Status = "Open" THEN Count ELSE Count + 1
    /\ \A i \in 1..Count : Recorded(i)
    /\ Status = "Open" => session[SessionId].sequence = Count
    /\ Status = "Open" /\ Count > 0 => Carried

Unspent ==
    /\ balance["quote"][Buyer] = setting.holdings["buyer"]["quote"]
    /\ balance["base"][Seller] = setting.holdings["seller"]["base"]
    /\ allowance["quote"][Buyer] = setting.holdings["buyer"]["quote"]
    /\ allowance["base"][Seller] = setting.holdings["seller"]["base"]

Spent(price) ==
    /\ balance["quote"][Buyer] = setting.holdings["buyer"]["quote"] - price
    /\ balance["base"][Seller] =
          setting.holdings["seller"]["base"] - setting.terms.base

(* A settlement is at a price within both mandates; two baselines that can *)
(* agree close only once the newest offer has run out.                     *)
EndingInv ==
    LET end == Events[Count + 1]
    IN  /\ Status # "Settled" => Unspent
        /\ Status = "Settled" =>
              /\ Count > 0 /\ end.kind = "SettlementCompleted"
              /\ end.actor = Address(Mover(Count + 1))
              /\ \A p \in Parties : Within(p, end.offer.quote)
              /\ Spent(end.offer.quote)
        /\ Status \notin {"Open", "Settled"} =>
              end.kind \in {"SessionClosed", "SessionExpired", "SessionAborted"}
        /\ Status = "Closed" /\ Agreeable(setting) =>
              Count > 0 /\ Events[Count].offer.validUntil <= end.at

(* An observation of this turn: built from the offers as they still are.   *)
Watched(o) ==
    \E t \in 0..now, previously \in [Parties -> Seq(Results)] :
        /\ t < setting.terms.expiresAt
        /\ o = Build(setting.terms, Offers, t, setting.holdings, setting.mandate,
                     previously)

(* What the agent signs keeps its mandate, and its schedule.               *)
Signs(m, o) ==
    /\ m.sequence = Count + 1 /\ m.actor = Mover(Count + 1)
    /\ CheckSigned(m, o)
    /\ \/ /\ m.kind = "offer" /\ m.validUntil \in Nat /\ Count < setting.terms.maxOffers
          /\ Within(m.actor, m.value) /\ OnSchedule(Count + 1, m.value)
       \/ /\ m.kind = "accept" /\ Count > 0
          /\ m.value = Offers[Count] /\ Within(m.actor, m.value.quote)
       \/ /\ m.kind = "walk_away" /\ m.value \in Reasons
          /\ Agreeable(setting) => Count > 0 /\ Offers[Count].validUntil <= now

Turn == [phase |-> turn.phase, observation |-> turn.observation,
         attempt |-> turn.attempt, message |-> turn.message]

TurnInv ==
    /\ turn = Turn
    /\ turn.phase \in {"idle", "deciding", "calling", "signed"}
    /\ previous \in [Parties -> Seq(Results)]
    /\ turn.phase # "idle" => cause = "none" /\ Watched(turn.observation)
    /\ turn.phase = "signed" => Signs(turn.message, turn.observation)
    /\ Status = "Settled" => turn.phase = "idle" /\ cause = "none"

(* The decision records hold every call that was charged once.             *)
BooksInv ==
    /\ BudgetInv
    /\ played \in [Parties -> Nat]
    /\ \A p \in Parties : played[p] <= Len(setting.script[p])
    /\ InCall("fixture") => played[Role] > 0
    /\ ledger = [calls |-> ledger.calls, estimated |-> ledger.estimated,
                 reported |-> ledger.reported]
    /\ ledger.calls \in Nat /\ ledger.estimated \in Nat
    /\ ledger.calls + (IF turn.phase = "calling" THEN 1 ELSE 0)
          = calls["buyer"] + calls["seller"]
    /\ ledger.reported \in {Nothing, billed["buyer"] + billed["seller"]}
    /\ billed["buyer"] + billed["seller"] <= ledger.estimated

NegotiationInv == ChainInv /\ EndingInv /\ TurnInv /\ BooksInv

-----------------------------------------------------------------------------
(* What the invariant says of the recorded offers *)

LEMMA SettingTyped ==
    ASSUME setting \in Settings
    PROVE  /\ setting.terms \in Session /\ setting.terms.lifetime > 0
           /\ setting.terms.base \in Nat /\ setting.terms.expiresAt \in Nat
           /\ setting.terms.maxOffers \in Nat \ {0} /\ setting.terms.lifetime \in Nat
           /\ setting.mandate \in [Parties -> Mandate]
           /\ setting.holdings \in [Parties -> Holdings]
           /\ setting.policy \in [Parties -> {"deterministic", "model", "fixture"}]
           /\ \A p \in Parties :
                 /\ Playable(setting.script[p])
                 /\ setting.mandate[p].reservation \in Nat
                 /\ setting.mandate[p].floor \in Nat
                 /\ setting.holdings[p].quote \in Nat
                 /\ setting.holdings[p].base \in Nat
BY SettingsAssumption DEF Session, Mandate, Holdings

(* The storage of the session and the entries of its log.                  *)
LEMMA Stored ==
    ASSUME Contract!TypeOK
    PROVE  LET st == session[SessionId]
           IN  /\ now \in Nat /\ st \in Contract!SessionState
               /\ session \in [{SessionId} -> Contract!SessionState]
               /\ log \in [{SessionId} -> Seq(Contract!Event)]
               /\ Status \in Contract!Statuses /\ Count \in Nat
               /\ st.sequence \in Nat /\ st.activeQuote \in Nat
               /\ Events \in Seq(Contract!Event)
               /\ Len(Events) \in Nat /\ DOMAIN Events = 1..Len(Events)
               /\ \A i \in 1..Len(Events) : Events[i] \in Contract!Event
               /\ balance \in [Contract!Tokens -> [{Buyer, Seller} -> Nat]]
               /\ allowance \in [Contract!Tokens -> [{Buyer, Seller} -> Nat]]
<1>1. /\ now \in Nat /\ session \in [{SessionId} -> Contract!SessionState]
      /\ log \in [{SessionId} -> Seq(Contract!Event)]
      /\ balance \in [Contract!Tokens -> [{Buyer, Seller} -> Nat]]
      /\ allowance \in [Contract!Tokens -> [{Buyer, Seller} -> Nat]]
  BY DEF Contract!TypeOK
<1>2. session[SessionId] \in Contract!SessionState /\ Events \in Seq(Contract!Event)
  BY <1>1 DEF Events
<1>3. /\ Status \in Contract!Statuses /\ Count \in Nat
      /\ session[SessionId].sequence \in Nat /\ session[SessionId].activeQuote \in Nat
  BY <1>2 DEF Status, Count, Contract!SessionState
<1>4. /\ Len(Events) \in Nat /\ DOMAIN Events = 1..Len(Events)
      /\ \A i \in 1..Len(Events) : Events[i] \in Contract!Event
  BY <1>2, LenProperties, ElementOfSeq
<1> QED
  BY <1>1, <1>2, <1>3, <1>4

(* A price within a mandate is a price, and so is that of a recorded offer.*)
LEMMA RecordedTyped ==
    ASSUME ChainInv, NEW i \in 1..Count
    PROVE  /\ i \in 1..Len(Events) /\ Recorded(i)
           /\ Events[i].offer.quote \in Nat
           /\ Events[i].offer.validUntil \in Nat
<1>1. Count \in Nat /\ Events[i] \in Contract!Event /\ i \in 1..Len(Events)
  BY Stored DEF ChainInv
<1>2. Recorded(i)
  BY DEF ChainInv
<1>3. Events[i].offer.quote \in Nat
  BY <1>2, PartiesAssumption DEF Recorded, Within
<1>4. Events[i].offer.validUntil \in Nat
  BY <1>2 DEF Recorded, Contract!Offer
<1> QED
  BY <1>1, <1>2, <1>3, <1>4

LEMMA OffersTrail ==
    ASSUME ChainInv
    PROVE  /\ Trail(Offers) /\ Len(Offers) = Count /\ Count \in Nat
           /\ Count <= setting.terms.maxOffers
           /\ \A i \in 1..Count :
                 /\ Offers[i] = [sequence |-> i, proposer |-> Mover(i),
                                 quote |-> Events[i].offer.quote,
                                 validUntil |-> Events[i].offer.validUntil]
                 /\ Within(Mover(i), Offers[i].quote) /\ OnSchedule(i, Offers[i].quote)
<1> DEFINE offer(i) == [sequence |-> i, proposer |-> Mover(i),
                        quote |-> Events[i].offer.quote,
                        validUntil |-> Events[i].offer.validUntil]
<1>1. Count \in Nat /\ Count <= setting.terms.maxOffers
  BY Stored DEF ChainInv
<1>2. ASSUME NEW i \in 1..Count
      PROVE  /\ offer(i) \in Offer
             /\ Within(Mover(i), offer(i).quote) /\ OnSchedule(i, offer(i).quote)
  <2>1. i \in Nat \ {0} /\ Mover(i) \in Roles
    BY <1>1, Movers
  <2>2. /\ Events[i].offer.quote \in Nat /\ Events[i].offer.validUntil \in Nat
        /\ Recorded(i)
    BY RecordedTyped
  <2>3. offer(i) \in Offer
    BY <2>1, <2>2 DEF Offer
  <2> QED
    BY <2>2, <2>3 DEF Recorded
<1>3. Offers = [i \in 1..Count |-> offer(i)]
  BY DEF Offers
<1>4. Offers \in Seq(Offer) /\ Len(Offers) = Count /\ \A i \in 1..Count : Offers[i] = offer(i)
  <2> HIDE DEF offer
  <2>1. Offers \in [1..Count -> Offer]
    BY <1>2, <1>3
  <2> QED
    BY <1>1, <1>3, <2>1, AsSeq
<1> QED
  BY <1>1, <1>2, <1>4 DEF Trail

LEMMA GivenNow ==
    ASSUME setting \in Settings, NEW t \in Nat, NEW previously \in [Parties -> Seq(Results)]
    PROVE  Given(setting.terms, t, setting.holdings, setting.mandate, previously)
BY SettingTyped DEF Given

(* The builder's sorted offers are the entries of the log in their order.  *)
LEMMA RecordedAreOffers ==
    ASSUME ChainInv, EndingInv
    PROVE  RecordedOffers = Offers
<1> DEFINE at == {k \in DOMAIN Events : Events[k].kind = "OfferRecorded"}
           Rank(k) == Cardinality({j \in at : Events[j].sequence <= Events[k].sequence})
           Sorted(i) == Events[CHOOSE k \in at : Rank(k) = i]
<1>1. Count \in Nat /\ DOMAIN Events = 1..Len(Events)
  BY Stored DEF ChainInv
<1>2. \A i \in 1..Count : i \in 1..Len(Events) /\ Recorded(i)
  BY RecordedTyped
<1>3. at = 1..Count
  <2>1. CASE Status = "Open"
    <3>1. Len(Events) = Count
      BY <2>1 DEF ChainInv
    <3> QED
      BY <1>1, <1>2, <3>1 DEF Recorded
  <2>2. CASE Status # "Open"
    <3>1. Len(Events) = Count + 1
      BY <2>2 DEF ChainInv
    <3>2. Events[Count + 1].kind # "OfferRecorded"
      BY <2>2 DEF EndingInv
    <3>3. \A k \in 1..(Count + 1) : k \in 1..Count \/ k = Count + 1
      BY <1>1
    <3> QED
      BY <1>1, <1>2, <3>1, <3>2, <3>3 DEF Recorded
  <2> QED
    BY <2>1, <2>2
<1>4. \A k \in 1..Count : Events[k].sequence = k
  BY <1>2 DEF Recorded
<1>5. ASSUME NEW k \in 1..Count PROVE Rank(k) = k
  <2>1. {j \in at : Events[j].sequence <= Events[k].sequence} = 1..k
    <3> HIDE DEF at
    <3> QED
      BY <1>1, <1>3, <1>4
  <2>2. Cardinality(1..k) = k
    BY <1>1, FS_Interval
  <2> QED
    BY <2>1, <2>2
<1>6. ASSUME NEW i \in 1..Count
      PROVE  Sorted(i) = Events[i]
  <2> HIDE DEF at, Rank
  <2>1. (CHOOSE k \in at : Rank(k) = i) = i
    BY <1>3, <1>5
  <2> QED
    BY <2>1
<1>7. Cardinality(at) = Count
  <2> HIDE DEF at
  <2> QED
    BY <1>1, <1>3, FS_Interval
<1>8. RecordedOffers =
        [i \in 1..Cardinality(at) |->
            [sequence |-> Sorted(i).sequence,
             proposer |-> IF Sorted(i).actor = Buyer THEN "buyer" ELSE "seller",
             quote |-> Sorted(i).offer.quote,
             validUntil |-> Sorted(i).offer.validUntil]]
  BY DEF RecordedOffers, Events
<1>9. \A i \in 1..Count :
         (IF Events[i].actor = Buyer THEN "buyer" ELSE "seller") = Mover(i)
  <2> SUFFICES ASSUME NEW i \in 1..Count
               PROVE  (IF Events[i].actor = Buyer THEN "buyer" ELSE "seller") = Mover(i)
    OBVIOUS
  <2>1. Events[i].actor = Address(Mover(i))
    BY <1>2 DEF Recorded
  <2> QED
    BY <2>1, PartiesAssumption DEF Address, Mover
<1> HIDE DEF at, Sorted
<1>10. RecordedOffers =
        [i \in 1..Count |->
            [sequence |-> i, proposer |-> Mover(i), quote |-> Events[i].offer.quote,
             validUntil |-> Events[i].offer.validUntil]]
  BY <1>4, <1>6, <1>7, <1>8, <1>9
<1> QED
  BY <1>10 DEF Offers

(* What the agent sees in a turn.                                          *)
LEMMA Seen ==
    ASSUME ChainInv, NEW o, Watched(o)
    PROVE  LET p == Mover(Count + 1)
           IN  /\ o \in Observation /\ Contradictions(o) = {}
               /\ o.role = p /\ p \in Parties /\ o.terms = setting.terms
               /\ o.now \in 0..now /\ o.now < setting.terms.expiresAt
               /\ o.expectedSequence = Count + 1
               /\ (o.remaining > 0) <=> (Count < setting.terms.maxOffers)
               /\ o.mandate = setting.mandate[p] /\ o.holdings = setting.holdings[p]
               /\ Len(o.history) = Count /\ DOMAIN o.history = 1..Count
               /\ \A i \in 1..Count :
                     o.history[i].kind = "offer" /\ o.history[i].actor = Mover(i)
               /\ LET stands == Count > 0 /\ Offers[Count].validUntil > o.now
                  IN  /\ ~ stands => o.active = NoOffer
                      /\ stands => /\ o.active # NoOffer
                                   /\ o.active.digest = Offers[Count]
                                   /\ o.active.proposer = Mover(Count)
                                   /\ o.active.quote = Offers[Count].quote
                                   /\ o.active.validUntil = Offers[Count].validUntil
<1>1. PICK t \in 0..now, previously \in [Parties -> Seq(Results)] :
          /\ t < setting.terms.expiresAt
          /\ o = Build(setting.terms, Offers, t, setting.holdings, setting.mandate,
                       previously)
  BY DEF Watched
<1>2. t \in Nat /\ now \in Nat
  BY Stored DEF ChainInv
<1>3. /\ Trail(Offers) /\ Len(Offers) = Count /\ Count \in Nat
      /\ Count <= setting.terms.maxOffers
  BY OffersTrail
<1>4. Given(setting.terms, t, setting.holdings, setting.mandate, previously)
  BY <1>2, GivenNow DEF ChainInv
<1>5. o \in Observation /\ Contradictions(o) = {}
      /\ ((o.remaining > 0) <=> (Count < setting.terms.maxOffers))
  BY <1>1, <1>3, <1>4, Consistent
<1> DEFINE p == Mover(Count + 1)
<1>6. o = [role |-> p, terms |-> setting.terms, now |-> t,
           expectedSequence |-> Count + 1,
           remaining |-> Left(Count, setting.terms.maxOffers),
           active |-> ActiveOffer(Offers, t), history |-> History(Offers, t),
           holdings |-> setting.holdings[p], previous |-> previously[p],
           mandate |-> setting.mandate[p]]
  BY <1>1, <1>3, <1>4, Built
<1>7. p \in Parties
  BY <1>3, Movers DEF Parties
<1>8. /\ o.role = p /\ o.terms = setting.terms /\ o.now = t
      /\ o.expectedSequence = Count + 1 /\ o.active = ActiveOffer(Offers, t)
      /\ o.history = History(Offers, t) /\ o.holdings = setting.holdings[p]
      /\ o.mandate = setting.mandate[p]
  BY <1>6
<1>9. /\ Len(o.history) = Count /\ DOMAIN o.history = 1..Count
      /\ \A i \in 1..Count :
            o.history[i].kind = "offer" /\ o.history[i].actor = Mover(i)
  BY <1>2, <1>3, <1>8, HistoryIs
<1> DEFINE stands == Count > 0 /\ Offers[Count].validUntil > t
<1>10. /\ ~ stands => o.active = NoOffer
       /\ stands => /\ o.active # NoOffer
                    /\ o.active = [digest |-> Offers[Count], proposer |-> Mover(Count),
                                   quote |-> Offers[Count].quote,
                                   validUntil |-> Offers[Count].validUntil,
                                   sequence |-> Count]
  BY <1>2, <1>3, <1>8, ActiveIs
<1>11. stands => /\ o.active.digest = Offers[Count]
                 /\ o.active.proposer = Mover(Count)
                 /\ o.active.quote = Offers[Count].quote
                 /\ o.active.validUntil = Offers[Count].validUntil
  BY <1>10
<1> HIDE DEF p
<1> QED
  BY <1>1, <1>5, <1>7, <1>8, <1>9, <1>10, <1>11 DEF p

-----------------------------------------------------------------------------
(* What an agent signs of what it sees *)

(* A price that neither outruns the reservation nor the floor is within    *)
(* the mandate.                                                            *)
LEMMA AllowedWithin ==
    ASSUME ChainInv, NEW o, Watched(o), NEW price \in 1..UINT256_MAX,
           ~ OutsideReservation(o, price), ~ BelowFloor(o, price)
    PROVE  Within(o.role, price)
<1> DEFINE p == o.role
<1>1. /\ p \in Parties /\ o.terms = setting.terms
      /\ o.mandate = setting.mandate[p] /\ o.holdings = setting.holdings[p]
  BY Seen
<1>2. /\ setting.mandate[p].reservation \in Nat /\ setting.mandate[p].floor \in Nat
      /\ setting.holdings[p].quote \in Nat /\ setting.holdings[p].base \in Nat
      /\ setting.terms.base \in Nat /\ price \in Nat
  BY <1>1, SettingTyped, PartiesAssumption DEF ChainInv
<1>3. CASE p = "buyer"
  BY <1>1, <1>2, <1>3 DEF OutsideReservation, BelowFloor, Held, Leg, Within
<1>4. CASE p = "seller"
  BY <1>1, <1>2, <1>4 DEF OutsideReservation, BelowFloor, Held, Leg, Within
<1> QED
  BY <1>1, <1>3, <1>4 DEF Parties, Roles

(* And the other way round, for whoever can bear it.                       *)
LEMMA WithinAllowed ==
    ASSUME ChainInv, NEW o, Watched(o), NEW price \in Nat, Within(o.role, price)
    PROVE  /\ ~ OutsideReservation(o, price) /\ ~ BelowFloor(o, price)
           /\ ~ Unaffordable(o, price)
<1> DEFINE p == o.role
<1>1. /\ p \in Parties /\ o.terms = setting.terms
      /\ o.mandate = setting.mandate[p] /\ o.holdings = setting.holdings[p]
  BY Seen
<1>2. /\ setting.mandate[p].reservation \in Nat /\ setting.mandate[p].floor \in Nat
      /\ setting.holdings[p].quote \in Nat /\ setting.holdings[p].base \in Nat
      /\ setting.terms.base \in Nat
  BY <1>1, SettingTyped DEF ChainInv
<1>3. CASE p = "buyer"
  BY <1>1, <1>2, <1>3
     DEF OutsideReservation, BelowFloor, Unaffordable, Held, Leg, Within
<1>4. CASE p = "seller"
  BY <1>1, <1>2, <1>4
     DEF OutsideReservation, BelowFloor, Unaffordable, Held, Leg, Within
<1> QED
  BY <1>1, <1>3, <1>4 DEF Parties, Roles

(* The message a validated decision becomes passes the backend's check and *)
(* keeps the signer's mandate, whoever answered.                           *)
LEMMA JudgedSigns ==
    ASSUME ChainInv, NEW o, Watched(o), NEW r, Legible(r), Accepted(Validate(r, o)),
           Validate(r, o).action = "offer" => OnSchedule(Count + 1, Validate(r, o).value),
           Validate(r, o).action = "walk_away" /\ Agreeable(setting) =>
               Count > 0 /\ Offers[Count].validUntil <= now
    PROVE  Signs(SignedMessage(Validate(r, o), o, setting.terms.lifetime), o)
<1> DEFINE v == Validate(r, o)
           m == SignedMessage(v, o, setting.terms.lifetime)
           until == Smaller(o.now + setting.terms.lifetime, o.terms.expiresAt)
<1>1. m = [kind |-> v.action, sequence |-> o.expectedSequence, actor |-> o.role,
           value |-> v.value, validUntil |-> until]
  BY DEF SignedMessage
<1>2. /\ m.kind = v.action /\ m.sequence = o.expectedSequence /\ m.actor = o.role
      /\ m.value = v.value /\ m.validUntil = until
  BY <1>1
<1>3. /\ o.role = Mover(Count + 1) /\ o.expectedSequence = Count + 1
      /\ o.terms = setting.terms /\ o.now \in 0..now
      /\ o.now < setting.terms.expiresAt
  BY Seen
<1>4. /\ now \in Nat /\ Count \in Nat
      /\ setting.terms.lifetime \in Nat /\ setting.terms.lifetime > 0
      /\ setting.terms.expiresAt \in Nat
  BY Stored, SettingTyped DEF ChainInv
<1>5. /\ v = ParseDecision(r)
      /\ v.action \in {"offer", "accept", "walk_away"}
      /\ v.action = "offer" => /\ ~ (v.value > UINT256_MAX) /\ v.value # 0
                               /\ OfferCode(o, v.value) = NoCode
      /\ v.action = "accept" => AcceptCode(o, v.value) = NoCode
      /\ v.action = "walk_away" => v.value \in Reasons
  BY Validated
<1>6. until \in Nat /\ o.now < until /\ until <= o.terms.expiresAt
  BY <1>3, <1>4 DEF Smaller
<1>7. v.action = "offer" => v.value \in Nat
  BY <1>5 DEF Legible, Accepted
<1> HIDE DEF v, m, until
<1>8. CASE v.action = "offer"
  <2>1. v.value \in 1..UINT256_MAX
    BY <1>5, <1>7, <1>8, PartiesAssumption
  <2>2. ~ OutsideReservation(o, v.value) /\ ~ BelowFloor(o, v.value)
    BY <1>5, <1>8, OfferAllowed
  <2>3. Within(o.role, v.value)
    BY <2>1, <2>2, AllowedWithin
  <2>4. OnSchedule(Count + 1, v.value)
    BY <1>8 DEF v
  <2>5. v.value > 0
    BY <2>1, PartiesAssumption
  <2>6. CheckSigned(m, o)
    BY <1>2, <1>6, <1>8, <2>5 DEF CheckSigned, TermsHold
  <2>7. Count < setting.terms.maxOffers
    <3>1. ~ (Len(o.history) >= o.terms.maxOffers) /\ Len(o.history) = Count
      BY <1>5, <1>8, OfferAllowed, Seen
    <3> QED
      BY <1>3, <1>4, <3>1, SettingTyped DEF ChainInv
  <2> QED
    BY <1>2, <1>3, <1>6, <1>8, <2>3, <2>4, <2>6, <2>7 DEF Signs, m, v
<1>9. CASE v.action = "accept"
  <2>1. /\ o.active # NoOffer /\ v.value = o.active.digest
        /\ ~ OutsideReservation(o, o.active.quote) /\ ~ BelowFloor(o, o.active.quote)
    BY <1>5, <1>9, AcceptAllowed
  <2>2. /\ Count > 0 /\ o.active.digest = Offers[Count]
        /\ o.active.quote = Offers[Count].quote
    BY <2>1, Seen
  <2>3. Offers[Count].quote \in 1..UINT256_MAX
    <3>1. Within(Mover(Count), Offers[Count].quote)
      BY <1>4, <2>2, OffersTrail
    <3> QED
      BY <3>1 DEF Within
  <2>4. Within(o.role, Offers[Count].quote)
    BY <2>1, <2>2, <2>3, AllowedWithin
  <2>5. CheckSigned(m, o)
    BY <1>2, <1>9, <2>1 DEF CheckSigned, TermsHold
  <2> QED
    BY <1>2, <1>3, <1>9, <2>1, <2>2, <2>4, <2>5 DEF Signs, m, v
<1>10. CASE v.action = "walk_away"
  <2>1. v.value \in Reasons
    BY <1>5, <1>10
  <2>2. CheckSigned(m, o)
    BY <1>2, <1>10, <2>1 DEF CheckSigned, TermsHold
  <2>3. Agreeable(setting) => Count > 0 /\ Offers[Count].validUntil <= now
    BY <1>10 DEF v
  <2> QED
    BY <1>2, <1>3, <1>10, <2>1, <2>2, <2>3 DEF Signs, m, v
<1> QED
  BY <1>5, <1>8, <1>9, <1>10

(* An answer of one of the three shapes is read by its one field.          *)
LEMMA AnswerRead ==
    ASSUME NEW action \in {"offer", "accept", "walk_away"}, NEW v
    PROVE  ParseDecision(Answer(action, ShapeField[action], v)) = ReadField(action, v)
<1> DEFINE field == ShapeField[action]
           d == [f \in {"action", field} |->
                    IF f = "action" THEN [string |-> action] ELSE v]
           e == [decision |-> [object |-> d]]
           a == Answer(action, field, v)
<1>1. action \in DOMAIN ShapeField /\ field # "action"
  BY DEF ShapeField
<1>2. a = [object |-> e]
  BY DEF Answer
<1> HIDE DEF field, a
<1>3. DOMAIN d = {"action", field} /\ d["action"] = [string |-> action] /\ d[field] = v
  BY <1>1
<1> HIDE DEF d
<1>4. DOMAIN e = {"decision"} /\ e.decision = [object |-> d]
  OBVIOUS
<1> HIDE DEF e
<1>5. Is("object", a) /\ a.object = e
  BY <1>2 DEF Is
<1>6. Is("object", e.decision) /\ e.decision.object = d
  BY <1>4 DEF Is
<1>7. ActionOf(d) = action
  BY <1>3 DEF ActionOf, Is
<1>8. ParseShape(d) = ReadField(action, v)
  <2>1. ShapeField[ActionOf(d)] = field
    BY <1>7 DEF field
  <2>2. DOMAIN d \ {"action", field} = {} /\ field \in DOMAIN d
    BY <1>3
  <2> QED
    BY <1>1, <1>3, <1>7, <2>1, <2>2 DEF ParseShape
<1>9. DOMAIN e \ {"decision", "explanation"} = {} /\ "decision" \in DOMAIN e
      /\ "explanation" \notin DOMAIN e
  BY <1>4
<1>10. ParseDecision(a) = ReadField(action, v)
  BY <1>5, <1>6, <1>8, <1>9 DEF ParseDecision
<1> QED
  BY <1>10 DEF a, field

(* The deterministic policy's answers are decisions the parser reads.      *)
LEMMA AnswersParse ==
    /\ \A d : ParseDecision(Answer("accept", "offer_hash", [digest |-> d]))
                 = Proposed("accept", d)
    /\ \A x : ParseDecision(Answer("offer", "quote_amount_minor", [amount |-> x]))
                 = ReadAmount([amount |-> x])
    /\ \A x : ParseDecision(Answer("walk_away", "reason", [string |-> x]))
                 = ReadReason([string |-> x])
<1>1. \A d : ParseDecision(Answer("accept", "offer_hash", [digest |-> d]))
                = ReadHash([digest |-> d])
  BY AnswerRead DEF ShapeField, ReadField
<1>2. \A x : ParseDecision(Answer("offer", "quote_amount_minor", [amount |-> x]))
                = ReadAmount([amount |-> x])
  BY AnswerRead DEF ShapeField, ReadField
<1>3. \A x : ParseDecision(Answer("walk_away", "reason", [string |-> x]))
                = ReadReason([string |-> x])
  BY AnswerRead DEF ShapeField, ReadField
<1> QED
  BY <1>1, <1>2, <1>3 DEF ReadHash, Is

LEMMA AmountsParse ==
    ASSUME NEW x \in 0..UINT256_MAX
    PROVE  LET p == ParseDecision(Answer("offer", "quote_amount_minor", [amount |-> x]))
           IN  /\ x # 0 => p = Proposed("offer", x)
               /\ x = 0 => p = Refused("zero_amount")
BY AnswersParse, PartiesAssumption DEF ReadAmount, Is

(* What the validator makes of an acceptance of the active offer, and of   *)
(* an offer at a price one can carry.                                      *)
LEMMA AcceptanceTaken ==
    ASSUME NEW o, NEW d, AcceptCode(o, d) = NoCode
    PROVE  LET v == Validate(Answer("accept", "offer_hash", [digest |-> d]), o)
           IN  v = Proposed("accept", d) /\ Accepted(v)
BY AnswersParse, RefusedOrNot DEF Validate, Accepted

LEMMA OfferMade ==
    ASSUME NEW o, NEW x \in 1..UINT256_MAX, OfferCode(o, x) = NoCode
    PROVE  LET v == Validate(Answer("offer", "quote_amount_minor", [amount |-> x]), o)
           IN  v = Proposed("offer", x) /\ Accepted(v)
<1> DEFINE r == Answer("offer", "quote_amount_minor", [amount |-> x])
<1>1. ParseDecision(r) = Proposed("offer", x)
  BY AmountsParse, PartiesAssumption
<1> HIDE DEF r
<1>2. Validate(r, o) = Proposed("offer", x)
  BY <1>1, RefusedOrNot DEF Validate
<1> QED
  BY <1>2, RefusedOrNot DEF Accepted, r

(* The next price of the baseline is the one of the schedule, within its   *)
(* bound where the bound is a price.                                       *)
LEMMA NextPriced ==
    ASSUME ChainInv, NEW o, Watched(o), o.remaining > 0
    PROVE  LET price == NextPrice(o)
               r == setting.mandate[o.role].reservation
           IN  /\ price \in 1..UINT256_MAX
               /\ OnSchedule(Count + 1, price)
               /\ o.role = "buyer" /\ r >= 1 => price <= r
               /\ o.role = "seller" /\ r <= UINT256_MAX => price >= r
<1> DEFINE p == o.role
           r == setting.mandate[p].reservation
           max == setting.terms.maxOffers
           share == opportunities(p, max)
           price == NextPrice(o)
<1>1. /\ p = Mover(Count + 1) /\ p \in Parties /\ o.terms = setting.terms
      /\ o.mandate = setting.mandate[p]
      /\ Len(o.history) = Count /\ DOMAIN o.history = 1..Count
      /\ \A i \in 1..Count : o.history[i].kind = "offer" /\ o.history[i].actor = Mover(i)
      /\ Count < max
  BY Seen
<1>2. Count \in Nat /\ max \in Nat \ {0} /\ r \in Nat
  BY <1>1, Stored, SettingTyped DEF ChainInv
<1>3. OwnRecorded(o) = Count \div 2
  <2>1. {i \in DOMAIN o.history : o.history[i].kind = "offer" /\ o.history[i].actor = o.role}
          = {i \in 1..Count : Mover(i) = Mover(Count + 1)}
    BY <1>1
  <2>2. Cardinality({i \in 1..Count : Mover(i) = Mover(Count + 1)}) = Count \div 2
    BY <1>2, HalfOfThem
  <2> QED
    BY <2>1, <2>2 DEF OwnRecorded
<1>4. Count \div 2 \in Nat /\ (Count + 1) - 1 = Count
  BY <1>2
<1>5. share \in Nat \ {0}
  <2>1. share \in Nat /\ share > Count \div 2
    BY <1>1, <1>2, Shares
  <2> HIDE DEF share
  <2> QED
    BY <1>4, <2>1
<1>6. price = ConcessionPrice(p, r, Count \div 2, share)
  <2>1. price = ConcessionPrice(o.role, o.mandate.reservation, OwnRecorded(o),
                                opportunities(o.role, o.terms.maxOffers))
    BY DEF NextPrice
  <2> QED
    BY <1>1, <1>3, <2>1
<1>7. /\ ConcessionPrice(p, r, Count \div 2, share) \in 1..UINT256_MAX
      /\ p = "buyer" /\ r >= 1 => ConcessionPrice(p, r, Count \div 2, share) <= r
      /\ p = "seller" /\ r <= UINT256_MAX =>
            ConcessionPrice(p, r, Count \div 2, share) >= r
  <2> HIDE DEF share, r, p
  <2>1. p \in Roles
    BY <1>1 DEF Parties
  <2> QED
    BY <1>2, <1>4, <1>5, <2>1, Scheduled
<1>8. OnSchedule(Count + 1, price)
  BY <1>1, <1>4, <1>6 DEF OnSchedule
<1> HIDE DEF price, share
<1> QED
  BY <1>6, <1>7, <1>8 DEF price

(* A baseline that can agree with its counterpart bears every price within *)
(* its bound.                                                              *)
LEMMA AgreeableBears ==
    ASSUME ChainInv, Agreeable(setting), NEW p \in Parties, NEW price \in 1..UINT256_MAX,
           p = "buyer" => price <= setting.mandate[p].reservation,
           p = "seller" => price >= setting.mandate[p].reservation
    PROVE  Within(p, price)
<1>1. /\ setting.mandate[p].reservation \in Nat /\ setting.mandate[p].floor \in Nat
      /\ setting.holdings[p].quote \in Nat /\ setting.holdings[p].base \in Nat
      /\ setting.terms.base \in Nat /\ price \in Nat
  BY SettingTyped, PartiesAssumption DEF ChainInv
<1>2. CASE p = "buyer"
  BY <1>1, <1>2 DEF Agreeable, Within
<1>3. CASE p = "seller"
  BY <1>1, <1>3 DEF Agreeable, Within
<1> QED
  BY <1>2, <1>3 DEF Parties, Roles

(* Its bound leaves it a price that an offer can carry.                    *)
LEMMA AgreeablePriced ==
    ASSUME ChainInv, Agreeable(setting)
    PROVE  /\ setting.mandate["buyer"].reservation >= 1
           /\ setting.mandate["seller"].reservation <= UINT256_MAX
<1> DEFINE b == setting.mandate["buyer"].reservation
           s == setting.mandate["seller"].reservation
<1>1. b \in Nat /\ s \in Nat /\ UINT256_MAX \in Nat \ {0}
  BY SettingTyped, PartiesAssumption DEF ChainInv, Parties, Roles
<1>2. Larger(s, 1) <= Smaller(b, UINT256_MAX)
  BY DEF Agreeable
<1> HIDE DEF b, s
<1>3. b >= 1 /\ s <= UINT256_MAX
  BY <1>1, <1>2 DEF Larger, Smaller
<1> QED
  BY <1>3 DEF b, s

(* The last offer of two such baselines is at its proposer's bound, which  *)
(* is within the other's.                                                  *)
LEMMA LastIsBound ==
    ASSUME ChainInv, Agreeable(setting), Count = setting.terms.maxOffers, Count > 0
    PROVE  Within(Mover(Count + 1), Offers[Count].quote)
<1> DEFINE q == Mover(Count)
           p == Mover(Count + 1)
           max == setting.terms.maxOffers
           n == opportunities(q, max)
           k == (Count - 1) \div 2
           r == setting.mandate[q].reservation
           price == Offers[Count].quote
<1>1. Count \in Nat /\ max \in Nat \ {0} /\ UINT256_MAX \in Nat \ {0}
  BY Stored, SettingTyped, PartiesAssumption DEF ChainInv
<1>2. p \in Parties /\ q \in Parties /\ p # q
  BY <1>1, Movers DEF Parties
<1>3. Within(q, price) /\ OnSchedule(Count, price)
  <2>1. Count \in 1..Count
    BY <1>1
  <2> QED
    BY <2>1, OffersTrail
<1>4. n \in Nat \ {0} /\ k \in Nat /\ k = n - 1
  <2>1. (Count - 1) + 1 = Count /\ Count - 1 \in Nat
    BY <1>1
  <2>2. n \in Nat /\ n = (Count - 1) \div 2 + 1
    BY <1>1, <2>1, Shares
  <2>3. k \in Nat
    BY <2>1
  <2> QED
    BY <2>2, <2>3
<1>5. r \in Nat
  BY <1>2, SettingTyped DEF ChainInv
<1>6. price = ConcessionPrice(q, r, k, n)
  <2>1. setting.policy[q] = "deterministic"
    BY <1>2 DEF Agreeable
  <2> QED
    BY <1>3, <2>1 DEF OnSchedule
<1>7. price = Smaller(Larger(r, 1), UINT256_MAX)
  <2> HIDE DEF n, k, r, q
  <2>1. q \in Roles
    BY <1>2 DEF Parties
  <2> QED
    BY <1>4, <1>5, <1>6, <2>1, Scheduled
<1>8. price \in 1..UINT256_MAX
  BY <1>3 DEF Within
<1> DEFINE b == setting.mandate["buyer"].reservation
           s == setting.mandate["seller"].reservation
<1>9. b \in Nat /\ s \in Nat /\ Larger(s, 1) <= Smaller(b, UINT256_MAX)
  BY SettingTyped DEF ChainInv, Agreeable, Parties, Roles
<1>10. CASE q = "buyer" /\ p = "seller"
  <2>1. r = b
    BY <1>10
  <2>2. price >= s
    <3> HIDE DEF b, s, r, price
    <3> QED
      BY <1>1, <1>7, <1>9, <2>1 DEF Smaller, Larger
  <2>3. /\ p = "buyer" => price <= setting.mandate[p].reservation
        /\ p = "seller" => price >= setting.mandate[p].reservation
    <3> HIDE DEF price, p
    <3> QED
      BY <1>10, <2>2
  <2> HIDE DEF price
  <2> QED
    BY <1>2, <1>8, <2>3, AgreeableBears DEF price
<1>11. CASE q = "seller" /\ p = "buyer"
  <2>1. r = s
    BY <1>11
  <2>2. price <= b
    <3> HIDE DEF b, s, r, price
    <3> QED
      BY <1>1, <1>7, <1>9, <2>1 DEF Smaller, Larger
  <2>3. /\ p = "buyer" => price <= setting.mandate[p].reservation
        /\ p = "seller" => price >= setting.mandate[p].reservation
    <3> HIDE DEF price, p
    <3> QED
      BY <1>11, <2>2
  <2> HIDE DEF price
  <2> QED
    BY <1>2, <1>8, <2>3, AgreeableBears DEF price
<1> QED
  BY <1>2, <1>10, <1>11 DEF Parties, Roles

(* The move of the baseline: an acceptance, its next price, or away once   *)
(* the validator lets it do neither.                                       *)
LEMMA Chosen ==
    ASSUME ChainInv, NEW o, Watched(o)
    PROVE  LET d == ParseDecision(Choose(o))
           IN  \/ \E x : d = Proposed("accept", x)
               \/ d = Proposed("offer", NextPrice(o)) /\ o.remaining > 0
               \/ /\ \E x \in Reasons : d = Proposed("walk_away", x)
                  /\ o.active # NoOffer /\ o.active.proposer # o.role =>
                        AcceptCode(o, o.active.digest) # NoCode
                  /\ o.remaining > 0 => OfferCode(o, NextPrice(o)) # NoCode
<1> DEFINE incoming == o.active # NoOffer /\ o.active.proposer # o.role
           digest == IF incoming THEN o.active.digest ELSE NoOffer
           acceptance == Answer("accept", "offer_hash", [digest |-> digest])
           taken == incoming /\ Accepted(Validate(acceptance, o))
           amount == IF o.remaining > 0 THEN NextPrice(o) ELSE 0
           offer == Answer("offer", "quote_amount_minor", [amount |-> amount])
           made == o.remaining > 0 /\ Accepted(Validate(offer, o))
           heldBack ==
               \/ incoming /\ Validate(acceptance, o).refused \in HoldingsCodes
               \/ o.remaining > 0 /\ Validate(offer, o).refused \in HoldingsCodes
           reason == IF heldBack THEN "inventory_constraint"
                     ELSE IF o.remaining = 0 /\ IncomingOutsideBound(o)
                     THEN "terms_unacceptable" ELSE "no_further_concession"
           away == Answer("walk_away", "reason", [string |-> reason])
<1>1. Choose(o) = IF taken THEN acceptance ELSE IF made THEN offer ELSE away
  BY DEF Choose
<1>2. ParseDecision(acceptance) = Proposed("accept", digest)
  <2> HIDE DEF digest
  <2> QED
    BY AnswersParse
<1>3. made => ParseDecision(offer) = Proposed("offer", NextPrice(o))
  <2> SUFFICES ASSUME made PROVE ParseDecision(offer) = Proposed("offer", NextPrice(o))
    OBVIOUS
  <2>1. NextPrice(o) \in 1..UINT256_MAX /\ amount = NextPrice(o)
    BY NextPriced
  <2>2. NextPrice(o) \in 0..UINT256_MAX /\ NextPrice(o) # 0
    BY <2>1, PartiesAssumption
  <2> HIDE DEF amount
  <2> QED
    BY <2>1, <2>2, AmountsParse
<1>4. reason \in Reasons
  BY DEF Reasons
<1>5. ParseDecision(away) = Proposed("walk_away", reason)
  <2> HIDE DEF reason
  <2>1. ParseDecision(away) = ReadReason([string |-> reason])
    BY AnswersParse
  <2> QED
    BY <1>4, <2>1 DEF ReadReason, Is
<1>6. ~ taken => (incoming => AcceptCode(o, o.active.digest) # NoCode)
  <2> SUFFICES ASSUME incoming, AcceptCode(o, o.active.digest) = NoCode
               PROVE  Accepted(Validate(acceptance, o))
    OBVIOUS
  <2>1. digest = o.active.digest
    OBVIOUS
  <2> HIDE DEF digest
  <2> QED
    BY <2>1, AcceptanceTaken
<1>7. ~ made => (o.remaining > 0 => OfferCode(o, NextPrice(o)) # NoCode)
  <2> SUFFICES ASSUME o.remaining > 0, OfferCode(o, NextPrice(o)) = NoCode
               PROVE  Accepted(Validate(offer, o))
    OBVIOUS
  <2>1. NextPrice(o) \in 1..UINT256_MAX /\ amount = NextPrice(o)
    BY NextPriced
  <2> HIDE DEF amount
  <2> QED
    BY <2>1, OfferMade
<1>8. made => o.remaining > 0
  OBVIOUS
<1> HIDE DEF taken, made, acceptance, offer, away, digest, reason
<1>9. CASE taken
  BY <1>1, <1>2, <1>9
<1>10. CASE ~ taken /\ made
  BY <1>1, <1>3, <1>8, <1>10
<1>11. CASE ~ taken /\ ~ made
  BY <1>1, <1>4, <1>5, <1>6, <1>7, <1>11
<1> QED
  BY <1>9, <1>10, <1>11

(* A baseline that could agree leaves only once the other's offer has run  *)
(* out: it takes one within its bound, and answers any other while it has  *)
(* an offer left; the other's last one is within its bound.                *)
LEMMA AwayMeansLate ==
    ASSUME ChainInv, NEW o, Watched(o), Agreeable(setting),
           o.active # NoOffer /\ o.active.proposer # o.role =>
               AcceptCode(o, o.active.digest) # NoCode,
           o.remaining > 0 => OfferCode(o, NextPrice(o)) # NoCode
    PROVE  Count > 0 /\ Offers[Count].validUntil <= now
<1> DEFINE p == o.role
           max == setting.terms.maxOffers
           stands == Count > 0 /\ Offers[Count].validUntil > o.now
<1>1. /\ p = Mover(Count + 1) /\ p \in Parties /\ o.terms = setting.terms
      /\ o.now \in 0..now
      /\ (o.remaining > 0) <=> (Count < max)
      /\ Len(o.history) = Count /\ DOMAIN o.history = 1..Count
      /\ \A i \in 1..Count : o.history[i].kind = "offer" /\ o.history[i].actor = Mover(i)
      /\ ~ stands => o.active = NoOffer
      /\ stands => /\ o.active # NoOffer /\ o.active.digest = Offers[Count]
                   /\ o.active.proposer = Mover(Count)
                   /\ o.active.quote = Offers[Count].quote
                   /\ o.active.validUntil = Offers[Count].validUntil
  BY Seen
<1>2. /\ now \in Nat /\ Count \in Nat /\ max \in Nat \ {0} /\ Count <= max
      /\ o.remaining \in Nat
  BY Stored, SettingTyped, Seen DEF ChainInv, Observation
<1>3. \A i \in 1..Count : Offers[i].validUntil \in Nat /\ Within(Mover(i), Offers[i].quote)
  BY OffersTrail, Trailed
<1> HIDE DEF p
<1>4. Count < max => FALSE
  <2> SUFFICES ASSUME Count < max PROVE FALSE
    OBVIOUS
  <2>1. o.remaining > 0
    BY <1>1
  <2> DEFINE price == NextPrice(o)
             r == setting.mandate[p].reservation
  <2>2. /\ price \in 1..UINT256_MAX
        /\ p = "buyer" /\ r >= 1 => price <= r
        /\ p = "seller" /\ r <= UINT256_MAX => price >= r
    BY <2>1, NextPriced DEF p
  <2>3. p = "buyer" => r >= 1
    BY AgreeablePriced
  <2>4. p = "seller" => r <= UINT256_MAX
    BY AgreeablePriced
  <2>5. Within(p, price)
    <3> HIDE DEF price
    <3> QED
      BY <1>1, <2>2, <2>3, <2>4, AgreeableBears
  <2>6. ~ OutsideReservation(o, price) /\ ~ BelowFloor(o, price) /\ ~ Unaffordable(o, price)
    <3>1. price \in Nat
      BY <2>2, PartiesAssumption
    <3> HIDE DEF price
    <3> QED
      BY <2>5, <3>1, WithinAllowed DEF p
  <2>7. NextProposer(o) = o.role
    <3> DEFINE offers == {i \in DOMAIN o.history : o.history[i].kind = "offer"}
    <3>1. offers = 1..Count
      BY <1>1
    <3>2. NextProposer(o) = IF offers = {} THEN "buyer"
                            ELSE counterparty(o.history[Max(offers)].actor)
      BY DEF NextProposer
    <3> HIDE DEF offers
    <3>3. CASE Count = 0
      BY <1>1, <3>1, <3>2, <3>3 DEF Mover, p
    <3>4. CASE Count # 0
      <4>1. Max(offers) = Count
        <5>1. Count \in offers /\ \A y \in offers : Count >= y
          BY <1>2, <3>1, <3>4
        <5>2. \A x \in offers : (\A y \in offers : x >= y) => x = Count
          BY <1>2, <3>1, <5>1
        <5> QED
          BY <5>1, <5>2 DEF Max
      <4>2. Count \in 1..Count
        BY <1>2, <3>4
      <4>3. Mover(Count + 1) = counterparty(Mover(Count))
        BY <1>2, Movers
      <4> QED
        BY <1>1, <3>1, <3>2, <4>1, <4>2, <4>3 DEF p
    <3> QED
      BY <3>3, <3>4
  <2>8. ~ (o.remaining = 0 \/ Len(o.history) >= o.terms.maxOffers)
    BY <1>1, <1>2, <2>1
  <2>9. OfferCode(o, price) = NoCode
    <3> HIDE DEF price
    <3> QED
      BY <2>6, <2>7, <2>8, OfferAllowed
  <2> QED
    BY <2>1, <2>9
<1>5. Count = max /\ Count > 0 /\ Count \in 1..Count
  BY <1>2, <1>4
<1>6. ~ stands
  <2> SUFFICES ASSUME stands PROVE FALSE
    OBVIOUS
  <2>1. Within(p, Offers[Count].quote)
    BY <1>1, <1>5, LastIsBound
  <2>2. Offers[Count].quote \in Nat
    BY <2>1, PartiesAssumption DEF Within
  <2>3. /\ ~ OutsideReservation(o, o.active.quote) /\ ~ BelowFloor(o, o.active.quote)
        /\ ~ Unaffordable(o, o.active.quote)
    BY <1>1, <2>1, <2>2, WithinAllowed DEF p
  <2>4. o.active.proposer # o.role
    BY <1>1, <1>2, Movers DEF p
  <2>5. ~ (o.now >= o.active.validUntil)
    BY <1>1, <1>2, <1>3, <1>5
  <2>6. AcceptCode(o, o.active.digest) = NoCode
    BY <1>1, <2>3, <2>4, <2>5, AcceptAllowed
  <2> QED
    BY <1>1, <2>4, <2>6
<1> QED
  BY <1>1, <1>2, <1>3, <1>5, <1>6

(* Whatever the baseline decides, it signs within its mandate.             *)
LEMMA ChosenSigns ==
    ASSUME ChainInv, NEW o, Watched(o), Accepted(Validate(Choose(o), o))
    PROVE  Signs(SignedMessage(Validate(Choose(o), o), o, setting.terms.lifetime), o)
<1> DEFINE d == ParseDecision(Choose(o))
           v == Validate(Choose(o), o)
<1>1. \/ \E x : d = Proposed("accept", x)
      \/ d = Proposed("offer", NextPrice(o)) /\ o.remaining > 0
      \/ /\ \E x \in Reasons : d = Proposed("walk_away", x)
         /\ o.active # NoOffer /\ o.active.proposer # o.role =>
               AcceptCode(o, o.active.digest) # NoCode
         /\ o.remaining > 0 => OfferCode(o, NextPrice(o)) # NoCode
  BY Chosen
<1>2. v = d
  BY Validated
<1> HIDE DEF d, v
<1>3. d.action = "offer" => o.remaining > 0 /\ d.value = NextPrice(o)
  BY <1>1, RefusedOrNot
<1>4. d.action = "offer" => d.value \in Nat /\ OnSchedule(Count + 1, d.value)
  <2> SUFFICES ASSUME d.action = "offer"
               PROVE  d.value \in Nat /\ OnSchedule(Count + 1, d.value)
    OBVIOUS
  <2>1. NextPrice(o) \in 1..UINT256_MAX /\ OnSchedule(Count + 1, NextPrice(o))
    BY <1>3, NextPriced
  <2> QED
    BY <1>3, <2>1, PartiesAssumption
<1>5. Legible(Choose(o))
  BY <1>4 DEF Legible, d
<1>6. d.action = "walk_away" /\ Agreeable(setting) =>
          Count > 0 /\ Offers[Count].validUntil <= now
  <2> SUFFICES ASSUME d.action = "walk_away", Agreeable(setting)
               PROVE  Count > 0 /\ Offers[Count].validUntil <= now
    OBVIOUS
  <2>1. /\ o.active # NoOffer /\ o.active.proposer # o.role =>
               AcceptCode(o, o.active.digest) # NoCode
        /\ o.remaining > 0 => OfferCode(o, NextPrice(o)) # NoCode
    BY <1>1, RefusedOrNot
  <2> QED
    BY <2>1, AwayMeansLate
<1> QED
  BY <1>2, <1>4, <1>5, <1>6, JudgedSigns DEF d, v

-----------------------------------------------------------------------------
(* What a transaction does to the chain *)

LEMMA Configured ==
    ASSUME setting \in Settings
    PROVE  /\ Config(setting) \in Contract!Config
           /\ Config(setting).session = SessionId
           /\ Config(setting).buyer = Buyer /\ Config(setting).seller = Seller
           /\ Config(setting).baseAmount = setting.terms.base
           /\ Config(setting).expiresAt = setting.terms.expiresAt
           /\ Config(setting).maxOffers = setting.terms.maxOffers
<1>1. /\ setting.terms.base \in Nat /\ setting.terms.expiresAt \in Nat
      /\ setting.terms.maxOffers \in Nat
  BY SettingTyped
<1> QED
  BY <1>1 DEF Config, Contract!Config

LEMMA Addresses ==
    ASSUME NEW p \in Parties
    PROVE  /\ Address(p) \in {Buyer, Seller}
           /\ \A q \in Parties : Address(p) = Address(q) => p = q
BY PartiesAssumption DEF Address, Parties, Roles

(* One more entry of the log, under a storage of the right type.           *)
LEMMA Logged ==
    ASSUME Contract!TypeOK, NEW st \in Contract!SessionState, NEW e \in Contract!Event,
           session' = [session EXCEPT ![SessionId] = st],
           log' = [log EXCEPT ![SessionId] = Append(@, e)],
           now' = now,
           balance' \in [Contract!Tokens -> [{Buyer, Seller} -> Nat]],
           allowance' \in [Contract!Tokens -> [{Buyer, Seller} -> Nat]]
    PROVE  /\ Contract!TypeOK'
           /\ session'[SessionId] = st
           /\ Len(Events') = Len(Events) + 1
           /\ Events'[Len(Events) + 1] = e
           /\ \A i \in 1..Len(Events) : Events'[i] = Events[i]
<1>1. /\ session \in [{SessionId} -> Contract!SessionState]
      /\ log \in [{SessionId} -> Seq(Contract!Event)] /\ now \in Nat
      /\ Events \in Seq(Contract!Event)
  BY Stored
<1>2. session'[SessionId] = st /\ session' \in [{SessionId} -> Contract!SessionState]
  BY <1>1
<1>3. Events' = Append(Events, e)
  BY <1>1 DEF Events
<1>4. /\ Append(Events, e) \in Seq(Contract!Event)
      /\ Len(Append(Events, e)) = Len(Events) + 1
      /\ Append(Events, e)[Len(Events) + 1] = e
      /\ \A i \in 1..Len(Events) : Append(Events, e)[i] = Events[i]
  BY <1>1, Appended
<1>5. log' \in [{SessionId} -> Seq(Contract!Event)]
  <2>1. log' = [log EXCEPT ![SessionId] = Append(Events, e)]
    BY DEF Events
  <2> QED
    BY <1>1, <1>4, <2>1
<1>6. Contract!TypeOK'
  BY <1>1, <1>2, <1>5 DEF Contract!TypeOK
<1> QED
  BY <1>2, <1>3, <1>4, <1>6

(* Time alone passes, or nothing happens.                                  *)
LEMMA ChainSame ==
    ASSUME ChainInv, EndingInv, setting' = setting,
           UNCHANGED <<session, balance, allowance, log>>, now' \in Nat, now <= now'
    PROVE  /\ ChainInv' /\ EndingInv'
           /\ Offers' = Offers /\ Count' = Count /\ Status' = Status
<1>1. /\ Offers' = Offers /\ Count' = Count /\ Status' = Status
      /\ Events' = Events /\ Agreeable(setting)' = Agreeable(setting)
  BY DEF Offers, Count, Status, Events, Agreeable
<1>2. Contract!TypeOK'
  BY DEF ChainInv, Contract!TypeOK
<1>3. \A p, x : Within(p, x)' = Within(p, x)
  BY DEF Within
<1>4. \A i, x : OnSchedule(i, x)' = OnSchedule(i, x)
  BY DEF OnSchedule
<1>5. (\A i : Recorded(i)' = Recorded(i)) /\ Carried' = Carried
  BY <1>1, <1>3, <1>4 DEF Recorded, Carried, OfferMessage, Config
<1>6. ChainInv'
  BY <1>1, <1>2, <1>5 DEF ChainInv, Config
<1>7. Unspent' = Unspent /\ \A x : Spent(x)' = Spent(x)
  BY DEF Unspent, Spent
<1>8. EndingInv'
  BY <1>1, <1>3, <1>7 DEF EndingInv
<1> QED
  BY <1>1, <1>6, <1>8

(* The entry that ends the session.                                        *)
LEMMA EntryEnds ==
    ASSUME ChainInv, EndingInv, Status = "Open", setting' = setting,
           NEW st \in Contract!SessionState, NEW e \in Contract!Event,
           session' = [session EXCEPT ![SessionId] = st],
           log' = [log EXCEPT ![SessionId] = Append(@, e)],
           now' = now,
           balance' \in [Contract!Tokens -> [{Buyer, Seller} -> Nat]],
           allowance' \in [Contract!Tokens -> [{Buyer, Seller} -> Nat]],
           st.config = session[SessionId].config, st.offerCount = Count,
           st.status \in {"Settled", "Closed", "Expired", "Aborted"},
           st.status # "Settled" =>
              /\ balance' = balance /\ allowance' = allowance
              /\ e.kind \in {"SessionClosed", "SessionExpired", "SessionAborted"},
           st.status = "Settled" =>
              /\ Count > 0 /\ e.kind = "SettlementCompleted"
              /\ e.actor = Address(Mover(Count + 1))
              /\ \A p \in Parties : Within(p, e.offer.quote)
              /\ Spent(e.offer.quote)',
           st.status = "Closed" /\ Agreeable(setting) =>
              Count > 0 /\ Events[Count].offer.validUntil <= e.at
    PROVE  /\ ChainInv' /\ EndingInv'
           /\ Offers' = Offers /\ Count' = Count /\ Status' = st.status
<1>1. /\ Contract!TypeOK' /\ session'[SessionId] = st
      /\ Len(Events') = Len(Events) + 1 /\ Events'[Len(Events) + 1] = e
      /\ \A i \in 1..Len(Events) : Events'[i] = Events[i]
  BY Logged DEF ChainInv
<1>2. Len(Events) = Count /\ Count \in Nat
  BY Stored DEF ChainInv
<1>3. Count' = Count /\ Status' = st.status
  BY <1>1 DEF Count, Status
<1>4. Events'[Count + 1] = e /\ \A i \in 1..Count : Events'[i] = Events[i]
  BY <1>1, <1>2
<1>5. Offers' = Offers
  BY <1>3, <1>4 DEF Offers
<1>6. (\A p, x : Within(p, x)' = Within(p, x)) /\ Agreeable(setting)' = Agreeable(setting)
  BY DEF Within, Agreeable
<1>7. \A i, x : OnSchedule(i, x)' = OnSchedule(i, x)
  BY DEF OnSchedule
<1>8. \A i \in 1..Count : Recorded(i)'
  BY <1>4, <1>6, <1>7 DEF ChainInv, Recorded, OfferMessage, Config
<1>9. ChainInv'
  BY <1>1, <1>2, <1>3, <1>8 DEF ChainInv, Config
<1>10. st.status # "Settled" => Unspent'
  BY DEF EndingInv, Unspent
<1>11. st.status = "Settled" =>
          /\ (\A p \in Parties : Within(p, Events[Count + 1].offer.quote))'
          /\ Spent(Events[Count + 1].offer.quote)'
  <2> SUFFICES ASSUME st.status = "Settled"
               PROVE  /\ (\A p \in Parties : Within(p, Events[Count + 1].offer.quote))'
                      /\ Spent(Events[Count + 1].offer.quote)'
    OBVIOUS
  <2>1. (Events[Count + 1])' = e
    BY <1>3, <1>4
  <2>2. \A p \in Parties : Within(p, e.offer.quote)
    OBVIOUS
  <2>3. (\A p \in Parties : Within(p, Events[Count + 1].offer.quote))'
    BY <2>1, <2>2 DEF Within
  <2>4. Spent(Events[Count + 1].offer.quote)'
    BY <2>1 DEF Spent
  <2> QED
    BY <2>3, <2>4
<1>12. EndingInv'
  <2>1. Status' # "Settled" => Unspent'
    BY <1>3, <1>10
  <2>2. Status' = "Settled" =>
           /\ Count' > 0 /\ Events'[Count' + 1].kind = "SettlementCompleted"
           /\ Events'[Count' + 1].actor = Address(Mover(Count' + 1))
    BY <1>3, <1>4
  <2>3. Status' \notin {"Open", "Settled"} =>
           Events'[Count' + 1].kind
              \in {"SessionClosed", "SessionExpired", "SessionAborted"}
    BY <1>3, <1>4
  <2>4. Status' = "Closed" /\ Agreeable(setting)' =>
           Count' > 0 /\ Events'[Count'].offer.validUntil <= Events'[Count' + 1].at
    BY <1>2, <1>3, <1>4, <1>6
  <2> QED
    BY <1>3, <1>11, <2>1, <2>2, <2>3, <2>4 DEF EndingInv
<1> QED
  BY <1>3, <1>5, <1>9, <1>12

(* The entry that records one more offer.                                  *)
LEMMA EntryAdds ==
    ASSUME ChainInv, EndingInv, Status = "Open", setting' = setting,
           NEW st \in Contract!SessionState, NEW e \in Contract!Event,
           session' = [session EXCEPT ![SessionId] = st],
           log' = [log EXCEPT ![SessionId] = Append(@, e)],
           UNCHANGED <<now, balance, allowance>>,
           st.config = session[SessionId].config, st.offerCount = Count + 1,
           st.status = "Open", st.sequence = Count + 1,
           st.activeOffer = e.offer, st.activeProposer = e.actor,
           st.activeQuote = e.offer.quote, st.activeValidUntil = e.offer.validUntil,
           Count # setting.terms.maxOffers,
           e.kind = "OfferRecorded", e.sequence = Count + 1,
           e.actor = Address(Mover(Count + 1)), e.offer \in Contract!Offer,
           e.offer = OfferMessage(Mover(Count + 1), Count + 1, e.offer.quote,
                                  e.offer.validUntil),
           Within(Mover(Count + 1), e.offer.quote),
           OnSchedule(Count + 1, e.offer.quote)
    PROVE  ChainInv' /\ EndingInv' /\ Status' = "Open"
<1>0. /\ balance' \in [Contract!Tokens -> [{Buyer, Seller} -> Nat]]
      /\ allowance' \in [Contract!Tokens -> [{Buyer, Seller} -> Nat]]
  BY Stored DEF ChainInv
<1>1. /\ Contract!TypeOK' /\ session'[SessionId] = st
      /\ Len(Events') = Len(Events) + 1 /\ Events'[Len(Events) + 1] = e
      /\ \A i \in 1..Len(Events) : Events'[i] = Events[i]
  BY <1>0, Logged DEF ChainInv
<1>2. /\ Len(Events) = Count /\ Count \in Nat
      /\ Count <= setting.terms.maxOffers /\ setting.terms.maxOffers \in Nat
  BY Stored, SettingTyped DEF ChainInv
<1>3. Count' = Count + 1 /\ Status' = "Open"
  BY <1>1 DEF Count, Status
<1>4. Events'[Count + 1] = e /\ \A i \in 1..Count : Events'[i] = Events[i]
  BY <1>1, <1>2
<1>5. (\A p, x : Within(p, x)' = Within(p, x)) /\ \A i, x : OnSchedule(i, x)' = OnSchedule(i, x)
  BY DEF Within, OnSchedule
<1>6. ASSUME NEW i \in 1..(Count + 1) PROVE Recorded(i)'
  <2>1. CASE i \in 1..Count
    <3>1. Recorded(i) /\ (Events[i])' = Events[i]
      BY <1>4, <2>1 DEF ChainInv
    <3> QED
      BY <3>1 DEF Recorded, Within, OnSchedule, OfferMessage, Config
  <2>2. CASE i = Count + 1
    <3>1. (Events[i])' = e
      BY <1>4, <2>2
    <3> QED
      BY <2>2, <3>1 DEF Recorded, Within, OnSchedule, OfferMessage, Config
  <2> QED
    BY <1>2, <2>1, <2>2
<1>7. ChainInv'
  <2>1. session'[SessionId].sequence = Count' /\ Carried'
    <3>1. session'[SessionId] = st /\ Events'[Count'] = e
      BY <1>1, <1>3, <1>4
    <3> QED
      BY <1>3, <3>1 DEF Carried
  <2>2. Len(Events') = Count' /\ Count' <= setting.terms.maxOffers
    BY <1>1, <1>2, <1>3
  <2>3. session'[SessionId].config = Config(setting)'
    BY <1>1 DEF ChainInv, Config
  <2>4. \A i \in 1..Count' : Recorded(i)'
    BY <1>3, <1>6
  <2> QED
    BY <1>1, <1>3, <2>1, <2>2, <2>3, <2>4 DEF ChainInv
<1>8. EndingInv'
  BY <1>3 DEF EndingInv, Unspent
<1> QED
  BY <1>3, <1>7, <1>8

(* recordOffer of what a party signed.                                     *)
LEMMA OfferMined ==
    ASSUME ChainInv, EndingInv, setting' = setting,
           NEW p, p = Mover(Count + 1), NEW price, NEW until \in Nat,
           Within(p, price), OnSchedule(Count + 1, price),
           Contract!RecordOffer(OfferMessage(p, Count + 1, price, until), Address(p))
    PROVE  ChainInv' /\ EndingInv' /\ Status' = "Open"
<1> DEFINE o == OfferMessage(p, Count + 1, price, until)
           old == session[SessionId]
           st == [old EXCEPT !.sequence = o.sequence,
                             !.offerCount = @ + 1,
                             !.activeOffer = o,
                             !.activeProposer = o.proposer,
                             !.activeQuote = o.quote,
                             !.activeValidUntil = o.validUntil,
                             !.activeSequence = o.sequence]
           e == [kind |-> "OfferRecorded", config |-> Config(setting),
                 sequence |-> Count + 1, actor |-> Address(p), offer |-> o, at |-> now]
<1>1. /\ Count \in Nat /\ now \in Nat /\ old \in Contract!SessionState
      /\ session \in [{SessionId} -> Contract!SessionState]
      /\ old.config = Config(setting) /\ Config(setting) \in Contract!Config
      /\ Config(setting).maxOffers = setting.terms.maxOffers
  BY Stored, Configured DEF ChainInv
<1>2. p \in Parties /\ Address(p) \in {Buyer, Seller}
  BY <1>1, Movers, Addresses DEF Parties
<1>3. price \in Nat
  BY PartiesAssumption DEF Within
<1>4. /\ o.session = SessionId /\ o.config = Config(setting) /\ o.sequence = Count + 1
      /\ o.proposer = Address(p) /\ o.quote = price /\ o.validUntil = until
      /\ o = OfferMessage(Mover(Count + 1), Count + 1, o.quote, o.validUntil)
  BY DEF OfferMessage
<1>5. o \in Contract!Offer
  BY <1>1, <1>2, <1>3 DEF OfferMessage, Contract!Offer
<1> HIDE DEF o
<1>6. /\ old.status = "Open" /\ old.offerCount # old.config.maxOffers
      /\ session' = [session EXCEPT ![SessionId] = st]
      /\ Contract!Emit(SessionId, "OfferRecorded", Count + 1, Address(p), o)
      /\ UNCHANGED <<now, balance, allowance>>
  BY <1>4 DEF Contract!RecordOffer, Contract!VerifyCommon, Contract!tokens, o
<1>7. /\ st \in Contract!SessionState
      /\ st.status = "Open" /\ st.config = old.config /\ st.sequence = Count + 1
      /\ st.offerCount = Count + 1 /\ st.activeOffer = o
      /\ st.activeProposer = Address(p) /\ st.activeQuote = price
      /\ st.activeValidUntil = until
  <2>1. PICK n \in Nat : n = old.offerCount + 1
    BY <1>1 DEF Count
  <2>2. st = [old EXCEPT !.sequence = o.sequence, !.offerCount = n,
                         !.activeOffer = o, !.activeProposer = o.proposer,
                         !.activeQuote = o.quote, !.activeValidUntil = o.validUntil,
                         !.activeSequence = o.sequence]
    BY <2>1
  <2>3. o.sequence \in Nat
    BY <1>1, <1>4
  <2>4. n = Count + 1
    BY <2>1 DEF Count
  <2> HIDE DEF st, old
  <2>5. /\ st \in Contract!SessionState
        /\ st.status = old.status /\ st.config = old.config
        /\ st.sequence = o.sequence /\ st.offerCount = n
        /\ st.activeOffer = o /\ st.activeProposer = o.proposer
        /\ st.activeQuote = o.quote /\ st.activeValidUntil = o.validUntil
    BY <1>1, <1>2, <1>3, <1>4, <1>5, <2>2, <2>3 DEF Contract!SessionState
  <2> QED
    BY <1>4, <1>6, <2>4, <2>5
<1> HIDE DEF st
<1>8. session'[SessionId].config = Config(setting)
  BY <1>1, <1>6, <1>7
<1>9. log' = [log EXCEPT ![SessionId] = Append(@, e)]
  BY <1>6, <1>8 DEF Contract!Emit
<1>10. e \in Contract!Event
  BY <1>1, <1>2, <1>5 DEF Contract!Event
<1>11. /\ e.kind = "OfferRecorded" /\ e.sequence = Count + 1 /\ e.actor = Address(p)
       /\ e.offer = o
  OBVIOUS
<1> HIDE DEF e
<1>12. Status = "Open" /\ Count # setting.terms.maxOffers
  BY <1>1, <1>6 DEF Status, Count
<1> QED
  BY ZenonT(60), <1>4, <1>5, <1>6, <1>7, <1>9, <1>10, <1>11, <1>12, EntryAdds

(* acceptAndSettle of what a party signed.                                 *)
LEMMA AcceptanceMined ==
    ASSUME ChainInv, EndingInv, setting' = setting,
           NEW p, p = Mover(Count + 1), Count > 0,
           Within(p, Offers[Count].quote),
           Contract!AcceptAndSettle(AcceptMessage(p, Count + 1, Offers[Count]), Address(p))
    PROVE  /\ ChainInv' /\ EndingInv'
           /\ Offers' = Offers /\ Count' = Count /\ Status' = "Settled"
<1> DEFINE m == AcceptMessage(p, Count + 1, Offers[Count])
           o == m.offer
           old == session[SessionId]
           price == Offers[Count].quote
           st == [old EXCEPT !.status = "Settled",
                             !.sequence = m.sequence,
                             !.activeOffer = NoOffer,
                             !.activeProposer = ZeroAddress,
                             !.activeQuote = 0,
                             !.activeValidUntil = 0,
                             !.activeSequence = 0]
           entry == [kind |-> "SettlementCompleted", config |-> Config(setting),
                     sequence |-> Count + 1, actor |-> Address(p), offer |-> o,
                     at |-> now]
<1>1. /\ Count \in Nat /\ now \in Nat /\ old \in Contract!SessionState
      /\ session \in [{SessionId} -> Contract!SessionState]
      /\ balance \in [Contract!Tokens -> [{Buyer, Seller} -> Nat]]
      /\ allowance \in [Contract!Tokens -> [{Buyer, Seller} -> Nat]]
      /\ old.config = Config(setting) /\ Config(setting) \in Contract!Config
      /\ Config(setting).buyer = Buyer /\ Config(setting).seller = Seller
      /\ Config(setting).baseAmount = setting.terms.base
      /\ setting.terms.base \in Nat
  BY Stored, Configured, SettingTyped DEF ChainInv
<1>2. p \in Parties /\ Address(p) \in {Buyer, Seller}
  BY <1>1, Movers, Addresses DEF Parties
<1>3. /\ Offers[Count].sequence = Count /\ Offers[Count].proposer = Mover(Count)
      /\ price \in Nat /\ Offers[Count].validUntil \in Nat
      /\ price = Events[Count].offer.quote /\ Within(Mover(Count), price)
  <2>1. Count \in 1..Count
    BY <1>1
  <2> QED
    BY <2>1, OffersTrail, Trailed
<1>4. /\ m.session = SessionId /\ m.config = Config(setting) /\ m.sequence = Count + 1
      /\ m.actor = Address(p)
      /\ o = OfferMessage(Mover(Count), Count, price, Offers[Count].validUntil)
  BY <1>3 DEF AcceptMessage
<1>5. o \in Contract!Offer /\ o.quote = price
  <2> HIDE DEF o, price, m
  <2>1. Mover(Count) \in Parties /\ Address(Mover(Count)) \in {Buyer, Seller}
    BY SMTT(30), <1>1, Movers, Addresses DEF Parties
  <2> QED
    BY <1>1, <1>3, <1>4, <2>1 DEF OfferMessage, Contract!Offer
<1> HIDE DEF m, price
<1>6. /\ old.status = "Open" /\ old.activeQuote = price
      /\ Contract!Covers("quote", Buyer, price)
      /\ Contract!Covers("base", Seller, setting.terms.base)
      /\ session' = [session EXCEPT ![SessionId] = st]
      /\ balance' =
            [balance EXCEPT !["quote"] = Contract!Moved(@, Buyer, Seller, price),
                            !["base"] = Contract!Moved(@, Seller, Buyer,
                                                       setting.terms.base)]
      /\ allowance' =
            [allowance EXCEPT !["quote"][Buyer] = @ - price,
                              !["base"][Seller] = @ - setting.terms.base]
      /\ Contract!Emit(SessionId, "SettlementCompleted", Count + 1, Address(p), o)
      /\ now' = now
  <2>1. old.status = "Open"
    BY <1>4 DEF Contract!AcceptAndSettle, Contract!VerifyCommon, m
  <2>2. old.activeQuote = price
    BY <1>3, <2>1 DEF ChainInv, Carried, Status
  <2> QED
    BY ZenonT(60), <1>1, <1>4, <2>1, <2>2 DEF Contract!AcceptAndSettle, m
<1>7. /\ st \in Contract!SessionState
      /\ st.status = "Settled" /\ st.config = old.config /\ st.offerCount = Count
  <2>1. old.offerCount = Count /\ m.sequence \in Nat
    BY <1>1, <1>4 DEF Count
  <2> HIDE DEF old
  <2> QED
    BY <1>1, <2>1 DEF Contract!SessionState, Contract!Statuses
<1> HIDE DEF st
<1>8. session'[SessionId].config = Config(setting)
  BY <1>1, <1>6, <1>7
<1>9. log' = [log EXCEPT ![SessionId] = Append(@, entry)]
  BY <1>6, <1>8 DEF Contract!Emit
<1>10. entry \in Contract!Event
  <2> HIDE DEF o
  <2> QED
    BY <1>1, <1>2, <1>5 DEF Contract!Event
<1>11. /\ entry.kind = "SettlementCompleted" /\ entry.actor = Address(p)
       /\ entry.offer.quote = price
  BY <1>5
<1> HIDE DEF entry
<1> PICK e \in Contract!Event : e = entry
  BY <1>10
<1>12. /\ balance'["quote"][Buyer] = balance["quote"][Buyer] - price
       /\ balance'["base"][Seller] = balance["base"][Seller] - setting.terms.base
       /\ balance' \in [Contract!Tokens -> [{Buyer, Seller} -> Nat]]
       /\ allowance' \in [Contract!Tokens -> [{Buyer, Seller} -> Nat]]
  <2>1. Contract!Tokens = {"base", "quote"}
    BY DEF Contract!Tokens
  <2>2. /\ balance["quote"] \in [{Buyer, Seller} -> Nat]
        /\ balance["base"] \in [{Buyer, Seller} -> Nat]
        /\ allowance["quote"] \in [{Buyer, Seller} -> Nat]
        /\ allowance["base"] \in [{Buyer, Seller} -> Nat]
    BY <1>1, <2>1
  <2>3. /\ balance["quote"][Buyer] >= price
        /\ allowance["quote"][Buyer] >= price
        /\ balance["base"][Seller] >= setting.terms.base
        /\ allowance["base"][Seller] >= setting.terms.base
    BY <1>6 DEF Contract!Covers
  <2> DEFINE paid == Contract!Moved(balance["quote"], Buyer, Seller, price)
             given == Contract!Moved(balance["base"], Seller, Buyer, setting.terms.base)
             left == [allowance["quote"] EXCEPT ![Buyer] = @ - price]
             kept == [allowance["base"] EXCEPT ![Seller] = @ - setting.terms.base]
  <2>4. /\ paid \in [{Buyer, Seller} -> Nat]
        /\ paid[Buyer] = balance["quote"][Buyer] - price
    BY <1>3, <2>2, <2>3, PartiesAssumption DEF Contract!Moved
  <2>5. /\ given \in [{Buyer, Seller} -> Nat]
        /\ given[Seller] = balance["base"][Seller] - setting.terms.base
    BY <1>1, <2>2, <2>3, PartiesAssumption DEF Contract!Moved
  <2>6. left \in [{Buyer, Seller} -> Nat] /\ kept \in [{Buyer, Seller} -> Nat]
    BY <1>1, <1>3, <2>2, <2>3
  <2>7. /\ balance' = [balance EXCEPT !["quote"] = paid, !["base"] = given]
        /\ allowance' = [allowance EXCEPT !["quote"] = left, !["base"] = kept]
    BY <1>1, <1>6, <2>1
  <2> HIDE DEF paid, given, left, kept
  <2>8. balance'["quote"] = paid /\ balance'["base"] = given
    BY <1>1, <2>1, <2>7
  <2>9. /\ balance' \in [Contract!Tokens -> [{Buyer, Seller} -> Nat]]
        /\ allowance' \in [Contract!Tokens -> [{Buyer, Seller} -> Nat]]
    BY <1>1, <2>4, <2>5, <2>6, <2>7
  <2> QED
    BY <2>4, <2>5, <2>8, <2>9
<1>13. Spent(e.offer.quote)'
  <2>1. /\ balance["quote"][Buyer] = setting.holdings["buyer"]["quote"]
        /\ balance["base"][Seller] = setting.holdings["seller"]["base"]
    BY <1>6 DEF EndingInv, Unspent, Status
  <2> QED
    BY <1>11, <1>12, <2>1 DEF Spent
<1>14. \A q \in Parties : Within(q, price)
  <2>1. {Mover(Count), Mover(Count + 1)} = Parties
    BY <1>1, Movers DEF Parties
  <2> QED
    BY <1>3, <2>1 DEF price
<1>15. Status = "Open"
  BY <1>6 DEF Status
<1> QED
  <2>1. log' = [log EXCEPT ![SessionId] = Append(@, e)]
    BY <1>9
  <2>2. e.kind = "SettlementCompleted" /\ e.actor = Address(Mover(Count + 1))
        /\ \A q \in Parties : Within(q, e.offer.quote)
    BY <1>11, <1>14
  <2> QED
    BY <1>6, <1>7, <1>12, <1>13, <1>15, <2>1, <2>2, EntryEnds

(* An entry without an offer, at the time it is made.                      *)
LEMMA EndEntry ==
    ASSUME ChainInv, NEW kind, NEW sequence \in Nat, NEW actor,
           kind \in {"SessionClosed", "SessionExpired", "SessionAborted"},
           actor \in {Buyer, Seller, ZeroAddress, Operator}
    PROVE  [kind |-> kind, config |-> Config(setting), sequence |-> sequence,
            actor |-> actor, offer |-> NoOffer, at |-> now] \in Contract!Event
<1>1. Config(setting) \in Contract!Config /\ now \in Nat
  BY Configured, Stored DEF ChainInv
<1> QED
  BY <1>1 DEF Contract!Event

(* closeSession of what a party signed.                                    *)
LEMMA CloseMined ==
    ASSUME ChainInv, EndingInv, setting' = setting,
           NEW p, p = Mover(Count + 1), NEW reason,
           Agreeable(setting) => Count > 0 /\ Offers[Count].validUntil <= now,
           Contract!CloseSession(CloseMessage(p, Count + 1, reason), Address(p))
    PROVE  /\ ChainInv' /\ EndingInv'
           /\ Offers' = Offers /\ Count' = Count /\ Status' = "Closed"
<1> DEFINE m == CloseMessage(p, Count + 1, reason)
           old == session[SessionId]
           st == [old EXCEPT !.status = "Closed", !.sequence = m.sequence]
           entry == [kind |-> "SessionClosed", config |-> Config(setting),
                     sequence |-> Count + 1, actor |-> Address(p), offer |-> NoOffer,
                     at |-> now]
<1>1. /\ Count \in Nat /\ now \in Nat /\ old \in Contract!SessionState
      /\ session \in [{SessionId} -> Contract!SessionState]
      /\ balance \in [Contract!Tokens -> [{Buyer, Seller} -> Nat]]
      /\ allowance \in [Contract!Tokens -> [{Buyer, Seller} -> Nat]]
      /\ old.config = Config(setting)
  BY Stored DEF ChainInv
<1>2. p \in Parties /\ Address(p) \in {Buyer, Seller}
  BY <1>1, Movers, Addresses DEF Parties
<1>3. m.session = SessionId /\ m.sequence = Count + 1 /\ m.actor = Address(p)
  BY DEF CloseMessage
<1> HIDE DEF m
<1>4. /\ old.status = "Open"
      /\ session' = [session EXCEPT ![SessionId].status = "Closed",
                                    ![SessionId].sequence = m.sequence]
      /\ Contract!Emit(SessionId, "SessionClosed", Count + 1, Address(p), NoOffer)
      /\ UNCHANGED <<now, balance, allowance>>
  BY <1>3 DEF Contract!CloseSession, Contract!VerifyCommon, Contract!tokens, m
<1>5. session' = [session EXCEPT ![SessionId] = st]
  BY <1>1, <1>4
<1>6. /\ st \in Contract!SessionState
      /\ st.status = "Closed" /\ st.config = old.config /\ st.offerCount = Count
  <2>1. old.offerCount = Count /\ m.sequence \in Nat
    BY <1>1, <1>3 DEF Count
  <2> HIDE DEF old
  <2> QED
    BY <1>1, <2>1 DEF Contract!SessionState, Contract!Statuses
<1> HIDE DEF st
<1>7. session'[SessionId].config = Config(setting)
  BY <1>1, <1>5, <1>6
<1>8. log' = [log EXCEPT ![SessionId] = Append(@, entry)]
  BY <1>4, <1>7 DEF Contract!Emit
<1>9. entry \in Contract!Event
  <2>1. Count + 1 \in Nat /\ Address(p) \in {Buyer, Seller, ZeroAddress, Operator}
    BY <1>1, <1>2
  <2> QED
    BY <2>1, EndEntry
<1>10. entry.kind = "SessionClosed" /\ entry.at = now
  OBVIOUS
<1> HIDE DEF entry
<1> PICK e \in Contract!Event : e = entry
  BY <1>9
<1>11. Agreeable(setting) => Count > 0 /\ Events[Count].offer.validUntil <= e.at
  <2>1. Count > 0 => Offers[Count].validUntil = Events[Count].offer.validUntil
    BY <1>1 DEF Offers
  <2> QED
    BY <1>10, <2>1
<1>12. Status = "Open"
  BY <1>4 DEF Status
<1> QED
  <2>1. log' = [log EXCEPT ![SessionId] = Append(@, e)]
    BY <1>8
  <2>2. /\ balance' = balance /\ allowance' = allowance /\ now' = now
        /\ balance' \in [Contract!Tokens -> [{Buyer, Seller} -> Nat]]
        /\ allowance' \in [Contract!Tokens -> [{Buyer, Seller} -> Nat]]
    BY <1>1, <1>4
  <2>3. e.kind = "SessionClosed"
    BY <1>10
  <2> QED
    BY <1>5, <1>6, <1>11, <1>12, <2>1, <2>2, <2>3, EntryEnds

(* abortSession by the operator, and expireSession by anyone.              *)
LEMMA CutShort ==
    ASSUME ChainInv, EndingInv, setting' = setting,
           Contract!AbortSession(SessionId) \/ Contract!ExpireSession(SessionId)
    PROVE  /\ ChainInv' /\ EndingInv' /\ now' = now /\ Status = "Open"
           /\ Offers' = Offers /\ Count' = Count
           /\ Status' \in {"Expired", "Aborted"}
<1> DEFINE old == session[SessionId]
<1>1. /\ now \in Nat /\ old \in Contract!SessionState /\ old.offerCount = Count
      /\ session \in [{SessionId} -> Contract!SessionState]
      /\ balance \in [Contract!Tokens -> [{Buyer, Seller} -> Nat]]
      /\ allowance \in [Contract!Tokens -> [{Buyer, Seller} -> Nat]]
      /\ old.config = Config(setting)
  BY Stored DEF ChainInv, Count
<1>2. PICK kind \in {"SessionExpired", "SessionAborted"},
           actor \in {ZeroAddress, Operator}, status \in {"Expired", "Aborted"} :
          /\ old.status = "Open"
          /\ session' = [session EXCEPT ![SessionId].status = status]
          /\ Contract!Emit(SessionId, kind, 0, actor, NoOffer)
          /\ UNCHANGED <<now, balance, allowance>>
  BY DEF Contract!AbortSession, Contract!ExpireSession, Contract!tokens
<1> DEFINE st == [old EXCEPT !.status = status]
           entry == [kind |-> kind, config |-> Config(setting), sequence |-> 0,
                     actor |-> actor, offer |-> NoOffer, at |-> now]
<1>3. session' = [session EXCEPT ![SessionId] = st]
  BY <1>1, <1>2
<1>4. /\ st \in Contract!SessionState
      /\ st.status = status /\ st.config = old.config /\ st.offerCount = Count
  <2> HIDE DEF old
  <2> QED
    BY <1>1 DEF Contract!SessionState, Contract!Statuses
<1> HIDE DEF st
<1>5. session'[SessionId].config = Config(setting)
  BY <1>1, <1>3, <1>4
<1>6. log' = [log EXCEPT ![SessionId] = Append(@, entry)]
  BY <1>2, <1>5 DEF Contract!Emit
<1>7. entry \in Contract!Event /\ entry.kind = kind
  BY EndEntry
<1> HIDE DEF entry
<1> PICK e \in Contract!Event : e = entry
  BY <1>7
<1>8. Status = "Open"
  BY <1>2 DEF Status
<1> QED
  <2>1. log' = [log EXCEPT ![SessionId] = Append(@, e)]
    BY <1>6
  <2>2. /\ balance' = balance /\ allowance' = allowance /\ now' = now
        /\ balance' \in [Contract!Tokens -> [{Buyer, Seller} -> Nat]]
        /\ allowance' \in [Contract!Tokens -> [{Buyer, Seller} -> Nat]]
    BY <1>1, <1>2
  <2>3. e.kind \in {"SessionClosed", "SessionExpired", "SessionAborted"}
    BY <1>7
  <2> QED
    BY <1>3, <1>4, <1>8, <2>1, <2>2, <2>3, EntryEnds

-----------------------------------------------------------------------------
(* What an answer can be *)

LEMMA WrittenLegible ==
    ASSUME NEW r, Legible(r)
    PROVE  Legible(AsWritten(r))
<1>1. CASE Is("text", r)
  <2>1. AsWritten(r) = [string |-> r.text]
    BY <1>1 DEF AsWritten
  <2>2. ParseDecision(AsWritten(r)) = Refused("schema_error")
    BY <2>1 DEF ParseDecision, Is
  <2> QED
    BY <2>2, RefusedOrNot DEF Legible
<1>2. CASE ~ Is("text", r)
  BY <1>2 DEF AsWritten
<1> QED
  BY <1>1, <1>2

LEMMA ResponsesLegible ==
    ASSUME NEW o, NEW r \in Responses(o)
    PROVE  Legible(r)
<1>1. CASE \E p \in Prices : r = Answer("offer", "quote_amount_minor", [amount |-> p])
  <2>1. PICK p \in Prices : r = Answer("offer", "quote_amount_minor", [amount |-> p])
    BY <1>1
  <2>2. ParseDecision(r) = ReadAmount([amount |-> p]) /\ p \in Nat
    BY <2>1, AnswersParse, AnswersAssumption
  <2>3. \/ \E x : ReadAmount([amount |-> p]) = Refused(x)
        \/ ReadAmount([amount |-> p]) = Proposed("offer", p)
    BY DEF ReadAmount, Is
  <2> QED
    BY <2>2, <2>3, RefusedOrNot DEF Legible
<1>2. CASE \E i \in DOMAIN o.history :
              r = Answer("accept", "offer_hash", [digest |-> o.history[i].digest])
  BY <1>2, AnswersParse, RefusedOrNot DEF Legible
<1>3. CASE r = Answer("walk_away", "reason", [string |-> "terms_unacceptable"])
  <2>1. ParseDecision(r) = Proposed("walk_away", "terms_unacceptable")
    BY <1>3, AnswersParse DEF ReadReason, Is, Reasons
  <2> QED
    BY <2>1, RefusedOrNot DEF Legible
<1>4. CASE \E t \in Untravelled : r = [text |-> t]
  <2>1. ParseDecision(r) = Refused("schema_error")
    BY <1>4 DEF ParseDecision, Is
  <2> QED
    BY <2>1, RefusedOrNot DEF Legible
<1>5. CASE r \in Malformed
  <2>1. Is("refused", ParseDecision(r))
    BY <1>5, AnswersAssumption
  <2>2. ~ Is("action", ParseDecision(r))
    BY <2>1, Parsed, RefusedOrNot DEF Read
  <2> QED
    BY <2>2 DEF Legible
<1> QED
  BY <1>1, <1>2, <1>3, <1>4, <1>5 DEF Responses

(* What a script answers, the standing offer's digest filled in.           *)
LEMMA FilledLegible ==
    ASSUME NEW o, NEW r, Legible(r)
    PROVE  Legible(Fill(r, o))
BY AnswersParse, RefusedOrNot DEF Fill, Legible

-----------------------------------------------------------------------------
(* The turn *)

(* An observation stays one of this turn while no offer is recorded.       *)
LEMMA StillWatched ==
    ASSUME setting' = setting, Offers' = Offers, now \in Nat, now' \in Nat, now <= now',
           NEW o, Watched(o)
    PROVE  Watched(o)'
<1>1. 0..now \subseteq 0..now'
  OBVIOUS
<1> QED
  BY <1>1 DEF Watched

LEMMA StillSigns ==
    ASSUME setting' = setting, Offers' = Offers, Count' = Count,
           Count > 0 => Offers[Count].validUntil \in Nat,
           now \in Nat, now' \in Nat, now <= now', NEW m, NEW o, Signs(m, o)
    PROVE  Signs(m, o)'
<1>1. \A p, x : Within(p, x)' = Within(p, x)
  BY DEF Within
<1>2. \A i, x : OnSchedule(i, x)' = OnSchedule(i, x)
  BY DEF OnSchedule
<1>3. Agreeable(setting)' = Agreeable(setting)
  BY DEF Agreeable
<1>4. CASE m.kind = "offer" /\ m.validUntil \in Nat
           /\ Within(m.actor, m.value) /\ OnSchedule(Count + 1, m.value)
  BY <1>1, <1>2, <1>4 DEF Signs
<1>5. CASE m.kind = "accept" /\ Count > 0
           /\ m.value = Offers[Count] /\ Within(m.actor, m.value.quote)
  BY <1>1, <1>5 DEF Signs
<1>6. CASE /\ m.kind = "walk_away" /\ m.value \in Reasons
           /\ Agreeable(setting) => Count > 0 /\ Offers[Count].validUntil <= now
  <2>1. Agreeable(setting) => Count > 0 /\ Offers[Count].validUntil <= now'
    BY <1>6
  <2> QED
    BY <1>3, <1>6, <2>1 DEF Signs
<1> QED
  BY <1>4, <1>5, <1>6 DEF Signs

LEMMA RunsOut ==
    ASSUME ChainInv
    PROVE  Count > 0 => Offers[Count].validUntil \in Nat
<1>1. Count > 0 => Count \in 1..Count
  BY Stored DEF ChainInv
<1> QED
  BY <1>1, OffersTrail, Trailed

(* The turn waits while the chain goes on without it.                      *)
LEMMA TurnStays ==
    ASSUME ChainInv, TurnInv, UNCHANGED <<setting, turn, previous, cause>>,
           Offers' = Offers, Count' = Count, now' \in Nat, now <= now',
           Status' # "Settled" \/ Status' = Status
    PROVE  TurnInv'
<1>1. now \in Nat
  BY Stored DEF ChainInv
<1> PICK o : o = turn.observation
  OBVIOUS
<1> PICK m : m = turn.message
  OBVIOUS
<1>2. turn'.phase = turn.phase /\ turn'.observation = o /\ turn'.message = m
  OBVIOUS
<1>3. turn' = Turn' /\ previous' \in [Parties -> Seq(Results)]
      /\ turn'.phase \in {"idle", "deciding", "calling", "signed"}
  BY DEF TurnInv, Turn
<1>4. turn'.phase # "idle" => cause' = "none" /\ Watched(turn.observation)'
  <2>1. turn.phase # "idle" => cause = "none" /\ Watched(o)
    BY DEF TurnInv
  <2>2. turn.phase # "idle" => Watched(o)'
    BY <1>1, <2>1, StillWatched
  <2> QED
    BY <1>2, <2>1, <2>2 DEF Watched
<1>5. turn'.phase = "signed" => Signs(turn.message, turn.observation)'
  <2>1. turn.phase = "signed" => Signs(m, o)
    BY DEF TurnInv
  <2>2. turn.phase = "signed" => Signs(m, o)'
    BY <1>1, <2>1, RunsOut, StillSigns
  <2> QED
    BY <1>2, <2>2 DEF Signs, CheckSigned, TermsHold
<1>6. Status' = "Settled" => turn'.phase = "idle" /\ cause' = "none"
  BY DEF TurnInv
<1> QED
  BY <1>3, <1>4, <1>5, <1>6 DEF TurnInv

(* The party that decides, and what it knows.                              *)
LEMMA Decider ==
    ASSUME ChainInv, TurnInv, turn.phase # "idle"
    PROVE  /\ Role = Mover(Count + 1) /\ Role \in Parties /\ Role \in Guards
           /\ cause = "none" /\ Status # "Settled" /\ Watched(turn.observation)
           /\ Policy \in {"deterministic", "model", "fixture"}
<1>1. PICK o : o = turn.observation
  OBVIOUS
<1>2. Watched(o) /\ cause = "none" /\ Status # "Settled"
  BY <1>1 DEF TurnInv
<1>3. o.role = Mover(Count + 1) /\ o.role \in Parties
  BY <1>2, Seen
<1> QED
  BY <1>1, <1>2, <1>3, PartiesAssumption, SettingTyped DEF Role, Policy, ChainInv

LEMMA Recalled ==
    ASSUME previous \in [Parties -> Seq(Results)], Role \in Parties,
           NEW result \in Results, Recall(result)
    PROVE  previous' \in [Parties -> Seq(Results)]
<1>1. Append(previous[Role], result) \in Seq(Results)
  BY Appended
<1> QED
  BY <1>1 DEF Recall

(* A turn ends, one way or another.                                        *)
LEMMA TurnEnds ==
    ASSUME TurnInv, NEW why, Finish(why), previous' \in [Parties -> Seq(Results)],
           Status' = "Settled" => why = "none"
    PROVE  TurnInv' /\ turn'.phase = "idle"
<1>1. turn' = [phase |-> "idle", observation |-> NoObservation, attempt |-> 0,
               message |-> NoOffer]
  BY DEF TurnInv, Turn, Finish
<1>2. cause' = why
  BY DEF Finish
<1>3. turn' = Turn' /\ turn'.phase = "idle"
  BY <1>1 DEF Turn
<1> QED
  BY <1>2, <1>3 DEF TurnInv

(* A turn goes on with the same observation.                               *)
LEMMA TurnGoesOn ==
    ASSUME ChainInv, TurnInv, turn.phase # "idle", UNCHANGED <<setting, cause, chainVars>>,
           previous' \in [Parties -> Seq(Results)], turn' = Turn',
           turn'.phase \in {"deciding", "calling", "signed"},
           turn'.observation = turn.observation,
           turn'.phase = "signed" => Signs(turn.message, turn.observation)'
    PROVE  TurnInv'
<1>1. Offers' = Offers /\ Status' = Status /\ now \in Nat /\ now' = now
  BY Stored DEF ChainInv, Offers, Count, Events, Status, chainVars
<1>2. cause = "none" /\ Status # "Settled" /\ Watched(turn.observation)
  BY DEF TurnInv
<1>3. Watched(turn.observation)'
  <2> PICK o : o = turn.observation
    OBVIOUS
  <2>1. Watched(o) /\ o = turn'.observation
    BY <1>2
  <2>2. Watched(o)'
    BY <1>1, <2>1, StillWatched
  <2> QED
    BY <2>1, <2>2 DEF Watched
<1> QED
  BY <1>1, <1>2, <1>3 DEF TurnInv

(* The validator's verdict on an answer that would be signed in order.     *)
LEMMA Judged ==
    ASSUME ChainInv, TurnInv, turn.phase # "idle", UNCHANGED <<setting, chainVars>>,
           NEW r, Judge(r),
           Accepted(Validate(r, turn.observation)) =>
              Signs(SignedMessage(Validate(r, turn.observation), turn.observation,
                                  setting.terms.lifetime), turn.observation)
    PROVE  TurnInv' /\ turn'.phase # "calling"
<1> PICK o : o = turn.observation
  OBVIOUS
<1> PICK v : v = Validate(r, o)
  OBVIOUS
<1> PICK m : m = SignedMessage(v, o, setting.terms.lifetime)
  OBVIOUS
<1>1. Role \in Parties /\ previous \in [Parties -> Seq(Results)] /\ turn = Turn
  BY Decider DEF TurnInv
<1>2. RecallRejected(r) => previous' \in [Parties -> Seq(Results)]
  BY <1>1, Recalled DEF RecallRejected, Results
<1>3. Status' = Status /\ Status # "Settled"
  BY Decider DEF Status, chainVars
<1>4. \/ /\ Accepted(v) /\ turn' = [turn EXCEPT !.phase = "signed", !.message = m]
         /\ UNCHANGED <<previous, cause>>
      \/ /\ turn' = [turn EXCEPT !.phase = "deciding", !.attempt = turn.attempt + 1]
         /\ RecallRejected(r) /\ UNCHANGED cause
      \/ RecallRejected(r) /\ Finish(FailureCause("repair_exhausted"))
  BY DEF Judge
<1>5. CASE /\ Accepted(v) /\ turn' = [turn EXCEPT !.phase = "signed", !.message = m]
           /\ UNCHANGED <<previous, cause>>
  <2>1. /\ turn' = [phase |-> "signed", observation |-> turn.observation,
                    attempt |-> turn.attempt, message |-> m]
    BY <1>1, <1>5 DEF Turn
  <2>2. turn' = Turn' /\ turn'.phase = "signed" /\ turn'.observation = o
        /\ turn'.message = m
    BY <2>1 DEF Turn
  <2>3. Signs(m, o)
    BY <1>5
  <2>4. /\ Offers' = Offers /\ Count' = Count /\ now \in Nat /\ now' = now
    BY Stored DEF ChainInv, Offers, Count, Events, chainVars
  <2>5. Signs(m, o)'
    BY <2>3, <2>4, RunsOut, StillSigns
  <2>6. Signs(turn.message, turn.observation)'
    BY <2>2, <2>5 DEF Signs, CheckSigned, TermsHold
  <2> QED
    BY <1>1, <1>5, <2>2, <2>6, TurnGoesOn
<1>6. CASE /\ turn' = [turn EXCEPT !.phase = "deciding", !.attempt = turn.attempt + 1]
           /\ RecallRejected(r) /\ UNCHANGED cause
  <2>1. /\ turn' = [phase |-> "deciding", observation |-> turn.observation,
                    attempt |-> turn.attempt + 1, message |-> turn.message]
    BY <1>1, <1>6 DEF Turn
  <2>2. turn' = Turn' /\ turn'.phase = "deciding" /\ turn'.observation = turn.observation
    BY <2>1 DEF Turn
  <2> QED
    BY <1>2, <1>6, <2>2, TurnGoesOn
<1>7. CASE RecallRejected(r) /\ Finish(FailureCause("repair_exhausted"))
  BY <1>2, <1>3, <1>7, TurnEnds
<1> QED
  BY <1>4, <1>5, <1>6, <1>7

-----------------------------------------------------------------------------
(* The books *)

(* Nothing is called, answered or lost.                                    *)
LEMMA BooksStay ==
    ASSUME BooksInv, UNCHANGED <<setting, modelVars, budgetVars>>,
           turn' = turn \/ (turn.phase # "calling" /\ turn'.phase # "calling")
    PROVE  BooksInv'
<1>1. BudgetInv'
  BY BudgetNext_Inv DEF BooksInv
<1>2. CASE turn' = turn
  BY <1>1, <1>2 DEF BooksInv, InCall, Role, Policy, modelVars, budgetVars
<1>3. CASE turn.phase # "calling" /\ turn'.phase # "calling"
  BY <1>1, <1>3 DEF BooksInv, InCall, modelVars, budgetVars
<1> QED
  BY <1>2, <1>3

(* An entry of a script is played, and the guard refuses its call.         *)
LEMMA BooksPlayed ==
    ASSUME BooksInv, UNCHANGED <<setting, ledger, budgetVars>>,
           turn.phase # "calling", turn'.phase # "calling",
           NEW p \in Parties, played[p] < Len(setting.script[p]),
           setting \in Settings, played' = [played EXCEPT ![p] = @ + 1]
    PROVE  BooksInv'
<1>1. BudgetInv'
  BY BudgetNext_Inv DEF BooksInv
<1>2. \A q \in Parties : Len(setting.script[q]) \in Nat /\ played[q] \in Nat
  BY SettingTyped DEF BooksInv, Playable
<1>3. /\ played' \in [Parties -> Nat]
      /\ \A q \in Parties : played'[q] <= Len(setting.script[q])
  BY <1>2 DEF BooksInv
<1> QED
  BY <1>1, <1>3 DEF BooksInv, InCall, budgetVars

(* The guard admits a call, of a model or of an entry played before.       *)
LEMMA BooksAdmit ==
    ASSUME BooksInv, setting \in Settings, UNCHANGED <<setting, ledger>>,
           turn.phase # "calling", Role \in Parties, Role \in Guards,
           NEW q \in Requests, Admit(Role, q),
           turn'.phase = "calling", turn'.observation = turn.observation,
           \/ played' = played /\ Policy = "model"
           \/ /\ played[Role] < Len(setting.script[Role])
              /\ played' = [played EXCEPT ![Role] = @ + 1]
    PROVE  BooksInv'
<1>1. BudgetInv'
  BY Admit_Inv DEF BooksInv
<1>2. \A p \in Parties : Len(setting.script[p]) \in Nat /\ played[p] \in Nat
  BY SettingTyped DEF BooksInv, Playable
<1>3. Role' = Role /\ Policy' = Policy
  BY DEF Role, Policy
<1>4. /\ played' \in [Parties -> Nat]
      /\ \A p \in Parties : played'[p] <= Len(setting.script[p])
      /\ Policy # "model" => played'[Role] > 0
  BY <1>2 DEF BooksInv
<1>5. Policy # "fixture" \/ played'[Role] > 0
  BY <1>4
<1>6. calls'["buyer"] + calls'["seller"] = calls["buyer"] + calls["seller"] + 1
  <2>1. /\ calls \in [Parties -> Nat] /\ calls' = [calls EXCEPT ![Role] = @ + 1]
        /\ "buyer" \in Parties /\ "seller" \in Parties
        /\ Role = "buyer" \/ Role = "seller"
    BY PartiesAssumption DEF BooksInv, BudgetInv, BudgetTypeOK, Admit, Parties, Roles
  <2> QED
    BY <2>1
<1>7. billed' = billed
  BY DEF Admit
<1>8. InCall("fixture")' => (played[Role])' > 0
  BY <1>3, <1>5 DEF InCall
<1>9. ledger'.calls + (IF turn'.phase = "calling" THEN 1 ELSE 0)
         = calls'["buyer"] + calls'["seller"]
  BY <1>6 DEF BooksInv
<1> QED
  BY <1>1, <1>4, <1>7, <1>8, <1>9 DEF BooksInv

(* A call is over: answered with a cost, or lost at an unknown one.        *)
LEMMA BooksSettled ==
    ASSUME BooksInv, UNCHANGED <<setting, played>>,
           turn.phase = "calling", turn'.phase # "calling",
           Role \in Parties, Role \in Guards, NEW cost \in Nat, NEW reported,
           \/ Settle(Role, cost) /\ reported = cost
           \/ SettleLost(Role, cost) /\ reported = Nothing,
           RecordCall(reported)
    PROVE  BooksInv'
<1>1. BudgetInv'
  BY Settled_Inv DEF BooksInv
<1>2. /\ calls \in [Parties -> Nat] /\ billed \in [Parties -> Nat]
      /\ charge[Role] \in Requests
  BY PartiesAssumption DEF BooksInv, BudgetInv, BudgetTypeOK, Settle, SettleLost
<1>3. Bound[charge[Role]] \in Nat /\ cost <= Bound[charge[Role]]
  BY <1>2, BudgetAssumption, PricedAssumption DEF Settle, SettleLost
<1> PICK bound \in Nat : bound = Bound[charge[Role]]
  BY <1>3
<1>4. /\ calls' = calls /\ billed' = [billed EXCEPT ![Role] = @ + cost]
  BY DEF Settle, SettleLost
<1>5. /\ billed'["buyer"] + billed'["seller"] = billed["buyer"] + billed["seller"] + cost
      /\ billed["buyer"] + billed["seller"] \in Nat
  <2>1. /\ "buyer" \in Parties /\ "seller" \in Parties
        /\ Role = "buyer" \/ Role = "seller"
    BY DEF Parties, Roles
  <2> QED
    BY <1>2, <1>4, <2>1
<1>6. /\ ledger.calls \in Nat /\ ledger.estimated \in Nat
      /\ ledger.reported \in {Nothing, billed["buyer"] + billed["seller"]}
      /\ ledger.calls + 1 = calls["buyer"] + calls["seller"]
      /\ billed["buyer"] + billed["seller"] <= ledger.estimated
  BY DEF BooksInv
<1>7. ledger' = [calls |-> ledger.calls + 1,
                 estimated |-> Plus(ledger.estimated, bound),
                 reported |-> Plus(ledger.reported, reported)]
  BY DEF RecordCall, ModelCost
<1>8. Nothing \notin Int
  BY PartiesAssumption
<1>9. Plus(ledger.estimated, bound) = ledger.estimated + bound
  BY <1>6, <1>8 DEF Plus
<1>10. Plus(ledger.reported, reported)
          \in {Nothing, billed'["buyer"] + billed'["seller"]}
  BY <1>5, <1>6 DEF Plus
<1>11. /\ ledger'.calls = ledger.calls + 1
       /\ ledger'.estimated = ledger.estimated + bound
       /\ ledger'.reported \in {Nothing, billed'["buyer"] + billed'["seller"]}
       /\ ledger' = [calls |-> ledger'.calls, estimated |-> ledger'.estimated,
                     reported |-> ledger'.reported]
  BY <1>7, <1>9, <1>10
<1>12. /\ ledger'.calls \in Nat /\ ledger'.estimated \in Nat
       /\ ledger'.calls = calls'["buyer"] + calls'["seller"]
       /\ billed'["buyer"] + billed'["seller"] <= ledger'.estimated
  BY <1>3, <1>4, <1>5, <1>6, <1>11
<1>13. played' \in [Parties -> Nat] /\ \A p \in Parties : played'[p] <= Len(setting'.script[p])
  BY DEF BooksInv
<1>14. ledger'.calls + (IF turn'.phase = "calling" THEN 1 ELSE 0)
          = calls'["buyer"] + calls'["seller"]
  BY <1>12
<1>15. ~ InCall("fixture")'
  BY DEF InCall
<1> QED
  BY <1>1, <1>11, <1>12, <1>13, <1>14, <1>15 DEF BooksInv

-----------------------------------------------------------------------------
(* The steps *)

LEMMA ChainUntouched ==
    ASSUME ChainInv, EndingInv, UNCHANGED <<setting, chainVars>>
    PROVE  /\ ChainInv' /\ EndingInv' /\ Offers' = Offers /\ Count' = Count
           /\ Status' = Status /\ now' \in Nat /\ now <= now'
<1>1. now \in Nat /\ now' = now /\ UNCHANGED <<session, balance, allowance, log>>
  BY Stored DEF ChainInv, chainVars
<1> QED
  BY <1>1, ChainSame

LEMMA Begin_Inv ==
    ASSUME NegotiationInv, Begin
    PROVE  NegotiationInv'
<1>1. /\ turn.phase = "idle" /\ cause = "none" /\ Status = "Open"
      /\ now < setting.terms.expiresAt
      /\ UNCHANGED <<setting, previous, cause, modelVars, chainVars, budgetVars>>
  BY DEF Begin
<1>2. /\ ChainInv' /\ EndingInv' /\ Offers' = Offers /\ Status' = Status
      /\ now' = now /\ now \in Nat
  BY <1>1, ChainUntouched, Stored DEF NegotiationInv, ChainInv, chainVars
<1> PICK o : o = Build(setting.terms, RecordedOffers, now, setting.holdings,
                       setting.mandate, previous)
  OBVIOUS
<1>3. turn' = [turn EXCEPT !.phase = "deciding", !.observation = o, !.attempt = 1]
  BY DEF Begin
<1>4. turn' = [phase |-> "deciding", observation |-> o, attempt |-> 1,
               message |-> turn.message]
  <2>1. turn = Turn
    BY DEF NegotiationInv, TurnInv
  <2> QED
    BY <1>3, <2>1 DEF Turn
<1>5. Watched(o)'
  <2>1. o = Build(setting.terms, Offers, now, setting.holdings, setting.mandate, previous)
    BY RecordedAreOffers DEF NegotiationInv
  <2>2. previous \in [Parties -> Seq(Results)] /\ now \in 0..now'
    BY <1>2 DEF NegotiationInv, TurnInv
  <2> QED
    BY <1>1, <1>2, <2>1, <2>2 DEF Watched
<1>6. TurnInv'
  <2>1. /\ turn'.phase = "deciding" /\ turn'.observation = o /\ turn' = Turn'
    BY <1>4 DEF Turn
  <2>2. Watched(turn.observation)'
    BY <1>5, <2>1 DEF Watched
  <2> QED
    BY <1>1, <1>2, <2>1, <2>2 DEF NegotiationInv, TurnInv
<1>7. BooksInv'
  <2>1. turn'.phase = "deciding"
    BY <1>4
  <2> QED
    BY <1>1, <2>1, BooksStay DEF NegotiationInv
<1> QED
  BY <1>2, <1>6, <1>7 DEF NegotiationInv

LEMMA DecideDeterministic_Inv ==
    ASSUME NegotiationInv, DecideDeterministic
    PROVE  NegotiationInv'
<1>1. /\ turn.phase = "deciding" /\ Policy = "deterministic"
      /\ Judge(Choose(turn.observation))
      /\ UNCHANGED <<setting, modelVars, chainVars, budgetVars>>
  BY DEF DecideDeterministic
<1> PICK o : o = turn.observation
  OBVIOUS
<1>2. Accepted(Validate(Choose(o), o)) =>
          Signs(SignedMessage(Validate(Choose(o), o), o, setting.terms.lifetime), o)
  BY <1>1, Decider, ChosenSigns DEF NegotiationInv
<1>3. TurnInv' /\ turn'.phase # "calling"
  BY <1>1, <1>2, Judged DEF NegotiationInv
<1>4. BooksInv'
  BY <1>1, <1>3, BooksStay DEF NegotiationInv
<1> QED
  BY <1>1, <1>3, <1>4, ChainUntouched DEF NegotiationInv

(* A legible answer of a model or of a script is signed within the mandate.*)
LEMMA AnswerSigns ==
    ASSUME ChainInv, TurnInv, turn.phase # "idle", Policy # "deterministic",
           NEW r, Legible(r), Accepted(Validate(r, turn.observation))
    PROVE  Signs(SignedMessage(Validate(r, turn.observation), turn.observation,
                               setting.terms.lifetime), turn.observation)
<1> PICK o : o = turn.observation
  OBVIOUS
<1>1. Role = Mover(Count + 1) /\ Role \in Parties /\ Watched(o)
  BY Decider
<1>2. \A x : OnSchedule(Count + 1, x)
  BY <1>1 DEF OnSchedule, Policy
<1>3. ~ Agreeable(setting)
  BY <1>1 DEF Agreeable, Policy
<1> QED
  BY <1>1, <1>2, <1>3, JudgedSigns

(* An answer is settled with the guard, recorded and judged.               *)
LEMMA Answered_Inv ==
    ASSUME NegotiationInv, turn.phase = "calling", Policy # "deterministic",
           NEW r, Legible(r), NEW cost, Answered(r, cost)
    PROVE  NegotiationInv'
<1>1. /\ Settle(Role, cost) /\ RecordCall(cost) /\ Judge(AsWritten(r))
      /\ UNCHANGED <<setting, played, chainVars>>
  BY DEF Answered
<1>2. Role \in Parties /\ Role \in Guards
  BY Decider DEF NegotiationInv
<1>3. TurnInv' /\ turn'.phase # "calling"
  BY <1>1, WrittenLegible, AnswerSigns, Judged DEF NegotiationInv
<1>4. cost \in Nat
  BY <1>1, <1>2, BudgetAssumption
     DEF NegotiationInv, BooksInv, BudgetInv, BudgetTypeOK, Settle
<1>5. BooksInv'
  BY <1>1, <1>2, <1>3, <1>4, BooksSettled DEF NegotiationInv
<1> QED
  BY <1>1, <1>3, <1>5, ChainUntouched DEF NegotiationInv

(* The turn fails.                                                         *)
LEMMA FailTurn_Inv ==
    ASSUME NegotiationInv, turn.phase # "idle", NEW outcome, FailTurn(outcome)
    PROVE  /\ ChainInv' /\ EndingInv' /\ TurnInv'
           /\ turn'.phase = "idle" /\ setting' = setting
<1>1. /\ Finish(FailureCause(PolicyResult(outcome)))
      /\ UNCHANGED <<setting, previous, chainVars>>
  BY DEF FailTurn
<1>2. Status' = Status /\ Status # "Settled"
  BY <1>1, Decider DEF NegotiationInv, Status, chainVars
<1>3. previous' \in [Parties -> Seq(Results)]
  BY <1>1 DEF NegotiationInv, TurnInv
<1>4. TurnInv' /\ turn'.phase = "idle"
  BY <1>1, <1>2, <1>3, TurnEnds DEF NegotiationInv
<1> QED
  BY <1>1, <1>4, ChainUntouched DEF NegotiationInv

(* Nothing was sent, and the turn fails.                                   *)
LEMMA Unsent_Inv ==
    ASSUME NegotiationInv, turn.phase = "deciding", NEW outcome, FailTurn(outcome),
           UNCHANGED <<modelVars, budgetVars>>
    PROVE  NegotiationInv'
<1>1. /\ ChainInv' /\ EndingInv' /\ TurnInv' /\ turn'.phase = "idle"
      /\ setting' = setting
  BY FailTurn_Inv
<1>2. BooksInv'
  BY <1>1, BooksStay DEF NegotiationInv
<1> QED
  BY <1>1, <1>2 DEF NegotiationInv

(* A sent call is lost.                                                    *)
LEMMA Unanswered_Inv ==
    ASSUME NegotiationInv, NEW outcome, NEW cost, Unanswered(outcome, cost)
    PROVE  NegotiationInv'
<1>1. /\ turn.phase = "calling" /\ SettleLost(Role, cost) /\ RecordCall(Nothing)
      /\ FailTurn(outcome) /\ UNCHANGED played
  BY DEF Unanswered
<1>2. Role \in Parties /\ Role \in Guards
  BY <1>1, Decider DEF NegotiationInv
<1>3. /\ ChainInv' /\ EndingInv' /\ TurnInv' /\ turn'.phase = "idle"
      /\ setting' = setting
  BY <1>1, FailTurn_Inv
<1>4. cost \in Nat
  BY <1>1, <1>2, BudgetAssumption
     DEF NegotiationInv, BooksInv, BudgetInv, BudgetTypeOK, SettleLost
<1>5. BooksInv'
  BY <1>1, <1>2, <1>3, <1>4, BooksSettled DEF NegotiationInv
<1> QED
  BY <1>3, <1>5 DEF NegotiationInv

(* An admitted call is on its way.                                         *)
LEMMA Sent_Inv ==
    ASSUME NegotiationInv, turn.phase = "deciding",
           NEW q \in Requests, Admit(Role, q),
           turn' = [turn EXCEPT !.phase = "calling"],
           UNCHANGED <<setting, previous, cause, ledger, chainVars>>,
           \/ played' = played /\ Policy = "model"
           \/ /\ played[Role] < Len(setting.script[Role])
              /\ played' = [played EXCEPT ![Role] = @ + 1]
    PROVE  NegotiationInv'
<1>1. Role \in Parties /\ Role \in Guards
  BY Decider DEF NegotiationInv
<1>2. turn' = [phase |-> "calling", observation |-> turn.observation,
               attempt |-> turn.attempt, message |-> turn.message]
  <2>1. turn = Turn
    BY DEF NegotiationInv, TurnInv
  <2> QED
    BY <2>1 DEF Turn
<1>3. turn' = Turn' /\ turn'.phase = "calling" /\ turn'.observation = turn.observation
  BY <1>2 DEF Turn
<1>4. TurnInv'
  <2>1. previous' \in [Parties -> Seq(Results)]
    BY DEF NegotiationInv, TurnInv
  <2> QED
    BY <1>3, <2>1, TurnGoesOn DEF NegotiationInv
<1>5. BooksInv'
  BY <1>1, <1>3, BooksAdmit DEF NegotiationInv, ChainInv
<1> QED
  BY <1>4, <1>5, ChainUntouched DEF NegotiationInv

LEMMA ModelSteps_Inv ==
    ASSUME NegotiationInv,
           \/ \E q \in Requests : CallModel(q) \/ RefuseCall(q)
           \/ \E e \in Errors : CountFails(e)
           \/ \E cost \in UNION {Usages[q] : q \in Requests} \cup {0} :
                 \/ \E r \in Responses(turn.observation) : ModelAnswers(r, cost)
                 \/ \E e \in Errors : CallFails(e, cost)
                 \/ Unreadable(cost)
                 \/ DeadlineCutsCall(cost)
           \/ DeadlineCutsCount
    PROVE  NegotiationInv'
<1>1. CASE \E q \in Requests : CallModel(q)
  BY <1>1, Sent_Inv DEF CallModel, modelVars
<1>2. CASE \E q \in Requests : RefuseCall(q)
  BY <1>2, Unsent_Inv DEF RefuseCall
<1>3. CASE \E e \in Errors : CountFails(e)
  BY <1>3, Unsent_Inv DEF CountFails
<1>4. CASE DeadlineCutsCount
  BY <1>4, Unsent_Inv DEF DeadlineCutsCount
<1>5. ASSUME NEW cost, NEW r \in Responses(turn.observation), ModelAnswers(r, cost)
      PROVE  NegotiationInv'
  BY <1>5, ResponsesLegible, Answered_Inv DEF ModelAnswers, InCall
<1>6. ASSUME NEW cost, NEW e \in Errors, CallFails(e, cost)
      PROVE  NegotiationInv'
  BY <1>6, Unanswered_Inv DEF CallFails
<1>7. ASSUME NEW cost, Unreadable(cost) \/ DeadlineCutsCall(cost)
      PROVE  NegotiationInv'
  BY <1>7, Unanswered_Inv DEF Unreadable, DeadlineCutsCall
<1> QED
  BY <1>1, <1>2, <1>3, <1>4, <1>5, <1>6, <1>7

LEMMA FixtureCalls_Inv ==
    ASSUME NegotiationInv, FixtureCalls
    PROVE  NegotiationInv'
<1>1. /\ turn.phase = "deciding" /\ Policy = "fixture"
      /\ played[Role] < Len(setting.script[Role])
      /\ played' = [played EXCEPT ![Role] = @ + 1]
  BY DEF FixtureCalls, Script
<1> PICK entry : entry = Script[played[Role] + 1]
  OBVIOUS
<1>2. \/ /\ Admit(Role, entry.request)
         /\ turn' = [turn EXCEPT !.phase = "calling"]
         /\ UNCHANGED <<setting, previous, cause, ledger, chainVars>>
      \/ /\ FailTurn("budget_refused")
         /\ UNCHANGED <<ledger, budgetVars>>
  BY DEF FixtureCalls
<1>3. Role \in Parties
  BY <1>1, Decider DEF NegotiationInv
<1>4. entry.request \in Requests
  <2>1. Playable(setting.script[Role]) /\ played[Role] \in Nat
    BY <1>3, SettingTyped DEF NegotiationInv, ChainInv, BooksInv
  <2>2. played[Role] + 1 \in 1..Len(setting.script[Role])
    BY <1>1, <2>1 DEF Playable
  <2> QED
    BY <2>1, <2>2 DEF Playable, Script
<1>5. CASE /\ Admit(Role, entry.request)
           /\ turn' = [turn EXCEPT !.phase = "calling"]
           /\ UNCHANGED <<setting, previous, cause, ledger, chainVars>>
  BY <1>1, <1>4, <1>5, Sent_Inv
<1>6. CASE FailTurn("budget_refused") /\ UNCHANGED <<ledger, budgetVars>>
  <2>1. /\ ChainInv' /\ EndingInv' /\ TurnInv' /\ turn'.phase = "idle"
        /\ setting' = setting
    BY <1>1, <1>6, FailTurn_Inv
  <2>2. BooksInv'
    BY <1>1, <1>3, <1>6, <2>1, BooksPlayed DEF NegotiationInv, ChainInv
  <2> QED
    BY <2>1, <2>2 DEF NegotiationInv
<1> QED
  BY <1>2, <1>5, <1>6

LEMMA FixturePlays_Inv ==
    ASSUME NegotiationInv, FixturePlays
    PROVE  NegotiationInv'
<1> PICK entry : entry = Script[played[Role]]
  OBVIOUS
<1>1. /\ turn.phase = "calling" /\ Policy = "fixture" /\ InCall("fixture")
      /\ \/ \E outcome : Unanswered(outcome, 0)
         \/ /\ entry.kind = "answer"
            /\ Answered(Fill(entry.answer, turn.observation), entry.cost)
  BY DEF FixturePlays, InCall
<1>2. Role \in Parties
  BY <1>1, Decider DEF NegotiationInv
<1>3. entry.kind = "answer" => Legible(entry.answer)
  <2>1. /\ Playable(setting.script[Role]) /\ played[Role] \in Nat
        /\ played[Role] <= Len(setting.script[Role]) /\ played[Role] > 0
    BY <1>1, <1>2, SettingTyped DEF NegotiationInv, ChainInv, BooksInv
  <2>2. played[Role] \in 1..Len(setting.script[Role])
    BY <2>1 DEF Playable
  <2> QED
    BY <2>1, <2>2 DEF Playable, Script
<1> QED
  BY <1>1, <1>3, FilledLegible, Answered_Inv, Unanswered_Inv

LEMMA Mine_Inv ==
    ASSUME NegotiationInv, Mine
    PROVE  NegotiationInv'
<1>1. /\ turn.phase = "signed" /\ Execute(turn.message)
      /\ Recall(ResultFor[turn.message.kind]) /\ Finish(cause)
      /\ UNCHANGED <<setting, modelVars, budgetVars>>
  BY DEF Mine
<1> PICK m : m = turn.message
  OBVIOUS
<1> PICK o : o = turn.observation
  OBVIOUS
<1>2. Signs(m, o) /\ cause = "none" /\ Role \in Parties
  BY <1>1, Decider DEF NegotiationInv, TurnInv
<1>3. m.sequence = Count + 1 /\ m.actor = Mover(Count + 1)
  BY <1>2 DEF Signs
<1>4. ASSUME m.kind = "offer" PROVE ChainInv' /\ EndingInv'
  <2>1. /\ m.validUntil \in Nat /\ Within(m.actor, m.value)
        /\ OnSchedule(Count + 1, m.value)
    BY <1>2, <1>4 DEF Signs
  <2>2. Contract!RecordOffer(OfferMessage(m.actor, Count + 1, m.value, m.validUntil),
                             Address(m.actor))
    BY <1>1, <1>3, <1>4 DEF Execute
  <2> QED
    BY <1>1, <1>3, <2>1, <2>2, OfferMined DEF NegotiationInv
<1>5. ASSUME m.kind = "accept" PROVE ChainInv' /\ EndingInv'
  <2>1. /\ Count > 0 /\ m.value = Offers[Count] /\ Within(m.actor, m.value.quote)
    BY <1>2, <1>5 DEF Signs
  <2>2. Contract!AcceptAndSettle(AcceptMessage(m.actor, Count + 1, Offers[Count]),
                                 Address(m.actor))
    BY <1>1, <1>3, <1>5, <2>1 DEF Execute
  <2> QED
    BY <1>1, <1>3, <2>1, <2>2, AcceptanceMined DEF NegotiationInv
<1>6. ASSUME m.kind = "walk_away" PROVE ChainInv' /\ EndingInv'
  <2>1. Agreeable(setting) => Count > 0 /\ Offers[Count].validUntil <= now
    BY <1>2, <1>6 DEF Signs
  <2>2. Contract!CloseSession(CloseMessage(m.actor, Count + 1, m.value),
                              Address(m.actor))
    BY <1>1, <1>3, <1>6 DEF Execute
  <2> QED
    BY <1>1, <1>3, <2>1, <2>2, CloseMined DEF NegotiationInv
<1>7. m.kind \in {"offer", "accept", "walk_away"}
  BY <1>2 DEF Signs
<1>8. TurnInv' /\ turn'.phase = "idle"
  <2>1. ResultFor[m.kind] \in Results
    BY <1>7 DEF ResultFor, Results
  <2>2. previous' \in [Parties -> Seq(Results)]
    BY <1>1, <1>2, <2>1, Recalled DEF NegotiationInv, TurnInv
  <2> QED
    BY <1>1, <1>2, <2>2, TurnEnds DEF NegotiationInv
<1>9. BooksInv'
  BY <1>1, <1>8, BooksStay DEF NegotiationInv
<1> QED
  BY <1>4, <1>5, <1>6, <1>7, <1>8, <1>9 DEF NegotiationInv

LEMMA Revert_Inv ==
    ASSUME NegotiationInv, Revert
    PROVE  NegotiationInv'
<1>1. /\ turn.phase = "signed" /\ Recall("failed") /\ Finish("execution_failure")
      /\ UNCHANGED <<setting, modelVars, chainVars, budgetVars>>
  BY DEF Revert
<1>2. Role \in Parties /\ Status # "Settled" /\ Status' = Status
  BY <1>1, Decider DEF NegotiationInv, Status, chainVars
<1>3. previous' \in [Parties -> Seq(Results)]
  BY <1>1, <1>2, Recalled DEF NegotiationInv, TurnInv, Results
<1>4. TurnInv' /\ turn'.phase = "idle"
  BY <1>1, <1>2, <1>3, TurnEnds DEF NegotiationInv
<1>5. BooksInv'
  BY <1>1, <1>4, BooksStay DEF NegotiationInv
<1> QED
  BY <1>1, <1>4, <1>5, ChainUntouched DEF NegotiationInv

LEMMA CutShort_Inv ==
    ASSUME NegotiationInv, Terminate \/ Expire
    PROVE  NegotiationInv'
<1>1. /\ Contract!AbortSession(SessionId) \/ Contract!ExpireSession(SessionId)
      /\ UNCHANGED <<setting, turn, previous, cause, modelVars, budgetVars>>
  BY DEF Terminate, Expire
<1>2. /\ ChainInv' /\ EndingInv' /\ now' = now /\ Offers' = Offers /\ Count' = Count
      /\ Status' \in {"Expired", "Aborted"}
  BY <1>1, CutShort DEF NegotiationInv
<1>3. now' \in Nat /\ now <= now'
  BY <1>2, Stored DEF NegotiationInv, ChainInv
<1>4. TurnInv'
  BY <1>1, <1>2, <1>3, TurnStays DEF NegotiationInv
<1>5. BooksInv'
  BY <1>1, BooksStay DEF NegotiationInv
<1> QED
  BY <1>2, <1>4, <1>5 DEF NegotiationInv

LEMMA Tick_Inv ==
    ASSUME NegotiationInv, Tick
    PROVE  NegotiationInv'
<1>1. /\ now' = now + 1 /\ UNCHANGED <<session, balance, allowance, log>>
      /\ UNCHANGED <<setting, turn, previous, cause, modelVars, budgetVars>>
  BY DEF Tick, Contract!NextBlock, Contract!tokens
<1>2. now' \in Nat /\ now <= now'
  BY <1>1, Stored DEF NegotiationInv, ChainInv
<1>3. /\ ChainInv' /\ EndingInv' /\ Offers' = Offers /\ Count' = Count
      /\ Status' = Status
  BY <1>1, <1>2, ChainSame DEF NegotiationInv
<1>4. TurnInv'
  BY <1>1, <1>2, <1>3, TurnStays DEF NegotiationInv
<1>5. BooksInv'
  BY <1>1, BooksStay DEF NegotiationInv
<1> QED
  BY <1>3, <1>4, <1>5 DEF NegotiationInv

LEMMA Next_Inv == NegotiationInv /\ [Next]_vars => NegotiationInv'
<1> SUFFICES ASSUME NegotiationInv, [Next]_vars
             PROVE  NegotiationInv'
  OBVIOUS
<1>1. CASE Begin
  BY <1>1, Begin_Inv
<1>2. CASE DecideDeterministic
  BY <1>2, DecideDeterministic_Inv
<1>3. CASE \/ \E q \in Requests : CallModel(q) \/ RefuseCall(q)
           \/ \E e \in Errors : CountFails(e)
           \/ \E cost \in UNION {Usages[q] : q \in Requests} \cup {0} :
                 \/ \E r \in Responses(turn.observation) : ModelAnswers(r, cost)
                 \/ \E e \in Errors : CallFails(e, cost)
                 \/ Unreadable(cost)
                 \/ DeadlineCutsCall(cost)
           \/ DeadlineCutsCount
  BY <1>3, ModelSteps_Inv
<1>4. CASE FixtureExhausted
  BY <1>4, Unsent_Inv DEF FixtureExhausted
<1>5. CASE FixtureCalls
  BY <1>5, FixtureCalls_Inv
<1>6. CASE FixturePlays
  BY <1>6, FixturePlays_Inv
<1>7. CASE Mine
  BY <1>7, Mine_Inv
<1>8. CASE Revert
  BY <1>8, Revert_Inv
<1>9. CASE Terminate \/ Expire
  BY <1>9, CutShort_Inv
<1>10. CASE Tick
  BY <1>10, Tick_Inv
<1>11. CASE UNCHANGED vars
  <2>1. UNCHANGED <<setting, turn, previous, cause, modelVars, chainVars, budgetVars>>
    BY <1>11 DEF vars
  <2>2. /\ ChainInv' /\ EndingInv' /\ Offers' = Offers /\ Count' = Count
        /\ Status' = Status /\ now' \in Nat /\ now <= now'
    BY <2>1, ChainUntouched DEF NegotiationInv
  <2>3. TurnInv' /\ BooksInv'
    BY <2>1, <2>2, TurnStays, BooksStay DEF NegotiationInv
  <2> QED
    BY <2>2, <2>3 DEF NegotiationInv
<1> QED
  BY <1>1, <1>2, <1>3, <1>4, <1>5, <1>6, <1>7, <1>8, <1>9, <1>10, <1>11 DEF Next

LEMMA Init_Inv == Init => NegotiationInv
<1> SUFFICES ASSUME Init
             PROVE  NegotiationInv
  OBVIOUS
<1>1. /\ setting \in Settings
      /\ turn = [phase |-> "idle", observation |-> NoObservation, attempt |-> 0,
                 message |-> NoOffer]
      /\ previous = [p \in Parties |-> << >>] /\ cause = "none"
      /\ ledger = [calls |-> 0, estimated |-> 0, reported |-> 0]
      /\ played = [p \in Parties |-> 0] /\ now = 0
      /\ log = [s \in {SessionId} |-> << >>] /\ BudgetInit
  BY DEF Init
<1>2. Config(setting) \in Contract!Config
  BY <1>1, Configured
<1> DEFINE st == [Contract!Unknown EXCEPT !.config = Config(setting), !.status = "Open"]
<1>3. /\ st \in Contract!SessionState /\ st.config = Config(setting)
      /\ st.status = "Open" /\ st.offerCount = 0 /\ st.sequence = 0
  BY <1>2 DEF Contract!Unknown, Contract!SessionState, Contract!Statuses
<1>4. session = [s \in {SessionId} |-> st]
  BY DEF Init
<1> HIDE DEF st
<1>5. session \in [{SessionId} -> Contract!SessionState] /\ session[SessionId] = st
  BY <1>3, <1>4
<1>6. Events = << >> /\ Len(Events) = 0 /\ log \in [{SessionId} -> Seq(Contract!Event)]
  BY <1>1 DEF Events
<1>7. /\ balance \in [Contract!Tokens -> [{Buyer, Seller} -> Nat]]
      /\ allowance = balance /\ Unspent
  <2>1. /\ setting.holdings["buyer"] \in [base : Nat, quote : Nat]
        /\ setting.holdings["seller"] \in [base : Nat, quote : Nat]
    BY <1>1, SettingTyped DEF Parties, Roles, Holdings
  <2>2. /\ balance =
             [t \in Contract!Tokens |-> [a \in {Buyer, Seller} |->
                 setting.holdings[IF a = Buyer THEN "buyer" ELSE "seller"][t]]]
        /\ allowance = balance
    BY DEF Init
  <2>3. \A t \in {"base", "quote"}, p \in {"buyer", "seller"} : setting.holdings[p][t] \in Nat
    BY <2>1
  <2>4. Contract!Tokens = {"base", "quote"}
    BY DEF Contract!Tokens
  <2>5. balance \in [Contract!Tokens -> [{Buyer, Seller} -> Nat]]
    BY <2>2, <2>3, <2>4
  <2>6. Unspent
    BY <2>2, <2>4, PartiesAssumption DEF Unspent
  <2> QED
    BY <2>2, <2>5, <2>6
<1>8. Count = 0 /\ Status = "Open"
  BY <1>3, <1>5 DEF Count, Status
<1>9. ChainInv
  <2>1. Contract!TypeOK
    BY <1>1, <1>5, <1>6, <1>7 DEF Contract!TypeOK
  <2>2. setting.terms.maxOffers \in Nat
    BY <1>1, SettingTyped
  <2> QED
    BY <1>1, <1>3, <1>5, <1>6, <1>8, <2>1, <2>2 DEF ChainInv
<1>10. EndingInv
  BY <1>7, <1>8 DEF EndingInv
<1>11. TurnInv
  BY <1>1, <1>8 DEF TurnInv, Turn
<1>12. BooksInv
  <2>1. BudgetInv /\ \A p \in Parties : calls[p] = 0 /\ billed[p] = 0
    BY <1>1, BudgetInit_Inv, PartiesAssumption DEF BudgetInit
  <2>2. \A p \in Parties : Len(setting.script[p]) \in Nat
    BY <1>1, SettingTyped DEF Playable
  <2>3. "buyer" \in Parties /\ "seller" \in Parties
    BY DEF Parties, Roles
  <2> QED
    BY <1>1, <2>1, <2>2, <2>3 DEF BooksInv, InCall
<1> QED
  BY <1>9, <1>10, <1>11, <1>12 DEF NegotiationInv

-----------------------------------------------------------------------------
(* What the invariant gives *)

LEMMA Inv_Built == NegotiationInv => BuiltIsConsistent
<1> SUFFICES ASSUME NegotiationInv
             PROVE  BuiltIsConsistent
  OBVIOUS
<1>1. RecordedOffers = Offers
  BY RecordedAreOffers DEF NegotiationInv
<1>2. /\ Trail(Offers) /\ Len(Offers) = Count /\ Count <= setting.terms.maxOffers
  BY OffersTrail DEF NegotiationInv
<1>3. Given(setting.terms, now, setting.holdings, setting.mandate, previous)
  BY GivenNow, Stored DEF NegotiationInv, ChainInv, TurnInv
<1> DEFINE o == Build(setting.terms, Offers, now, setting.holdings, setting.mandate,
                      previous)
<1>4. /\ o \in Observation /\ Contradictions(o) = {}
      /\ (o.remaining > 0) <=> (Len(Offers) < setting.terms.maxOffers)
  BY <1>2, <1>3, Consistent
<1> HIDE DEF o
<1>5. Build(setting.terms, RecordedOffers, now, setting.holdings, setting.mandate,
            previous) = o
  BY <1>1 DEF o
<1> QED
  BY <1>2, <1>4, <1>5 DEF BuiltIsConsistent, Count

(* How a session ended, by its last entry.                                 *)
LEMMA LastEntry ==
    ASSUME ChainInv, Status # "Open"
    PROVE  Last(log[SessionId]) = Events[Count + 1]
<1>1. Len(Events) = Count + 1
  BY DEF ChainInv
<1> QED
  BY <1>1 DEF Last, Events

LEMMA Inv_Mandates == NegotiationInv => MandatesKept
<1> SUFFICES ASSUME NegotiationInv, Status = "Settled"
             PROVE  MandatesKept
  BY DEF MandatesKept
<1>1. PICK price : price = Events[Count + 1].offer.quote
  OBVIOUS
<1>2. /\ Within("buyer", price) /\ Within("seller", price) /\ Spent(price)
  BY <1>1 DEF NegotiationInv, EndingInv, Parties, Roles
<1>3. Last(log[SessionId]).offer.quote = price
  BY <1>1, LastEntry DEF NegotiationInv
<1>4. /\ setting.mandate["buyer"].reservation \in Nat
      /\ setting.mandate["buyer"].floor \in Nat
      /\ setting.mandate["seller"].reservation \in Nat
      /\ setting.mandate["seller"].floor \in Nat
      /\ setting.holdings["buyer"].quote \in Nat
      /\ setting.holdings["seller"].base \in Nat /\ setting.terms.base \in Nat
  BY SettingTyped DEF NegotiationInv, ChainInv, Parties, Roles
<1>5. price \in Nat
  BY <1>2, PartiesAssumption DEF Within
<1>6. /\ price <= setting.mandate["buyer"].reservation
      /\ price + setting.mandate["buyer"].floor <= setting.holdings["buyer"].quote
      /\ setting.mandate["seller"].reservation <= price
      /\ setting.terms.base + setting.mandate["seller"].floor
            <= setting.holdings["seller"].base
  BY <1>2 DEF Within
<1>7. /\ balance["quote"][Buyer] >= setting.mandate["buyer"].floor
      /\ balance["base"][Seller] >= setting.mandate["seller"].floor
  BY <1>2, <1>4, <1>5, <1>6 DEF Spent
<1> QED
  BY <1>3, <1>6, <1>7 DEF MandatesKept

LEMMA Inv_Agree == NegotiationInv => BaselinesAgree
<1> SUFFICES ASSUME NegotiationInv, Agreeable(setting), Status = "Closed"
             PROVE  BaselinesAgree
  BY DEF BaselinesAgree
<1>1. RecordedOffers = Offers /\ Trail(Offers) /\ Len(Offers) = Count
  BY RecordedAreOffers, OffersTrail DEF NegotiationInv
<1>2. Count > 0 /\ Events[Count].offer.validUntil <= Events[Count + 1].at
  BY DEF NegotiationInv, EndingInv
<1>3. Last(log[SessionId]) = Events[Count + 1]
  BY LastEntry DEF NegotiationInv
<1>4. Count \in 1..Count
  BY <1>2, Stored DEF NegotiationInv, ChainInv
<1>5. Offers # << >> /\ Offers[Len(Offers)].validUntil = Events[Count].offer.validUntil
  BY <1>1, <1>2, <1>4, OffersTrail, Trailed DEF NegotiationInv
<1> QED
  BY <1>1, <1>2, <1>3, <1>5 DEF BaselinesAgree

LEMMA Inv_Costs == NegotiationInv => CostsCoverTheBill
BY DEF NegotiationInv, BooksInv, CostsCoverTheBill, RunMetrics

(* Two readings of a mandate: the evaluator's limits and what the validator*)
(* and the contract let through.                                           *)
LEMMA LimitsTyped ==
    ASSUME ChainInv
    PROVE  /\ Limits.cap \in Int /\ Limits.low \in Nat \ {0}
           /\ Limits.deliverable \in BOOLEAN
<1>1. \A p \in {"buyer", "seller"} :
         /\ setting.mandate[p].reservation \in Nat /\ setting.mandate[p].floor \in Nat
         /\ setting.holdings[p].quote \in Nat /\ setting.holdings[p].base \in Nat
  BY SettingTyped DEF ChainInv, Parties, Roles
<1>2. \A p \in {"buyer", "seller"} :
         setting.holdings[p].quote - setting.mandate[p].floor \in Int
  BY <1>1
<1> QED
  BY <1>1, <1>2 DEF Limits, Smaller, Larger

LEMMA InsideLimits ==
    ASSUME ChainInv, NEW p \in Parties, NEW price, Within(p, price)
    PROVE  /\ price \in Nat /\ ~ Outside(p, price)
           /\ p = "buyer" => price <= Limits.cap
           /\ p = "seller" => Limits.low <= price /\ Limits.deliverable
<1>1. /\ setting.mandate[p].reservation \in Nat /\ setting.mandate[p].floor \in Nat
      /\ setting.holdings[p].quote \in Nat /\ setting.holdings[p].base \in Nat
      /\ setting.terms.base \in Nat
  BY SettingTyped DEF ChainInv
<1>2. price \in Nat /\ price >= 1
  BY PartiesAssumption DEF Within
<1>3. CASE p = "buyer"
  <2>1. /\ price <= setting.mandate["buyer"].reservation
        /\ price <= setting.holdings["buyer"]["quote"] - setting.mandate["buyer"].floor
    BY <1>1, <1>2, <1>3 DEF Within
  <2>2. price <= Limits.cap
    BY <2>1 DEF Limits, Smaller
  <2>3. ~ Outside(p, price)
    BY <1>2, <1>3, <2>2, LimitsTyped DEF Outside
  <2> QED
    BY <1>2, <1>3, <2>2, <2>3
<1>4. CASE p = "seller"
  <2>1. /\ setting.mandate["seller"].reservation <= price
        /\ setting.holdings["seller"]["base"] - setting.terms.base
              >= setting.mandate["seller"].floor
    BY <1>1, <1>2, <1>4 DEF Within
  <2>2. Limits.low <= price /\ Limits.deliverable
    BY <1>2, <2>1 DEF Limits, Larger
  <2>3. ~ Outside(p, price)
    BY <1>2, <1>4, <2>2, LimitsTyped DEF Outside
  <2> QED
    BY <1>2, <1>4, <2>2, <2>3
<1> QED
  BY <1>3, <1>4 DEF Parties, Roles

(* No signed action is a violation of its signer's mandate.                *)
LEMMA NoViolation ==
    ASSUME NegotiationInv
    PROVE  MandateViolations = {}
<1> SUFFICES ASSUME NEW a \in SignedActions, NEW p \in Parties, a.signer = Address(p)
             PROVE  ~ Outside(p, a.quote)
  BY DEF MandateViolations
<1>1. Count \in Nat /\ DOMAIN Events = 1..Len(Events)
  BY Stored DEF NegotiationInv, ChainInv
<1>2. CASE \E k \in 1..Len(Events) :
              /\ Events[k].kind \in {"OfferRecorded", "SettlementCompleted"}
              /\ a = [kind |-> Events[k].kind, signer |-> Events[k].actor,
                      quote |-> Events[k].offer.quote]
  <2>1. PICK k \in 1..Len(Events) :
              /\ Events[k].kind \in {"OfferRecorded", "SettlementCompleted"}
              /\ a = [kind |-> Events[k].kind, signer |-> Events[k].actor,
                      quote |-> Events[k].offer.quote]
    BY <1>2
  <2>2. a.signer = Events[k].actor /\ a.quote = Events[k].offer.quote
    BY <2>1
  <2>3. CASE k \in 1..Count
    <3>1. /\ Events[k].actor = Address(Mover(k)) /\ Mover(k) \in Parties
          /\ Within(Mover(k), Events[k].offer.quote)
      BY <1>1, <2>3, RecordedTyped, Movers DEF NegotiationInv, Recorded, Parties
    <3>2. p = Mover(k)
      BY <2>2, <3>1, Addresses
    <3> QED
      BY <2>2, <3>1, <3>2, InsideLimits DEF NegotiationInv
  <2>4. CASE k \notin 1..Count
    <3>1. Status # "Open" /\ k = Count + 1
      BY <1>1, <2>1, <2>4 DEF NegotiationInv, ChainInv
    <3>2. Status = "Settled"
      BY <2>1, <3>1 DEF NegotiationInv, EndingInv
    <3>3. Within(p, Events[k].offer.quote)
      BY <3>1, <3>2 DEF NegotiationInv, EndingInv
    <3> QED
      BY <2>2, <3>3, InsideLimits DEF NegotiationInv
  <2> QED
    BY <2>3, <2>4
<1>3. CASE /\ turn.phase = "signed" /\ turn.message.kind # "walk_away"
           /\ a = [kind |-> turn.message.kind, signer |-> Address(turn.message.actor),
                   quote |-> IF turn.message.kind = "offer" THEN turn.message.value
                             ELSE turn.message.value.quote]
  <2> PICK m : m = turn.message
    OBVIOUS
  <2> PICK o : o = turn.observation
    OBVIOUS
  <2>1. Signs(m, o) /\ m.kind # "walk_away"
    BY <1>3 DEF NegotiationInv, TurnInv
  <2>2. /\ a.signer = Address(m.actor)
        /\ a.quote = IF m.kind = "offer" THEN m.value ELSE m.value.quote
    BY <1>3
  <2>3. m.actor \in Parties
    BY <1>1, <2>1, Movers DEF Signs, Parties
  <2>4. p = m.actor
    BY <2>2, <2>3, Addresses
  <2>5. Within(m.actor, a.quote)
    BY <2>1, <2>2 DEF Signs
  <2> QED
    BY <2>4, <2>5, InsideLimits DEF NegotiationInv
<1> QED
  BY <1>1, <1>2, <1>3 DEF SignedActions, Range, Events

(* A settlement by its figures.                                            *)
LEMMA SettledFigures ==
    ASSUME NegotiationInv, Status = "Settled"
    PROVE  /\ SettledQuote \in Nat /\ SettledQuote # NoFigure
           /\ Limits.low <= SettledQuote /\ SettledQuote <= Limits.cap
           /\ Limits.deliverable /\ cause = "none"
<1>1. SettledQuote = Events[Count + 1].offer.quote
  BY LastEntry DEF SettledQuote, NegotiationInv
<1>2. /\ Within("buyer", SettledQuote) /\ Within("seller", SettledQuote)
      /\ "buyer" \in Parties /\ "seller" \in Parties
  BY <1>1 DEF NegotiationInv, EndingInv, Parties, Roles
<1>3. /\ SettledQuote \in Nat /\ SettledQuote <= Limits.cap
      /\ Limits.low <= SettledQuote /\ Limits.deliverable
  BY <1>2, InsideLimits DEF NegotiationInv
<1> QED
  BY <1>3, PartiesAssumption DEF NoFigure, NegotiationInv, TurnInv

LEMMA Inv_Figures == NegotiationInv => FiguresAgree
<1> SUFFICES ASSUME NegotiationInv
             PROVE  FiguresAgree
  OBVIOUS
<1> DEFINE figure == Int \cup {NoFigure}
           cap == Limits.cap
           low == Limits.low
           price == SettledQuote
<1>1. cap \in Int /\ low \in Nat \ {0} /\ Limits.deliverable \in BOOLEAN
  BY LimitsTyped DEF NegotiationInv
<1>2. NoFigure \notin Int
  BY PartiesAssumption DEF NoFigure
<1>3. IF Status = "Settled"
      THEN /\ price \in Nat /\ price # NoFigure /\ low <= price /\ price <= cap
           /\ Limits.deliverable /\ cause = "none"
      ELSE price = NoFigure
  BY SettledFigures DEF SettledQuote
<1> HIDE DEF cap, low, price
<1>4. /\ Feasibility.feasible \in BOOLEAN
      /\ Feasibility.surplus = IF Feasibility.feasible THEN cap - low ELSE NoFigure
      /\ Feasibility.feasible =>
            Feasibility.interval = <<low, cap>> /\ cap - low \in Nat
      /\ Feasibility.feasible <=> (Limits.deliverable /\ low <= cap)
  BY <1>1, <1>2 DEF Feasibility, cap, low
<1>5. price # NoFigure => Feasibility.feasible
  BY <1>1, <1>3, <1>4
<1>6. /\ Utilities \in [Parties -> figure]
      /\ price # NoFigure => /\ Utilities["buyer"] = cap - price
                             /\ Utilities["seller"] = price - low
  <2>1. CASE price = NoFigure
    BY <2>1 DEF Utilities, price
  <2>2. CASE price # NoFigure
    <3>1. Utilities = [buyer |-> cap - price, seller |-> price - low]
      BY <2>2 DEF Utilities, cap, low, price
    <3>2. price \in Nat
      BY <1>3, <2>2
    <3> QED
      BY <1>1, <3>1, <3>2 DEF Parties, Roles
  <2> QED
    BY <2>1, <2>2
<1>7. CapturedSurplus = IF price # NoFigure THEN cap - low
                        ELSE IF Ended THEN 0 ELSE NoFigure
  <2>1. CASE price = NoFigure
    BY <2>1 DEF CapturedSurplus, price
  <2>2. CASE price # NoFigure
    <3>1. CapturedSurplus = Utilities["buyer"] + Utilities["seller"]
      BY <2>2 DEF CapturedSurplus, price
    <3>2. price \in Nat
      BY <1>3, <2>2
    <3> QED
      BY <1>1, <1>6, <2>2, <3>1, <3>2
  <2> QED
    BY <2>1, <2>2
<1>8. /\ EfficiencyRatio \in figure
      /\ price # NoFigure => EfficiencyRatio \in {100, NoFigure}
  <2>1. CASE Feasibility.surplus \in {NoFigure, 0} \/ CapturedSurplus = NoFigure
    BY <2>1 DEF EfficiencyRatio
  <2>2. CASE ~ (Feasibility.surplus \in {NoFigure, 0} \/ CapturedSurplus = NoFigure)
    <3>1. EfficiencyRatio = (100 * CapturedSurplus) \div Feasibility.surplus
      BY <2>2 DEF EfficiencyRatio
    <3> PICK s \in Nat : s = Feasibility.surplus /\ s > 0 /\ s = cap - low
      BY <1>4, <2>2
    <3>2. CASE price # NoFigure
      <4>1. EfficiencyRatio = (100 * s) \div s
        BY <1>7, <3>1, <3>2
      <4>2. (100 * s) \div s = 100
        OBVIOUS
      <4> QED
        BY <4>1, <4>2
    <3>3. CASE price = NoFigure
      <4>1. EfficiencyRatio = (100 * 0) \div s
        BY <1>7, <2>2, <3>1, <3>3
      <4>2. (100 * 0) \div s = 0
        OBVIOUS
      <4> QED
        BY <3>3, <4>1, <4>2
    <3> QED
      BY <3>2, <3>3
  <2> QED
    BY <2>1, <2>2
<1>9. Cardinality(MandateViolations) = 0
  BY NoViolation, FS_EmptySet
<1>10. /\ FailureClass \in {"none", "model", "execution", NoFigure}
       /\ price # NoFigure => FailureClass = "none"
  BY <1>3 DEF FailureClass, Ended
<1>11. Len(RecordedOffers) = Count /\ Count \in Nat
  BY RecordedAreOffers, OffersTrail DEF NegotiationInv
<1>12. /\ ledger.calls \in Nat /\ ledger.estimated \in figure
       /\ ledger.reported \in figure
  <2>1. billed["buyer"] \in Nat /\ billed["seller"] \in Nat
    BY PartiesAssumption
       DEF NegotiationInv, BooksInv, BudgetInv, BudgetTypeOK, Parties, Roles
  <2> QED
    BY <2>1 DEF NegotiationInv, BooksInv, NoFigure
<1>13. price \in figure /\ CapturedSurplus \in figure
  BY <1>1, <1>3, <1>7
<1> HIDE DEF figure
<1>14. RunMetrics \in Figures
  BY <1>4, <1>6, <1>8, <1>9, <1>10, <1>11, <1>12, <1>13
     DEF RunMetrics, Figures, figure, price
<1>15. RunMetrics.violations = 0 /\ RunMetrics.recordedOffers = Count
  BY <1>9, <1>11 DEF RunMetrics
<1>16. ASSUME RunMetrics.settledQuote # NoFigure
       PROVE  /\ RunMetrics.feasible /\ Evaluator.feasible
              /\ RunMetrics.settledQuote \in Evaluator.interval[1]..Evaluator.interval[2]
              /\ \A p \in Parties : RunMetrics.utility[p] >= 0
              /\ RunMetrics.efficiency \in {100, NoFigure}
              /\ RunMetrics.failureClass = "none"
  <2>1. price # NoFigure /\ RunMetrics.settledQuote = price
    BY <1>16 DEF RunMetrics, price
  <2>2. RunMetrics.feasible /\ Evaluator.feasible
    BY <1>5, <2>1 DEF RunMetrics, Evaluator
  <2>3. Evaluator.interval[1] = low /\ Evaluator.interval[2] = cap
    BY <1>4, <1>5, <2>1 DEF Evaluator
  <2>4. price \in Nat /\ price \in low..cap
    BY <1>1, <1>3, <2>1
  <2>5. \A p \in Parties : RunMetrics.utility[p] >= 0
    <3>1. RunMetrics.utility["buyer"] >= 0 /\ RunMetrics.utility["seller"] >= 0
      BY <1>1, <1>6, <2>1, <2>4 DEF RunMetrics
    <3> QED
      BY <3>1 DEF Parties, Roles
  <2> QED
    BY <1>8, <1>10, <2>1, <2>2, <2>3, <2>4, <2>5 DEF RunMetrics
<1> QED
  BY <1>14, <1>15, <1>16 DEF FiguresAgree, Count

(* What the entry points require of a signed message: all of an entry      *)
(* point but what it assigns, so that it reverts exactly where this fails. *)
Passes(m) ==
    LET st == session[SessionId]
        offer == OfferMessage(m.actor, m.sequence, m.value, m.validUntil)
        acceptance == AcceptMessage(m.actor, m.sequence, m.value)
        close == CloseMessage(m.actor, m.sequence, m.value)
        signer == Address(m.actor)
    IN  \/ /\ m.kind = "offer" /\ Contract!VerifyCommon(offer)
           /\ Contract!RequireSigner(SessionId, signer, offer.proposer)
           /\ offer.proposer = Contract!NextProposer(st)
           /\ st.offerCount # st.config.maxOffers
           /\ offer.quote # 0
           /\ now < offer.validUntil /\ offer.validUntil <= st.config.expiresAt
        \/ /\ m.kind = "accept" /\ Contract!VerifyCommon(acceptance)
           /\ Contract!RequireSigner(SessionId, signer, acceptance.actor)
           /\ Contract!Standing(acceptance, st)
           /\ Contract!Covers("quote", st.config.buyer, st.activeQuote)
           /\ Contract!Covers("base", st.config.seller, st.config.baseAmount)
        \/ /\ m.kind = "walk_away" /\ Contract!VerifyCommon(close)
           /\ Contract!RequireSigner(SessionId, signer, close.actor)
           /\ close.reason \in 1..Contract!MAX_CLOSE_REASON

(* What is signed passes the backend's check, and at the chain time it was *)
(* decided at it meets every requirement of its entry point.               *)
SignedPasses ==
    turn.phase = "signed" =>
        /\ CheckSigned(turn.message, turn.observation)
        /\ now = turn.observation.now /\ Status = "Open" => Passes(turn.message)

(* Nothing is executed that does not pass.                                 *)
LEMMA ExecutedPasses ==
    ASSUME NEW m, Execute(m)
    PROVE  Passes(m)
<1>1. \A p, n, x, t : OfferMessage(p, n, x, t).session = SessionId
  BY DEF OfferMessage
<1>2. \A p, n, x : AcceptMessage(p, n, x).session = SessionId
  BY DEF AcceptMessage
<1>3. \A p, n, x : CloseMessage(p, n, x).session = SessionId
  BY DEF CloseMessage
<1>4. CASE m.kind = "offer" /\ Contract!RecordOffer(
             OfferMessage(m.actor, m.sequence, m.value, m.validUntil), Address(m.actor))
  <2> DEFINE offer == OfferMessage(m.actor, m.sequence, m.value, m.validUntil)
  <2>1. offer.session = SessionId
    BY <1>1
  <2>2. m.kind = "offer" /\ Contract!RecordOffer(offer, Address(m.actor))
    BY <1>4
  <2> HIDE DEF offer
  <2>3. LET st == session[SessionId]
        IN  /\ Contract!VerifyCommon(offer)
            /\ Contract!RequireSigner(SessionId, Address(m.actor), offer.proposer)
            /\ offer.proposer = Contract!NextProposer(st)
            /\ st.offerCount # st.config.maxOffers
            /\ offer.quote # 0
            /\ now < offer.validUntil /\ offer.validUntil <= st.config.expiresAt
    BY SMTT(40), <2>1, <2>2 DEF Contract!RecordOffer
  <2> QED
    BY Zenon, <2>2, <2>3 DEF Passes, offer
<1>5. CASE m.kind = "accept" /\ Contract!AcceptAndSettle(
             AcceptMessage(m.actor, m.sequence, m.value), Address(m.actor))
  BY ZenonT(60), <1>2, <1>5 DEF Passes, Contract!AcceptAndSettle
<1>6. CASE m.kind = "walk_away" /\ Contract!CloseSession(
             CloseMessage(m.actor, m.sequence, m.value), Address(m.actor))
  BY <1>3, <1>6 DEF Passes, Contract!CloseSession
<1> QED
  BY <1>4, <1>5, <1>6 DEF Execute

LEMMA SignedMeets ==
    ASSUME ChainInv, EndingInv, Status = "Open", NEW o, Watched(o), now = o.now,
           NEW m, Signs(m, o)
    PROVE  Passes(m)
<1> DEFINE st == session[SessionId]
           p == Mover(Count + 1)
           offer == OfferMessage(p, Count + 1, m.value, m.validUntil)
           acceptance == AcceptMessage(p, Count + 1, m.value)
           close == CloseMessage(p, Count + 1, m.value)
<1>1. /\ st.status = "Open" /\ st.config = Config(setting) /\ st.sequence = Count
      /\ st.offerCount = Count /\ Count \in Nat /\ now \in Nat
      /\ Count > 0 => Carried
  BY Stored DEF ChainInv, Status, Count
<1>2. /\ st.config.buyer = Buyer /\ st.config.seller = Seller
      /\ st.config.baseAmount = setting.terms.base
      /\ st.config.expiresAt = setting.terms.expiresAt
      /\ st.config.maxOffers = setting.terms.maxOffers
  BY <1>1, Configured DEF ChainInv
<1>3. /\ m.sequence = Count + 1 /\ m.actor = p /\ CheckSigned(m, o)
      /\ m.kind \in {"offer", "accept", "walk_away"}
  BY DEF Signs
<1>4. /\ p \in Parties /\ o.role = p /\ o.terms = setting.terms
      /\ now < setting.terms.expiresAt
      /\ o.active # NoOffer => Count > 0 /\ Offers[Count].validUntil > now
  BY Seen
<1>5. /\ Address(p) \in {Buyer, Seller}
      /\ Address(p) = IF Count % 2 = 0 THEN Buyer ELSE Seller
  BY <1>1, <1>4, Addresses DEF Address, Mover
<1>6. \A x, y : y = Address(p) => Contract!RequireSigner(SessionId, Address(p), y)
  BY <1>2, <1>5 DEF Contract!RequireSigner
<1>7. \A x : x.session = SessionId /\ x.config = Config(setting) /\ x.sequence = Count + 1
              => Contract!VerifyCommon(x)
  BY <1>1, <1>2, <1>4 DEF Contract!VerifyCommon
<1>8. Count > 0 => /\ Count \in 1..Count /\ Recorded(Count)
                   /\ Events[Count].actor = Address(Mover(Count))
                   /\ Offers[Count].quote = Events[Count].offer.quote
                   /\ Offers[Count].validUntil = Events[Count].offer.validUntil
                   /\ Offers[Count].sequence = Count
                   /\ Offers[Count].proposer = Mover(Count)
  BY <1>1, OffersTrail, RecordedTyped DEF Recorded
<1> HIDE DEF st, p
<1>9. CASE m.kind = "offer"
  <2>1. /\ offer.session = SessionId /\ offer.config = Config(setting)
        /\ offer.sequence = Count + 1 /\ offer.proposer = Address(p)
        /\ offer.quote = m.value /\ offer.validUntil = m.validUntil
    BY DEF OfferMessage
  <2> HIDE DEF offer
  <2>2. /\ Count < setting.terms.maxOffers /\ m.value \in 1..UINT256_MAX
        /\ now < m.validUntil /\ m.validUntil <= setting.terms.expiresAt
    BY <1>3, <1>4, <1>9 DEF Signs, Within, CheckSigned, TermsHold
  <2>3. offer.proposer = Contract!NextProposer(st)
    <3>1. CASE Count = 0
      BY <1>1, <1>2, <1>5, <2>1, <3>1 DEF Contract!NextProposer
    <3>2. CASE Count # 0
      <4>1. st.activeProposer = Address(Mover(Count))
        BY <1>1, <1>8, <3>2 DEF Carried, st
      <4>2. Address(Mover(Count)) = IF Count % 2 = 1 THEN Buyer ELSE Seller
        BY DEF Address, Mover
      <4> QED
        BY <1>1, <1>2, <1>5, <2>1, <3>2, <4>1, <4>2, PartiesAssumption
           DEF Contract!NextProposer
    <3> QED
      BY <3>1, <3>2
  <2>4. Contract!VerifyCommon(offer)
        /\ Contract!RequireSigner(SessionId, Address(p), offer.proposer)
    BY <1>6, <1>7, <2>1
  <2>5. /\ st.offerCount # st.config.maxOffers /\ offer.quote # 0
        /\ now < offer.validUntil /\ offer.validUntil <= st.config.expiresAt
    BY <1>1, <1>2, <2>1, <2>2, SettingTyped, PartiesAssumption DEF ChainInv
  <2> QED
    BY <1>3, <1>9, <2>3, <2>4, <2>5 DEF Passes, offer, st
<1>10. CASE m.kind = "accept"
  <2>1. /\ Count > 0 /\ m.value = Offers[Count] /\ Within(p, Offers[Count].quote)
        /\ o.active # NoOffer /\ Offers[Count].validUntil > now
    BY <1>3, <1>4, <1>10 DEF Signs, CheckSigned, TermsHold
  <2>2. /\ acceptance.session = SessionId /\ acceptance.config = Config(setting)
        /\ acceptance.sequence = Count + 1 /\ acceptance.actor = Address(p)
        /\ acceptance.offer = Events[Count].offer
    <3>1. acceptance.offer = OfferMessage(Mover(Count), Count, Events[Count].offer.quote,
                                          Events[Count].offer.validUntil)
      BY <1>8, <2>1 DEF AcceptMessage
    <3> QED
      BY <1>8, <2>1, <3>1 DEF AcceptMessage, Recorded
  <2> HIDE DEF acceptance
  <2>3. Contract!Standing(acceptance, st)
    <3>1. Address(p) # Address(Mover(Count))
      BY <1>1, <1>4, Movers, Addresses DEF p, Parties
    <3>2. /\ st.activeOffer = Events[Count].offer
          /\ st.activeProposer = Address(Mover(Count))
          /\ st.activeValidUntil = Events[Count].offer.validUntil
      BY <1>1, <1>8, <2>1 DEF Carried, st
    <3>3. Events[Count].offer # NoOffer
      BY <1>8, <2>1, DigestAssumption DEF Recorded
    <3> QED
      BY <1>1, <1>8, <2>1, <2>2, <3>1, <3>2, <3>3, RecordedTyped DEF Contract!Standing
  <2>4. Contract!VerifyCommon(acceptance)
        /\ Contract!RequireSigner(SessionId, Address(p), acceptance.actor)
    BY <1>6, <1>7, <2>2
  <2>5. /\ Contract!Covers("quote", st.config.buyer, st.activeQuote)
        /\ Contract!Covers("base", st.config.seller, st.config.baseAmount)
    <3>1. Within("buyer", Offers[Count].quote) /\ Within("seller", Offers[Count].quote)
      <4>1. {Mover(Count), p} = Parties
        BY <1>1, Movers DEF p, Parties
      <4> QED
        BY <1>8, <2>1, <4>1 DEF Recorded, Parties, Roles
    <3>2. st.activeQuote = Offers[Count].quote
      BY <1>1, <1>8, <2>1 DEF Carried, st
    <3>3. Unspent
      BY DEF EndingInv
    <3>4. /\ setting.mandate["buyer"].floor \in Nat /\ setting.mandate["seller"].floor \in Nat
          /\ setting.holdings["buyer"].quote \in Nat
          /\ setting.holdings["seller"].base \in Nat /\ setting.terms.base \in Nat
          /\ Offers[Count].quote \in Nat
      BY SMTT(40), <3>1, SettingTyped, PartiesAssumption DEF ChainInv, Parties, Roles, Within
    <3>5. /\ setting.holdings["buyer"].quote >= Offers[Count].quote
          /\ setting.holdings["seller"].base >= setting.terms.base
      BY <3>1, <3>4 DEF Within
    <3> QED
      BY <1>2, <3>2, <3>3, <3>5 DEF Unspent, Contract!Covers
  <2> QED
    BY <1>3, <1>10, <2>3, <2>4, <2>5 DEF Passes, acceptance, st
<1>11. CASE m.kind = "walk_away"
  <2>1. /\ close.session = SessionId /\ close.config = Config(setting)
        /\ close.sequence = Count + 1 /\ close.actor = Address(p)
        /\ close.reason = ReasonCode(m.value)
    BY DEF CloseMessage
  <2> HIDE DEF close
  <2>2. ReasonCode(m.value) \in 1..3
    <3>1. m.value \in Reasons
      BY <1>11 DEF Signs
    <3>2. \E i \in 1..3 : m.value = <<"terms_unacceptable", "inventory_constraint",
                                      "no_further_concession">>[i]
      BY <3>1 DEF Reasons
    <3> QED
      BY <3>2 DEF ReasonCode
  <2>3. Contract!VerifyCommon(close)
        /\ Contract!RequireSigner(SessionId, Address(p), close.actor)
    BY <1>6, <1>7, <2>1
  <2> QED
    BY <1>3, <1>11, <2>1, <2>2, <2>3 DEF Passes, close, Contract!MAX_CLOSE_REASON
<1> QED
  BY <1>3, <1>9, <1>10, <1>11

LEMMA Inv_Signed == NegotiationInv => SignedPasses
<1> SUFFICES ASSUME NegotiationInv, turn.phase = "signed"
             PROVE  /\ CheckSigned(turn.message, turn.observation)
                    /\ now = turn.observation.now /\ Status = "Open" =>
                          Passes(turn.message)
  BY DEF SignedPasses
<1> PICK m : m = turn.message
  OBVIOUS
<1> PICK o : o = turn.observation
  OBVIOUS
<1>1. Signs(m, o) /\ Watched(o)
  BY DEF NegotiationInv, TurnInv
<1>2. now = o.now /\ Status = "Open" => Passes(m)
  BY <1>1, SignedMeets DEF NegotiationInv
<1> QED
  BY <1>1, <1>2 DEF Signs

(* A cost settled with the guard is a number.                              *)
LEMMA Costed ==
    ASSUME BudgetInv, NEW g \in Guards, NEW cost, Settle(g, cost) \/ SettleLost(g, cost)
    PROVE  cost \in Nat
<1>1. charge[g] \in Requests
  BY DEF BudgetInv, BudgetTypeOK, Settle, SettleLost
<1> QED
  BY <1>1, BudgetAssumption DEF Settle, SettleLost

(* Every step is one of the guard's or leaves its books alone.             *)
LEMMA Guarded == NegotiationInv /\ [Next]_vars => [BudgetNext]_budgetVars
<1> SUFFICES ASSUME NegotiationInv, [Next]_vars
             PROVE  BudgetNext \/ UNCHANGED budgetVars
  OBVIOUS
<1>1. ASSUME turn.phase # "idle",
             NEW cost, Settle(Role, cost) \/ SettleLost(Role, cost)
      PROVE  BudgetNext
  BY <1>1, Costed, Decider DEF NegotiationInv, BooksInv, BudgetNext
<1>2. ASSUME turn.phase # "idle", NEW q \in Requests, Admit(Role, q)
      PROVE  BudgetNext
  BY <1>2, Decider DEF NegotiationInv, BudgetNext
<1>3. ASSUME NEW outcome, NEW cost, Unanswered(outcome, cost)
      PROVE  BudgetNext
  BY <1>1, <1>3 DEF Unanswered
<1>4. CASE \E q \in Requests : CallModel(q)
  BY <1>2, <1>4 DEF CallModel
<1>5. ASSUME NEW cost, NEW r, ModelAnswers(r, cost)
      PROVE  BudgetNext
  BY <1>1, <1>5 DEF ModelAnswers, InCall, Answered
<1>6. ASSUME NEW cost, Unreadable(cost) \/ DeadlineCutsCall(cost)
                       \/ \E e \in Errors : CallFails(e, cost)
      PROVE  BudgetNext
  BY <1>3, <1>6 DEF Unreadable, DeadlineCutsCall, CallFails
<1>7. CASE FixtureCalls
  <2> PICK entry : entry = Script[played[Role] + 1]
    OBVIOUS
  <2>1. /\ turn.phase = "deciding" /\ played[Role] < Len(setting.script[Role])
        /\ Admit(Role, entry.request) \/ UNCHANGED budgetVars
    BY <1>7 DEF FixtureCalls, Script
  <2>2. entry.request \in Requests
    <3>1. Playable(setting.script[Role]) /\ played[Role] \in Nat
      BY <2>1, Decider, SettingTyped DEF NegotiationInv, ChainInv, BooksInv
    <3>2. played[Role] + 1 \in 1..Len(setting.script[Role])
      BY <2>1, <3>1 DEF Playable
    <3> QED
      BY <3>1, <3>2 DEF Playable, Script
  <2> QED
    BY <1>2, <2>1, <2>2
<1>8. CASE FixturePlays
  <2>1. \/ \E outcome : Unanswered(outcome, 0)
        \/ \E r, cost : Answered(r, cost) /\ turn.phase = "calling"
    BY <1>8 DEF FixturePlays, InCall
  <2> QED
    BY <1>1, <1>3, <2>1 DEF Answered
<1>9. CASE \/ Begin \/ DecideDeterministic \/ DeadlineCutsCount \/ FixtureExhausted
           \/ Mine \/ Revert \/ Terminate \/ Expire \/ Tick \/ UNCHANGED vars
           \/ \E q \in Requests : RefuseCall(q)
           \/ \E e \in Errors : CountFails(e)
  BY <1>9 DEF Begin, DecideDeterministic, DeadlineCutsCount, FixtureExhausted, Mine,
              Revert, Terminate, Expire, Tick, RefuseCall, CountFails, vars
<1> QED
  BY <1>4, <1>5, <1>6, <1>7, <1>8, <1>9 DEF Next

-----------------------------------------------------------------------------
(* The invariant holds of the negotiation.                                 *)
LEMMA Always == Spec => []NegotiationInv
BY Init_Inv, Next_Inv, PTL DEF Spec

(* The builder's account of the recorded events is one the agent accepts,  *)
(* at any chain time, for any run (builder.py against consistency.py).     *)
THEOREM BuiltHolds == Spec => []BuiltIsConsistent
BY Always, Inv_Built, PTL

(* No settlement leaves either party outside its private mandate, whatever *)
(* the two policies answer (mandate.py and the contract).                  *)
THEOREM MandatesHold == Spec => []MandatesKept
BY Always, Inv_Mandates, PTL

(* Two baselines that can agree close only over an offer that ran out: for *)
(* every bound, every number of offers and every lifetime                  *)
(* (deterministic.py).                                                     *)
THEOREM BaselinesHold == Spec => []BaselinesAgree
BY Always, Inv_Agree, PTL

(* The evaluator counts no violation, and a settlement is feasible, in its *)
(* interval, worth it to both and the whole surplus (metrics/figures.py).  *)
THEOREM FiguresHold == Spec => []FiguresAgree
BY Always, Inv_Figures, PTL

(* The run's reported cost is the bill or unknown, and its estimate covers *)
(* the bill, with every admitted call counted once (figures.py, guard.py). *)
THEOREM CostsHold == Spec => []CostsCoverTheBill
BY Always, Inv_Costs, PTL

(* The negotiation implements the guard's specification: every step is one *)
(* of its steps or leaves its books alone (client.py around guard.py).     *)
THEOREM BudgetImplemented == Spec => BudgetSpec
<1>1. Init => BudgetInit
  BY DEF Init
<1> QED
  BY Always, Guarded, <1>1, PTL DEF Spec, BudgetSpec

(* So neither ceiling is crossed by the two agents' calls, whatever comes  *)
(* back of them.                                                           *)
THEOREM CeilingsHold == Spec => []SpendWithinCeiling
BY BudgetImplemented, BudgetKept

(* What an agent signs passes the backend's check, and the contract's      *)
(* every requirement at the chain time it was decided at: SignedIsExecutable*)
(* with the entry point's requirements written out (messages.py, mandate.py*)
(* against executor.py _check and NegotiationExchange.sol).                *)
THEOREM SignedHolds == Spec => []SignedPasses
BY Always, Inv_Signed, PTL
=============================================================================
