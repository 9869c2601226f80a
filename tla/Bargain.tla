------------------------------- MODULE Bargain -------------------------------
(***************************************************************************)
(* What NegotiationExchange promises its two parties, with no signatures,  *)
(* sequence numbers, digests or storage fields: the parties take turns to  *)
(* propose, the buyer first; the newest proposal stands until it runs out; *)
(* the other party may agree to it, which swaps both legs at once at that  *)
(* price; and a bargain ends once.                                         *)
(***************************************************************************)
EXTENDS Naturals, Sequences

CONSTANTS
    SessionIds, Accounts, Tokens,
    Terms,      \* records with session, buyer, seller, baseAmount, expiresAt
                \* and maxOffers
    NoTerms,
    Proposals,  \* records with quote and validUntil
    Funding,    \* [token, owner, amount] a wallet may be credited with
    MaxTime

VARIABLES
    now,
    deal,       \* session -> [phase, terms, offers]
    balance

vars == <<now, deal, balance>>

Init ==
    /\ now = 0
    /\ deal = [s \in SessionIds |->
                 [phase |-> "idle", terms |-> NoTerms, offers |-> << >>]]
    /\ balance = [t \in Tokens |-> [a \in Accounts |-> 0]]

Turn(d) == IF Len(d.offers) % 2 = 0 THEN d.terms.buyer ELSE d.terms.seller

Live(s) == deal[s].phase = "open" /\ now < deal[s].terms.expiresAt

Open(c) ==
    /\ deal[c.session].phase = "idle"
    /\ c.buyer # c.seller /\ c.expiresAt > now
    /\ deal' = [deal EXCEPT ![c.session].phase = "open",
                            ![c.session].terms = c]
    /\ UNCHANGED <<now, balance>>

Propose(s, quote, until) ==
    /\ Live(s)
    /\ Len(deal[s].offers) < deal[s].terms.maxOffers
    /\ quote > 0
    /\ now < until /\ until <= deal[s].terms.expiresAt
    /\ deal' = [deal EXCEPT ![s].offers =
          Append(@, [by |-> Turn(deal[s]), quote |-> quote, until |-> until])]
    /\ UNCHANGED <<now, balance>>

Agree(s) ==
    LET d == deal[s]
        o == d.offers[Len(d.offers)]
    IN  /\ Live(s)
        /\ d.offers # << >>
        /\ now < o.until
        /\ balance["quote"][d.terms.buyer] >= o.quote
        /\ balance["base"][d.terms.seller] >= d.terms.baseAmount
        /\ deal' = [deal EXCEPT ![s].phase = "agreed"]
        /\ balance' = [t \in Tokens |-> [a \in Accounts |->
              LET n == IF t = "quote" THEN o.quote ELSE d.terms.baseAmount
                  from == IF t = "quote" THEN d.terms.buyer ELSE d.terms.seller
                  to == IF t = "quote" THEN d.terms.seller ELSE d.terms.buyer
              IN  CASE a = from -> balance[t][a] - n
                    [] a = to -> balance[t][a] + n
                    [] OTHER -> balance[t][a]]]
        /\ UNCHANGED now

(* Walked away from, aborted, or timed out. *)
End(s) ==
    /\ deal[s].phase = "open"
    /\ deal' = [deal EXCEPT ![s].phase = "over"]
    /\ UNCHANGED <<now, balance>>

Credit(t, a, n) ==
    /\ balance' = [balance EXCEPT ![t][a] = @ + n]
    /\ UNCHANGED <<now, deal>>

Pass ==
    /\ now < MaxTime
    /\ now' = now + 1
    /\ UNCHANGED <<deal, balance>>

Next ==
    \/ \E c \in Terms : Open(c)
    \/ \E s \in SessionIds, o \in Proposals : Propose(s, o.quote, o.validUntil)
    \/ \E s \in SessionIds : Agree(s) \/ End(s)
    \/ \E f \in Funding : Credit(f.token, f.owner, f.amount)
    \/ Pass

Spec == Init /\ [][Next]_vars

=============================================================================
