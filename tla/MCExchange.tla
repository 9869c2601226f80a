----------------------------- MODULE MCExchange -----------------------------
(***************************************************************************)
(* Instances of Exchange for TLC.  The circulating messages are every      *)
(* content the fields below allow, signed by the account it names, and one *)
(* forgery of each kind.                                                   *)
(***************************************************************************)
EXTENDS Exchange

CONSTANTS Alice, Bob, Carol, s1, s2
CONSTANTS
    MaxSequence,    \* sequence numbers messages are signed with
    Prices,         \* quotes offers are signed with
    Untils          \* validUntil times offers are signed with

MkConfig(s, b, x, e, n) ==
    [session |-> s, buyer |-> b, seller |-> x, baseAmount |-> 1,
     expiresAt |-> e, maxOffers |-> n]

(* Two configurations compete for session s1; one of the two is refused.   *)
OneSession == {MkConfig(s1, Alice, Bob, 3, 2), MkConfig(s1, Alice, Bob, 2, 1)}

BadConfigs == {MkConfig(s1, Alice, Alice, 2, 1), MkConfig(s1, Alice, Bob, 2, 33)}

(* Two sessions of the same two wallets, one after the other.              *)
TwoSessions == {MkConfig(s1, Alice, Bob, 3, 2), MkConfig(s2, Alice, Bob, 4, 1)}

Fund(t, a, n) == [token |-> t, owner |-> a, amount |-> n]

MCOneFunding == {Fund("quote", Alice, 2), Fund("base", Bob, 1)}
MCTwoFunding == MCOneFunding

MCOneConfigs == OneSession \cup BadConfigs
MCTwoConfigs == TwoSessions

Signed(contents, signerOf(_)) ==
    {[content |-> c, signer |-> signerOf(c)] : c \in contents}

OffersUnder(configs) ==
    {[session |-> c.session, config |-> c, sequence |-> n, proposer |-> p,
      quote |-> q, validUntil |-> u] :
        c \in configs, n \in 1..MaxSequence, p \in {Alice, Bob, Carol},
        q \in Prices, u \in Untils}

PlausibleOffers(configs) ==
    {o \in OffersUnder(configs) : o.proposer \in {o.config.buyer, o.config.seller}}

AcceptsOf(offers) ==
    {[session |-> o.session, config |-> o.config, sequence |-> o.sequence + 1,
      actor |-> a, offer |-> o] :
        o \in offers, a \in {Alice, Bob, Carol}}

PlausibleAccepts(offers) ==
    {m \in AcceptsOf(offers) : m.actor \in {m.config.buyer, m.config.seller}}

ClosesUnder(configs) ==
    {[session |-> c.session, config |-> c, sequence |-> n, actor |-> c.seller,
      reason |-> r] : c \in configs, n \in 1..MaxSequence + 1, r \in {1, 4}}

Forged(messages) ==
    {[content |-> m.content, signer |-> Carol] :
        m \in {CHOOSE m \in messages : m.content.sequence = 1}}

OfferMessagesOf(configs) ==
    LET by(o) == o.proposer
        genuine == Signed(PlausibleOffers(configs), by)
    IN  genuine \cup Forged(genuine)

AcceptMessagesOf(configs) ==
    LET by(m) == m.actor
    IN  Signed(PlausibleAccepts(PlausibleOffers(configs)), by)

CloseMessagesOf(configs) ==
    LET by(m) == m.actor IN Signed(ClosesUnder(configs), by)

MCOneOffers == OfferMessagesOf(OneSession)
MCOneAccepts == AcceptMessagesOf(OneSession)
MCOneCloses == CloseMessagesOf(OneSession)
MCTwoOffers == OfferMessagesOf(TwoSessions)
MCTwoAccepts == AcceptMessagesOf(TwoSessions)
MCTwoCloses == CloseMessagesOf(TwoSessions)
=============================================================================
