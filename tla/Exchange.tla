------------------------------ MODULE Exchange ------------------------------
(***************************************************************************)
(* contracts/src/NegotiationExchange.sol and the two MockERC20 tokens it   *)
(* settles in: the authority on which negotiation actions are legal.       *)
(*                                                                         *)
(* A transaction is one atomic step: it either meets every `revert` guard  *)
(* of the entry point and applies all of its effects, or it is not a step. *)
(* Anyone may submit a signed message, in any order and any number of      *)
(* times, so the signed messages in circulation are constants and Next     *)
(* tries each of them in every state.  Hashes are collision free: a digest *)
(* is the record it commits to.                                            *)
(***************************************************************************)
EXTENDS Naturals, Sequences

CONSTANTS
    SessionIds,     \* session identifiers (bytes32)
    Accounts,       \* addresses that own a key: participants and others
    Operator,       \* the exchange's and the tokens' immutable operator
    ZeroAddress,    \* address(0)
    Configs,        \* the SessionConfigs the operator may submit
    OfferMessages,  \* signed messages in circulation, each a record
    AcceptMessages, \*   [content, signer] where signer is the account
    CloseMessages,  \*   ECDSA recovery yields
    Funding,        \* [token, owner, amount] that may be minted, approved
    MaxBalance,     \* bound: no mint takes a balance past it
    MaxTime,        \* bound: the last block timestamp
    NoConfig,       \* the zero configHash
    NoOffer         \* the zero offer digest

Tokens == {"base", "quote"}

Statuses == {"None", "Open", "Settled", "Closed", "Expired", "Aborted"}
Terminal == {"Settled", "Closed", "Expired", "Aborted"}

Config == [session : SessionIds, buyer : Accounts \cup {ZeroAddress},
           seller : Accounts \cup {ZeroAddress}, baseAmount : Nat,
           expiresAt : Nat, maxOffers : Nat]

Offer == [session : SessionIds, config : Config, sequence : Nat,
          proposer : Accounts, quote : Nat, validUntil : Nat]

Accept == [session : SessionIds, config : Config, sequence : Nat,
           actor : Accounts, offer : Offer]

Close == [session : SessionIds, config : Config, sequence : Nat,
          actor : Accounts, reason : Nat]

ASSUME MessagesAssumption ==
    /\ Configs \subseteq Config
    /\ OfferMessages \subseteq [content : Offer, signer : Accounts]
    /\ AcceptMessages \subseteq [content : Accept, signer : Accounts]
    /\ CloseMessages \subseteq [content : Close, signer : Accounts]

ASSUME BoundsAssumption ==
    /\ Funding \subseteq [token : Tokens, owner : Accounts, amount : Nat]
    /\ MaxBalance \in Nat
    /\ MaxTime \in Nat

ASSUME NullAssumption ==
    /\ NoConfig \notin Config
    /\ NoOffer \notin Offer
    /\ ZeroAddress \notin Accounts

MAX_OFFERS_LIMIT == 32
MAX_CLOSE_REASON == 3

VARIABLES
    now,        \* block.timestamp of the block being built
    session,    \* _sessions: SessionId -> SessionState
    balance,    \* token -> account -> balance
    allowance,  \* token -> owner -> what the exchange may still move
    log         \* the events of each session, one entry per transaction

vars == <<now, session, balance, allowance, log>>
tokens == <<balance, allowance>>

(***************************************************************************)
(* One entry of the log stands for all the events of one transaction, with *)
(* the timestamp of its block.  An acceptance and the settlement it causes *)
(* are emitted together.                                                   *)
(***************************************************************************)
Event == [kind : {"SessionOpened", "OfferRecorded", "SettlementCompleted",
                  "SessionClosed", "SessionExpired", "SessionAborted"},
          config : Config, sequence : Nat,
          actor : Accounts \cup {ZeroAddress, Operator},
          offer : Offer \cup {NoOffer}, at : Nat]

SessionState ==
    [status : Statuses, config : Config \cup {NoConfig}, sequence : Nat,
     offerCount : Nat, activeOffer : Offer \cup {NoOffer},
     activeProposer : Accounts \cup {ZeroAddress}, activeQuote : Nat,
     activeValidUntil : Nat, activeSequence : Nat]

Unknown == [status |-> "None", config |-> NoConfig, sequence |-> 0,
            offerCount |-> 0, activeOffer |-> NoOffer,
            activeProposer |-> ZeroAddress, activeQuote |-> 0,
            activeValidUntil |-> 0, activeSequence |-> 0]

Init ==
    /\ now = 0
    /\ session = [s \in SessionIds |-> Unknown]
    /\ balance = [t \in Tokens |-> [a \in Accounts |-> 0]]
    /\ allowance = [t \in Tokens |-> [a \in Accounts |-> 0]]
    /\ log = [s \in SessionIds |-> << >>]

Emit(s, kind, sequence, actor, offer) ==
    log' = [log EXCEPT ![s] =
              Append(@, [kind |-> kind, config |-> session'[s].config,
                         sequence |-> sequence, actor |-> actor,
                         offer |-> offer, at |-> now])]

-----------------------------------------------------------------------------
(* Lifecycle *)

CreateSession(c) ==
    /\ session[c.session].status = "None"
    /\ c.buyer # ZeroAddress /\ c.seller # ZeroAddress
    /\ c.buyer # c.seller
    /\ c.baseAmount # 0
    /\ c.expiresAt > now
    /\ c.maxOffers \in 1..MAX_OFFERS_LIMIT
    /\ session' = [session EXCEPT ![c.session].config = c,
                                  ![c.session].status = "Open"]
    /\ Emit(c.session, "SessionOpened", 0, Operator, NoOffer)
    /\ UNCHANGED <<now, tokens>>

(* The checks every signed entry point shares: open, before the deadline,  *)
(* bound to this configuration, and next in sequence.                      *)
VerifyCommon(m) ==
    LET st == session[m.session]
    IN  /\ st.status = "Open"
        /\ now < st.config.expiresAt
        /\ m.config = st.config
        /\ m.sequence = st.sequence + 1

RequireSigner(s, signer, claimed) ==
    /\ signer = claimed
    /\ claimed \in {session[s].config.buyer, session[s].config.seller}

(* The buyer opens; then it is the counterparty of the newest offer.       *)
NextProposer(st) ==
    IF st.offerCount = 0 THEN st.config.buyer
    ELSE IF st.activeProposer = st.config.buyer THEN st.config.seller
    ELSE st.config.buyer

RecordOffer(o, signer) ==
    LET st == session[o.session]
    IN  /\ VerifyCommon(o)
        /\ RequireSigner(o.session, signer, o.proposer)
        /\ o.proposer = NextProposer(st)
        /\ st.offerCount # st.config.maxOffers
        /\ o.quote # 0
        /\ now < o.validUntil /\ o.validUntil <= st.config.expiresAt
        /\ session' = [session EXCEPT ![o.session] =
              [st EXCEPT !.sequence = o.sequence,
                         !.offerCount = @ + 1,
                         !.activeOffer = o,
                         !.activeProposer = o.proposer,
                         !.activeQuote = o.quote,
                         !.activeValidUntil = o.validUntil,
                         !.activeSequence = o.sequence]]
        /\ Emit(o.session, "OfferRecorded", o.sequence, o.proposer, o)
        /\ UNCHANGED <<now, tokens>>

(* Mutants: any recorded digest of the session is executable, or an offer  *)
(* is executable after it ran out.                                         *)
StandingAnyDigest(m, st) ==
    /\ st.activeOffer # NoOffer
    /\ now < st.activeValidUntil
    /\ m.actor # st.activeProposer

StandingForever(m, st) ==
    /\ st.activeOffer # NoOffer
    /\ m.offer = st.activeOffer
    /\ m.actor # st.activeProposer

(* The acceptance names the active offer, still valid, of the other party. *)
Standing(m, st) ==
    /\ st.activeOffer # NoOffer
    /\ m.offer = st.activeOffer
    /\ now < st.activeValidUntil
    /\ m.actor # st.activeProposer

(* Mutant: a transfer that credits what it never debits.                   *)
MovedCreditOnly(b, from, to, amount) == [b EXCEPT ![to] = @ + amount]

(* safeTransferFrom(from, to, amount): both legs revert unless the owner   *)
(* holds the amount and the exchange may still move it.                    *)
Covers(t, from, amount) ==
    balance[t][from] >= amount /\ allowance[t][from] >= amount

Moved(b, from, to, amount) ==
    [b EXCEPT ![from] = @ - amount, ![to] = @ + amount]

AcceptAndSettle(m, signer) ==
    LET st     == session[m.session]
        buyer  == st.config.buyer
        seller == st.config.seller
        price  == st.activeQuote
        amount == st.config.baseAmount
    IN  /\ VerifyCommon(m)
        /\ RequireSigner(m.session, signer, m.actor)
        /\ Standing(m, st)
        /\ Covers("quote", buyer, price)
        /\ Covers("base", seller, amount)
        /\ session' = [session EXCEPT ![m.session] =
              [st EXCEPT !.status = "Settled",
                         !.sequence = m.sequence,
                         !.activeOffer = NoOffer,
                         !.activeProposer = ZeroAddress,
                         !.activeQuote = 0,
                         !.activeValidUntil = 0,
                         !.activeSequence = 0]]
        /\ balance' =
              [balance EXCEPT !["quote"] = Moved(@, buyer, seller, price),
                              !["base"]  = Moved(@, seller, buyer, amount)]
        /\ allowance' =
              [allowance EXCEPT !["quote"][buyer]  = @ - price,
                                !["base"][seller] = @ - amount]
        /\ Emit(m.session, "SettlementCompleted", m.sequence, m.actor, m.offer)
        /\ UNCHANGED now

(* Either participant, whether or not it is its turn.                      *)
CloseSession(m, signer) ==
    /\ VerifyCommon(m)
    /\ RequireSigner(m.session, signer, m.actor)
    /\ m.reason \in 1..MAX_CLOSE_REASON
    /\ session' = [session EXCEPT ![m.session].status = "Closed",
                                  ![m.session].sequence = m.sequence]
    /\ Emit(m.session, "SessionClosed", m.sequence, m.actor, NoOffer)
    /\ UNCHANGED <<now, tokens>>

(* Mutant: the deadline check of the other entry points is kept as well.   *)
ExpireSessionBeforeDeadline(s) ==
    /\ session[s].status = "Open"
    /\ now < session[s].config.expiresAt /\ now >= session[s].config.expiresAt
    /\ session' = [session EXCEPT ![s].status = "Expired"]
    /\ Emit(s, "SessionExpired", 0, ZeroAddress, NoOffer)
    /\ UNCHANGED <<now, tokens>>

(* Anyone's to call.                                                       *)
ExpireSession(s) ==
    /\ session[s].status = "Open"
    /\ now >= session[s].config.expiresAt
    /\ session' = [session EXCEPT ![s].status = "Expired"]
    /\ Emit(s, "SessionExpired", 0, ZeroAddress, NoOffer)
    /\ UNCHANGED <<now, tokens>>

(* Submitted by the operator alone; one valid reason stands for the four.   *)
AbortSession(s) ==
    /\ session[s].status = "Open"
    /\ now < session[s].config.expiresAt
    /\ session' = [session EXCEPT ![s].status = "Aborted"]
    /\ Emit(s, "SessionAborted", 0, Operator, NoOffer)
    /\ UNCHANGED <<now, tokens>>

-----------------------------------------------------------------------------
(* The tokens, and the chain clock *)

Mint(t, to, amount) ==
    /\ balance[t][to] + amount <= MaxBalance
    /\ balance' = [balance EXCEPT ![t][to] = @ + amount]
    /\ UNCHANGED <<now, session, allowance, log>>

Approve(t, owner, amount) ==
    /\ allowance' = [allowance EXCEPT ![t][owner] = amount]
    /\ UNCHANGED <<now, session, balance, log>>

NextBlock ==
    /\ now < MaxTime
    /\ now' = now + 1
    /\ UNCHANGED <<session, tokens, log>>

Next ==
    \/ \E c \in Configs : CreateSession(c)
    \/ \E m \in OfferMessages : RecordOffer(m.content, m.signer)
    \/ \E m \in AcceptMessages : AcceptAndSettle(m.content, m.signer)
    \/ \E m \in CloseMessages : CloseSession(m.content, m.signer)
    \/ \E s \in SessionIds : ExpireSession(s)
    \/ \E s \in SessionIds : AbortSession(s)
    \/ \E f \in Funding : Mint(f.token, f.owner, f.amount)
    \/ \E f \in Funding : Approve(f.token, f.owner, f.amount)
    \/ NextBlock

Spec == Init /\ [][Next]_vars

(* Blocks keep coming, and expireSession is callable by anyone: someone    *)
(* who wants an overdue session ended eventually calls it.                 *)
FairSpec ==
    /\ Spec
    /\ WF_vars(NextBlock)
    /\ \A s \in SessionIds : WF_vars(ExpireSession(s))

-----------------------------------------------------------------------------
(* Properties.  The log is what the rest of the system reads, so they are  *)
(* stated about it: entry 1 opens the session, the offers follow, and at   *)
(* most one entry, the last, ends it.                                      *)

TerminalKinds == {"SettlementCompleted", "SessionClosed", "SessionExpired",
                  "SessionAborted"}

(* Every variable holds what its Solidity type holds. *)
TypeOK ==
    /\ now \in Nat
    /\ session \in [SessionIds -> SessionState]
    /\ balance \in [Tokens -> [Accounts -> Nat]]
    /\ allowance \in [Tokens -> [Accounts -> Nat]]
    /\ log \in [SessionIds -> Seq(Event)]

(* Anything on the log after the opening is an offer or the one ending:    *)
(* no transaction, replayed or late, follows a session's terminal event.   *)
OneEnding ==
    \A s \in SessionIds : \A k \in 1..Len(log[s]) :
        /\ log[s][k].kind = "SessionOpened" <=> k = 1
        /\ log[s][k].kind \in TerminalKinds => k = Len(log[s])

(* Offers carry gapless sequence numbers, the buyer makes the first and    *)
(* the two take turns, never more of them than the session was opened for, *)
(* each signed under the configuration it was opened with.                 *)
TurnsAlternate ==
    \A s \in SessionIds : \A k \in 1..Len(log[s]) :
        LET e == log[s][k] IN
        /\ e.config = log[s][1].config
        /\ e.kind = "OfferRecorded" =>
              /\ e.sequence = k - 1
              /\ e.sequence <= e.config.maxOffers
              /\ e.actor \in {e.config.buyer, e.config.seller}
              /\ k = 2 => e.actor = e.config.buyer
              /\ k > 2 => e.actor # log[s][k - 1].actor
              /\ e.offer.config = e.config /\ e.offer.session = s
              /\ e.offer.proposer = e.actor /\ e.offer.sequence = e.sequence

(* A settlement executes the offer standing at that moment and no other:   *)
(* the newest on the log, not yet expired, accepted by the party that did  *)
(* not make it.  A replaced digest is never executed.                      *)
SettledAsAgreed ==
    \A s \in SessionIds : \A k \in 1..Len(log[s]) :
        LET e == log[s][k]
            o == log[s][k - 1]
        IN  e.kind = "SettlementCompleted" =>
              /\ k > 2
              /\ o.kind = "OfferRecorded"
              /\ e.offer = o.offer
              /\ e.sequence = o.sequence + 1
              /\ e.at < o.offer.validUntil
              /\ e.actor # o.actor
              /\ e.actor \in {e.config.buyer, e.config.seller}

(* Expiry and every other ending exclude each other on the chain's clock:  *)
(* a session is only marked expired at or after its deadline, and nothing  *)
(* else is recorded at or after it, so an expiry is never relabelled.      *)
DeadlinesKept ==
    \A s \in SessionIds : \A k \in 1..Len(log[s]) :
        LET e == log[s][k] IN
        /\ e.kind = "SessionExpired" <=> e.at >= e.config.expiresAt
        /\ e.kind = "OfferRecorded" =>
              e.at < e.offer.validUntil /\ e.offer.validUntil <= e.config.expiresAt

(* The contract's storage is a function of the events it emitted, which    *)
(* is what lets the indexer and the reconstruction tool read nothing else. *)
LastOffer(s) ==
    LET n == Len(log[s]) IN
    IF n = 0 THEN NoOffer
    ELSE IF log[s][n].kind \in TerminalKinds THEN
        IF n = 1 THEN NoOffer ELSE log[s][n - 1].offer
    ELSE log[s][n].offer

StatusAfter(kind) ==
    CASE kind = "SettlementCompleted" -> "Settled"
      [] kind = "SessionClosed" -> "Closed"
      [] kind = "SessionExpired" -> "Expired"
      [] kind = "SessionAborted" -> "Aborted"
      [] OTHER -> "Open"

Replays(st, events, last) ==
    LET n == Len(events) IN
    /\ st.config = events[1].config
    /\ st.status = StatusAfter(events[n].kind)
    /\ st.status = "Open" => st.offerCount = n - 1
    /\ st.status # "Open" => st.offerCount = n - 2
    /\ st.status \in {"Settled", "Closed"} => st.sequence = st.offerCount + 1
    /\ st.status \notin {"Settled", "Closed"} => st.sequence = st.offerCount
    /\ st.activeOffer = IF st.status = "Settled" THEN NoOffer ELSE last
    /\ st.activeOffer # NoOffer =>
          /\ st.activeProposer = last.proposer
          /\ st.activeQuote = last.quote
          /\ st.activeValidUntil = last.validUntil
          /\ st.activeSequence = last.sequence

StateFollows(s) ==
    /\ log[s] = << >> => session[s] = Unknown
    /\ log[s] # << >> => Replays(session[s], log[s], LastOffer(s))

(* Storage and events never disagree: status, sequence, number of offers   *)
(* and active offer are those of the last entries of the log.              *)
StateFromEvents == \A s \in SessionIds : StateFollows(s)

(* Tokens leave a wallet only by a settlement, which moves exactly the     *)
(* agreed price one way and the session's quantity the other, and settling *)
(* a session moves both: never one leg, never another price.               *)
Settles(s) == session[s].status # "Settled" /\ session'[s].status = "Settled"

SettledBalance(s) ==
    LET c     == session[s].config
        price == log'[s][Len(log'[s])].offer.quote
        paid  == [balance["quote"] EXCEPT ![c.buyer] = @ - price,
                                          ![c.seller] = @ + price]
        delivered == [balance["base"] EXCEPT ![c.seller] = @ - c.baseAmount,
                                             ![c.buyer] = @ + c.baseAmount]
    IN  [balance EXCEPT !["quote"] = paid, !["base"] = delivered]

AtomicSwap ==
    [][ /\ \A s \in SessionIds : Settles(s) => balance' = SettledBalance(s)
        /\ \/ \E s \in SessionIds : Settles(s)
           \/ \A t \in Tokens, a \in Accounts : balance'[t][a] >= balance[t][a]
      ]_vars

(* A session cannot be held open by inaction: once its deadline passes,    *)
(* anyone can end it.                                                      *)
EverySessionEnds ==
    \A s \in SessionIds :
        session[s].status = "Open" ~> session[s].status \in Terminal

(* The contract implements the bargain the two parties think they are in:  *)
(* the offers are the entries after the opening, as many as were counted.  *)
OfferMade(e) ==
    [by |-> e.actor, quote |-> e.offer.quote, until |-> e.offer.validUntil]

Phase(status) ==
    CASE status = "None" -> "idle"
      [] status = "Open" -> "open"
      [] status = "Settled" -> "agreed"
      [] OTHER -> "over"

BargainOf(s) ==
    [phase |-> Phase(session[s].status),
     terms |-> session[s].config,
     offers |-> [k \in 1..session[s].offerCount |-> OfferMade(log[s][k + 1])]]

Bargain == INSTANCE Bargain WITH
    deal <- [s \in SessionIds |-> BargainOf(s)],
    Terms <- Configs,
    NoTerms <- NoConfig,
    Proposals <- {m.content : m \in OfferMessages}

ImplementsBargain == Bargain!Spec
=============================================================================
