--------------------------- MODULE ExchangeProofs ---------------------------
(***************************************************************************)
(* Theorems about Exchange, for every set of sessions, accounts, messages  *)
(* and funding.                                                            *)
(***************************************************************************)
EXTENDS Exchange, SequenceTheorems, TLAPS

(* A session that was created names two distinct participants with keys.   *)
PartiesOK ==
    \A s \in SessionIds :
        session[s].status # "None" =>
            /\ session[s].config \in Config
            /\ session[s].config.buyer \in Accounts
            /\ session[s].config.seller \in Accounts
            /\ session[s].config.buyer # session[s].config.seller

TypeInv == TypeOK /\ PartiesOK

LEMMA ConfigType ==
    ASSUME NEW c \in Configs
    PROVE  c \in Config
BY MessagesAssumption

LEMMA MessageTypes ==
    /\ \A m \in OfferMessages : m.content \in Offer /\ m.signer \in Accounts
    /\ \A m \in AcceptMessages : m.content \in Accept /\ m.signer \in Accounts
    /\ \A m \in CloseMessages : m.content \in Close /\ m.signer \in Accounts
BY MessagesAssumption

(* Emitting a well-formed event keeps the log well-formed.                 *)
LEMMA EmitType ==
    ASSUME TypeOK, session' \in [SessionIds -> SessionState],
           NEW s \in SessionIds, session'[s].config \in Config,
           NEW kind \in {"SessionOpened", "OfferRecorded",
                         "SettlementCompleted", "SessionClosed",
                         "SessionExpired", "SessionAborted"},
           NEW n \in Nat, NEW a \in Accounts \cup {ZeroAddress, Operator},
           NEW o \in Offer \cup {NoOffer},
           Emit(s, kind, n, a, o)
    PROVE  log' \in [SessionIds -> Seq(Event)]
<1> DEFINE e == [kind |-> kind, config |-> session'[s].config, sequence |-> n,
                 actor |-> a, offer |-> o, at |-> now]
<1>1. e \in Event
  BY DEF Event, TypeOK
<1>2. log[s] \in Seq(Event)
  BY DEF TypeOK
<1>3. Append(log[s], e) \in Seq(Event)
  BY <1>1, <1>2
<1>4. log' = [log EXCEPT ![s] = Append(log[s], e)]
  BY DEF Emit
<1> QED
  BY <1>3, <1>4 DEF TypeOK

LEMMA TypeInit == Init => TypeInv
<1> SUFFICES ASSUME Init PROVE TypeInv
  OBVIOUS
<1>1. Unknown \in SessionState
  BY DEF Unknown, SessionState, Statuses
<1>2. TypeOK
  BY <1>1 DEF Init, TypeOK
<1>3. PartiesOK
  BY DEF Init, PartiesOK, Unknown
<1> QED
  BY <1>2, <1>3 DEF TypeInv

LEMMA TypeCreate ==
    ASSUME TypeInv, NEW c \in Configs, CreateSession(c)
    PROVE  TypeInv'
<1>1. c \in Config /\ c.session \in SessionIds
  BY ConfigType DEF Config
<1>2. session[c.session] \in SessionState
  BY <1>1 DEF TypeInv, TypeOK
<1>3. session' = [session EXCEPT ![c.session] =
                    [session[c.session] EXCEPT !.config = c, !.status = "Open"]]
  BY <1>1, <1>2 DEF CreateSession, SessionState, TypeInv, TypeOK
<1>4. [session[c.session] EXCEPT !.config = c, !.status = "Open"] \in SessionState
  BY <1>1, <1>2 DEF SessionState, Statuses
<1>5. session' \in [SessionIds -> SessionState]
  BY <1>3, <1>4 DEF TypeInv, TypeOK
<1>6. session'[c.session].config = c
  BY <1>1, <1>2, <1>3 DEF SessionState, TypeInv, TypeOK
<1>7. log' \in [SessionIds -> Seq(Event)]
  BY <1>1, <1>5, <1>6, EmitType DEF CreateSession, TypeInv
<1>8. TypeOK'
  BY <1>5, <1>7 DEF CreateSession, TypeInv, TypeOK, tokens
<1>9. PartiesOK'
  BY <1>1, <1>2, <1>3, SMTT(40) DEF CreateSession, TypeInv, TypeOK, PartiesOK, Config, SessionState
<1> QED
  BY <1>8, <1>9 DEF TypeInv

LEMMA TypeOffer ==
    ASSUME TypeInv, NEW o \in Offer, NEW signer \in Accounts,
           RecordOffer(o, signer)
    PROVE  TypeInv'
<1> DEFINE r == o.session
           st == session[r]
           new == [st EXCEPT !.sequence = o.sequence,
                             !.offerCount = @ + 1,
                             !.activeOffer = o,
                             !.activeProposer = o.proposer,
                             !.activeQuote = o.quote,
                             !.activeValidUntil = o.validUntil,
                             !.activeSequence = o.sequence]
<1>1. /\ r \in SessionIds /\ o.sequence \in Nat /\ o.proposer \in Accounts
      /\ o.quote \in Nat /\ o.validUntil \in Nat
  BY DEF Offer
<1>2. st \in SessionState /\ st.status = "Open"
  BY <1>1 DEF TypeInv, TypeOK, RecordOffer, VerifyCommon
<1>3. st.config \in Config
  BY <1>1, <1>2 DEF TypeInv, PartiesOK
<1>4. new \in SessionState /\ new.config = st.config /\ new.status = st.status
  <2>1. PICK n \in Nat : n = st.offerCount + 1
    BY <1>2 DEF SessionState
  <2>2. new = [st EXCEPT !.sequence = o.sequence, !.offerCount = n,
                         !.activeOffer = o, !.activeProposer = o.proposer,
                         !.activeQuote = o.quote,
                         !.activeValidUntil = o.validUntil,
                         !.activeSequence = o.sequence]
    BY <2>1
  <2> HIDE DEF new
  <2> QED
    BY <1>1, <1>2, <2>2 DEF SessionState
<1>5. session' = [session EXCEPT ![r] = new]
  BY DEF RecordOffer
<1>6. session' \in [SessionIds -> SessionState] /\ session'[r] = new
  BY <1>1, <1>4, <1>5 DEF TypeInv, TypeOK
<1>7. log' \in [SessionIds -> Seq(Event)]
  BY <1>1, <1>3, <1>4, <1>6, EmitType DEF RecordOffer, TypeInv
<1>8. TypeOK'
  BY <1>6, <1>7 DEF RecordOffer, TypeInv, TypeOK, tokens
<1>9. PartiesOK'
  BY <1>1, <1>4, <1>5, <1>6 DEF TypeInv, TypeOK, PartiesOK
<1> QED
  BY <1>8, <1>9 DEF TypeInv

(* A transfer the balance covers leaves every balance a natural number.    *)
LEMMA MovedType ==
    ASSUME NEW b \in [Accounts -> Nat], NEW from \in Accounts,
           NEW to \in Accounts, from # to, NEW n \in Nat, b[from] >= n
    PROVE  Moved(b, from, to, n) \in [Accounts -> Nat]
<1>1. b[from] - n \in Nat /\ b[to] + n \in Nat
  OBVIOUS
<1>2. Moved(b, from, to, n) =
        [a \in Accounts |-> IF a = from THEN b[from] - n
                            ELSE IF a = to THEN b[to] + n ELSE b[a]]
  BY DEF Moved
<1> QED
  BY <1>1, <1>2

LEMMA TypeAccept ==
    ASSUME TypeInv, NEW m \in Accept, NEW signer \in Accounts,
           AcceptAndSettle(m, signer)
    PROVE  TypeInv'
<1> DEFINE r == m.session
           st == session[r]
           buyer == st.config.buyer
           seller == st.config.seller
           price == st.activeQuote
           amount == st.config.baseAmount
           new == [st EXCEPT !.status = "Settled",
                             !.sequence = m.sequence,
                             !.activeOffer = NoOffer,
                             !.activeProposer = ZeroAddress,
                             !.activeQuote = 0,
                             !.activeValidUntil = 0,
                             !.activeSequence = 0]
<1>1. /\ r \in SessionIds /\ m.sequence \in Nat /\ m.actor \in Accounts
      /\ m.offer \in Offer
  BY DEF Accept
<1>2. st \in SessionState /\ st.status = "Open"
  BY <1>1 DEF TypeInv, TypeOK, AcceptAndSettle, VerifyCommon
<1>3. /\ st.config \in Config /\ buyer \in Accounts /\ seller \in Accounts
      /\ buyer # seller
  BY <1>1, <1>2 DEF TypeInv, PartiesOK
<1>4. new \in SessionState /\ new.config = st.config
  BY <1>1, <1>2 DEF SessionState, Statuses
<1>5. session' = [session EXCEPT ![r] = new]
  BY DEF AcceptAndSettle
<1>6. session' \in [SessionIds -> SessionState] /\ session'[r] = new
  BY <1>1, <1>4, <1>5 DEF TypeInv, TypeOK
<1>7. log' \in [SessionIds -> Seq(Event)]
  <2>1. Emit(r, "SettlementCompleted", m.sequence, m.actor, m.offer)
    BY DEF AcceptAndSettle
  <2> QED
    BY <1>1, <1>3, <1>4, <1>6, <2>1, EmitType DEF TypeInv
<1>8. price \in Nat /\ amount \in Nat
  BY SMTT(40), <1>2, <1>3 DEF SessionState, Config
<1>9. /\ balance["quote"][buyer] >= price /\ allowance["quote"][buyer] >= price
      /\ balance["base"][seller] >= amount /\ allowance["base"][seller] >= amount
  BY DEF AcceptAndSettle, Covers
<1>10. /\ balance["quote"] \in [Accounts -> Nat]
       /\ balance["base"] \in [Accounts -> Nat]
       /\ allowance["quote"] \in [Accounts -> Nat]
       /\ allowance["base"] \in [Accounts -> Nat]
  BY SMTT(40) DEF TypeInv, TypeOK, Tokens
<1>11. balance' \in [Tokens -> [Accounts -> Nat]]
  <2>1. Moved(balance["quote"], buyer, seller, price) \in [Accounts -> Nat]
    BY <1>3, <1>8, <1>9, <1>10, MovedType
  <2>2. Moved(balance["base"], seller, buyer, amount) \in [Accounts -> Nat]
    BY <1>3, <1>8, <1>9, <1>10, MovedType
  <2>3. balance' = [balance EXCEPT
            !["quote"] = Moved(balance["quote"], buyer, seller, price),
            !["base"] = Moved(balance["base"], seller, buyer, amount)]
    BY DEF AcceptAndSettle, TypeInv, TypeOK, Tokens
  <2> QED
    BY <2>1, <2>2, <2>3 DEF TypeInv, TypeOK
<1>12. allowance' \in [Tokens -> [Accounts -> Nat]]
  <2>1. allowance["quote"][buyer] - price \in Nat
    BY <1>3, <1>8, <1>9, <1>10
  <2>2. allowance["base"][seller] - amount \in Nat
    BY SMTT(40), <1>3, <1>8, <1>9, <1>10
  <2>3. allowance' = [allowance EXCEPT
            !["quote"] = [allowance["quote"] EXCEPT
                            ![buyer] = allowance["quote"][buyer] - price],
            !["base"] = [allowance["base"] EXCEPT
                            ![seller] = allowance["base"][seller] - amount]]
    BY DEF AcceptAndSettle, TypeInv, TypeOK, Tokens
  <2> QED
    BY <1>10, <2>1, <2>2, <2>3, ZenonT(60) DEF TypeInv, TypeOK
<1>13. TypeOK'
  <2>1. now' = now
    BY DEF AcceptAndSettle
  <2> QED
    BY SMTT(40), <1>6, <1>7, <1>11, <1>12, <2>1 DEF TypeInv, TypeOK
<1>14. PartiesOK'
  BY <1>1, <1>2, <1>4, <1>5, <1>6 DEF TypeInv, TypeOK, PartiesOK
<1> QED
  BY <1>13, <1>14 DEF TypeInv

LEMMA TypeClose ==
    ASSUME TypeInv, NEW m \in Close, NEW signer \in Accounts,
           CloseSession(m, signer)
    PROVE  TypeInv'
<1> DEFINE r == m.session
           st == session[r]
           new == [st EXCEPT !.status = "Closed", !.sequence = m.sequence]
<1>1. r \in SessionIds /\ m.sequence \in Nat /\ m.actor \in Accounts
  BY DEF Close
<1>2. st \in SessionState /\ st.status = "Open"
  BY <1>1 DEF TypeInv, TypeOK, CloseSession, VerifyCommon
<1>3. st.config \in Config
  BY <1>1, <1>2 DEF TypeInv, PartiesOK
<1>4. new \in SessionState /\ new.config = st.config
  BY <1>1, <1>2 DEF SessionState, Statuses
<1>5. session' = [session EXCEPT ![r] = new]
  BY <1>1, <1>2 DEF CloseSession, SessionState, TypeInv, TypeOK
<1>6. session' \in [SessionIds -> SessionState] /\ session'[r] = new
  BY <1>1, <1>4, <1>5 DEF TypeInv, TypeOK
<1>7. log' \in [SessionIds -> Seq(Event)]
  BY <1>1, <1>3, <1>4, <1>6, EmitType DEF CloseSession, TypeInv
<1>8. TypeOK'
  BY <1>6, <1>7 DEF CloseSession, TypeInv, TypeOK, tokens
<1>9. PartiesOK'
  BY <1>1, <1>2, <1>4, <1>5, <1>6 DEF TypeInv, TypeOK, PartiesOK
<1> QED
  BY <1>8, <1>9 DEF TypeInv

LEMMA TypeEnd ==
    ASSUME TypeInv, NEW r \in SessionIds, ExpireSession(r) \/ AbortSession(r)
    PROVE  TypeInv'
<1> DEFINE st == session[r]
           new(x) == [st EXCEPT !.status = x]
<1>1. st \in SessionState /\ st.status = "Open"
  BY DEF TypeInv, TypeOK, ExpireSession, AbortSession
<1>2. st.config \in Config
  BY <1>1 DEF TypeInv, PartiesOK
<1>3. PICK x \in {"Expired", "Aborted"} : session' = [session EXCEPT ![r] = new(x)]
  BY <1>1 DEF ExpireSession, AbortSession, SessionState, TypeInv, TypeOK
<1>4. new(x) \in SessionState /\ new(x).config = st.config
  BY <1>1 DEF SessionState, Statuses
<1>5. session' \in [SessionIds -> SessionState] /\ session'[r] = new(x)
  BY <1>3, <1>4 DEF TypeInv, TypeOK
<1>6. log' \in [SessionIds -> Seq(Event)]
  BY <1>2, <1>4, <1>5, EmitType DEF ExpireSession, AbortSession, TypeInv
<1>7. TypeOK'
  BY <1>5, <1>6 DEF ExpireSession, AbortSession, TypeInv, TypeOK, tokens
<1>8. PartiesOK'
  BY <1>1, <1>3, <1>4, <1>5 DEF TypeInv, TypeOK, PartiesOK
<1> QED
  BY <1>7, <1>8 DEF TypeInv

LEMMA TypeEnvironment ==
    ASSUME TypeInv,
           \/ \E f \in Funding : Mint(f.token, f.owner, f.amount)
           \/ \E f \in Funding : Approve(f.token, f.owner, f.amount)
           \/ NextBlock
    PROVE  TypeInv'
<1>1. \A f \in Funding : f.token \in Tokens /\ f.owner \in Accounts /\ f.amount \in Nat
  BY BoundsAssumption
<1>2. CASE \E f \in Funding : Mint(f.token, f.owner, f.amount)
  <2>1. PICK f \in Funding : Mint(f.token, f.owner, f.amount)
    BY <1>2
  <2>2. balance' \in [Tokens -> [Accounts -> Nat]]
    BY <1>1, <2>1 DEF Mint, TypeInv, TypeOK
  <2> QED
    BY <2>1, <2>2 DEF Mint, TypeInv, TypeOK, PartiesOK
<1>3. CASE \E f \in Funding : Approve(f.token, f.owner, f.amount)
  <2>1. PICK f \in Funding : Approve(f.token, f.owner, f.amount)
    BY <1>3
  <2>2. allowance' \in [Tokens -> [Accounts -> Nat]]
    BY <1>1, <2>1 DEF Approve, TypeInv, TypeOK
  <2> QED
    BY <2>1, <2>2 DEF Approve, TypeInv, TypeOK, PartiesOK
<1>4. CASE NextBlock
  BY <1>4 DEF NextBlock, tokens, TypeInv, TypeOK, PartiesOK
<1> QED
  BY <1>2, <1>3, <1>4

LEMMA TypeStep == TypeInv /\ [Next]_vars => TypeInv'
<1> SUFFICES ASSUME TypeInv, [Next]_vars PROVE TypeInv'
  OBVIOUS
<1>1. ASSUME NEW c \in Configs, CreateSession(c) PROVE TypeInv'
  BY <1>1, TypeCreate
<1>2. ASSUME NEW m \in OfferMessages, RecordOffer(m.content, m.signer)
      PROVE TypeInv'
  BY <1>2, TypeOffer, MessageTypes
<1>3. ASSUME NEW m \in AcceptMessages, AcceptAndSettle(m.content, m.signer)
      PROVE TypeInv'
  BY <1>3, TypeAccept, MessageTypes
<1>4. ASSUME NEW m \in CloseMessages, CloseSession(m.content, m.signer)
      PROVE TypeInv'
  BY <1>4, TypeClose, MessageTypes
<1>5. ASSUME NEW s \in SessionIds, ExpireSession(s) \/ AbortSession(s)
      PROVE TypeInv'
  BY <1>5, TypeEnd
<1>6. CASE UNCHANGED vars
  BY <1>6 DEF vars, TypeInv, TypeOK, PartiesOK
<1> QED
  BY <1>1, <1>2, <1>3, <1>4, <1>5, <1>6, TypeEnvironment DEF Next

(* No transaction takes a variable out of its type: in particular no       *)
(* balance or allowance ever goes below zero, since a settlement whose     *)
(* legs are not both covered reverts.                                      *)
THEOREM TypeCorrect == Spec => []TypeOK
<1>1. Spec => []TypeInv
  BY TypeInit, TypeStep, PTL DEF Spec
<1>2. TypeInv => TypeOK
  BY DEF TypeInv
<1> QED
  BY <1>1, <1>2, PTL

-----------------------------------------------------------------------------
(* The history of a session.  HistoryInv is inductive: the log is a legal  *)
(* negotiation and the storage follows from it.  Each conjunct needs the   *)
(* others: that nothing follows an ending comes from the status, which     *)
(* StateFromEvents reads off the last entry; whose turn it is comes from   *)
(* activeProposer, whose meaning is again StateFromEvents.                 *)

(* An entry that records an offer carries one.                             *)
OffersCarried ==
    \A s \in SessionIds : \A k \in 1..Len(log[s]) :
        log[s][k].kind = "OfferRecorded" => log[s][k].offer \in Offer

(* The entry that opens a session carries none.                            *)
OpeningBare ==
    \A s \in SessionIds : log[s] # << >> => log[s][1].offer = NoOffer

HistoryInv ==
    /\ TypeInv
    /\ OffersCarried
    /\ OpeningBare
    /\ OneEnding
    /\ TurnsAlternate
    /\ SettledAsAgreed
    /\ DeadlinesKept
    /\ StateFromEvents

(* What an entry point's guards guarantee of the entry it appends.         *)
LegalEntry(s, e) ==
    LET n == Len(log[s])
        o == log[s][n]
    IN  /\ e.kind = "SessionOpened" <=> n = 0
        /\ n > 0 => /\ session[s].status = "Open"
                    /\ e.config = session[s].config
        /\ n = 0 => e.offer = NoOffer
        /\ e.kind = "OfferRecorded" =>
              /\ e.offer \in Offer
              /\ e.sequence = n
              /\ e.sequence <= e.config.maxOffers
              /\ e.actor \in {e.config.buyer, e.config.seller}
              /\ n = 1 => e.actor = e.config.buyer
              /\ n > 1 => e.actor # o.actor
              /\ e.offer.config = e.config /\ e.offer.session = s
              /\ e.offer.proposer = e.actor /\ e.offer.sequence = e.sequence
              /\ e.at < e.offer.validUntil
              /\ e.offer.validUntil <= e.config.expiresAt
        /\ e.kind = "SettlementCompleted" =>
              /\ n > 1
              /\ o.kind = "OfferRecorded"
              /\ e.offer = o.offer
              /\ e.sequence = o.sequence + 1
              /\ e.at < o.offer.validUntil
              /\ e.actor # o.actor
              /\ e.actor \in {e.config.buyer, e.config.seller}
        /\ e.kind = "SessionExpired" <=> e.at >= e.config.expiresAt

(* An open session's log holds its opening and then offers only.           *)
LEMMA OpenLog ==
    ASSUME HistoryInv, NEW s \in SessionIds, session[s].status = "Open"
    PROVE  /\ Len(log[s]) \in Nat /\ Len(log[s]) > 0
           /\ \A k \in 1..Len(log[s]) : log[s][k].kind \notin TerminalKinds
           /\ \A k \in 2..Len(log[s]) : log[s][k].kind = "OfferRecorded"
           /\ session[s].config = log[s][1].config
           /\ session[s].offerCount = Len(log[s]) - 1
           /\ session[s].sequence = Len(log[s]) - 1
<1> DEFINE n == Len(log[s])
<1>1. log[s] \in Seq(Event) /\ n \in Nat
  BY DEF HistoryInv, TypeInv, TypeOK
<1>2. log[s] # << >> /\ n > 0
  <2>1. session[s] # Unknown
    BY DEF Unknown
  <2> QED
    BY <1>1, <2>1 DEF HistoryInv, StateFromEvents, StateFollows
<1>3. Replays(session[s], log[s], LastOffer(s))
  BY <1>2 DEF HistoryInv, StateFromEvents, StateFollows
<1>4. log[s][n].kind \notin TerminalKinds
  BY <1>3 DEF Replays, StatusAfter, TerminalKinds
<1>5. \A k \in 1..n : log[s][k].kind \notin TerminalKinds
  BY <1>1, <1>4 DEF HistoryInv, OneEnding
<1>6. \A k \in 2..n : log[s][k].kind = "OfferRecorded"
  <2>1. \A k \in 1..n : log[s][k] \in Event
    BY <1>1
  <2>2. \A k \in 2..n : log[s][k].kind # "SessionOpened"
    BY <1>1 DEF HistoryInv, OneEnding
  <2> QED
    BY <1>1, <1>5, <2>1, <2>2 DEF Event, TerminalKinds
<1>7. /\ session[s].config = log[s][1].config
      /\ session[s].offerCount = n - 1
      /\ session[s].sequence = session[s].offerCount
  BY <1>3 DEF Replays
<1> QED
  BY <1>1, <1>2, <1>5, <1>6, <1>7

(* Once an offer was made, an open session's active fields are those of    *)
(* its newest entry; before that no digest is active.                      *)
LEMMA NewestOffer ==
    ASSUME HistoryInv, NEW s \in SessionIds, session[s].status = "Open"
    PROVE  LET n == Len(log[s])
               p == log[s][n]
           IN  /\ n > 1 => /\ p.kind = "OfferRecorded"
                           /\ p.sequence = n - 1
                           /\ n - 1 <= session[s].config.maxOffers
                           /\ p.actor = session[s].activeProposer
                           /\ p.offer = session[s].activeOffer
                           /\ p.offer.quote = session[s].activeQuote
                           /\ p.offer.validUntil = session[s].activeValidUntil
               /\ n = 1 => session[s].activeOffer = p.offer
               /\ LastOffer(s) = p.offer
<1> DEFINE n == Len(log[s])
           p == log[s][n]
           st == session[s]
<1>1. n \in Nat /\ log[s] \in Seq(Event)
  BY DEF HistoryInv, TypeInv, TypeOK
<1>2. /\ n > 0 /\ log[s] # << >>
      /\ p.kind \notin TerminalKinds
      /\ \A k \in 2..n : log[s][k].kind = "OfferRecorded"
      /\ st.config = log[s][1].config
  BY <1>1, OpenLog
<1>3. LastOffer(s) = p.offer
  BY <1>1, <1>2 DEF LastOffer
<1>4. Replays(st, log[s], p.offer)
  BY <1>2, <1>3 DEF HistoryInv, StateFromEvents, StateFollows
<1>5. st.activeOffer = p.offer
  BY <1>4 DEF Replays
<1>6. ASSUME n > 1
      PROVE  /\ p.kind = "OfferRecorded"
             /\ p.sequence = n - 1
             /\ n - 1 <= session[s].config.maxOffers
             /\ p.actor = session[s].activeProposer
             /\ p.offer = session[s].activeOffer
             /\ p.offer.quote = session[s].activeQuote
             /\ p.offer.validUntil = session[s].activeValidUntil
  <2>1. p.kind = "OfferRecorded" /\ n \in 1..Len(log[s])
    BY <1>1, <1>2, <1>6
  <2>2. /\ p.config = log[s][1].config
        /\ p.sequence = n - 1
        /\ p.sequence <= p.config.maxOffers
        /\ p.offer.proposer = p.actor
    BY <2>1 DEF HistoryInv, TurnsAlternate
  <2>3. p.offer # NoOffer
    BY <2>1, NullAssumption DEF HistoryInv, OffersCarried
  <2>4. /\ st.activeProposer = p.offer.proposer
        /\ st.activeQuote = p.offer.quote
        /\ st.activeValidUntil = p.offer.validUntil
    BY <1>4, <1>5, <2>3 DEF Replays
  <2> QED
    BY <1>2, <1>5, <2>1, <2>2, <2>4
<1> QED
  BY <1>3, <1>5, <1>6

(* A legal entry extends a legal history.                                  *)
LEMMA HistoryGrows ==
    ASSUME HistoryInv, TypeInv', NEW r \in SessionIds, NEW e \in Event,
           log' = [log EXCEPT ![r] = Append(@, e)],
           \A s \in SessionIds : s # r => session'[s] = session[s],
           LegalEntry(r, e), StateFollows(r)'
    PROVE  HistoryInv'
<1> DEFINE n == Len(log[r])
<1>1. log[r] \in Seq(Event) /\ n \in Nat
  BY DEF HistoryInv, TypeInv, TypeOK
<1>2. /\ log'[r] = Append(log[r], e)
      /\ Len(log'[r]) = n + 1
      /\ log'[r][n + 1] = e
      /\ \A k \in 1..n : log'[r][k] = log[r][k]
  BY <1>1 DEF HistoryInv, TypeInv, TypeOK
<1>3. \A s \in SessionIds : s # r => log'[s] = log[s]
  BY DEF HistoryInv, TypeInv, TypeOK
<1>4. \A k \in 1..n : log[r][k].kind \notin TerminalKinds
  BY <1>1, OpenLog DEF LegalEntry
<1>5. OneEnding'
  <2> SUFFICES ASSUME NEW s \in SessionIds, NEW k \in 1..Len(log'[s])
               PROVE  /\ log'[s][k].kind = "SessionOpened" <=> k = 1
                      /\ log'[s][k].kind \in TerminalKinds => k = Len(log'[s])
    BY DEF OneEnding
  <2>1. CASE s # r
    BY <1>3, <2>1 DEF HistoryInv, OneEnding
  <2>2. CASE s = r /\ k \in 1..n
    BY <1>1, <1>2, <1>4, <2>2 DEF HistoryInv, OneEnding
  <2>3. CASE s = r /\ k = n + 1
    BY <1>1, <1>2, <2>3 DEF LegalEntry
  <2> QED
    BY <1>1, <1>2, <2>1, <2>2, <2>3
<1>6. n > 0 => log'[r][1].config = session[r].config
  BY <1>1, <1>2, OpenLog, SMTT(40) DEF LegalEntry
<1>7. TurnsAlternate'
  <2> SUFFICES ASSUME NEW s \in SessionIds, NEW k \in 1..Len(log'[s])
               PROVE  LET x == log'[s][k] IN
                      /\ x.config = log'[s][1].config
                      /\ x.kind = "OfferRecorded" =>
                         /\ x.sequence = k - 1
                         /\ x.sequence <= x.config.maxOffers
                         /\ x.actor \in {x.config.buyer, x.config.seller}
                         /\ k = 2 => x.actor = x.config.buyer
                         /\ k > 2 => x.actor # log'[s][k - 1].actor
                         /\ x.offer.config = x.config /\ x.offer.session = s
                         /\ x.offer.proposer = x.actor
                         /\ x.offer.sequence = x.sequence
    BY DEF TurnsAlternate
  <2>1. CASE s # r
    BY <1>3, <2>1 DEF HistoryInv, TurnsAlternate
  <2>2. CASE s = r /\ k \in 1..n
    BY <1>1, <1>2, <2>2 DEF HistoryInv, TurnsAlternate
  <2>3. CASE s = r /\ k = n + 1
    <3>1. e.config = log'[r][1].config
      BY <1>1, <1>2, <1>6 DEF LegalEntry
    <3>2. n > 0 => log'[r][k - 1] = log[r][n]
      BY <1>1, <1>2, <2>3
    <3>3. log'[s][k] = e
      BY <1>2, <2>3
    <3>4. k - 1 = n
      BY <1>1, <2>3
    <3>5. (k = 2 => n = 1) /\ (k > 2 => n > 1) /\ (n > 1 => n > 0)
      <4>1. \A i, j \in Nat : i = j + 1 =>
               (i = 2 => j = 1) /\ (i > 2 => j > 1) /\ (j > 1 => j > 0)
        OBVIOUS
      <4>2. n \in Nat /\ k \in Nat /\ k = n + 1
        BY <1>1, <2>3
      <4> HIDE DEF n
      <4> QED
        BY <4>1, <4>2
    <3> QED
      BY <2>3, <3>1, <3>2, <3>3, <3>4, <3>5 DEF LegalEntry
  <2>4. s = r => k \in 1..n \/ k = n + 1
    BY <1>1, <1>2
  <2> HIDE DEF n
  <2> QED
    BY ZenonT(60), <2>1, <2>2, <2>3, <2>4
<1>8. SettledAsAgreed'
  <2> SUFFICES ASSUME NEW s \in SessionIds, NEW k \in 1..Len(log'[s]),
                      log'[s][k].kind = "SettlementCompleted"
               PROVE  LET x == log'[s][k]
                          o == log'[s][k - 1]
                      IN  /\ k > 2
                          /\ o.kind = "OfferRecorded"
                          /\ x.offer = o.offer
                          /\ x.sequence = o.sequence + 1
                          /\ x.at < o.offer.validUntil
                          /\ x.actor # o.actor
                          /\ x.actor \in {x.config.buyer, x.config.seller}
    BY DEF SettledAsAgreed
  <2>1. CASE s # r
    BY <1>3, <2>1 DEF HistoryInv, SettledAsAgreed
  <2>2. CASE s = r /\ k \in 1..n
    BY <1>1, <1>2, <1>4, <2>2 DEF TerminalKinds
  <2>3. CASE s = r /\ k = n + 1
    <3>1. n > 1 /\ log'[r][k - 1] = log[r][n]
      BY <1>1, <1>2, <2>3 DEF LegalEntry
    <3> QED
      BY <1>1, <1>2, <2>3, <3>1 DEF LegalEntry
  <2>4. s = r => k \in 1..n \/ k = n + 1
    BY <1>1, <1>2
  <2> HIDE DEF n
  <2> QED
    BY ZenonT(60), <2>1, <2>2, <2>3, <2>4
<1>9. DeadlinesKept'
  <2> SUFFICES ASSUME NEW s \in SessionIds, NEW k \in 1..Len(log'[s])
               PROVE  LET x == log'[s][k] IN
                      /\ x.kind = "SessionExpired" <=> x.at >= x.config.expiresAt
                      /\ x.kind = "OfferRecorded" =>
                            /\ x.at < x.offer.validUntil
                            /\ x.offer.validUntil <= x.config.expiresAt
    BY DEF DeadlinesKept
  <2>1. CASE s # r
    BY <1>3, <2>1 DEF HistoryInv, DeadlinesKept
  <2>2. CASE s = r /\ k \in 1..n
    BY <1>1, <1>2, <2>2 DEF HistoryInv, DeadlinesKept
  <2>3. CASE s = r /\ k = n + 1
    BY <1>1, <1>2, <2>3 DEF LegalEntry
  <2> QED
    BY <1>1, <1>2, <2>1, <2>2, <2>3
<1>10. StateFromEvents'
  <2> SUFFICES ASSUME NEW s \in SessionIds PROVE StateFollows(s)'
    BY DEF StateFromEvents
  <2>1. CASE s # r
    <3>1. StateFollows(s)
      BY DEF HistoryInv, StateFromEvents
    <3> QED
      BY <1>3, <2>1, <3>1 DEF StateFollows, LastOffer
  <2> QED
    BY <2>1
<1>11. OffersCarried'
  <2> SUFFICES ASSUME NEW s \in SessionIds, NEW k \in 1..Len(log'[s]),
                      log'[s][k].kind = "OfferRecorded"
               PROVE  log'[s][k].offer \in Offer
    BY DEF OffersCarried
  <2>1. CASE s # r
    BY <1>3, <2>1 DEF HistoryInv, OffersCarried
  <2>2. CASE s = r /\ k \in 1..n
    BY <1>1, <1>2, <2>2 DEF HistoryInv, OffersCarried
  <2>3. CASE s = r /\ k = n + 1
    BY <1>1, <1>2, <2>3 DEF LegalEntry
  <2> QED
    BY <1>1, <1>2, <2>1, <2>2, <2>3
<1>12. OpeningBare'
  <2> SUFFICES ASSUME NEW s \in SessionIds, log'[s] # << >>
               PROVE  log'[s][1].offer = NoOffer
    BY DEF OpeningBare
  <2>1. CASE s # r
    BY <1>3, <2>1 DEF HistoryInv, OpeningBare
  <2>2. CASE s = r /\ n = 0
    BY <1>1, <1>2, <2>2 DEF LegalEntry
  <2>3. CASE s = r /\ n > 0
    BY <1>1, <1>2, <2>3 DEF HistoryInv, OpeningBare
  <2> QED
    BY <1>1, <2>1, <2>2, <2>3
<1> QED
  BY <1>5, <1>7, <1>8, <1>9, <1>10, <1>11, <1>12 DEF HistoryInv

LEMMA HistoryInit == Init => HistoryInv
<1> SUFFICES ASSUME Init PROVE HistoryInv
  OBVIOUS
<1>1. \A s \in SessionIds : log[s] = << >> /\ session[s] = Unknown
  BY DEF Init
<1>2. /\ OneEnding /\ TurnsAlternate /\ SettledAsAgreed /\ DeadlinesKept
      /\ OffersCarried /\ OpeningBare
  BY <1>1 DEF OneEnding, TurnsAlternate, SettledAsAgreed, DeadlinesKept,
              OffersCarried, OpeningBare
<1>3. StateFromEvents
  BY <1>1 DEF StateFromEvents, StateFollows
<1> QED
  BY <1>2, <1>3, TypeInit DEF HistoryInv

(* The entry Emit appends, and that only its session's log grows.          *)
LEMMA Emitted ==
    ASSUME TypeInv, TypeInv', NEW r \in SessionIds,
           NEW kind, NEW q, NEW a, NEW o, Emit(r, kind, q, a, o)
    PROVE  LET n == Len(log[r])
               e == [kind |-> kind, config |-> session'[r].config,
                     sequence |-> q, actor |-> a, offer |-> o, at |-> now]
           IN  /\ log' = [log EXCEPT ![r] = Append(@, e)]
               /\ n \in Nat /\ e \in Event
               /\ log'[r] # << >> /\ Len(log'[r]) = n + 1
               /\ log'[r][n + 1] = e
               /\ \A k \in 1..n : log'[r][k] = log[r][k]
<1> DEFINE n == Len(log[r])
           e == [kind |-> kind, config |-> session'[r].config,
                 sequence |-> q, actor |-> a, offer |-> o, at |-> now]
<1>1. log[r] \in Seq(Event) /\ n \in Nat /\ log'[r] \in Seq(Event)
  BY DEF TypeInv, TypeOK
<1>2. log' = [log EXCEPT ![r] = Append(@, e)] /\ log'[r] = Append(log[r], e)
  BY DEF Emit, TypeInv, TypeOK
<1> HIDE DEF e
<1>3. /\ Len(log'[r]) = n + 1 /\ log'[r][n + 1] = e
      /\ \A k \in 1..n : log'[r][k] = log[r][k]
  BY <1>1, <1>2
<1>4. e \in Event /\ log'[r] # << >>
  BY <1>1, <1>3
<1> QED
  BY <1>1, <1>2, <1>3, <1>4 DEF e

LEMMA HistoryCreate ==
    ASSUME HistoryInv, NEW c \in Configs, CreateSession(c)
    PROVE  HistoryInv'
<1> DEFINE r == c.session
           e == [kind |-> "SessionOpened", config |-> session'[r].config,
                 sequence |-> 0, actor |-> Operator, offer |-> NoOffer,
                 at |-> now]
<1>1. c \in Config /\ r \in SessionIds
  BY ConfigType DEF Config
<1>2. TypeInv /\ TypeInv'
  BY TypeCreate DEF HistoryInv
<1>3. session[r] \in SessionState
  BY <1>1, <1>2 DEF TypeInv, TypeOK
<1>4. log[r] = << >> /\ session[r] = Unknown
  <2>1. log[r] # << >> => session[r].status # "None"
    BY <1>1 DEF HistoryInv, StateFromEvents, StateFollows, Replays, StatusAfter
  <2> QED
    BY <1>1, <2>1 DEF HistoryInv, StateFromEvents, StateFollows, CreateSession
<1>5. session'[r] = [Unknown EXCEPT !.config = c, !.status = "Open"]
  BY <1>1, <1>2, <1>3, <1>4 DEF CreateSession, TypeInv, TypeOK, SessionState
<1>6. \A s \in SessionIds : s # r => session'[s] = session[s]
  BY <1>1, <1>2 DEF CreateSession, TypeInv, TypeOK
<1>7. /\ log' = [log EXCEPT ![r] = Append(@, e)]
      /\ e \in Event
      /\ log'[r] # << >> /\ Len(log'[r]) = 1 /\ log'[r][1] = e
  <2>1. /\ log' = [log EXCEPT ![r] = Append(@, e)]
        /\ e \in Event
        /\ log'[r] # << >> /\ Len(log'[r]) = Len(log[r]) + 1
        /\ log'[r][Len(log[r]) + 1] = e
    <3>1. Emit(r, "SessionOpened", 0, Operator, NoOffer)
      BY DEF CreateSession
    <3> QED
      BY <1>1, <1>2, <3>1, Emitted
  <2>2. Len(log[r]) = 0
    BY <1>4
  <2> HIDE DEF e
  <2> QED
    BY <2>1, <2>2
<1>8. session'[r].config = c
  BY <1>5 DEF Unknown
<1>9. LegalEntry(r, e)
  <2>1. /\ e.kind = "SessionOpened" /\ e.config = c /\ e.at = now
        /\ e.offer = NoOffer
    BY <1>8
  <2>2. now < c.expiresAt /\ now \in Nat /\ c.expiresAt \in Nat
    BY <1>1, <1>2 DEF CreateSession, Config, TypeInv, TypeOK
  <2>3. Len(log[r]) = 0
    BY <1>4
  <2> HIDE DEF e
  <2> QED
    BY <2>1, <2>2, <2>3 DEF LegalEntry
<1>10. StateFollows(r)'
  <2>1. LastOffer(r)' = NoOffer
    BY <1>7 DEF LastOffer, TerminalKinds
  <2> QED
    BY <1>5, <1>7, <1>8, <2>1
    DEF StateFollows, Replays, StatusAfter, Unknown
<1> QED
  BY <1>1, <1>2, <1>6, <1>7, <1>9, <1>10, HistoryGrows

LEMMA HistoryOffer ==
    ASSUME HistoryInv, NEW o \in Offer, NEW signer \in Accounts,
           RecordOffer(o, signer)
    PROVE  HistoryInv'
<1> DEFINE r == o.session
           st == session[r]
           n == Len(log[r])
           e == [kind |-> "OfferRecorded", config |-> session'[r].config,
                 sequence |-> o.sequence, actor |-> o.proposer, offer |-> o,
                 at |-> now]
<1>1. /\ r \in SessionIds /\ o.sequence \in Nat /\ o.proposer \in Accounts
      /\ o.quote \in Nat /\ o.validUntil \in Nat
  BY DEF Offer
<1>2. TypeInv /\ TypeInv' /\ now \in Nat
  BY TypeOffer DEF HistoryInv, TypeInv, TypeOK
<1>3. st \in SessionState /\ st.status = "Open"
  BY <1>1, <1>2 DEF TypeInv, TypeOK, RecordOffer, VerifyCommon
<1>4. /\ session'[r].status = "Open" /\ session'[r].config = st.config
      /\ session'[r].sequence = o.sequence
      /\ session'[r].offerCount = st.offerCount + 1
      /\ session'[r].activeOffer = o
      /\ session'[r].activeProposer = o.proposer
      /\ session'[r].activeQuote = o.quote
      /\ session'[r].activeValidUntil = o.validUntil
      /\ session'[r].activeSequence = o.sequence
  BY <1>1, <1>2, <1>3 DEF RecordOffer, TypeInv, TypeOK, SessionState
<1>5. \A s \in SessionIds : s # r => session'[s] = session[s]
  BY <1>1, <1>2 DEF RecordOffer, TypeInv, TypeOK
<1>6. /\ log' = [log EXCEPT ![r] = Append(@, e)]
      /\ e \in Event /\ n \in Nat
      /\ log'[r] # << >> /\ Len(log'[r]) = n + 1
      /\ log'[r][n + 1] = e
      /\ \A k \in 1..n : log'[r][k] = log[r][k]
  BY SMTT(40), <1>1, <1>2, Emitted DEF RecordOffer
<1>7. /\ n > 0 /\ st.config = log[r][1].config
      /\ st.offerCount = n - 1 /\ st.sequence = n - 1
      /\ \A k \in 2..n : log[r][k].kind = "OfferRecorded"
  BY <1>1, <1>3, OpenLog
<1>8. st.config \in Config /\ st.config.maxOffers \in Nat
  <2> HIDE DEF r
  <2> QED
    BY <1>1, <1>2, <1>3 DEF TypeInv, PartiesOK, Config
<1>9. o.sequence = n
  <2>1. o.sequence = st.sequence + 1
    BY Zenon DEF RecordOffer, VerifyCommon
  <2> HIDE DEF e, n, st, r
  <2> QED
    BY <1>6, <1>7, <2>1
(* Whose turn it is: activeProposer names the maker of the newest entry.   *)
<1>10. n > 1 => /\ n - 1 <= st.config.maxOffers
                /\ log[r][n].actor = st.activeProposer
  BY <1>1, <1>3, NewestOffer
(* The limit check is an inequality; that offers never outnumber the limit *)
(* rests on the count having grown by one at a time.                       *)
<1>11. n <= st.config.maxOffers
  <2>1. n - 1 # st.config.maxOffers
    BY <1>7 DEF RecordOffer
  <2>2. n \in Nat /\ n > 0
    BY <1>6, <1>7
  <2>3. n > 1 => n - 1 <= st.config.maxOffers
    BY <1>10
  <2> QED
    BY <1>8, <2>1, <2>2, <2>3
<1>15. /\ o.proposer \in {st.config.buyer, st.config.seller}
       /\ n = 1 => o.proposer = st.config.buyer
       /\ n > 1 => o.proposer # log[r][n].actor
  <2>1. o.proposer = NextProposer(st)
    BY DEF RecordOffer
  <2>2. st.config.buyer # st.config.seller
    BY <1>1, <1>2, <1>3 DEF TypeInv, PartiesOK
  <2>3. n = 1 => st.offerCount = 0
    BY <1>7
  <2>4. n > 1 => st.offerCount # 0
    BY <1>6, <1>7
  <2> QED
    BY <1>10, <2>1, <2>2, <2>3, <2>4 DEF NextProposer
<1>12. /\ now < st.config.expiresAt /\ o.config = st.config
       /\ now < o.validUntil /\ o.validUntil <= st.config.expiresAt
       /\ st.config.expiresAt \in Nat
  BY <1>8 DEF RecordOffer, VerifyCommon, Config
<1>13. LegalEntry(r, e)
  <2>1. /\ e.kind = "OfferRecorded" /\ e.config = st.config
        /\ e.sequence = n /\ e.actor = o.proposer /\ e.offer = o /\ e.at = now
    BY <1>4, <1>9
  <2>2. ~ (now >= st.config.expiresAt)
    BY <1>2, <1>12
  <2>3. o.session = r /\ o.sequence = n
    BY <1>9
  <2> HIDE DEF e, r
  <2> QED
    BY <1>3, <1>6, <1>7, <1>11, <1>12, <1>15, <2>1, <2>2, <2>3 DEF LegalEntry
<1>14. StateFollows(r)'
  <2>1. LastOffer(r)' = o
    BY <1>6 DEF LastOffer, TerminalKinds
  <2>2. log'[r][1].config = st.config
    BY <1>6, <1>7
  <2>3. Replays(session'[r], log'[r], o)
    <3>1. log'[r][n + 1].kind = "OfferRecorded" /\ log'[r][n + 1].sequence = o.sequence
      BY <1>6
    <3>2. st.offerCount + 1 = n
      BY <1>6, <1>7
    <3> HIDE DEF e, n, st, r
    <3> QED
      BY <1>4, <1>6, <1>7, <1>9, <2>2, <3>1, <3>2 DEF Replays, StatusAfter
  <2> QED
    BY <1>6, <2>1, <2>3 DEF StateFollows
<1> QED
  BY <1>1, <1>2, <1>5, <1>6, <1>13, <1>14, HistoryGrows

(* The opening entry carries no offer, so an acceptance finds a digest only *)
(* when the newest entry is an offer.                                      *)
LEMMA HistoryAccept ==
    ASSUME HistoryInv, NEW m \in Accept, NEW signer \in Accounts,
           AcceptAndSettle(m, signer)
    PROVE  HistoryInv'
<1> DEFINE r == m.session
           st == session[r]
           n == Len(log[r])
           p == log[r][n]
           e == [kind |-> "SettlementCompleted", config |-> session'[r].config,
                 sequence |-> m.sequence, actor |-> m.actor,
                 offer |-> m.offer, at |-> now]
<1>1. /\ r \in SessionIds /\ m.sequence \in Nat /\ m.actor \in Accounts
      /\ m.offer \in Offer
  BY DEF Accept
<1>2. TypeInv /\ TypeInv' /\ now \in Nat
  BY TypeAccept DEF HistoryInv, TypeInv, TypeOK
<1>3. st \in SessionState /\ st.status = "Open"
  BY <1>1, <1>2, ZenonT(60) DEF TypeInv, TypeOK, AcceptAndSettle, VerifyCommon
<1>4. /\ session'[r].status = "Settled" /\ session'[r].config = st.config
      /\ session'[r].sequence = m.sequence
      /\ session'[r].offerCount = st.offerCount
      /\ session'[r].activeOffer = NoOffer
  BY <1>1, <1>2, <1>3, ZenonT(60) DEF AcceptAndSettle, TypeInv, TypeOK, SessionState
<1>5. \A s \in SessionIds : s # r => session'[s] = session[s]
  BY <1>1, <1>2, ZenonT(60) DEF AcceptAndSettle, TypeInv, TypeOK
<1>6. /\ log' = [log EXCEPT ![r] = Append(@, e)]
      /\ e \in Event /\ n \in Nat
      /\ log'[r] # << >> /\ Len(log'[r]) = n + 1
      /\ log'[r][n + 1] = e
      /\ \A k \in 1..n : log'[r][k] = log[r][k]
  <2>1. Emit(r, "SettlementCompleted", m.sequence, m.actor, m.offer)
    BY DEF AcceptAndSettle
  <2> QED
    BY SMTT(40), <1>1, <1>2, <2>1, Emitted
<1>7. /\ n > 0 /\ st.config = log[r][1].config
      /\ st.offerCount = n - 1 /\ st.sequence = n - 1
  BY <1>1, <1>3, OpenLog
<1>8. st.activeOffer # NoOffer /\ m.offer = st.activeOffer
  BY DEF AcceptAndSettle, Standing
<1>9. n > 1
  <2>1. n = 1 => p.offer = NoOffer
    BY <1>1, <1>6, <1>7 DEF HistoryInv, OpeningBare
  <2>2. n = 1 => st.activeOffer = p.offer
    BY <1>1, <1>3, NewestOffer
  <2>3. n # 1
    BY <1>8, <2>1, <2>2
  <2>4. n \in Nat /\ n > 0
    BY <1>6, <1>7
  <2> HIDE DEF n
  <2> QED
    BY <2>3, <2>4
<1>10. /\ p.kind = "OfferRecorded" /\ p.sequence = n - 1
       /\ p.actor = st.activeProposer /\ p.offer = st.activeOffer
       /\ p.offer.validUntil = st.activeValidUntil
  BY SMTT(40), <1>1, <1>3, <1>9, NewestOffer
<1>11. m.sequence = n
  <2>1. m.sequence = st.sequence + 1
    BY DEF AcceptAndSettle, VerifyCommon
  <2>2. st.sequence = n - 1 /\ n \in Nat
    BY <1>6, <1>7
  <2> HIDE DEF n, st
  <2> QED
    BY <2>1, <2>2
<1>12. LegalEntry(r, e)
  <2>1. /\ e.kind = "SettlementCompleted" /\ e.config = st.config
        /\ e.sequence = n /\ e.actor = m.actor /\ e.offer = m.offer
        /\ e.at = now
    BY SMTT(40), <1>4, <1>11
  <2>2. /\ m.actor \in {st.config.buyer, st.config.seller}
        /\ m.actor # st.activeProposer
        /\ now < st.activeValidUntil
        /\ now < st.config.expiresAt
    BY DEF AcceptAndSettle, RequireSigner, Standing, VerifyCommon
  <2>3. ~ (now >= st.config.expiresAt)
    <3>1. st.config.expiresAt \in Nat
      BY <1>1, <1>2, <1>3 DEF TypeInv, PartiesOK, Config
    <3> QED
      BY <1>2, <2>2, <3>1
  <2>4. n = p.sequence + 1
    BY <1>6, <1>10
  <2> HIDE DEF e, r
  <2> QED
    BY <1>3, <1>7, <1>8, <1>9, <1>10, <2>1, <2>2, <2>3, <2>4 DEF LegalEntry
<1>13. StateFollows(r)'
  <2>1. log'[r][1].config = st.config
    BY <1>6, <1>7
  <2>2. log'[r][Len(log'[r])].kind = "SettlementCompleted"
    BY <1>6
  <2>3. Replays(session'[r], log'[r], LastOffer(r)')
    BY <1>4, <1>6, <1>7, <1>11, <2>1, <2>2 DEF Replays, StatusAfter
  <2> QED
    BY <1>6, <2>3 DEF StateFollows
<1> QED
  BY <1>1, <1>2, <1>5, <1>6, <1>12, <1>13, HistoryGrows

(* Closing, expiring and aborting leave the active fields as they were.    *)
LEMMA EndedFollows ==
    ASSUME HistoryInv, NEW r \in SessionIds, session[r].status = "Open",
           session[r] \in SessionState,
           NEW kind \in {"SessionClosed", "SessionExpired", "SessionAborted"},
           NEW q \in Nat,
           q = IF kind = "SessionClosed" THEN session[r].sequence + 1
                                         ELSE session[r].sequence,
           session'[r] = [session[r] EXCEPT !.status = StatusAfter(kind),
                                            !.sequence = q],
           log'[r] # << >>, Len(log'[r]) = Len(log[r]) + 1,
           log'[r][Len(log[r]) + 1].kind = kind,
           \A k \in 1..Len(log[r]) : log'[r][k] = log[r][k]
    PROVE  StateFollows(r)'
<1> DEFINE st == session[r]
           n == Len(log[r])
<1>1. /\ n \in Nat /\ n > 0 /\ st.config = log[r][1].config
      /\ st.offerCount = n - 1 /\ st.sequence = n - 1
  BY OpenLog
<1>2. /\ LastOffer(r) = log[r][n].offer
  BY NewestOffer
<1>3. Replays(st, log[r], LastOffer(r))
  BY <1>1 DEF HistoryInv, StateFromEvents, StateFollows
<1>4. log'[r][Len(log'[r])].kind = kind /\ log'[r][1].config = st.config
  BY <1>1
<1>5. LastOffer(r)' = LastOffer(r)
  <2>1. /\ Len(log'[r]) = n + 1 /\ n + 1 # 0 /\ n + 1 # 1 /\ (n + 1) - 1 = n
        /\ log'[r][n] = log[r][n]
    BY SMTT(40), <1>1
  <2>2. kind \in TerminalKinds
    BY DEF TerminalKinds
  <2> QED
    BY <1>2, <1>4, <2>1, <2>2 DEF LastOffer
<1>6. /\ session'[r].status = StatusAfter(kind) /\ session'[r].config = st.config
      /\ session'[r].sequence = q
      /\ session'[r].offerCount = st.offerCount
      /\ session'[r].activeOffer = st.activeOffer
      /\ session'[r].activeProposer = st.activeProposer
      /\ session'[r].activeQuote = st.activeQuote
      /\ session'[r].activeValidUntil = st.activeValidUntil
      /\ session'[r].activeSequence = st.activeSequence
  BY DEF SessionState
<1>7. /\ StatusAfter(kind) \in {"Closed", "Expired", "Aborted"}
      /\ kind = "SessionClosed" <=> StatusAfter(kind) = "Closed"
  BY DEF StatusAfter
<1>8. /\ session'[r].offerCount = Len(log'[r]) - 2
      /\ kind = "SessionClosed" => q = st.offerCount + 1
      /\ kind # "SessionClosed" => q = st.offerCount
  <2>1. Len(log'[r]) = n + 1
    OBVIOUS
  <2> HIDE DEF n
  <2> QED
    BY <1>1, <1>6, <2>1
<1>9. Replays(session'[r], log'[r], LastOffer(r)')
  BY <1>3, <1>4, <1>5, <1>6, <1>7, <1>8 DEF Replays
<1> QED
  BY <1>9 DEF StateFollows

LEMMA HistoryClose ==
    ASSUME HistoryInv, NEW m \in Close, NEW signer \in Accounts,
           CloseSession(m, signer)
    PROVE  HistoryInv'
<1> DEFINE r == m.session
           st == session[r]
           n == Len(log[r])
           e == [kind |-> "SessionClosed", config |-> session'[r].config,
                 sequence |-> m.sequence, actor |-> m.actor,
                 offer |-> NoOffer, at |-> now]
<1>1. r \in SessionIds /\ m.sequence \in Nat /\ m.actor \in Accounts
  BY DEF Close
<1>2. TypeInv /\ TypeInv' /\ now \in Nat
  BY TypeClose DEF HistoryInv, TypeInv, TypeOK
<1>3. st \in SessionState /\ st.status = "Open"
  BY <1>1, <1>2 DEF TypeInv, TypeOK, CloseSession, VerifyCommon
<1>4. session'[r] = [st EXCEPT !.status = "Closed", !.sequence = m.sequence]
  BY <1>1, <1>2, <1>3 DEF CloseSession, TypeInv, TypeOK, SessionState
<1>5. \A s \in SessionIds : s # r => session'[s] = session[s]
  BY <1>1, <1>2 DEF CloseSession, TypeInv, TypeOK
<1>6. /\ log' = [log EXCEPT ![r] = Append(@, e)]
      /\ e \in Event /\ n \in Nat
      /\ log'[r] # << >> /\ Len(log'[r]) = n + 1
      /\ log'[r][n + 1] = e
      /\ \A k \in 1..n : log'[r][k] = log[r][k]
  <2>1. Emit(r, "SessionClosed", m.sequence, m.actor, NoOffer)
    BY DEF CloseSession
  <2> QED
    BY <1>1, <1>2, <2>1, Emitted
<1>7. /\ n > 0 /\ st.config = log[r][1].config
      /\ st.offerCount = n - 1 /\ st.sequence = n - 1
  BY <1>1, <1>3, OpenLog
<1>8. m.sequence = n
  <2>1. m.sequence = st.sequence + 1
    BY DEF CloseSession, VerifyCommon
  <2>2. st.sequence = n - 1 /\ n \in Nat
    BY <1>6, <1>7
  <2> HIDE DEF n, st
  <2> QED
    BY <2>1, <2>2
<1>9. session'[r].config = st.config
  BY <1>3, <1>4 DEF SessionState
<1>10. LegalEntry(r, e)
  <2>1. ~ (now >= st.config.expiresAt)
    <3>1. st.config.expiresAt \in Nat /\ now < st.config.expiresAt
      BY <1>1, <1>2, <1>3
      DEF TypeInv, PartiesOK, Config, CloseSession, VerifyCommon
    <3> QED
      BY SMTT(40), <1>2, <3>1
  <2>2. e.kind = "SessionClosed" /\ e.config = st.config /\ e.at = now
        /\ e.offer = NoOffer
    BY SMTT(40), <1>9
  <2> HIDE DEF e, r
  <2> QED
    BY <1>3, <1>7, <2>1, <2>2 DEF LegalEntry
<1>11. StateFollows(r)'
  <2>1. StatusAfter("SessionClosed") = "Closed"
    BY DEF StatusAfter
  <2>2. m.sequence = st.sequence + 1
    BY DEF CloseSession, VerifyCommon
  <2>3. session'[r] = [st EXCEPT !.status = StatusAfter("SessionClosed"),
                                 !.sequence = m.sequence]
    BY <1>4, <2>1
  <2>4. log'[r][Len(log[r]) + 1].kind = "SessionClosed"
    BY <1>6
  <2> QED
    BY <1>1, <1>3, <1>6, <2>2, <2>3, <2>4, EndedFollows
<1> QED
  BY <1>1, <1>2, <1>5, <1>6, <1>10, <1>11, HistoryGrows

LEMMA HistoryEnd ==
    ASSUME HistoryInv, NEW r \in SessionIds, ExpireSession(r) \/ AbortSession(r)
    PROVE  HistoryInv'
<1> DEFINE st == session[r]
           n == Len(log[r])
<1>1. TypeInv /\ TypeInv' /\ now \in Nat
  BY TypeEnd DEF HistoryInv, TypeInv, TypeOK
<1>2. st \in SessionState /\ st.status = "Open"
  BY <1>1 DEF TypeInv, TypeOK, ExpireSession, AbortSession
<1>3. st.config \in Config /\ st.config.expiresAt \in Nat
  BY <1>1, <1>2 DEF TypeInv, PartiesOK, Config
<1>4. PICK kind \in {"SessionExpired", "SessionAborted"} :
        \E a : /\ Emit(r, kind, 0, a, NoOffer)
               /\ session' = [session EXCEPT ![r].status = StatusAfter(kind)]
               /\ kind = "SessionExpired" <=> now >= st.config.expiresAt
  BY <1>1, <1>3 DEF ExpireSession, AbortSession, StatusAfter
<1>5. PICK a : /\ Emit(r, kind, 0, a, NoOffer)
               /\ session' = [session EXCEPT ![r].status = StatusAfter(kind)]
               /\ kind = "SessionExpired" <=> now >= st.config.expiresAt
  BY <1>4
<1> DEFINE e == [kind |-> kind, config |-> session'[r].config, sequence |-> 0,
                 actor |-> a, offer |-> NoOffer, at |-> now]
<1>6. session'[r] = [st EXCEPT !.status = StatusAfter(kind)]
  BY <1>1, <1>5 DEF TypeInv, TypeOK
<1>7. \A s \in SessionIds : s # r => session'[s] = session[s]
  BY <1>1, <1>5 DEF TypeInv, TypeOK
<1>8. /\ log' = [log EXCEPT ![r] = Append(@, e)]
      /\ e \in Event /\ n \in Nat
      /\ log'[r] # << >> /\ Len(log'[r]) = n + 1
      /\ log'[r][n + 1] = e
      /\ \A k \in 1..n : log'[r][k] = log[r][k]
  BY <1>1, <1>5, Emitted
<1>9. n > 0 /\ st.config = log[r][1].config
      /\ st.offerCount = n - 1 /\ st.sequence = n - 1
  BY <1>2, OpenLog
<1>10. LegalEntry(r, e)
  <2>1. e.kind = kind /\ e.config = st.config /\ e.at = now /\ e.offer = NoOffer
    BY <1>2, <1>6 DEF SessionState
  <2> HIDE DEF e
  <2> QED
    BY <1>2, <1>5, <1>9, <2>1 DEF LegalEntry
<1>11. StateFollows(r)'
  <2>1. StatusAfter(kind) \in {"Expired", "Aborted"}
    BY DEF StatusAfter
  <2>2. session'[r] = [st EXCEPT !.status = StatusAfter(kind),
                                 !.sequence = st.sequence]
    BY <1>2, <1>6 DEF SessionState
  <2>3. st.sequence \in Nat /\ log'[r][Len(log[r]) + 1].kind = kind
    BY <1>2, <1>8 DEF SessionState
  <2> QED
    BY <1>2, <1>8, <2>2, <2>3, EndedFollows, ZenonT(60)
<1> HIDE DEF e, n, st
<1> QED
  BY <1>1, <1>7, <1>8, <1>10, <1>11, HistoryGrows

LEMMA HistoryStays ==
    ASSUME HistoryInv, TypeInv', UNCHANGED <<session, log>>
    PROVE  HistoryInv'
<1>1. OneEnding' /\ TurnsAlternate' /\ SettledAsAgreed' /\ DeadlinesKept'
  BY DEF HistoryInv, OneEnding, TurnsAlternate, SettledAsAgreed, DeadlinesKept
<1>2. OffersCarried' /\ OpeningBare'
  BY DEF HistoryInv, OffersCarried, OpeningBare
<1>3. StateFromEvents'
  BY DEF HistoryInv, StateFromEvents, StateFollows, LastOffer
<1> QED
  BY <1>1, <1>2, <1>3 DEF HistoryInv

LEMMA HistoryStep == HistoryInv /\ [Next]_vars => HistoryInv'
<1> SUFFICES ASSUME HistoryInv, [Next]_vars PROVE HistoryInv'
  OBVIOUS
<1>1. ASSUME NEW c \in Configs, CreateSession(c) PROVE HistoryInv'
  BY <1>1, HistoryCreate
<1>2. ASSUME NEW m \in OfferMessages, RecordOffer(m.content, m.signer)
      PROVE HistoryInv'
  BY <1>2, HistoryOffer, MessageTypes
<1>3. ASSUME NEW m \in AcceptMessages, AcceptAndSettle(m.content, m.signer)
      PROVE HistoryInv'
  BY <1>3, HistoryAccept, MessageTypes
<1>4. ASSUME NEW m \in CloseMessages, CloseSession(m.content, m.signer)
      PROVE HistoryInv'
  BY <1>4, HistoryClose, MessageTypes
<1>5. ASSUME NEW s \in SessionIds, ExpireSession(s) \/ AbortSession(s)
      PROVE HistoryInv'
  BY <1>5, HistoryEnd
<1>6. TypeInv'
  BY TypeStep DEF HistoryInv
<1>7. ASSUME NEW f \in Funding,
             \/ Mint(f.token, f.owner, f.amount)
             \/ Approve(f.token, f.owner, f.amount)
      PROVE HistoryInv'
  BY <1>6, <1>7, HistoryStays DEF Mint, Approve
<1>8. CASE NextBlock
  BY <1>6, <1>8, HistoryStays DEF NextBlock
<1>9. CASE UNCHANGED vars
  BY <1>6, <1>9, HistoryStays DEF vars
<1> QED
  BY <1>1, <1>2, <1>3, <1>4, <1>5, <1>7, <1>8, <1>9 DEF Next

LEMMA HistoryAlways == Spec => []HistoryInv
BY HistoryInit, HistoryStep, PTL DEF Spec

(* Every log is a legal negotiation: one opening, offers by turns under    *)
(* one configuration within the limit, at most one ending, nothing after.  *)
THEOREM LegalNegotiation == Spec => [](OneEnding /\ TurnsAlternate)
<1>1. HistoryInv => OneEnding /\ TurnsAlternate
  BY DEF HistoryInv
<1> QED
  BY <1>1, HistoryAlways, PTL

(* A settlement executes the newest offer, unexpired, at the counterparty's *)
(* word: acceptAndSettle never executes a replaced or expired offer.       *)
THEOREM SettlesAsAgreed == Spec => []SettledAsAgreed
<1>1. HistoryInv => SettledAsAgreed
  BY DEF HistoryInv
<1> QED
  BY <1>1, HistoryAlways, PTL

(* Expiry and every other ending exclude each other on the chain's clock.  *)
THEOREM KeepsDeadlines == Spec => []DeadlinesKept
<1>1. HistoryInv => DeadlinesKept
  BY DEF HistoryInv
<1> QED
  BY <1>1, HistoryAlways, PTL

(* The storage is determined by the events, so a reader of the events      *)
(* alone knows the session.                                                *)
THEOREM StateIsReplay == Spec => []StateFromEvents
<1>1. HistoryInv => StateFromEvents
  BY DEF HistoryInv
<1> QED
  BY <1>1, HistoryAlways, PTL

-----------------------------------------------------------------------------
(* Tokens move as agreed.                                                  *)

(* The step of AtomicSwap, without its temporal wrapper.                   *)
SwapStep ==
    /\ \A s \in SessionIds : Settles(s) => balance' = SettledBalance(s)
    /\ \/ \E s \in SessionIds : Settles(s)
       \/ \A t \in Tokens, a \in Accounts : balance'[t][a] >= balance[t][a]

LEMMA QuietSwap ==
    ASSUME TypeInv, \A s \in SessionIds : ~ Settles(s), UNCHANGED balance
    PROVE  SwapStep
<1>1. \A t \in Tokens, a \in Accounts : balance[t][a] \in Nat
  BY DEF TypeInv, TypeOK
<1> QED
  BY <1>1 DEF SwapStep

LEMMA AcceptSwaps ==
    ASSUME HistoryInv, NEW m \in Accept, NEW signer \in Accounts,
           AcceptAndSettle(m, signer)
    PROVE  SwapStep
<1> DEFINE r == m.session
           st == session[r]
           n == Len(log[r])
           buyer == st.config.buyer
           seller == st.config.seller
           amount == st.config.baseAmount
<1>1. r \in SessionIds /\ m.sequence \in Nat
  BY DEF Accept
<1>2. TypeInv /\ TypeInv'
  BY TypeAccept DEF HistoryInv
<1>3. st \in SessionState /\ st.status = "Open"
  BY <1>1, <1>2, ZenonT(60) DEF TypeInv, TypeOK, AcceptAndSettle, VerifyCommon
<1>4. session'[r].status = "Settled"
  BY <1>1, <1>2, <1>3, ZenonT(60) DEF AcceptAndSettle, TypeInv, TypeOK, SessionState
<1>5. \A s \in SessionIds : Settles(s) <=> s = r
  BY <1>1, <1>2, <1>3, <1>4, ZenonT(60) DEF Settles, AcceptAndSettle, TypeInv, TypeOK
<1>6. /\ n \in Nat /\ n > 0
  BY <1>1, <1>3, OpenLog
<1>7. log'[r][Len(log'[r])].offer = m.offer
  <2>1. Emit(r, "SettlementCompleted", m.sequence, m.actor, m.offer)
    BY DEF AcceptAndSettle
  <2> DEFINE e == [kind |-> "SettlementCompleted",
                   config |-> session'[r].config, sequence |-> m.sequence,
                   actor |-> m.actor, offer |-> m.offer, at |-> now]
  <2>2. Len(log'[r]) = n + 1 /\ log'[r][n + 1] = e
    BY <1>1, <1>2, <2>1, Emitted
  <2>3. e.offer = m.offer
    OBVIOUS
  <2> QED
    BY <2>2, <2>3
<1>8. m.offer.quote = st.activeQuote
  <2>1. st.activeOffer # NoOffer /\ m.offer = st.activeOffer
    BY DEF AcceptAndSettle, Standing
  <2>2. Replays(st, log[r], LastOffer(r))
    BY <1>1, <1>6, SMTT(40) DEF HistoryInv, StateFromEvents, StateFollows
  <2> QED
    BY <1>3, <2>1, <2>2 DEF Replays
<1> DEFINE paid == [balance["quote"] EXCEPT ![buyer] = @ - st.activeQuote,
                                            ![seller] = @ + st.activeQuote]
           delivered == [balance["base"] EXCEPT ![seller] = @ - amount,
                                                ![buyer] = @ + amount]
<1>9. balance' = [balance EXCEPT !["quote"] = paid, !["base"] = delivered]
  <2>1. paid = Moved(balance["quote"], buyer, seller, st.activeQuote)
    BY DEF Moved
  <2>2. delivered = Moved(balance["base"], seller, buyer, amount)
    BY DEF Moved
  <2> HIDE DEF paid, delivered
  <2> QED
    BY <1>2, <2>1, <2>2, ZenonT(60) DEF AcceptAndSettle, TypeInv, TypeOK, Tokens
<1>10. balance' = SettledBalance(r)
  <2>1. log'[r][Len(log'[r])].offer.quote = st.activeQuote
    BY <1>7, <1>8
  <2>2. SettledBalance(r) =
          [balance EXCEPT !["quote"] = paid, !["base"] = delivered]
    BY <2>1 DEF SettledBalance
  <2> QED
    BY <1>9, <2>2
<1> QED
  BY <1>1, <1>5, <1>10 DEF SwapStep

(* A step moves tokens out of a wallet only by settling a session, exactly *)
(* one, and then moves both legs at the agreed price: never one leg.       *)
THEOREM SwapsAtomically == Spec => AtomicSwap
<1>1. HistoryInv /\ [Next]_vars => [SwapStep]_vars
  <2> SUFFICES ASSUME HistoryInv, Next PROVE SwapStep
    OBVIOUS
  <2> TypeInv
    BY DEF HistoryInv
  <2>1. ASSUME NEW c \in Configs, CreateSession(c) PROVE SwapStep
    <3>1. c \in Config /\ c.session \in SessionIds
      BY ConfigType DEF Config
    <3>2. \A s \in SessionIds : ~ Settles(s)
      BY <2>1, <3>1 DEF CreateSession, Settles, TypeInv, TypeOK, SessionState
    <3> QED
      BY <2>1, <3>2, QuietSwap DEF CreateSession, tokens
  <2>2. ASSUME NEW m \in OfferMessages, RecordOffer(m.content, m.signer)
        PROVE SwapStep
    <3> DEFINE o == m.content
    <3>1. o \in Offer /\ o.session \in SessionIds
      BY MessageTypes DEF Offer
    <3>2. \A s \in SessionIds : session'[s].status = session[s].status
      BY <2>2, <3>1 DEF RecordOffer, TypeInv, TypeOK, SessionState
    <3> QED
      BY <2>2, <3>2, QuietSwap DEF RecordOffer, tokens, Settles
  <2>3. ASSUME NEW m \in AcceptMessages, AcceptAndSettle(m.content, m.signer)
        PROVE SwapStep
    BY <2>3, AcceptSwaps, MessageTypes
  <2>4. ASSUME NEW m \in CloseMessages, CloseSession(m.content, m.signer)
        PROVE SwapStep
    <3>1. m.content.session \in SessionIds
      BY MessageTypes DEF Close
    <3>2. \A s \in SessionIds : ~ Settles(s)
      BY <2>4, <3>1 DEF CloseSession, Settles, TypeInv, TypeOK, SessionState
    <3> QED
      BY <2>4, <3>2, QuietSwap DEF CloseSession, tokens
  <2>5. ASSUME NEW s \in SessionIds, ExpireSession(s) \/ AbortSession(s)
        PROVE SwapStep
    <3>1. \A x \in SessionIds : ~ Settles(x)
      BY <2>5 DEF ExpireSession, AbortSession, Settles, TypeInv, TypeOK,
                  SessionState
    <3> QED
      BY <2>5, <3>1, QuietSwap DEF ExpireSession, AbortSession, tokens
  <2>6. ASSUME NEW f \in Funding, Mint(f.token, f.owner, f.amount)
        PROVE SwapStep
    <3>1. f.token \in Tokens /\ f.owner \in Accounts /\ f.amount \in Nat
      BY BoundsAssumption
    <3>2. \A t \in Tokens, a \in Accounts : balance'[t][a] >= balance[t][a]
      BY <2>6, <3>1 DEF Mint, TypeInv, TypeOK
    <3> QED
      BY <2>6, <3>2 DEF Mint, SwapStep, Settles
  <2>7. ASSUME NEW f \in Funding, Approve(f.token, f.owner, f.amount)
        PROVE SwapStep
    BY <2>7, QuietSwap DEF Approve, Settles
  <2>8. CASE NextBlock
    BY <2>8, QuietSwap DEF NextBlock, tokens, Settles
  <2> QED
    BY <2>1, <2>2, <2>3, <2>4, <2>5, <2>6, <2>7, <2>8 DEF Next
<1>2. [SwapStep]_vars <=>
        [ /\ \A s \in SessionIds : Settles(s) => balance' = SettledBalance(s)
          /\ \/ \E s \in SessionIds : Settles(s)
             \/ \A t \in Tokens, a \in Accounts : balance'[t][a] >= balance[t][a]
        ]_vars
  BY DEF SwapStep
<1> QED
  BY <1>1, <1>2, HistoryAlways, PTL DEF Spec, AtomicSwap

-----------------------------------------------------------------------------
(* The contract implements the bargain.  Two facts connect the levels: the *)
(* entries after the opening are the offers counted, and the parity of     *)
(* their number tells whose turn it is.                                    *)

(* The newest of an odd number of offers is the buyer's.                   *)
ParityOf(st) ==
    (st.status = "Open" /\ st.offerCount > 0) =>
        (st.activeProposer = st.config.buyer <=> st.offerCount % 2 = 1)

ParityInv == \A s \in SessionIds : ParityOf(session[s])

LEMMA Parity ==
    ASSUME NEW n \in Nat
    PROVE  /\ n % 2 \in {0, 1}
           /\ (n + 1) % 2 = 1 <=> n % 2 = 0
OBVIOUS

LEMMA ParityKept ==
    ASSUME TypeInv, ParityInv, NEW r \in SessionIds, NEW st,
           session' = [session EXCEPT ![r] = st], ParityOf(st)
    PROVE  ParityInv'
BY DEF ParityInv, TypeInv, TypeOK

LEMMA ParityStep == HistoryInv /\ ParityInv /\ [Next]_vars => ParityInv'
<1> SUFFICES ASSUME HistoryInv, ParityInv, [Next]_vars PROVE ParityInv'
  OBVIOUS
<1>0. TypeInv
  BY DEF HistoryInv
<1>1. ASSUME NEW c \in Configs, CreateSession(c) PROVE ParityInv'
  <2> DEFINE r == c.session
             st == [session[r] EXCEPT !.config = c, !.status = "Open"]
  <2>1. r \in SessionIds /\ session[r] \in SessionState
    BY <1>0, ConfigType DEF Config, TypeInv, TypeOK
  <2>2. session[r] = Unknown
    <3>1. log[r] # << >> => session[r].status # "None"
      BY <2>1 DEF HistoryInv, StateFromEvents, StateFollows, Replays, StatusAfter
    <3> QED
      BY <1>1, <2>1, <3>1
      DEF HistoryInv, StateFromEvents, StateFollows, CreateSession
  <2>3. session' = [session EXCEPT ![r] = st]
    BY <1>0, <1>1, <2>1 DEF CreateSession, TypeInv, TypeOK, SessionState
  <2>4. ParityOf(st)
    BY <2>2 DEF ParityOf, Unknown
  <2> QED
    BY <1>0, <2>1, <2>3, <2>4, ParityKept
<1>2. ASSUME NEW m \in OfferMessages, RecordOffer(m.content, m.signer)
      PROVE ParityInv'
  <2> DEFINE o == m.content
             r == o.session
             old == session[r]
             st == [old EXCEPT !.sequence = o.sequence,
                               !.offerCount = @ + 1,
                               !.activeOffer = o,
                               !.activeProposer = o.proposer,
                               !.activeQuote = o.quote,
                               !.activeValidUntil = o.validUntil,
                               !.activeSequence = o.sequence]
  <2>1. r \in SessionIds
    BY MessageTypes DEF Offer
  <2>2. old \in SessionState /\ old.offerCount \in Nat /\ old.status = "Open"
    BY <1>0, <1>2, <2>1
    DEF TypeInv, TypeOK, SessionState, RecordOffer, VerifyCommon
  <2>3. /\ st.config = old.config /\ st.activeProposer = o.proposer
        /\ st.offerCount = old.offerCount + 1
    BY <2>2 DEF SessionState
  <2>4. old.config.buyer # old.config.seller
    BY <1>0, <2>1, <2>2 DEF TypeInv, PartiesOK
  <2>5. o.proposer = NextProposer(old)
    BY <1>2 DEF RecordOffer
  <2>6. old.offerCount > 0 =>
          (old.activeProposer = old.config.buyer <=> old.offerCount % 2 = 1)
    BY <2>1, <2>2 DEF ParityInv, ParityOf
  <2>7. o.proposer = old.config.buyer <=> old.offerCount % 2 = 0
    BY <2>2, <2>4, <2>5, <2>6, Parity DEF NextProposer
  <2>8. session' = [session EXCEPT ![r] = st]
    BY <1>2 DEF RecordOffer
  <2> HIDE DEF st
  <2>9. ParityOf(st)
    BY <2>2, <2>3, <2>7, Parity DEF ParityOf
  <2> QED
    BY <1>0, <2>1, <2>8, <2>9, ParityKept
<1>3. ASSUME NEW m \in AcceptMessages, AcceptAndSettle(m.content, m.signer)
      PROVE ParityInv'
  <2> DEFINE r == m.content.session
             st == [session[r] EXCEPT !.status = "Settled",
                         !.sequence = m.content.sequence,
                         !.activeOffer = NoOffer,
                         !.activeProposer = ZeroAddress,
                         !.activeQuote = 0,
                         !.activeValidUntil = 0,
                         !.activeSequence = 0]
  <2>1. r \in SessionIds /\ session[r] \in SessionState
    BY <1>0, MessageTypes DEF Accept, TypeInv, TypeOK
  <2>2. session' = [session EXCEPT ![r] = st]
    BY <1>3 DEF AcceptAndSettle
  <2>3. st.status = "Settled"
    BY <2>1 DEF SessionState
  <2> HIDE DEF st
  <2> QED
    BY <1>0, <2>1, <2>2, <2>3, ParityKept DEF ParityOf
<1>4. ASSUME NEW m \in CloseMessages, CloseSession(m.content, m.signer)
      PROVE ParityInv'
  <2> DEFINE r == m.content.session
             st == [session[r] EXCEPT !.status = "Closed",
                                      !.sequence = m.content.sequence]
  <2>1. r \in SessionIds /\ session[r] \in SessionState
    BY <1>0, MessageTypes DEF Close, TypeInv, TypeOK
  <2>2. session' = [session EXCEPT ![r] = st]
    BY <1>0, <1>4, <2>1 DEF CloseSession, TypeInv, TypeOK, SessionState
  <2>3. st.status = "Closed"
    BY <2>1 DEF SessionState
  <2> HIDE DEF st
  <2> QED
    BY <1>0, <2>1, <2>2, <2>3, ParityKept DEF ParityOf
<1>5. ASSUME NEW s \in SessionIds, NEW word \in {"Expired", "Aborted"},
             session' = [session EXCEPT ![s].status = word]
      PROVE ParityInv'
  <2> DEFINE st == [session[s] EXCEPT !.status = word]
  <2>1. session[s] \in SessionState
    BY <1>0 DEF TypeInv, TypeOK
  <2>2. session' = [session EXCEPT ![s] = st]
    BY <1>0, <1>5, <2>1 DEF TypeInv, TypeOK, SessionState
  <2>3. st.status = word
    BY <2>1 DEF SessionState
  <2> HIDE DEF st
  <2> QED
    BY <1>0, <2>2, <2>3, ParityKept DEF ParityOf
<1>6. ASSUME UNCHANGED session PROVE ParityInv'
  BY <1>6 DEF ParityInv
<1> QED
  BY <1>1, <1>2, <1>3, <1>4, <1>5, <1>6
  DEF Next, vars, ExpireSession, AbortSession, Mint, Approve, NextBlock

(* What the two parties see of all the sessions: the refinement mapping.   *)
Deal == [s \in SessionIds |-> BargainOf(s)]

LEMMA DealBecomes ==
    ASSUME NEW r \in SessionIds, NEW d,
           \A s \in SessionIds : s # r => /\ session'[s] = session[s]
                                          /\ log'[s] = log[s],
           BargainOf(r)' = d
    PROVE  Deal' = [Deal EXCEPT ![r] = d]
<1>1. \A s \in SessionIds : s # r => BargainOf(s)' = BargainOf(s)
  BY DEF BargainOf
<1> HIDE DEF BargainOf
<1> QED
  BY <1>1 DEF Deal

(* Appending to a session's log, without counting another offer, leaves    *)
(* the offers its parties see alone.                                       *)
LEMMA OffersKept ==
    ASSUME TypeInv, NEW r \in SessionIds,
           session[r].offerCount < Len(log[r]),
           session'[r].offerCount = session[r].offerCount,
           \A k \in 1..Len(log[r]) : log'[r][k] = log[r][k]
    PROVE  BargainOf(r)'.offers = BargainOf(r).offers
<1>1. session[r].offerCount \in Nat /\ Len(log[r]) \in Nat
  BY DEF TypeInv, TypeOK, SessionState
<1>2. \A k \in 1..session[r].offerCount : log'[r][k + 1] = log[r][k + 1]
  BY <1>1
<1> QED
  BY <1>2 DEF BargainOf

(* A function on 1..n is a sequence, and one more value is appended to it. *)
LEMMA Counted ==
    ASSUME NEW n \in Nat, NEW f, f = [k \in 1..n |-> f[k]]
    PROVE  /\ f \in Seq({f[k] : k \in 1..n}) /\ Len(f) = n
           /\ n = 0 => f = << >>
<1> DEFINE S == {f[k] : k \in 1..n}
<1>1. f \in [1..n -> S]
  OBVIOUS
<1>2. f \in Seq(S)
  BY <1>1, SeqDef
<1>3. Len(f) = n
  BY <1>1, <1>2
<1>4. n = 0 => f = << >>
  BY <1>2, <1>3, EmptySeq
<1> QED
  BY <1>2, <1>3, <1>4

(* f lists n things; g lists them and one more.                            *)
Lists(f, n) == f = [k \in 1..n |-> f[k]]
Extends(g, f, n) == Lists(f, n) /\ Lists(g, n + 1) /\ \A k \in 1..n : g[k] = f[k]

LEMMA CountedAppend ==
    ASSUME NEW n \in Nat, NEW f, NEW g, Extends(g, f, n)
    PROVE  g = Append(f, g[n + 1])
<1> USE DEF Extends, Lists
<1> DEFINE T == {g[k] : k \in 1..n + 1}
<1>1. g \in Seq(T) /\ Len(g) = n + 1
  BY Counted
<1>2. f \in Seq(T) /\ Len(f) = n
  <2>1. \A k \in 1..n : k \in 1..n + 1
    OBVIOUS
  <2>2. \A k \in 1..n : f[k] \in T
    BY <2>1
  <2> HIDE DEF T
  <2>3. f \in [1..n -> T]
    BY <2>2
  <2> QED
    BY <2>3, SeqDef, Counted
<1>3. g[n + 1] \in T
  OBVIOUS
<1> DEFINE x == g[n + 1]
           h == Append(f, x)
<1> HIDE DEF T
<1>4. x \in T => /\ h \in Seq(T) /\ Len(h) = n + 1 /\ h[n + 1] = x
                 /\ \A k \in 1..n : h[k] = f[k]
  <2> HIDE DEF x
  <2> QED
    BY <1>2
<1> HIDE DEF x
<1>5. \A k \in 1..n + 1 : h[k] = g[k]
  <2>1. \A k \in 1..n + 1 : k \in 1..n \/ k = n + 1
    OBVIOUS
  <2> QED
    BY <1>3, <1>4, <2>1 DEF x
<1> HIDE DEF h
<1>6. h = g
  BY <1>1, <1>3, <1>4, <1>5, SeqEqual DEF x
<1> QED
  BY <1>6 DEF h, x

LEMMA BargainInit == Init => Bargain!Init
<1> SUFFICES ASSUME Init PROVE Bargain!Init
  OBVIOUS
<1> DEFINE none(s) == [k \in 1..0 |-> OfferMade(log[s][k + 1])]
<1>1. ASSUME NEW s \in SessionIds PROVE none(s) = << >>
  BY Counted
<1>2. \A s \in SessionIds : BargainOf(s) =
          [phase |-> "idle", terms |-> NoConfig, offers |-> none(s)]
  BY DEF Init, BargainOf, Unknown, Phase
<1> QED
  BY <1>1, <1>2 DEF Init, Bargain!Init

(* The components of a session's bargain, and how many offers it holds.    *)
LEMMA BargainFields ==
    ASSUME TypeInv, NEW s \in SessionIds
    PROVE  LET d == BargainOf(s)
           IN  /\ Deal[s] = d
               /\ d.phase = Phase(session[s].status)
               /\ d.terms = session[s].config
               /\ Len(d.offers) = session[s].offerCount
               /\ \A k \in 1..session[s].offerCount :
                     d.offers[k] = OfferMade(log[s][k + 1])
<1>1. session[s].offerCount \in Nat
  BY DEF TypeInv, TypeOK, SessionState
<1> DEFINE f == [k \in 1..session[s].offerCount |-> OfferMade(log[s][k + 1])]
<1>2. Len(f) = session[s].offerCount
  BY <1>1, Counted
<1> QED
  BY <1>2 DEF Deal, BargainOf

LEMMA OpenImplements ==
    ASSUME HistoryInv, NEW c \in Configs, CreateSession(c)
    PROVE  Bargain!Open(c)
<1> DEFINE r == c.session
           st == [session[r] EXCEPT !.config = c, !.status = "Open"]
<1>0. TypeInv
  BY DEF HistoryInv
<1>1. r \in SessionIds /\ session[r] \in SessionState /\ c \in Config
  BY <1>0, ConfigType DEF Config, TypeInv, TypeOK
<1>2. session[r] = Unknown /\ log[r] = << >>
  <2>1. log[r] # << >> => session[r].status # "None"
    BY <1>1 DEF HistoryInv, StateFromEvents, StateFollows, Replays, StatusAfter
  <2> QED
    BY <1>1, <2>1
    DEF HistoryInv, StateFromEvents, StateFollows, CreateSession
<1>3. /\ session'[r].status = "Open" /\ session'[r].config = c
      /\ session'[r].offerCount = 0 /\ session[r].offerCount = 0
      /\ \A s \in SessionIds : s # r => session'[s] = session[s]
  BY <1>0, <1>1, <1>2 DEF CreateSession, TypeInv, TypeOK, SessionState, Unknown
<1>4. \A s \in SessionIds : s # r => log'[s] = log[s]
  BY <1>0 DEF CreateSession, Emit, TypeInv, TypeOK
<1>5. BargainOf(r) = [phase |-> "idle", terms |-> NoConfig, offers |-> << >>]
  <2> DEFINE none == [k \in 1..0 |-> OfferMade(log[r][k + 1])]
  <2>1. none = << >>
    BY Counted
  <2> QED
    BY <1>2, <2>1 DEF BargainOf, Unknown, Phase
<1>6. BargainOf(r)' = [phase |-> "open", terms |-> c, offers |-> << >>]
  <2> DEFINE none == [k \in 1..0 |-> OfferMade(log'[r][k + 1])]
  <2>1. none = << >>
    BY Counted
  <2> QED
    BY <1>3, <2>1 DEF BargainOf, Phase
<1>7. Deal' = [Deal EXCEPT ![r] = [phase |-> "open", terms |-> c,
                                   offers |-> << >>]]
  BY <1>1, <1>3, <1>4, <1>6, DealBecomes
<1>8. Deal[r] = [phase |-> "idle", terms |-> NoConfig, offers |-> << >>]
  BY <1>1, <1>5 DEF Deal
<1>9. /\ c.buyer # c.seller /\ c.expiresAt > now
      /\ UNCHANGED <<now, balance>>
  BY DEF CreateSession, tokens
<1>10. Deal' = [Deal EXCEPT ![r].phase = "open", ![r].terms = c]
  <2>1. Deal = [s \in SessionIds |-> Deal[s]]
    BY DEF Deal
  <2> HIDE DEF r
  <2>2. [Deal EXCEPT ![r].phase = "open", ![r].terms = c] =
          [Deal EXCEPT ![r] = [Deal[r] EXCEPT !.phase = "open", !.terms = c]]
    BY <1>1, <2>1
  <2>3. [Deal[r] EXCEPT !.phase = "open", !.terms = c] =
          [phase |-> "open", terms |-> c, offers |-> << >>]
    <3> DEFINE d == Deal[r]
               e == [d EXCEPT !.phase = "open"]
    <3>1. [d EXCEPT !.phase = "open", !.terms = c] = [e EXCEPT !.terms = c]
      BY <1>8
    <3>2. d = [phase |-> "idle", terms |-> NoConfig, offers |-> << >>]
      BY <1>8
    <3> HIDE DEF d
    <3>3. e = [phase |-> "open", terms |-> NoConfig, offers |-> << >>]
      BY <3>2
    <3> HIDE DEF e
    <3>4. [e EXCEPT !.terms = c] =
            [phase |-> "open", terms |-> c, offers |-> << >>]
      BY <3>3
    <3> QED
      BY <3>1, <3>4 DEF d
  <2> QED
    BY <1>7, <2>2, <2>3
<1> QED
  BY <1>8, <1>9, <1>10 DEF Bargain!Open, Deal

LEMMA ProposeImplements ==
    ASSUME HistoryInv, ParityInv, NEW m \in OfferMessages,
           RecordOffer(m.content, m.signer)
    PROVE  Bargain!Propose(m.content.session, m.content.quote,
                           m.content.validUntil)
<1> DEFINE o == m.content
           r == o.session
           st == session[r]
           n == st.offerCount
           made == [by |-> o.proposer, quote |-> o.quote,
                    until |-> o.validUntil]
<1>0. TypeInv /\ TypeInv'
  BY MessageTypes, TypeOffer DEF HistoryInv
<1>1. o \in Offer /\ r \in SessionIds /\ st \in SessionState /\ n \in Nat
  BY <1>0, MessageTypes DEF Offer, TypeInv, TypeOK, SessionState
<1>2. /\ st.status = "Open" /\ now < st.config.expiresAt
      /\ o.proposer = NextProposer(st) /\ n # st.config.maxOffers
      /\ o.quote # 0 /\ now < o.validUntil
      /\ o.validUntil <= st.config.expiresAt
      /\ Emit(r, "OfferRecorded", o.sequence, o.proposer, o)
      /\ UNCHANGED <<now, balance>>
  BY ZenonT(60) DEF RecordOffer, VerifyCommon, tokens
<1>3. /\ session'[r].status = "Open" /\ session'[r].config = st.config
      /\ session'[r].offerCount = n + 1
      /\ \A s \in SessionIds : s # r => session'[s] = session[s]
  BY <1>0, <1>1, <1>2 DEF RecordOffer, TypeInv, TypeOK, SessionState
<1>4. \A s \in SessionIds : s # r => log'[s] = log[s]
  BY <1>0, <1>2 DEF Emit, TypeInv, TypeOK
<1>5. Len(log[r]) = n + 1
  BY <1>1, <1>2, OpenLog
<1>6. /\ log'[r][n + 2].actor = o.proposer
      /\ log'[r][n + 2].offer = o
      /\ \A k \in 1..n + 1 : log'[r][k] = log[r][k]
  <2> DEFINE e == [kind |-> "OfferRecorded", config |-> session'[r].config,
                   sequence |-> o.sequence, actor |-> o.proposer,
                   offer |-> o, at |-> now]
  <2> DEFINE len == Len(log[r])
  <2> HIDE DEF n, r, o
  <2>1. /\ log'[r][len + 1] = e
        /\ \A k \in 1..len : log'[r][k] = log[r][k]
    BY <1>0, <1>1, <1>2, Emitted
  <2>2. len = n + 1 /\ len + 1 = n + 2
    BY <1>1, <1>5
  <2>3. e.actor = o.proposer /\ e.offer = o
    OBVIOUS
  <2> HIDE DEF e, len
  <2> QED
    BY <2>1, <2>2, <2>3
<1> DEFINE f == BargainOf(r).offers
           g == BargainOf(r)'.offers
<1>7. g = Append(f, made)
  <2>1. f = [k \in 1..n |-> OfferMade(log[r][k + 1])]
    BY DEF BargainOf
  <2>2. g = [k \in 1..n + 1 |-> OfferMade(log'[r][k + 1])]
    BY <1>3 DEF BargainOf
  <2>3. \A k \in 1..n : g[k] = f[k]
    <3> TAKE k \in 1..n
    <3>1. k \in 1..n + 1 /\ k + 1 \in 1..n + 1
      BY <1>1
    <3>2. log'[r][k + 1] = log[r][k + 1]
      BY Zenon, <1>6, <3>1
    <3>3. f[k] = OfferMade(log[r][k + 1])
      BY Zenon, <2>1
    <3>4. g[k] = OfferMade(log'[r][k + 1])
      BY ZenonT(60), <2>2, <3>1
    <3> QED
      BY Zenon, <3>2, <3>3, <3>4
  <2>4. g[n + 1] = made
    <3>1. n + 1 \in 1..n + 1 /\ (n + 1) + 1 = n + 2
      BY <1>1
    <3>2. g[n + 1] = OfferMade(log'[r][n + 2])
      BY <2>2, <3>1
    <3> QED
      BY <1>6, <3>2 DEF OfferMade
  <2>5. f = [k \in 1..n |-> f[k]] /\ g = [k \in 1..n + 1 |-> g[k]]
    BY <2>1, <2>2
  <2> HIDE DEF f, g, n
  <2>6. g = Append(f, g[n + 1])
    <3>1. n \in Nat
      BY <1>1
    <3>2. Extends(g, f, n)
      BY SMTT(30), <2>3, <2>5 DEF Extends, Lists
    <3> QED
      BY Zenon, <3>1, <3>2, CountedAppend
  <2> QED
    BY <2>4, <2>6
<1>8. /\ BargainOf(r) = [phase |-> "open", terms |-> st.config, offers |-> f]
      /\ BargainOf(r)' = [phase |-> "open", terms |-> st.config,
                          offers |-> Append(f, made)]
  BY <1>2, <1>3, <1>7 DEF BargainOf, Phase
<1> HIDE DEF f, g
<1>9. /\ Deal[r] = [phase |-> "open", terms |-> st.config, offers |-> f]
      /\ Deal' = [Deal EXCEPT ![r].offers = Append(@, made)]
  <2>1. Deal = [s \in SessionIds |-> Deal[s]] /\ Deal[r] = BargainOf(r)
    BY <1>1 DEF Deal
  <2>2. Deal' = [Deal EXCEPT ![r] = [phase |-> "open", terms |-> st.config,
                                     offers |-> Append(f, made)]]
    BY <1>1, <1>3, <1>4, <1>8, DealBecomes
  <2> HIDE DEF r, made
  <2>3. [Deal EXCEPT ![r].offers = Append(@, made)] =
          [Deal EXCEPT ![r] =
             [Deal[r] EXCEPT !.offers = Append(Deal[r].offers, made)]]
    BY <1>1, <2>1
  <2>4. [Deal[r] EXCEPT !.offers = Append(Deal[r].offers, made)] =
          [phase |-> "open", terms |-> st.config, offers |-> Append(f, made)]
    <3> DEFINE d == Deal[r]
               t == st.config
               x == Append(f, made)
    <3>1. d = [phase |-> "open", terms |-> t, offers |-> f]
      BY <1>8, <2>1
    <3>2. Append(d.offers, made) = x
      BY <3>1
    <3> HIDE DEF d, t, x
    <3>3. [d EXCEPT !.offers = x] = [phase |-> "open", terms |-> t, offers |-> x]
      BY <3>1
    <3> QED
      BY <3>2, <3>3 DEF d, t, x
  <2> QED
    BY <1>8, <2>1, <2>2, <2>3, <2>4
<1>10. Len(f) = n
  BY <1>0, <1>1, BargainFields DEF f
(* Whose turn it is.                                                       *)
<1>11. o.proposer = IF n % 2 = 0 THEN st.config.buyer ELSE st.config.seller
  <2>1. st.config.buyer # st.config.seller
    BY <1>0, <1>1, <1>2 DEF TypeInv, PartiesOK
  <2>2. n > 0 => (st.activeProposer = st.config.buyer <=> n % 2 = 1)
    BY <1>1, <1>2 DEF ParityInv, ParityOf
  <2>3. st.offerCount = n
    OBVIOUS
  <2> HIDE DEF n, st, r, o
  <2> QED
    BY <1>1, <1>2, <2>1, <2>2, <2>3, Parity DEF NextProposer
<1>12. made.by = Bargain!Turn(Deal[r])
  BY <1>9, <1>10, <1>11 DEF Bargain!Turn
(* The limit is met one offer at a time.                                   *)
<1>13. n < st.config.maxOffers
  <2>1. st.config.maxOffers \in Nat
    BY <1>0, <1>1, <1>2 DEF TypeInv, PartiesOK, Config
  <2>2. n > 0 => n <= st.config.maxOffers
    <3> DEFINE len == Len(log[r])
    <3>1. len > 1 => len - 1 <= st.config.maxOffers
      BY <1>1, <1>2, NewestOffer
    <3> QED
      BY <1>1, <1>5, <3>1
  <2> QED
    BY <1>1, <1>2, <2>1, <2>2
<1>14. o.quote > 0
  BY <1>1, <1>2 DEF Offer
<1>15. /\ Deal[r].phase = "open" /\ Deal[r].terms = st.config
       /\ Len(Deal[r].offers) = n
  BY <1>9, <1>10
<1>16. made = [by |-> Bargain!Turn(Deal[r]), quote |-> o.quote,
               until |-> o.validUntil]
  BY <1>12
<1> DEFINE quote == o.quote
           until == o.validUntil
           limit == st.config.maxOffers
           deadline == st.config.expiresAt
<1>17. Deal' = [Deal EXCEPT ![r].offers =
                  Append(@, [by |-> Bargain!Turn(Deal[r]), quote |-> quote,
                             until |-> until])]
  <2> HIDE DEF r, o
  <2> QED
    BY <1>9, <1>16
<1>18. /\ Len(Deal[r].offers) < Deal[r].terms.maxOffers
       /\ until <= Deal[r].terms.expiresAt /\ now < Deal[r].terms.expiresAt
       /\ quote > 0 /\ now < until
  BY <1>2, <1>13, <1>14, <1>15
<1> HIDE DEF r, n, st, o, made, quote, until
<1>19. Bargain!Propose(r, quote, until)
  BY <1>1, <1>2, <1>15, <1>17, <1>18
  DEF Bargain!Propose, Bargain!Live, Deal
<1> QED
  BY <1>19 DEF r, o, quote, until

(* The session's own transaction changes neither its terms nor its offers, *)
(* so all its parties see is another phase.                                *)
LEMMA PhaseBecomes ==
    ASSUME TypeInv, NEW r \in SessionIds,
           session[r].offerCount < Len(log[r]),
           session'[r].offerCount = session[r].offerCount,
           session'[r].config = session[r].config,
           \A k \in 1..Len(log[r]) : log'[r][k] = log[r][k],
           \A s \in SessionIds : s # r => /\ session'[s] = session[s]
                                          /\ log'[s] = log[s]
    PROVE  Deal' = [Deal EXCEPT ![r].phase = Phase(session'[r].status)]
<1> DEFINE p == Phase(session'[r].status)
           d == BargainOf(r)
<1>1. BargainOf(r)' =
        [phase |-> p, terms |-> d.terms, offers |-> d.offers]
  BY OffersKept DEF BargainOf
<1>2. d = [phase |-> d.phase, terms |-> d.terms, offers |-> d.offers]
  BY DEF BargainOf
<1>3. Deal[r] = d /\ Deal = [s \in SessionIds |-> Deal[s]]
  BY DEF Deal
<1> DEFINE q == d.phase
           t == d.terms
           o == d.offers
<1> HIDE DEF d, p
<1>4. [d EXCEPT !.phase = p] = [phase |-> p, terms |-> t, offers |-> o]
  <2>1. d = [phase |-> q, terms |-> t, offers |-> o]
    BY <1>2
  <2> HIDE DEF q, t, o
  <2> QED
    BY <2>1
<1>5. Deal' = [Deal EXCEPT ![r] = [d EXCEPT !.phase = p]]
  BY <1>1, <1>4, DealBecomes
<1>6. Deal' = [Deal EXCEPT ![r].phase = p]
  BY <1>3, <1>5
<1> QED
  BY <1>6 DEF p

LEMMA AgreeImplements ==
    ASSUME HistoryInv, NEW m \in AcceptMessages,
           AcceptAndSettle(m.content, m.signer)
    PROVE  Bargain!Agree(m.content.session)
<1> DEFINE x == m.content
           r == x.session
           st == session[r]
           n == st.offerCount
           buyer == st.config.buyer
           seller == st.config.seller
           price == st.activeQuote
           amount == st.config.baseAmount
<1>0. TypeInv /\ TypeInv'
  BY MessageTypes, TypeAccept DEF HistoryInv
<1>1. /\ x \in Accept /\ r \in SessionIds /\ st \in SessionState
      /\ n \in Nat /\ price \in Nat
  BY ZenonT(60), <1>0, MessageTypes DEF Accept, TypeInv, TypeOK, SessionState
<1>2. /\ st.status = "Open" /\ now < st.config.expiresAt
      /\ Standing(x, st)
      /\ Covers("quote", buyer, price) /\ Covers("base", seller, amount)
      /\ Emit(r, "SettlementCompleted", x.sequence, x.actor, x.offer)
      /\ now' = now
  BY Zenon DEF AcceptAndSettle, VerifyCommon
<1>3. /\ session'[r].status = "Settled" /\ session'[r].config = st.config
      /\ session'[r].offerCount = n
      /\ \A s \in SessionIds : s # r => session'[s] = session[s]
  BY ZenonT(60), <1>0, <1>1, <1>2 DEF AcceptAndSettle, TypeInv, TypeOK, SessionState
<1>4. \A s \in SessionIds : s # r => log'[s] = log[s]
  <2> HIDE DEF price, n, st, r
  <2> QED
    BY <1>0, <1>2 DEF Emit, TypeInv, TypeOK
<1>5. Len(log[r]) = n + 1
  BY <1>1, <1>2, OpenLog
<1>6. \A k \in 1..Len(log[r]) : log'[r][k] = log[r][k]
  BY <1>0, <1>1, <1>2, Emitted
<1>7. Deal' = [Deal EXCEPT ![r].phase = "agreed"]
  <2>1. n < Len(log[r])
    BY <1>1, <1>5
  <2>2. Phase(session'[r].status) = "agreed"
    BY <1>3 DEF Phase
  <2> QED
    BY <1>0, <1>1, <1>3, <1>4, <1>6, <2>1, <2>2, PhaseBecomes
(* The offer agreed to is the newest, and its figures are the active ones. *)
<1>8. /\ n > 0 /\ n + 1 > 1
      /\ log[r][n + 1].offer.quote = price
      /\ log[r][n + 1].offer.validUntil = st.activeValidUntil
  <2>1. st.activeOffer # NoOffer
    BY <1>2 DEF Standing
  <2>2. n + 1 # 1
    <3>1. n + 1 = 1 => st.activeOffer = log[r][1].offer
      BY ZenonT(60), <1>1, <1>2, <1>5, NewestOffer
    <3>2. log[r] # << >>
      BY <1>1, <1>5
    <3> QED
      BY SMTT(40), <1>1, <2>1, <3>1, <3>2 DEF HistoryInv, OpeningBare
  <2>3. n + 1 > 1
    BY <1>1, <2>2
  <2> DEFINE len == Len(log[r])
  <2>4. len > 1 => /\ log[r][len].offer.quote = price
                   /\ log[r][len].offer.validUntil = st.activeValidUntil
    BY <1>1, <1>2, NewestOffer
  <2> HIDE DEF len, price, n, st, r
  <2>5. len = n + 1
    BY <1>5 DEF len
  <2> QED
    BY <1>1, <2>3, <2>4, <2>5
<1> DEFINE d == Deal[r]
           o == d.offers[Len(d.offers)]
<1>9. /\ d.phase = "open" /\ d.terms = st.config /\ Len(d.offers) = n
      /\ o = OfferMade(log[r][n + 1])
  <2>1. /\ d.phase = Phase(st.status) /\ d.terms = st.config
        /\ Len(d.offers) = n
        /\ \A k \in 1..n : d.offers[k] = OfferMade(log[r][k + 1])
    BY <1>0, <1>1, BargainFields
  <2>2. n \in 1..n
    <3> HIDE DEF price, n, st, r
    <3> QED
      BY <1>1, <1>8
  <2>3. Phase(st.status) = "open"
    BY <1>2 DEF Phase
  <2> HIDE DEF d, n, st, r
  <2> QED
    BY <2>1, <2>2, <2>3
<1>10. o.quote = price /\ o.until = st.activeValidUntil
  <2> HIDE DEF o, d, price, n, st, r
  <2> QED
    BY <1>8, <1>9 DEF OfferMade
<1>11. d.offers # << >>
  <2> HIDE DEF o, d, price, n, st, r
  <2> QED
    BY <1>8, <1>9
<1>12. now < st.activeValidUntil
  BY SMTT(40), <1>2 DEF Standing
<1>13. balance["quote"][buyer] >= price /\ balance["base"][seller] >= amount
  BY <1>2 DEF Covers
<1>14. balance' = [t \in Tokens |-> [a \in Accounts |->
              LET q == IF t = "quote" THEN price ELSE amount
                  from == IF t = "quote" THEN buyer ELSE seller
                  to == IF t = "quote" THEN seller ELSE buyer
              IN  CASE a = from -> balance[t][a] - q
                    [] a = to -> balance[t][a] + q
                    [] OTHER -> balance[t][a]]]
  <2>1. /\ buyer \in Accounts /\ seller \in Accounts /\ buyer # seller
        /\ amount \in Nat
    BY <1>0, <1>1, <1>2 DEF TypeInv, PartiesOK, Config
  <2>2. /\ balance["quote"] \in [Accounts -> Nat]
        /\ balance["base"] \in [Accounts -> Nat]
        /\ balance \in [Tokens -> [Accounts -> Nat]]
    BY ZenonT(60), <1>0 DEF TypeInv, TypeOK, Tokens
  <2>3. balance' = [balance EXCEPT
                      !["quote"] = Moved(@, buyer, seller, price),
                      !["base"]  = Moved(@, seller, buyer, amount)]
    BY DEF AcceptAndSettle
  <2> HIDE DEF buyer, seller, price, amount
  <2>4. /\ balance'["quote"] = Moved(balance["quote"], buyer, seller, price)
        /\ balance'["base"] = Moved(balance["base"], seller, buyer, amount)
        /\ balance' = [t \in Tokens |-> balance'[t]]
    BY <2>2, <2>3 DEF Tokens
  <2>5. \A t \in Tokens : t = "quote" \/ t = "base"
    BY DEF Tokens
  <2>6. balance'["quote"] =
          [a \in Accounts |-> CASE a = buyer -> balance["quote"][a] - price
                                [] a = seller -> balance["quote"][a] + price
                                [] OTHER -> balance["quote"][a]]
    BY <1>1, <2>1, <2>2, <2>4 DEF Moved
  <2>7. balance'["base"] =
          [a \in Accounts |-> CASE a = seller -> balance["base"][a] - amount
                                [] a = buyer -> balance["base"][a] + amount
                                [] OTHER -> balance["base"][a]]
    BY <2>1, <2>2, <2>4 DEF Moved
  <2> QED
    BY SMTT(40), <2>4, <2>5, <2>6, <2>7
<1>15. Bargain!Live(r)
  BY <1>1, <1>2, <1>9 DEF Bargain!Live, Deal
<1>16. /\ now < o.until
       /\ balance["quote"][d.terms.buyer] >= o.quote
       /\ balance["base"][d.terms.seller] >= d.terms.baseAmount
  BY <1>9, <1>10, <1>12, <1>13
<1>17. balance' = [t \in Tokens |-> [a \in Accounts |->
              LET q == IF t = "quote" THEN o.quote ELSE d.terms.baseAmount
                  from == IF t = "quote" THEN d.terms.buyer ELSE d.terms.seller
                  to == IF t = "quote" THEN d.terms.seller ELSE d.terms.buyer
              IN  CASE a = from -> balance[t][a] - q
                    [] a = to -> balance[t][a] + q
                    [] OTHER -> balance[t][a]]]
  <2>1. /\ d.terms.buyer = buyer /\ d.terms.seller = seller
        /\ d.terms.baseAmount = amount /\ o.quote = price
    BY <1>9, <1>10
  <2> HIDE DEF buyer, seller, price, amount, o, d
  <2> QED
    BY <1>14, <2>1
<1>18. r \in SessionIds /\ now' = now
  BY <1>1, <1>2
<1> HIDE DEF r
<1>19. Bargain!Agree(r)
  BY <1>7, <1>11, <1>15, <1>16, <1>17, <1>18, Zenon DEF Bargain!Agree, Deal
<1> QED
  BY <1>19 DEF r

LEMMA EndImplements ==
    ASSUME TypeInv, NEW r \in SessionIds,
           session[r].status = "Open",
           session[r].offerCount < Len(log[r]),
           session'[r].status \in {"Closed", "Expired", "Aborted"},
           session'[r].offerCount = session[r].offerCount,
           session'[r].config = session[r].config,
           \A k \in 1..Len(log[r]) : log'[r][k] = log[r][k],
           \A s \in SessionIds : s # r => /\ session'[s] = session[s]
                                          /\ log'[s] = log[s],
           UNCHANGED <<now, balance>>
    PROVE  Bargain!End(r)
<1>1. Deal' = [Deal EXCEPT ![r].phase = Phase(session'[r].status)]
  BY PhaseBecomes
<1>2. Phase(session'[r].status) = "over"
  BY DEF Phase
<1>3. Deal[r].phase = "open"
  BY DEF Deal, BargainOf, Phase
<1> QED
  BY <1>1, <1>2, <1>3 DEF Bargain!End, Deal

(* Closing a session, by message or by timeout, as the parties see it.     *)
LEMMA CloseImplements ==
    ASSUME HistoryInv, NEW m \in CloseMessages,
           CloseSession(m.content, m.signer)
    PROVE  Bargain!End(m.content.session)
<1> DEFINE x == m.content
           r == x.session
           st == session[r]
<1>0. TypeInv /\ TypeInv'
  BY MessageTypes, TypeClose DEF HistoryInv
<1>1. /\ x \in Close /\ r \in SessionIds /\ st \in SessionState
      /\ st.offerCount \in Nat
  BY <1>0, MessageTypes DEF Close, TypeInv, TypeOK, SessionState
<1>2. /\ st.status = "Open" /\ UNCHANGED <<now, balance>>
      /\ Emit(r, "SessionClosed", x.sequence, x.actor, NoOffer)
  BY DEF CloseSession, VerifyCommon, tokens
<1>3. /\ session'[r].status = "Closed" /\ session'[r].config = st.config
      /\ session'[r].offerCount = st.offerCount
      /\ \A s \in SessionIds : s # r => session'[s] = session[s]
  BY <1>0, <1>1, <1>2 DEF CloseSession, TypeInv, TypeOK, SessionState
<1>4. \A s \in SessionIds : s # r => log'[s] = log[s]
  BY <1>0, <1>2 DEF Emit, TypeInv, TypeOK
<1>5. st.offerCount < Len(log[r])
  BY <1>1, <1>2, OpenLog
<1>6. \A k \in 1..Len(log[r]) : log'[r][k] = log[r][k]
  BY <1>0, <1>1, <1>2, Emitted
<1> QED
  BY <1>0, <1>1, <1>2, <1>3, <1>4, <1>5, <1>6, EndImplements

LEMMA TimeoutImplements ==
    ASSUME HistoryInv, NEW r \in SessionIds,
           ExpireSession(r) \/ AbortSession(r)
    PROVE  Bargain!End(r)
<1> DEFINE st == session[r]
<1>0. TypeInv /\ TypeInv'
  BY TypeEnd DEF HistoryInv
<1>1. st \in SessionState /\ st.offerCount \in Nat
  BY <1>0 DEF TypeInv, TypeOK, SessionState
<1>2. /\ st.status = "Open" /\ UNCHANGED <<now, balance>>
      /\ \/ Emit(r, "SessionExpired", 0, ZeroAddress, NoOffer)
         \/ Emit(r, "SessionAborted", 0, Operator, NoOffer)
  BY DEF ExpireSession, AbortSession, tokens
<1>3. /\ session'[r].status \in {"Expired", "Aborted"}
      /\ session'[r].config = st.config
      /\ session'[r].offerCount = st.offerCount
      /\ \A s \in SessionIds : s # r => session'[s] = session[s]
  BY <1>0, <1>1, <1>2
  DEF ExpireSession, AbortSession, TypeInv, TypeOK, SessionState
<1>4. \A s \in SessionIds : s # r => log'[s] = log[s]
  BY <1>0, <1>2 DEF Emit, TypeInv, TypeOK
<1>5. st.offerCount < Len(log[r])
  BY <1>1, <1>2, OpenLog
<1>6. \A k \in 1..Len(log[r]) : log'[r][k] = log[r][k]
  BY <1>0, <1>1, <1>2, Emitted
<1> QED
  BY <1>0, <1>1, <1>2, <1>3, <1>4, <1>5, <1>6, EndImplements

LEMMA BargainStep ==
    HistoryInv /\ ParityInv /\ [Next]_vars => [Bargain!Next]_Bargain!vars
<1> SUFFICES ASSUME HistoryInv, ParityInv, [Next]_vars
             PROVE  [Bargain!Next]_Bargain!vars
  OBVIOUS
<1>0. UNCHANGED <<session, log>> => Deal' = Deal
  BY DEF Deal, BargainOf
<1>1. ASSUME NEW c \in Configs, CreateSession(c)
      PROVE  Bargain!Next
  BY <1>1, OpenImplements DEF Bargain!Next
<1>2. ASSUME NEW m \in OfferMessages, RecordOffer(m.content, m.signer)
      PROVE  Bargain!Next
  <2> DEFINE o == m.content
  <2>1. o \in {x.content : x \in OfferMessages} /\ o.session \in SessionIds
    BY MessageTypes DEF Offer
  <2>2. Bargain!Propose(o.session, o.quote, o.validUntil)
    BY <1>2, ProposeImplements
  <2> QED
    BY <2>1, <2>2 DEF Bargain!Next
<1>3. ASSUME NEW m \in AcceptMessages, AcceptAndSettle(m.content, m.signer)
      PROVE  Bargain!Next
  <2>1. m.content.session \in SessionIds
    BY MessageTypes DEF Accept
  <2> QED
    BY <1>3, <2>1, AgreeImplements DEF Bargain!Next
<1>4. ASSUME NEW m \in CloseMessages, CloseSession(m.content, m.signer)
      PROVE  Bargain!Next
  <2>1. m.content.session \in SessionIds
    BY MessageTypes DEF Close
  <2> QED
    BY <1>4, <2>1, CloseImplements DEF Bargain!Next
<1>5. ASSUME NEW s \in SessionIds, ExpireSession(s) \/ AbortSession(s)
      PROVE  Bargain!Next
  BY <1>5, TimeoutImplements DEF Bargain!Next
<1>6. ASSUME NEW f \in Funding, Mint(f.token, f.owner, f.amount)
      PROVE  Bargain!Next
  <2>1. Bargain!Credit(f.token, f.owner, f.amount)
    BY <1>0, <1>6 DEF Mint, Bargain!Credit, Deal
  <2> QED
    BY <2>1 DEF Bargain!Next
<1>7. CASE NextBlock
  <2>1. Bargain!Pass
    BY <1>0, <1>7 DEF NextBlock, tokens, Bargain!Pass, Deal
  <2> QED
    BY <2>1 DEF Bargain!Next
(* An approval is not the parties' business: a stuttering step.            *)
<1>8. ASSUME NEW f \in Funding, Approve(f.token, f.owner, f.amount)
      PROVE  UNCHANGED Bargain!vars
  BY <1>0, <1>8 DEF Approve, Bargain!vars, Deal
<1>9. CASE UNCHANGED vars
  BY <1>0, <1>9 DEF vars, tokens, Bargain!vars, Deal
<1> QED
  BY <1>1, <1>2, <1>3, <1>4, <1>5, <1>6, <1>7, <1>8, <1>9 DEF Next

(* NegotiationExchange implements Bargain: whatever messages are submitted *)
(* and in whatever order, its parties never see anything but turns taken,  *)
(* the newest live offer agreed to and both legs swapped at its price.     *)
THEOREM ImplementsTheBargain == Spec => ImplementsBargain
<1>1. Init => ParityInv
  BY DEF Init, ParityInv, ParityOf, Unknown
<1>2. Spec => []ParityInv
  BY <1>1, ParityStep, HistoryAlways, PTL DEF Spec
<1> QED
  BY <1>2, BargainInit, BargainStep, HistoryAlways, PTL
  DEF Spec, ImplementsBargain, Bargain!Spec
=============================================================================
