------------------------------ MODULE Evidence ------------------------------
(***************************************************************************)
(* What is said of a negotiation afterwards, from the chain alone: the     *)
(* session view, timeline, sentences, balances and outcome the backend     *)
(* projects from its canonical rows, the settlement check of the indexer,  *)
(* the audit of the metrics, and the reconstruction tool, which reads no   *)
(* database.  Each is a pure function of the chain's records.              *)
(*                                                                         *)
(* The contract runs as in Exchange, used as the controller uses it: one   *)
(* session at a time, wallets funded and approved before it opens.  What a *)
(* block keeps and the contract forgets is recorded beside it.             *)
(***************************************************************************)
EXTENDS Exchange, Integers
LOCAL INSTANCE SequencesExt
LOCAL INSTANCE FiniteSetsExt
LOCAL INSTANCE Functions

VARIABLES
    past,       \* the balances at the end of each mined block, genesis first
    calldata    \* session -> the signed messages its transactions carried

evidenceVars == <<vars, past, calldata>>

(* Block n + 1 is the one built at time n; block 0 is the genesis.         *)
BlockOf(e) == e.at + 1
TopBlock == Len(past) - 1
BalancesAt(n) == past[n + 1]

EvidenceInit ==
    /\ Init
    /\ past = <<balance>>
    /\ calldata = [s \in SessionIds |-> << >>]

Carries(m) ==
    calldata' = [calldata EXCEPT ![m.content.session] = Append(@, m)]

(* Nothing is open, and nothing waits in the block being built.            *)
Quiet ==
    \A s \in SessionIds :
        /\ session[s].status # "Open"
        /\ log[s] # << >> => Last(log[s]).at < now

Opens ==
    /\ Quiet /\ balance = Last(past)
    /\ \E c \in Configs : CreateSession(c)
    /\ UNCHANGED <<past, calldata>>

Funds ==
    /\ Quiet
    /\ \E f \in Funding : \/ Mint(f.token, f.owner, f.amount)
                          \/ Approve(f.token, f.owner, f.amount)
    /\ UNCHANGED <<past, calldata>>

Acts ==
    /\ \/ \E m \in OfferMessages : RecordOffer(m.content, m.signer) /\ Carries(m)
       \/ \E m \in AcceptMessages :
             AcceptAndSettle(m.content, m.signer) /\ Carries(m)
       \/ \E m \in CloseMessages : CloseSession(m.content, m.signer) /\ Carries(m)
    /\ UNCHANGED past

Others ==
    /\ \E s \in SessionIds : ExpireSession(s) \/ AbortSession(s)
    /\ UNCHANGED <<past, calldata>>

Mined ==
    /\ NextBlock
    /\ past' = Append(past, balance)
    /\ UNCHANGED calldata

EvidenceNext == Opens \/ Funds \/ Acts \/ Others \/ Mined
EvidenceSpec == EvidenceInit /\ [][EvidenceNext]_evidenceVars

-----------------------------------------------------------------------------
(* Canonical rows: one per event, in the order of the chain.               *)

Named(name, e, tx) == [name |-> name, of |-> e, tx |-> tx]

EventsOf(e, tx) ==
    IF e.kind = "SettlementCompleted"
    THEN <<Named("AcceptanceRecorded", e, tx), Named("SettlementCompleted", e, tx)>>
    ELSE <<Named(e.kind, e, tx)>>

Rows(s) == FlattenSeq([tx \in DOMAIN log[s] |-> EventsOf(log[s][tx], tx)])

SignedEvents == {"OfferRecorded", "AcceptanceRecorded", "SessionClosed"}

IsNamed(names, row) == row.name \in names

RowsNamed(rows, names) == SelectSeq(rows, LAMBDA r : IsNamed(names, r))

Opened(rows) == RowsNamed(rows, {"SessionOpened"})

Role(c, address) ==
    CASE address = c.buyer -> "buyer"
      [] address = c.seller -> "seller"
      [] OTHER -> "neither"

StatusAfterEvent ==
    [SessionOpened |-> "Open", SettlementCompleted |-> "Settled",
     SessionClosed |-> "Closed", SessionExpired |-> "Expired",
     SessionAborted |-> "Aborted"]

NoActive == [digest |-> NoOffer]

ActiveOf(row) ==
    [digest |-> row.of.offer, proposer |-> Role(row.of.config, row.of.actor),
     quote |-> row.of.offer.quote, validUntil |-> row.of.offer.validUntil,
     sequence |-> row.of.sequence]

(* Mutant: an offer is no longer active once its session has ended.        *)
ActiveUntilAnyEnd(view, row) ==
    CASE row.name = "OfferRecorded" -> ActiveOf(row)
      [] row.name \in TerminalKinds -> NoActive
      [] OTHER -> view.active

(* Only a settlement clears the active offer, as in the contract.          *)
ActiveAfter(view, row) ==
    CASE row.name = "OfferRecorded" -> ActiveOf(row)
      [] row.name = "SettlementCompleted" -> NoActive
      [] OTHER -> view.active

(* One event of the session view's loop. *)
ViewStep(view, row) ==
    [status |-> IF row.name \in DOMAIN StatusAfterEvent
                THEN StatusAfterEvent[row.name] ELSE view.status,
     sequence |-> IF row.name \in SignedEvents
                  THEN Max({view.sequence, row.of.sequence}) ELSE view.sequence,
     offers |-> view.offers + (IF row.name = "OfferRecorded" THEN 1 ELSE 0),
     active |-> ActiveAfter(view, row)]

NoView == [status |-> "None"]

SessionView(rows) ==
    IF Opened(rows) = << >> THEN NoView
    ELSE FoldLeft(ViewStep, [status |-> "Open", sequence |-> 0, offers |-> 0,
                             active |-> NoActive], rows)

(* The same block as the contract's own getSession answers it.             *)
GetSession(s) ==
    LET st == session[s]
    IN  IF st.status = "None" THEN NoView
        ELSE [status |-> st.status, sequence |-> st.sequence,
              offers |-> st.offerCount,
              active |-> IF st.activeOffer = NoOffer THEN NoActive
                         ELSE [digest |-> st.activeOffer,
                               proposer |-> Role(st.config, st.activeProposer),
                               quote |-> st.activeQuote,
                               validUntil |-> st.activeValidUntil,
                               sequence |-> st.activeSequence]]

-----------------------------------------------------------------------------
(* The timeline: an entry for every event but the opening. *)

TimelineKind ==
    [OfferRecorded |-> "offer", AcceptanceRecorded |-> "accept",
     SettlementCompleted |-> "settle", SessionClosed |-> "close",
     SessionExpired |-> "expire", SessionAborted |-> "abort"]

QuoteOf(offers, digest) ==
    IF \E o \in offers : o.digest = digest
    THEN (CHOOSE o \in offers : o.digest = digest).quote ELSE 0

(* The fields of one entry, from its event and what was carried forward.   *)
EntryFields(row, st) ==
    LET e == row.of
        fields == [kind |-> TimelineKind[row.name], sequence |-> st.sequence,
                   actor |-> "none", quote |-> 0, references |-> NoOffer]
    IN  CASE row.name = "OfferRecorded" ->
               [fields EXCEPT !.sequence = e.sequence,
                              !.actor = Role(e.config, e.actor),
                              !.quote = e.offer.quote]
          [] row.name = "AcceptanceRecorded" ->
               [fields EXCEPT !.sequence = e.sequence,
                              !.actor = Role(e.config, e.actor),
                              !.quote = QuoteOf(st.offers, e.offer),
                              !.references = e.offer]
          [] row.name = "SettlementCompleted" ->
               [fields EXCEPT !.actor = st.acceptor, !.quote = e.offer.quote,
                              !.references = e.offer]
          [] row.name = "SessionClosed" ->
               [fields EXCEPT !.sequence = e.sequence,
                              !.actor = Role(e.config, e.actor)]
          [] row.name = "SessionExpired" -> [fields EXCEPT !.actor = "anyone"]
          [] OTHER -> [fields EXCEPT !.actor = "operator"]

TimelineStep(st, row) ==
    LET entry == EntryFields(row, st)
    IN  [sequence |-> entry.sequence,
         offers |-> st.offers \cup
            (IF row.name = "OfferRecorded"
             THEN {[digest |-> row.of.offer, quote |-> row.of.offer.quote]} ELSE {}),
         acceptor |-> IF row.name = "AcceptanceRecorded" THEN entry.actor
                      ELSE st.acceptor,
         timeline |-> Append(st.timeline, entry)]

Timeline(rows) ==
    IF Opened(rows) = << >> THEN << >>
    ELSE FoldLeft(TimelineStep,
                  [sequence |-> 0, offers |-> {}, acceptor |-> "none",
                   timeline |-> << >>],
                  RowsNamed(rows, DOMAIN TimelineKind)).timeline

(* The events before one, by block and index in the block.                 *)
Earlier(rows, i) == SubSeq(rows, 1, i - 1)

(* The stored sentence of an event, or "none" where the session's earlier  *)
(* events do not say who is who or what was offered.                       *)
Sentence(row, earlier) ==
    LET e == row.of
        opened == Opened(earlier)
        quotes == {[digest |-> r.of.offer, quote |-> r.of.offer.quote] :
                      r \in ToSet(RowsNamed(earlier, {"OfferRecorded"}))}
        who == Role(e.config, e.actor)
    IN  CASE row.name = "SessionExpired" -> <<"expired", e.config.expiresAt>>
          [] row.name = "SessionAborted" -> <<"aborted">>
          [] row.name = "SessionOpened" \/ opened = << >> -> <<"none">>
          [] row.name = "SettlementCompleted" ->
                <<"settled", e.config.baseAmount, e.offer.quote>>
          [] who = "neither" -> <<"none">>
          [] row.name = "OfferRecorded" ->
                <<IF e.sequence = 1 THEN "offers" ELSE "counters", who,
                  e.offer.quote>>
          [] row.name = "AcceptanceRecorded" ->
                IF QuoteOf(quotes, e.offer) = 0 THEN <<"none">>
                ELSE <<"accepts", who, QuoteOf(quotes, e.offer)>>
          [] OTHER -> <<"walks away", who>>

-----------------------------------------------------------------------------
(* The outcome, and the balances around it. *)

OutcomeKind ==
    [SettlementCompleted |-> "Settled", SessionClosed |-> "Closed",
     SessionExpired |-> "Expired", SessionAborted |-> "Aborted"]

Depth(row) == TopBlock - BlockOf(row.of) + 1

NoOutcome == [kind |-> "pending", actor |-> "none"]

(* Only a canonical terminal event at the threshold yields an outcome; a   *)
(* settlement's actor is that of the acceptance in its transaction.        *)
DeriveOutcome(rows, threshold) ==
    LET ends == RowsNamed(rows, TerminalKinds)
        accepts == SelectSeq(rows, LAMBDA r :
                       r.name = "AcceptanceRecorded" /\ r.tx = ends[1].tx)
        kind == OutcomeKind[ends[1].name]
        by == IF kind = "Settled" THEN accepts[1].of ELSE ends[1].of
    IN  IF Opened(rows) = << >> \/ ends = << >> THEN NoOutcome
        ELSE IF Depth(ends[1]) < threshold THEN NoOutcome
        ELSE [kind |-> kind,
              actor |-> CASE kind = "Expired" -> "anyone"
                          [] kind = "Aborted" -> "operator"
                          [] OTHER -> Role(by.config, by.actor)]

(* The snapshots taken of a confirmed ending: before and after the block   *)
(* of a settlement, and at the block of any ending.                        *)
Snapshots(rows) ==
    LET end == RowsNamed(rows, TerminalKinds)[1]
        n == BlockOf(end.of)
        taken(stage, block) ==
            [stage |-> stage, block |-> block, held |-> BalancesAt(block)]
    IN  IF end.name = "SettlementCompleted"
        THEN <<taken("pre_settlement", n - 1), taken("post_settlement", n),
               taken("terminal", n)>>
        ELSE <<taken("terminal", n)>>

(* Of each party and token the newest snapshot is shown.                   *)
LatestBalances(snapshots) ==
    FoldLeft(LAMBDA newest, x : IF x.block >= newest.block THEN x ELSE newest,
             snapshots[1], snapshots).held

Delta(before, after, c) ==
    [t \in Tokens |->
        [buyer |-> after[t][c.buyer] - before[t][c.buyer],
         seller |-> after[t][c.seller] - before[t][c.seller]]]

TwoLegs(c, quote) ==
    [t \in Tokens |-> IF t = "base"
        THEN [buyer |-> c.baseAmount, seller |-> -c.baseAmount]
        ELSE [buyer |-> -quote, seller |-> quote]]

ActionEvent ==
    [offer |-> "OfferRecorded", accept |-> "AcceptanceRecorded",
     close |-> "SessionClosed"]

ActionKind(content) ==
    IF "proposer" \in DOMAIN content THEN "offer"
    ELSE IF "offer" \in DOMAIN content THEN "accept" ELSE "close"

(* Every mined signed action has its event, and every such event one.      *)
ActionsRecorded(actions, rows) ==
    LET events == {[name |-> r.name, sequence |-> r.of.sequence] :
                      r \in ToSet(RowsNamed(rows, SignedEvents))}
    IN  /\ \A i \in DOMAIN actions :
              LET m == actions[i].content
                  found == {r \in ToSet(rows) : /\ r.name = ActionEvent[ActionKind(m)]
                                                /\ r.of.sequence = m.sequence}
              IN  /\ found # {}
                  /\ ActionKind(m) = "offer" => \E r \in found : r.of.offer = m
        /\ Cardinality(events) = Len(actions)
        /\ {actions[i].content.sequence : i \in DOMAIN actions} = DOMAIN actions

DeltasMatch(snapshots, c, quote) ==
    LET of(stage) == CHOOSE x \in ToSet(snapshots) : x.stage = stage
    IN  Delta(of("pre_settlement").held, of("post_settlement").held, c)
            = TwoLegs(c, quote)

AuditComplete(actions, rows, threshold) ==
    LET ends == RowsNamed(rows, TerminalKinds)
        end  == ends[1].of
    IN  /\ ends # << >> /\ Depth(ends[1]) >= threshold
        /\ OutcomeKind[ends[1].name] = DeriveOutcome(rows, threshold).kind
        /\ ActionsRecorded(actions, rows)
        /\ \E x \in ToSet(Snapshots(rows)) : x.stage = "terminal"
        /\ end.kind = "SettlementCompleted" =>
              DeltasMatch(Snapshots(rows), end.config, end.offer.quote)

-----------------------------------------------------------------------------
(* A settlement's receipt: what the tokens and the exchange logged in its  *)
(* transaction.                                                            *)

ALog(emitter, name, from, to, amount) ==
    [emitter |-> emitter, name |-> name, from |-> from, to |-> to,
     amount |-> amount]

Receipt(e) ==
    LET c == e.config
        buyer == c.buyer
        seller == c.seller
    IN  [succeeded |-> TRUE,
         logs |-> <<ALog("quote", "Transfer", buyer, seller, e.offer.quote),
                    ALog("base", "Transfer", seller, buyer, c.baseAmount),
                    ALog("exchange", "AcceptanceRecorded", buyer, seller, 0),
                    ALog("exchange", "SettlementCompleted", buyer, seller,
                         e.offer.quote)>>]

(* A log is decoded only if it came from the address it is decoded for.    *)
IsExchangeEvent(l) == l.emitter = "exchange"
DecodedEvents(receipt) == SelectSeq(receipt.logs, IsExchangeEvent)

DecodedTransfers(receipt) ==
    SelectSeq(receipt.logs,
              LAMBDA l : l.emitter \in Tokens /\ l.name = "Transfer")

Count(logs, name) == Len(SelectSeq(logs, LAMBDA l : l.name = name))

(* Sequences equal as bags. *)
SameBag(a, b) ==
    /\ Len(a) = Len(b)
    /\ \A x \in ToSet(a) \cup ToSet(b) :
          Len(SelectSeq(a, LAMBDA y : y = x)) = Len(SelectSeq(b, LAMBDA y : y = x))

Legs(c, quote) ==
    <<ALog("quote", "Transfer", c.buyer, c.seller, quote),
      ALog("base", "Transfer", c.seller, c.buyer, c.baseAmount)>>

(* Mutant: the transfers are compared as sets, so a leg paid twice passes. *)
CheckSettlementAsSets(receipt, c, signedQuote) ==
    LET events == DecodedEvents(receipt)
        settled == SelectSeq(events, LAMBDA l : l.name = "SettlementCompleted")
    IN  /\ receipt.succeeded
        /\ Count(events, "AcceptanceRecorded") = 1
        /\ Len(settled) = 1 /\ settled[1].amount = signedQuote
        /\ ToSet(DecodedTransfers(receipt)) = ToSet(Legs(c, signedQuote))

(* The indexer's check finds no problem: one acceptance, one settlement    *)
(* that announces the signed amount, and exactly the two signed legs.      *)
CheckSettlement(receipt, c, signedQuote) ==
    LET events == DecodedEvents(receipt)
        settled == SelectSeq(events, LAMBDA l : l.name = "SettlementCompleted")
    IN  /\ receipt.succeeded
        /\ Count(events, "AcceptanceRecorded") = 1
        /\ Len(settled) = 1 /\ settled[1].amount = signedQuote
        /\ SameBag(DecodedTransfers(receipt), Legs(c, signedQuote))

(* The indexer's own check: the receipt against the opening's base amount  *)
(* and the quote of the recorded offer the settlement names.               *)
VerifySettlement(receipt, c, rows, settlement) ==
    LET signed == {row.of.offer.quote : row \in
            {r \in ToSet(rows) : r.name = "OfferRecorded"
                                    /\ r.of.offer = settlement.offer}}
    IN  \E quote \in signed : CheckSettlement(receipt, c, quote)

-----------------------------------------------------------------------------
(* The reconstruction tool.  The manifest is taken to describe this chain, *)
(* and a digest to be the message, so of its checks those of the session   *)
(* are left: each a name, and whether it passed.                           *)

(* Every signed event with what its transaction's calldata carried.        *)
Actions(rows, carried) ==
    LET signed == RowsNamed(rows, SignedEvents)
    IN  [i \in DOMAIN signed |->
            [event |-> signed[i].of, digest |-> carried[i].content,
             signer |-> carried[i].signer]]

SignatureChecks(actions) ==
    [signatures_recover_to_the_named_actor |->
        \A i \in DOMAIN actions : actions[i].signer = actions[i].event.actor,
     the_relay_signed_nothing |->
        \A i \in DOMAIN actions : actions[i].signer # Operator,
     sequence_chain |->
        \A i \in DOMAIN actions : actions[i].event.sequence = i]

(* The tokens' own logs, held to the amount the accepted offer was signed  *)
(* for in the calldata.                                                    *)
TransferChecks(receipt, c, offers, digest) ==
    LET signed == SelectSeq(offers, LAMBDA o : o.digest = digest)
        moved(token) == SelectSeq(DecodedTransfers(receipt),
                                  LAMBDA l : l.emitter = token)
        leg(l) == Len(SelectSeq(receipt.logs, LAMBDA x : x = l))
        announced(l) == l.name = "SettlementCompleted"
        settled == SelectSeq(DecodedEvents(receipt), announced)[1].amount
        quote == IF signed = << >> THEN settled ELSE signed[1].digest.quote
    IN  [settlement_amount_was_signed |-> signed # << >>,
         settlement_event_matches_the_signed_amount |->
            signed = << >> \/ settled = quote,
         settlement_quote_leg |-> leg(Legs(c, quote)[1]) = 1,
         settlement_base_leg |-> leg(Legs(c, quote)[2]) = 1,
         settlement_moved_nothing_else |->
            Len(moved("quote")) = 1 /\ Len(moved("base")) = 1,
         settlement_touched_only_manifest_contracts |->
            \A l \in ToSet(receipt.logs) : l.emitter \in Tokens \cup {"exchange"}]

(* Mutant: the balances before are read at the opening's own block.        *)
BlockBeforeSame(opened) == BlockOf(opened)

BlockBefore(opened) == Max({BlockOf(opened) - 1, 0})

(* Between the block before the opening and the ending's, a settlement     *)
(* moved its two legs and any other ending nothing.                        *)
BalanceCheck(opened, end) ==
    Delta(BalancesAt(BlockBefore(opened)), BalancesAt(BlockOf(end)), opened.config)
        = IF end.kind = "SettlementCompleted"
          THEN TwoLegs(opened.config, end.offer.quote)
          ELSE [t \in Tokens |-> [buyer |-> 0, seller |-> 0]]

AllPass(checks) == \A name \in DOMAIN checks : checks[name]

(* The last terminal event, and what kind of outcome it is. *)
ReconstructedOutcome(rows) ==
    LET ends == RowsNamed(rows, TerminalKinds)
    IN  IF ends = << >> THEN "pending" ELSE OutcomeKind[ends[Len(ends)].name]

OffersIn(actions) == SelectSeq(actions, LAMBDA a : ActionKind(a.digest) = "offer")

Reconstruct(rows, carried) ==
    LET opened  == Opened(rows)[1].of
        actions == Actions(rows, carried)
        ends    == RowsNamed(rows, TerminalKinds)
        end     == ends[Len(ends)].of
    IN  /\ Opened(rows) # << >>
        /\ AllPass(SignatureChecks(actions))
        /\ ends # << >>
        /\ end.kind = "SettlementCompleted" =>
              AllPass(TransferChecks(Receipt(end), opened.config,
                                     OffersIn(actions), end.offer))
        /\ BalanceCheck(opened, end)

-----------------------------------------------------------------------------
(* Properties *)

(* What the backend shows is what the contract says: the session view is   *)
(* getSession field by field (views.py:7), the last timeline entry carries *)
(* the contract's sequence number and an acceptance and its settlement the *)
(* same actor and price, and every event's sentence can be told from the   *)
(* events before it, also those of its own block (views.py, sentences.py). *)
ViewIsContract ==
    \A s \in SessionIds :
        LET rows == Rows(s)
            timeline == Timeline(rows)
            n == Len(timeline)
        IN  /\ SessionView(rows) = GetSession(s)
            /\ n > 0 => timeline[n].sequence = session[s].sequence
            /\ \A i \in 2..n : timeline[i].kind = "settle" =>
                  timeline[i] = [timeline[i - 1] EXCEPT !.kind = "settle"]
            /\ \A i \in 2..Len(rows) :
                  Sentence(rows[i], Earlier(rows, i)) # <<"none">>

Ended(s) == log[s] # << >> /\ Last(log[s]).kind \in TerminalKinds
                          /\ BlockOf(Last(log[s])) <= TopBlock

(* Whoever reads the chain comes to the same account: for every ended      *)
(* session the reconstruction passes, the audit of the metrics is          *)
(* complete, the outcome each derives is the contract's status, and the    *)
(* balances shown are those the ending left (reconstruct.py, views.py,     *)
(* figures.py).                                                            *)
AccountsAgree ==
    \A s \in SessionIds : Ended(s) =>
        LET rows == Rows(s)
        IN  /\ Reconstruct(rows, calldata[s])
            /\ AuditComplete(calldata[s], rows, 1)
            /\ ReconstructedOutcome(rows) = session[s].status
            /\ DeriveOutcome(rows, 1).kind = session[s].status
            /\ DeriveOutcome(rows, 1).actor # "neither"
            /\ LatestBalances(Snapshots(rows)) = BalancesAt(BlockOf(Last(log[s])))

(* A receipt with one log lost, repeated, added or replaced by another.    *)
Logs(c, prices) ==
    {ALog(emitter, "Transfer", from, to, amount) :
        emitter \in Tokens \cup {"stranger"}, from \in {c.buyer, c.seller},
        to \in {c.buyer, c.seller, Operator}, amount \in prices}
    \cup {ALog("exchange", "SettlementCompleted", c.buyer, c.seller, amount) :
              amount \in prices}
    \cup {ALog("exchange", "AcceptanceRecorded", c.buyer, c.seller, 0)}

Altered(r, logs) ==
    {[r EXCEPT !.logs = RemoveAt(@, i)] : i \in DOMAIN r.logs}
    \cup {[r EXCEPT !.logs = Append(@, l)] : l \in logs}
    \cup {[r EXCEPT !.logs[i] = l] : i \in DOMAIN r.logs, l \in logs}
    \cup {[r EXCEPT !.succeeded = FALSE]}

(* Both verifications of a settlement accept the receipt the contract      *)
(* produces and no other near it: a leg lost, paid twice, at another       *)
(* price, to another account or beside a third transfer is a problem, and  *)
(* the tool also reports logs of a contract the manifest does not name,    *)
(* which the indexer does not decode (settlement.py, reconstruct.py).      *)
SettlementsVerified ==
    \A s \in SessionIds :
        session[s].status = "Settled" /\ Last(log[s]).at = now =>
            LET e == Last(log[s])
                c == e.config
                price == e.offer.quote
                offers == OffersIn(Actions(Rows(s), calldata[s]))
                indexer(r) == VerifySettlement(r, c, Rows(s), e)
                tool(r) == AllPass(TransferChecks(r, c, offers, e.offer))
                honest == Receipt(e)
                known(r) == SelectSeq(r.logs, LAMBDA l : l.emitter # "stranger")
            IN  /\ indexer(honest) /\ tool(honest)
                /\ \A r \in Altered(honest, Logs(c, {price, price + 1})) :
                      /\ indexer(r) <=> /\ r.succeeded
                                       /\ SameBag(known(r), honest.logs)
                      /\ SameBag(DecodedEvents(r), DecodedEvents(honest)) =>
                            (tool(r) <=> SameBag(r.logs, honest.logs))
=============================================================================
