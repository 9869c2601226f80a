------------------------------- MODULE Setup --------------------------------
(***************************************************************************)
(* A run from its creation to a session both agents approved:              *)
(* RunController.create_run and the provisioning inside it,                *)
(* SessionSetup.advance (services/api/src/api/controller/setup.py) with    *)
(* the driver's tick around it, and the agents' side of both               *)
(* (services/agent/src/agent/service.py, signing/setup.py and session.py). *)
(*                                                                         *)
(* advance() decides from one snapshot of the rows, taken after the poll,  *)
(* and looks up what it sent in the outbox.  Between two of its awaits the *)
(* chain moves, an agent restarts or its answer is lost, the process dies, *)
(* or a second process takes the lease while this one is stalled and later *)
(* goes on from the snapshot it holds.                                     *)
(*                                                                         *)
(* Outbox takes one submission apart; here a transaction is persisted and  *)
(* then broadcast.  A fee is its level, gas is one unit, so the worst case *)
(* of an approval is its fee; the poll is one step (EventIndex).           *)
(***************************************************************************)
EXTENDS Integers, Sequences, FiniteSetsExt

CONSTANTS
    Procs,          \* backend processes
    Ceiling,        \* the relay's fee ceiling; base fees run from 1 to it
    AgentMaxFee,    \* the largest fee an agent's cost bound admits
    Duration,       \* session_duration_s
    MaxTime,        \* bound: block time
    FaultKinds,     \* the faults injected
    MaxFaults       \* bound: faults injected

ASSUME SetupAssumption ==
    /\ {Ceiling, AgentMaxFee, Duration, MaxTime, MaxFaults} \subseteq Nat
    /\ FaultKinds \subseteq {"unavailable", "refused", "crash", "restart", "reorg",
                             "spike", "stall"}

VARIABLES
    db,             \* the run's rows: run, session, outbox, nonces, snapshots, event
    chain,          \* [soft, deep, time, base, lost]: blocks by depth, head, fee, reorg unseen
    aged,           \* approvals not mined replace_after_blocks after their broadcast
    agents,         \* each agent's registry entry for the run
    procs,          \* each process's place in advance(), its snapshot and its cached terms
    owner,          \* holder of the run's lease
    quoted,         \* history: the dearest terms decided for each party's approval
    faults          \* faults still to come

vars == <<db, chain, aged, agents, procs, owner, quoted, faults>>

Order == <<"buyer", "seller">>
Parties == {"buyer", "seller"}
Operator == {"mint", "fund_eth", "create_session"}
SetupKinds == {"mint", "fund_eth", "approve"}
Gone == {"dropped", "reverted"}
Settled == {"confirmed"}

NoSession == [id |-> 0, expires |-> 0]
NoBaseline == [taken |-> FALSE, minted |-> {}]
NoEvent == [row |-> 0, deep |-> FALSE, opened |-> [id |-> 0, expires |-> 0, time |-> 0]]
NoAsk == [fee |-> 0, nonce |-> 0]

-----------------------------------------------------------------------------
(* The chain: what the mined rows did.                                     *)

Blocks == chain.soft \cup chain.deep
Mined == {b.row : b \in Blocks}
Did(kind, q) == {b \in Blocks : b.ok /\ b.kind = kind /\ b.party = q}
Opened == {b \in Blocks : b.ok /\ b.kind = "create_session"}
Wei(bs) == MapThenSumSet(LAMBDA b : b.wei, bs)
Balance(q) == Wei(Did("fund_eth", q)) - Wei(Did("approve", q))

(* Operator transactions carry consecutive nonces; an approval needs its   *)
(* account's next nonce, a fee the block takes and a wallet that covers it.*)
Includable(k) ==
    LET r == db.rows[k]
        mined == Mined
    IN  /\ r.status # "pending" /\ k \notin mined
        /\ IF r.kind = "approve"
           THEN /\ chain.base <= r.fee
                /\ r.nonce = Cardinality(Did("approve", r.party))
                /\ r.fee <= Balance(r.party)
           ELSE \A j \in 1..(k - 1) : db.rows[j].kind \in Operator => j \in mined

-----------------------------------------------------------------------------
(* Reading the rows of a snapshot.                                         *)

Rows(s, kind, q) == {k \in DOMAIN s.rows : s.rows[k].kind = kind /\ s.rows[k].party = q}
Live(s, kind, q) == {k \in Rows(s, kind, q) : s.rows[k].status \notin Gone}
Reverted(s) == \E k \in DOMAIN s.rows : s.rows[k].status = "reverted"

(* Mutant: only what the chain has confirmed counts as sent.               *)
SentOnceSettled(s, kind, q) == \E k \in Rows(s, kind, q) : s.rows[k].status \in Settled

Sent(s, kind, q) == Live(s, kind, q) # {}

(* Mutant: a dropped transaction has to be settled as well.                *)
SetupConfirmedWithRivals(s) ==
    \A k \in DOMAIN s.rows : s.rows[k].kind \in SetupKinds => s.rows[k].status \in Settled

SetupConfirmed(s) ==
    \A k \in DOMAIN s.rows :
        s.rows[k].kind \in SetupKinds /\ s.rows[k].status \notin Gone
            => s.rows[k].status \in Settled

SessionConfirmed(s) == s.event # NoEvent /\ s.event.deep

FundingSettled(s, q) ==
    \A k \in Live(s, "fund_eth", q) : s.rows[k].status \in Settled

Newest(s, q) == Max(Live(s, "approve", q))
Bumped(fee) == IF fee < Ceiling THEN fee + 1 ELSE 0

(* ADR-072: the terms an approval sent earlier is to be replaced on, 0 for *)
(* none: it is not stuck, or is at the ceiling.                            *)
Replacement(s, q) ==
    IF s.rows[Newest(s, q)].status = "submitted" /\ Newest(s, q) \in aged \ Mined
    THEN Bumped(s.rows[Newest(s, q)].fee) ELSE 0

TermsFor(p, q) == IF procs[p].terms[q] # 0 THEN procs[p].terms[q] ELSE chain.base

NonceFor(s, q) ==
    IF Sent(s, "approve", q) THEN s.rows[Newest(s, q)].nonce ELSE s.nonce[q]

Row(kind, q) == [kind |-> kind, party |-> q, nonce |-> 0, fee |-> 0, status |-> "pending",
                 session |-> NoSession]

-----------------------------------------------------------------------------
Cold == [q \in Parties |-> 0]
Blank == [rows |-> <<>>, session |-> NoSession, nonce |-> Cold, base |-> NoBaseline,
          event |-> NoEvent]
Process(pc, terms) ==
    [pc |-> pc, i |-> 1, busy |-> 0, st |-> Blank, ask |-> NoAsk,
     session |-> NoSession, terms |-> terms, row |-> 0, then |-> "idle"]
Entry(state) == [state |-> state, opened |-> NoEvent.opened]

Init ==
    /\ db = [rows |-> <<>>, session |-> NoSession, nonce |-> Cold, base |-> NoBaseline,
             event |-> NoEvent, run |-> "creating", fresh |-> 1, post |-> FALSE]
    /\ chain = [soft |-> {}, deep |-> {}, time |-> 0, base |-> 1, lost |-> FALSE]
    /\ aged = {}
    /\ agents = [q \in Parties |-> [entry |-> Entry("unprovisioned"), late |-> FALSE]]
    /\ owner \in Procs
    /\ procs = [p \in Procs |->
                   Process(IF p = owner THEN "provision" ELSE "idle", Cold)]
    /\ quoted = Cold
    /\ faults = MaxFaults

At(p, pc) == procs[p].pc = pc
Party(p) == Order[procs[p].i]
Then(p, changed) == procs' = [procs EXCEPT ![p] = changed]
Yielded(p) == Process("idle", procs[p].terms)
Fault(kind) == kind \in FaultKinds /\ faults > 0 /\ faults' = faults - 1

-----------------------------------------------------------------------------
(* The agent's side: AgentService and its registry.                        *)

Provisioned(a) ==
    IF a.entry.state = "unprovisioned" THEN [a EXCEPT !.entry = Entry("provisioned")] ELSE a

(* Mutant: a release for a run the agent does not hold leaves no trace.    *)
ReleasedIfHeld(a) ==
    IF a.entry.state = "unprovisioned" THEN a ELSE [a EXCEPT !.entry = Entry("released")]

Released(a) == [a EXCEPT !.entry = Entry("released")]

Acceptable(opened) ==
    opened.time < opened.expires /\ opened.expires <= opened.time + Duration

Approves(a, opened) ==
    IF a.entry.state = "approved" THEN a.entry.opened = opened ELSE Acceptable(opened)

Approved(a, opened) == [a EXCEPT !.entry = [state |-> "approved", opened |-> opened]]

SignsApproval(fee) == fee <= AgentMaxFee
SignsFor(a, fee) == a.entry.state \in {"provisioned", "approved"} /\ SignsApproval(fee)

-----------------------------------------------------------------------------
(* create_run: both agents are provisioned before the run is committed.    *)
(* An answer that does not come may be to a request still to be handled.   *)

ProvisionNext(p, q) ==
    /\ agents' = [agents EXCEPT ![q] = Provisioned(@)]
    /\ Then(p, IF procs[p].i = Len(Order) THEN [procs[p] EXCEPT !.pc = "commit"]
               ELSE [procs[p] EXCEPT !.i = @ + 1])
    /\ UNCHANGED faults

ToRelease(n, unavailable) == IF unavailable THEN n ELSE n - 1

ProvisionFails(p, q) ==
    \E unavailable \in BOOLEAN, handled \in {"now", "late", "never"} :
        /\ ~unavailable => handled = "never"
        /\ Fault(IF unavailable THEN "unavailable" ELSE "refused")
        /\ agents' = [agents EXCEPT ![q] =
               CASE handled = "now" -> Provisioned(@)
                 [] handled = "late" -> [@ EXCEPT !.late = TRUE]
                 [] OTHER -> @]
        /\ Then(p, [procs[p] EXCEPT !.pc = "undo",
                                    !.i = ToRelease(procs[p].i, unavailable)])

ProvisionAgent(p) ==
    /\ At(p, "provision")
    /\ ProvisionNext(p, Party(p)) \/ ProvisionFails(p, Party(p))
    /\ UNCHANGED <<db, chain, aged, owner, quoted>>

(* Nothing of the run is kept; the releases are best effort.               *)
Undo(p) ==
    /\ At(p, "undo")
    /\ db' = [db EXCEPT !.run = "refused"]
    /\ \E told \in SUBSET {Order[j] : j \in 1..procs[p].i} :
         /\ agents' = [q \in Parties |-> IF q \in told THEN Released(agents[q]) ELSE agents[q]]
         /\ IF Cardinality(told) = procs[p].i THEN UNCHANGED faults ELSE Fault("unavailable")
    /\ Then(p, Yielded(p))
    /\ UNCHANGED <<chain, aged, owner, quoted>>

Commit(p) ==
    /\ At(p, "commit")
    /\ db' = [db EXCEPT !.run = "draft"]
    /\ Then(p, Yielded(p))
    /\ UNCHANGED <<chain, aged, agents, owner, quoted, faults>>

(* validate() asks the node and both agents: one that does not answer      *)
(* makes the run a draft again.                                            *)
Validate(p) ==
    /\ owner = p /\ At(p, "idle") /\ db.run \in {"draft", "validated"}
    /\ \/ db' = [db EXCEPT !.run = "validated"] /\ UNCHANGED faults
       \/ db' = [db EXCEPT !.run = "draft"] /\ Fault("unavailable")
    /\ UNCHANGED <<chain, aged, agents, procs, owner, quoted>>

(* start(), or a step from a validated run.                                *)
Start(p) ==
    /\ owner = p /\ At(p, "idle") /\ db.run = "validated"
    /\ db' = [db EXCEPT !.run = "preparing"]
    /\ UNCHANGED <<chain, aged, agents, procs, owner, quoted, faults>>

(* A request the backend gave up on reaches the agent's handler.           *)
Late(q) ==
    /\ agents[q].late
    /\ agents' = [agents EXCEPT ![q] = [Provisioned(@) EXCEPT !.late = FALSE]]
    /\ UNCHANGED <<db, chain, aged, procs, owner, quoted, faults>>

-----------------------------------------------------------------------------
(* The tick: poll, then advance() from a snapshot of the rows.             *)

Mirrored(k) ==
    LET r == db.rows[k]
        at == {b \in Blocks : b.row = k}
        rivals == {b \in Did("approve", r.party) : r.kind = "approve" /\ b.nonce = r.nonce}
    IN  CASE \E b \in at : ~b.ok -> "reverted"
          [] at # {} /\ at \subseteq chain.deep -> "confirmed"
          [] at # {} /\ at \subseteq chain.soft -> "included"
          [] at = {} /\ rivals # {} /\ r.status \in {"pending", "submitted"} -> "dropped"
          [] at = {} /\ r.status \in {"included", "confirmed", "reverted"} -> "submitted"
          [] OTHER -> r.status

(* SessionOpened is the run's when its session id is the run's.            *)
Indexed ==
    LET mine == {b \in Opened : db.rows[b.row].session.id = db.session.id}
    IN  IF mine = {} THEN NoEvent
        ELSE LET b == CHOOSE b \in mine : TRUE
             IN  [row |-> b.row, deep |-> b \in chain.deep,
                  opened |-> [id |-> db.session.id, time |-> b.time,
                              expires |-> db.rows[b.row].session.expires]]

Polled == [db EXCEPT
    !.rows = [k \in DOMAIN db.rows |-> [db.rows[k] EXCEPT !.status = Mirrored(k)]],
    !.event = Indexed,
    !.base = IF chain.lost THEN NoBaseline ELSE @]

Snapshot(d) == [rows |-> d.rows, session |-> d.session, nonce |-> d.nonce,
                base |-> d.base, event |-> d.event]
Unminted(s) == {j \in DOMAIN Order : ~Sent(s, "mint", Order[j])}

Tick(p) ==
    /\ owner = p /\ At(p, "idle") /\ db.run = "preparing"
    /\ LET d == Polled
           s == Snapshot(d)
       IN  IF Reverted(s)
           THEN db' = [d EXCEPT !.run = "failed"] /\ Then(p, Yielded(p))
           ELSE /\ db' = d
                /\ Then(p, [procs[p] EXCEPT !.st = s, !.pc =
                       CASE ~s.base.taken -> "pre"
                         [] s.base.taken /\ Unminted(s) # {} -> "mint"
                         [] OTHER -> "approvals"])
    /\ chain' = [chain EXCEPT !.lost = FALSE]
    /\ UNCHANGED <<aged, agents, owner, quoted, faults>>

(* `pre_setup` balances, at the head.                                      *)
PreSetup(p) ==
    /\ At(p, "pre")
    /\ db' = [db EXCEPT !.base = [taken |-> TRUE,
                                  minted |-> {q \in Parties : Did("mint", q) # {}}]]
    /\ Then(p, Yielded(p))
    /\ UNCHANGED <<chain, aged, agents, owner, quoted, faults>>

(* A transaction is persisted, and then broadcast.                         *)
Persist(p, row, then) ==
    /\ db' = [db EXCEPT !.rows = Append(@, row)]
    /\ Then(p, [then EXCEPT !.then = then.pc, !.pc = "send", !.row = Len(db.rows) + 1])

Unsent(d) == {k \in DOMAIN d.rows : d.rows[k].status = "pending"}
Broadcast(d, ks) == [d EXCEPT !.rows =
    [k \in DOMAIN d.rows |-> IF k \in ks THEN [d.rows[k] EXCEPT !.status = "submitted"]
                             ELSE d.rows[k]]]

Send(p) ==
    /\ At(p, "send")
    /\ db' = Broadcast(db, {procs[p].row} \cap Unsent(db))
    /\ Then(p, IF procs[p].then = "idle" THEN Yielded(p)
               ELSE [procs[p] EXCEPT !.pc = procs[p].then, !.then = "idle", !.row = 0])
    /\ UNCHANGED <<chain, aged, agents, owner, quoted, faults>>

(* The operator mints what each party starts with and was not yet sent.    *)
Mint(p) ==
    LET j == Min({k \in Unminted(procs[p].st) : k >= procs[p].i})
        more == \E k \in Unminted(procs[p].st) : k > j
    IN  /\ At(p, "mint")
        /\ Persist(p, Row("mint", Order[j]),
                   IF more THEN [procs[p] EXCEPT !.i = j + 1] ELSE Yielded(p))
        /\ UNCHANGED <<chain, aged, agents, owner, quoted, faults>>

-----------------------------------------------------------------------------
(* Each party's approval: its terms, its wallet's ETH, the agent's bytes.  *)

AfterApprovals(p) ==
    LET s == procs[p].st
    IN  CASE ~SetupConfirmed(s) -> Yielded(p)
          [] SetupConfirmed(s) /\ ~Sent(s, "create_session", "both") ->
                [procs[p] EXCEPT !.pc = IF s.session = NoSession THEN "record" ELSE "create",
                                 !.session = s.session]
          [] SetupConfirmed(s) /\ Sent(s, "create_session", "both") /\ SessionConfirmed(s) ->
                [procs[p] EXCEPT !.pc = "approve", !.i = 1]
          [] OTHER -> Yielded(p)

(* One party's result, 0 for none, 1 to wait or go on, 2 for a refusal: the*)
(* worst of both decides, once both were handled.                          *)
Handled(p, result) ==
    LET worst == Max({procs[p].busy, result})
    IN  CASE procs[p].i < Len(Order) ->
                [procs[p] EXCEPT !.pc = "approvals", !.i = @ + 1, !.busy = worst, !.ask = NoAsk]
          [] procs[p].i = Len(Order) /\ worst = 0 -> AfterApprovals(p)
          [] procs[p].i = Len(Order) /\ worst = 1 -> Yielded(p)
          [] OTHER -> Process("stop", procs[p].terms)

Approval(p) ==
    LET s == procs[p].st
        q == Party(p)
        again == Sent(s, "approve", q)
        fee == IF again THEN Replacement(s, q) ELSE TermsFor(p, q)
        kept == [procs[p] EXCEPT !.terms[q] = IF again THEN @ ELSE fee]
    IN  /\ At(p, "approvals")
        /\ quoted' = [quoted EXCEPT ![q] = Max({@, fee})]
        /\ CASE fee = 0 -> UNCHANGED db /\ Then(p, Handled(p, 0))
             [] fee # 0 /\ ~FundingSettled(s, q) ->
                  UNCHANGED db /\ Then(p, [Handled(p, 1) EXCEPT !.terms = kept.terms])
             [] fee # 0 /\ FundingSettled(s, q) /\ Balance(q) < fee ->
                  Persist(p, [Row("fund_eth", q) EXCEPT !.fee = fee - Balance(q)],
                          [Handled(p, 1) EXCEPT !.terms = kept.terms])
             [] OTHER ->
                  /\ Then(p, [kept EXCEPT !.pc = "ask",
                                          !.ask = [fee |-> fee, nonce |-> NonceFor(s, q)]])
                  /\ UNCHANGED db
        /\ UNCHANGED <<chain, aged, agents, owner, faults>>

(* The agent signs for any terms within its bounds; one that has lost the  *)
(* run is provisioned again first.                                         *)
Ask(p) ==
    /\ At(p, "ask")
    /\ agents' = [agents EXCEPT ![Party(p)] = Provisioned(@)]
    /\ \/ /\ SignsFor(Provisioned(agents[Party(p)]), procs[p].ask.fee)
          /\ Then(p, [procs[p] EXCEPT !.pc = "submit"])
          /\ UNCHANGED <<db, faults>>
       \/ /\ ~SignsFor(Provisioned(agents[Party(p)]), procs[p].ask.fee)
          /\ Then(p, Handled(p, 2))
          /\ UNCHANGED <<db, faults>>
       \/ /\ Fault("unavailable")
          /\ Then(p, Handled(p, 1))
          /\ UNCHANGED db
    /\ UNCHANGED <<chain, aged, owner, quoted>>

(* Idempotent by hash: the same bytes are one row.                         *)
SubmitPresigned(p) ==
    LET row == [Row("approve", Party(p)) EXCEPT !.fee = procs[p].ask.fee,
                                               !.nonce = procs[p].ask.nonce]
        known == {k \in Rows(db, "approve", Party(p)) :
                     db.rows[k].fee = row.fee /\ db.rows[k].nonce = row.nonce}
    IN  /\ At(p, "submit")
        /\ IF known = {} THEN Persist(p, row, [procs[p] EXCEPT !.pc = "nonce"])
           ELSE db' = db /\ Then(p, [procs[p] EXCEPT !.pc = "send", !.then = "nonce", !.row = Max(known)])
        /\ UNCHANGED <<chain, aged, agents, owner, quoted, faults>>

SetNonce(p) ==
    LET q == Party(p)
    IN  /\ At(p, "nonce")
        /\ db' = [db EXCEPT !.nonce[q] = Max({procs[p].st.nonce[q], procs[p].ask.nonce + 1})]
        /\ Then(p, [Handled(p, 1) EXCEPT !.terms[q] = 0])
        /\ UNCHANGED <<chain, aged, agents, owner, quoted, faults>>

-----------------------------------------------------------------------------
(* The session: recorded on the run before it is sent, then approved by    *)
(* both agents from the event the chain confirmed.                         *)

Fresh == [id |-> db.fresh, expires |-> chain.time + Duration]

RecordSession(p) ==
    /\ At(p, "record")
    /\ db' = [db EXCEPT !.session = Fresh, !.fresh = @ + 1]
    /\ Then(p, [procs[p] EXCEPT !.pc = "create", !.session = Fresh])
    /\ UNCHANGED <<chain, aged, agents, owner, quoted, faults>>

(* Mutant: the session is built afresh each time it is to be sent.         *)
ConfigFresh(session) == Fresh

Config(session) == session

CreateSession(p) ==
    /\ At(p, "create")
    /\ Persist(p, [Row("create_session", "both") EXCEPT !.session = Config(procs[p].session)],
               Yielded(p))
    /\ UNCHANGED <<chain, aged, agents, owner, quoted, faults>>

(* Mutant: an agent that lost the run is provisioned, and not asked again. *)
RestoredUnapproved(a, opened) ==
    IF a.entry.state = "unprovisioned" THEN Provisioned(a) ELSE Approved(a, opened)

Restored(a, opened) == Approved(Provisioned(a), opened)

(* Approving the same session again is the same answer; another one, or    *)
(* one with terms not provisioned for, ends the run.                       *)
ApproveSession(p) ==
    LET q == Party(p)
        opened == db.event.opened
        agrees == db.event # NoEvent /\ Approves(agents[q], opened)
    IN  /\ At(p, "approve")
        /\ agents' = [agents EXCEPT ![q] =
               IF agrees THEN Restored(@, opened) ELSE Provisioned(@)]
        /\ \/ /\ agrees
              /\ Then(p, IF procs[p].i < Len(Order) THEN [procs[p] EXCEPT !.i = @ + 1]
                         ELSE [procs[p] EXCEPT !.pc = "post"])
              /\ UNCHANGED <<db, faults>>
           \/ /\ ~agrees
              /\ db' = [db EXCEPT !.run = IF db.event = NoEvent THEN "recovery" ELSE "ending"]
              /\ Then(p, Yielded(p))
              /\ UNCHANGED faults
           \/ /\ Fault("unavailable")
              /\ Then(p, Yielded(p))
              /\ UNCHANGED db
        /\ UNCHANGED <<chain, aged, owner, quoted>>

(* `post_setup` balances, at the block that opened the session.            *)
PostSetup(p) ==
    /\ At(p, "post")
    /\ db' = [db EXCEPT !.post = TRUE]
    /\ Then(p, [procs[p] EXCEPT !.pc = "done"])
    /\ UNCHANGED <<chain, aged, agents, owner, quoted, faults>>

(* A refusal: the run waits for its operator.                              *)
SetupStops(p) ==
    /\ At(p, "stop")
    /\ db' = IF db.run = "preparing" THEN [db EXCEPT !.run = "recovery"] ELSE db
    /\ Then(p, Yielded(p))
    /\ UNCHANGED <<chain, aged, agents, owner, quoted, faults>>

SetupDone(p) ==
    /\ At(p, "done")
    /\ db' = IF db.run = "preparing" THEN [db EXCEPT !.run = "running"] ELSE db
    /\ Then(p, Yielded(p))
    /\ UNCHANGED <<chain, aged, agents, owner, quoted, faults>>

-----------------------------------------------------------------------------
(* The operator resumes a stopped run; a process dies and starts again, or *)
(* another one takes the lease over.  Terms are quoted afresh and what was *)
(* persisted and never broadcast is sent.                                  *)

Resume(p) ==
    /\ owner = p /\ At(p, "idle") /\ db.run = "recovery"
    /\ db' = [Broadcast(db, Unsent(db)) EXCEPT !.run = "preparing"]
    /\ Then(p, Process("idle", Cold))
    /\ UNCHANGED <<chain, aged, agents, owner, quoted, faults>>

Crash(p) ==
    /\ ~At(p, "down") /\ db.run \in {"creating", "preparing"}
    /\ Fault("crash")
    /\ Then(p, Process("down", Cold))
    /\ UNCHANGED <<db, chain, aged, agents, owner, quoted>>

Recover(p) ==
    /\ \/ owner = p /\ At(p, "down") /\ UNCHANGED faults
       \/ owner # p /\ At(p, "idle") /\ db.run = "preparing" /\ Fault("stall")
    /\ owner' = p
    /\ db' = Broadcast(db, Unsent(db))
    /\ Then(p, Process("idle", Cold))
    /\ UNCHANGED <<chain, aged, agents, quoted>>

AgentRestart(q) ==
    /\ agents[q].entry.state # "unprovisioned" \/ agents[q].late
    /\ Fault("restart")
    /\ agents' = [agents EXCEPT ![q] = [entry |-> Entry("unprovisioned"), late |-> FALSE]]
    /\ UNCHANGED <<db, chain, aged, procs, owner, quoted>>

-----------------------------------------------------------------------------
(* The chain's own steps.                                                  *)

Block(k) ==
    LET r == db.rows[k]
    IN  [row |-> k, kind |-> r.kind, party |-> r.party, nonce |-> r.nonce, time |-> chain.time,
         wei |-> IF r.kind = "approve" THEN chain.base ELSE r.fee,
         ok |-> r.kind = "create_session" =>
                   /\ chain.time < r.session.expires
                   /\ \A b \in Opened : db.rows[b.row].session.id # r.session.id]

Mine(k) ==
    /\ Includable(k)
    /\ chain' = [chain EXCEPT !.soft = @ \cup {Block(k)}]
    /\ UNCHANGED <<db, aged, agents, procs, owner, quoted, faults>>

Deepen ==
    /\ chain.soft # {}
    /\ chain' = [chain EXCEPT !.deep = @ \cup chain.soft, !.soft = {}]
    /\ UNCHANGED <<db, aged, agents, procs, owner, quoted, faults>>

(* An approval a block would not take for replace_after_blocks.            *)
Age(k) ==
    /\ db.rows[k].kind = "approve" /\ db.rows[k].status = "submitted"
    /\ k \notin aged \cup Mined /\ db.rows[k].fee < chain.base
    /\ aged' = aged \cup {k}
    /\ UNCHANGED <<db, chain, agents, procs, owner, quoted, faults>>

Spike ==
    /\ chain.base < Ceiling
    /\ Fault("spike")
    /\ chain' = [chain EXCEPT !.base = @ + 1]
    /\ UNCHANGED <<db, aged, agents, procs, owner, quoted>>

(* Bound: time is read from when a session is recorded until it is open.   *)
Pass ==
    /\ db.session # NoSession \/ \E p \in Procs : At(p, "record")
    /\ Opened = {} /\ chain.time < MaxTime
    /\ chain' = [chain EXCEPT !.time = @ + 1]
    /\ UNCHANGED <<db, aged, agents, procs, owner, quoted, faults>>

(* Blocks short of the threshold are replaced; the head's time with them,  *)
(* and, with no transaction of the run below it, the block pre_setup saw.  *)
Reorg ==
    /\ Fault("reorg")
    /\ \E kept \in SUBSET chain.soft, lost \in BOOLEAN, t \in 0..chain.time :
         /\ lost => kept = {} /\ chain.deep = {} /\ db.base.taken
         /\ kept # chain.soft \/ lost \/ t < chain.time
         /\ t < chain.time => db.session # NoSession
         /\ \A b \in kept \cup chain.deep : b.time <= t
         /\ \A b \in kept, c \in chain.soft :
               b.kind \in Operator /\ c.kind \in Operator /\ c.row < b.row => c \in kept
         /\ chain' = [chain EXCEPT !.soft = kept, !.lost = lost, !.time = t]
    /\ UNCHANGED <<db, aged, agents, procs, owner, quoted>>

-----------------------------------------------------------------------------
Step(p) ==
    \/ ProvisionAgent(p) \/ Undo(p) \/ Commit(p)
    \/ Tick(p) \/ PreSetup(p) \/ Mint(p) \/ Send(p)
    \/ Approval(p) \/ Ask(p) \/ SubmitPresigned(p) \/ SetNonce(p)
    \/ RecordSession(p) \/ CreateSession(p) \/ ApproveSession(p) \/ PostSetup(p)
    \/ SetupDone(p) \/ SetupStops(p)

Next ==
    \/ \E p \in Procs : Step(p) \/ Validate(p) \/ Start(p) \/ Resume(p) \/ Crash(p) \/ Recover(p)
    \/ \E q \in Parties : Late(q) \/ AgentRestart(q)
    \/ \E k \in DOMAIN db.rows : Mine(k) \/ Age(k)
    \/ Deepen \/ Spike \/ Pass \/ Reorg

Spec == Init /\ [][Next]_vars

(* The chain mines what it can and builds on it.                           *)
Progress == Deepen \/ \E k \in DOMAIN db.rows : k \notin Mined /\ (Mine(k) \/ Age(k))

(* The driver's loop polls again, and a process that dies is started again.*)
Restarted(p) == Recover(p) /\ UNCHANGED owner
Fairness == WF_vars(Progress) /\ \A p \in Procs : WF_vars(Step(p) \/ Restarted(p))

FairSpec == Spec /\ Fairness

-----------------------------------------------------------------------------
(* ADR-063: setup carries on from where it stopped.  Whatever was lost     *)
(* between sending and recording, the chain holds at most one mint and one *)
(* approval of each party, and one session of the run.                     *)
EffectsOnce ==
    /\ \A q \in Parties : Cardinality(Did("mint", q)) <= 1 /\ Cardinality(Did("approve", q)) <= 1
    /\ Cardinality(Opened) <= 1

(* The session in every createSession still to take effect is the one the  *)
(* run's row names, which the indexer looks for.  It holds while one       *)
(* process sets a run up; with a takeover it does not: see "Disagreements  *)
(* seen" in the README.                                                    *)
SessionSentIsRecorded ==
    \A k \in Live(db, "create_session", "both") : db.rows[k].session = db.session

(* ADR-044, ADR-048: a run goes on from setup only with one session open   *)
(* on chain, confirmed, every mint and approval confirmed before it, and   *)
(* both agents bound to that very session, or restarted since.             *)
RunningIsReady ==
    db.run = "running" =>
        /\ SessionConfirmed(db) /\ db.event.opened.id = db.session.id
        /\ \A q \in Parties :
             /\ Did("mint", q) # {} /\ Did("mint", q) \subseteq chain.deep
             /\ Did("approve", q) # {} /\ Did("approve", q) \subseteq chain.deep
             /\ agents[q].entry = [state |-> "approved", opened |-> db.event.opened]
                  \/ agents[q].entry.state = "unprovisioned"

(* ADR-039: when a run could not be created, no agent that was told so     *)
(* holds a signer for it, even if the request it did not answer is handled *)
(* after the release.                                                      *)
NothingLeftProvisioned ==
    db.run = "refused" /\ faults = MaxFaults - 1 =>
        \A q \in Parties : agents[q].entry.state # "provisioned"

(* Setup ends: the run goes on, or stops with a reason.                    *)
SetupEnds == db.run = "preparing" ~> db.run # "preparing"

(* data_model.md: pre_setup is the balances at the head before the first   *)
(* setup transaction.  It does not hold: see the same section.             *)
BaselineBeforeSetup == db.base.minted = {}
=============================================================================
